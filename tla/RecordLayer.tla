---------------------------- MODULE RecordLayer ----------------------------
(***************************************************************************)
(* The record layers of the raw, noisesocket and whatsapp transports, for  *)
(* one direction of an established connection: Write cuts what it is given *)
(* into frames, each encrypted under the next nonce; Read decrypts a frame *)
(* and keeps what its caller's buffer has no room for.                     *)
(*                                                                         *)
(* They differ in what Read does with the rest of a frame, in what happens *)
(* when the nonces run out, and in how a frame cut short looks.            *)
(***************************************************************************)
EXTENDS Naturals, Sequences

CONSTANTS
  Setups,     \* the uses of a transport that a run considers
  MaxFrag,    \* bytes that fit into a frame
  MaxNonce,   \* the last nonce there is
  MaxBytes,   \* bound: bytes written
  MaxFaults   \* bound: failed writes, read timeouts and alterations

Kind == {"raw", "noisesocket", "whatsapp"}

\* writes: the sizes of the writer's buffers; buf: the size of the reader's;
\* again: whether the writer goes on after a Write that failed.
Setup == [ kind : Kind, writes : SUBSET (Nat \ {0}), buf : Nat \ {0},
           again : BOOLEAN ]

ASSUME SetupsAssumption == Setups \subseteq Setup
ASSUME BoundsAssumption ==
  /\ MaxFrag \in Nat \ {0} /\ MaxNonce \in Nat
  /\ MaxBytes \in Nat /\ MaxFaults \in Nat

VARIABLES
  setup,     \* fixed for the connection
  pending,   \* bytes that the running Write has still to send
  outN, inN, \* the nonces of c.out and c.in
  wire,      \* the frames sent
  pos,       \* how many of them Read has consumed
  want,      \* the buffer of a Read that waits for a frame; 0: no Read waits
  taken,     \* what that Read has already copied from inputBuffer
  inputBuffer,
  accepted,  \* bytes that Write has sent
  got,       \* bytes that Read has returned
  closed,    \* the writer's half is closed
  end,       \* the error that Read has returned
  failed,    \* a Write has failed
  used,      \* the nonces encrypted with
  faults     \* faults so far

writer == <<pending, outN, accepted, closed, failed, used>>
reader == <<inN, pos, want, taken, inputBuffer, got, end>>
vars == <<setup, writer, reader, wire, faults>>

Bytes(lo, n) == [i \in 1..n |-> lo + i]
Fragment == [n |-> 0, bytes |-> <<>>, whole |-> FALSE]   \* part of a frame
Altered == [n |-> 0, bytes |-> <<>>, whole |-> TRUE]
Frame == [n : 0..MaxNonce, bytes : Seq(1..MaxBytes), whole : BOOLEAN]

Init ==
  /\ setup \in Setups
  /\ pending = 0 /\ outN = 0 /\ accepted = 0 /\ closed = FALSE
  /\ failed = FALSE /\ used = <<>>
  /\ inN = 0 /\ pos = 0 /\ want = 0 /\ taken = <<>> /\ inputBuffer = <<>>
  /\ got = <<>> /\ end = "none"
  /\ wire = <<>>
  /\ faults = 0

-----------------------------------------------------------------------------
(* Write.                                                                  *)

\* Seeded bug: nothing stops Write after the last nonce.
NeverExhausted == FALSE

\* flynn's cipher states stop after the last nonce, whatsapp's counter wraps.
Exhausted == setup.kind # "whatsapp" /\ outN > MaxNonce
NextNonce(n) == IF setup.kind = "whatsapp" THEN (n + 1) % (MaxNonce + 1) ELSE n + 1

Write(n) ==
  /\ pending = 0 /\ ~closed
  /\ failed => setup.again
  /\ n \in setup.writes /\ accepted + n <= MaxBytes
  /\ pending' = n
  /\ UNCHANGED <<setup, outN, accepted, closed, failed, used, reader, wire, faults>>

Fragmented == IF pending > MaxFrag THEN MaxFrag ELSE pending

WriteFrame ==
  /\ pending > 0 /\ ~Exhausted
  /\ wire' = Append(wire, [ n |-> outN, bytes |-> Bytes(accepted, Fragmented),
                            whole |-> TRUE ])
  /\ outN' = NextNonce(outN)
  /\ used' = Append(used, outN)
  /\ accepted' = accepted + Fragmented
  /\ pending' = pending - Fragmented
  /\ UNCHANGED <<setup, closed, failed, reader, faults>>

\* Seeded bug: a nonce counts only once its frame is written.
FailsKeepingNonce ==
  /\ faults < MaxFaults
  /\ pending > 0 /\ ~Exhausted
  /\ \/ UNCHANGED wire
     \/ wire' = Append(wire, Fragment)
  /\ used' = Append(used, outN)
  /\ pending' = 0
  /\ failed' = TRUE
  /\ faults' = faults + 1
  /\ UNCHANGED <<setup, outN, accepted, closed, reader>>

\* conn.Write fails, with none or some of the frame on the wire: the nonce is
\* spent, the rest of the buffer is left.
WriteFails ==
  /\ faults < MaxFaults
  /\ pending > 0 /\ ~Exhausted
  /\ \/ UNCHANGED wire
     \/ wire' = Append(wire, Fragment)
  /\ outN' = NextNonce(outN)
  /\ used' = Append(used, outN)
  /\ pending' = 0
  /\ failed' = TRUE
  /\ faults' = faults + 1
  /\ UNCHANGED <<setup, accepted, closed, reader>>

\* ErrMaxNonce: the connection is closed.
EncryptFails ==
  /\ pending > 0 /\ Exhausted
  /\ pending' = 0
  /\ failed' = TRUE
  /\ closed' = TRUE
  /\ UNCHANGED <<setup, outN, accepted, used, reader, wire, faults>>

CloseWrite ==
  /\ pending = 0 /\ ~closed
  /\ closed' = TRUE
  /\ UNCHANGED <<setup, pending, outN, accepted, failed, used, reader, wire, faults>>

-----------------------------------------------------------------------------
(* Read.                                                                   *)

Take(s, n) == SubSeq(s, 1, IF n < Len(s) THEN n ELSE Len(s))

\* Seeded bug: what does not fit the caller's buffer is dropped.
DropAll(s, n) == <<>>

Drop(s, n) == SubSeq(s, n + 1, Len(s))

Idle == want = 0 /\ end = "none"

\* Seeded bug: noisesocket and whatsapp would rather wait for a full buffer.
FillsFromBuffer == inputBuffer # <<>> /\ Len(inputBuffer) >= setup.buf

\* The rest of an earlier frame is enough for Read to return: for raw, when it
\* fills the buffer.
ServesFromBuffer ==
  inputBuffer # <<>> /\ (setup.kind = "raw" => Len(inputBuffer) >= setup.buf)

ReadBuffer ==
  /\ Idle /\ ServesFromBuffer
  /\ got' = got \o Take(inputBuffer, setup.buf)
  /\ inputBuffer' = Drop(inputBuffer, setup.buf)
  /\ UNCHANGED <<setup, writer, inN, pos, want, taken, end, wire, faults>>

\* Read goes to the connection, with what it has taken from the buffer so far.
StartRead ==
  /\ Idle /\ ~ServesFromBuffer
  /\ want' = setup.buf
  /\ taken' = inputBuffer
  /\ inputBuffer' = <<>>
  /\ UNCHANGED <<setup, writer, inN, pos, got, end, wire, faults>>

Waiting == want > 0 /\ end = "none"
NextFrame == wire[pos + 1]
Decrypts(f) == f.whole /\ f.bytes # <<>> /\ f.n = inN

ReadFrame ==
  /\ Waiting /\ pos < Len(wire)
  /\ Decrypts(NextFrame)
  /\ LET rest == want - Len(taken)
     IN /\ got' = got \o taken \o Take(NextFrame.bytes, rest)
        /\ inputBuffer' = Drop(NextFrame.bytes, rest)
  /\ pos' = pos + 1
  /\ inN' = NextNonce(inN)
  /\ want' = 0
  /\ taken' = <<>>
  /\ UNCHANGED <<setup, writer, end, wire, faults>>

\* Read returns an error, and with it nothing of what it had taken.
ReturnError(e) ==
  /\ end' = e
  /\ want' = 0
  /\ taken' = <<>>
  /\ UNCHANGED <<setup, writer, inN, pos, inputBuffer, got, wire>>

\* Authentication fails: of an altered frame, of one after a gap, or of the
\* remains of one with parts of the next.
DecryptFails ==
  /\ Waiting /\ pos < Len(wire)
  /\ ~Decrypts(NextFrame)
  /\ NextFrame.whole \/ pos + 1 < Len(wire)
  /\ ReturnError("error")
  /\ UNCHANGED faults

ReadEOF ==
  /\ Waiting /\ pos = Len(wire)
  /\ closed
  /\ ReturnError("eof")
  /\ UNCHANGED faults

\* The stream ends inside a frame, or the remains of one say that they are longer
\* than all that follows: io.ReadFull tells, unless just the header is left, and
\* readBytes does not.
ReadTruncated ==
  /\ Waiting /\ pos < Len(wire)
  /\ closed /\ ~NextFrame.whole
  /\ \/ setup.kind # "raw" /\ ReturnError("error")
     \/ (setup.kind = "raw" \/ pos + 1 = Len(wire)) /\ ReturnError("eof")
  /\ UNCHANGED faults

ReadTimeout ==
  /\ Waiting
  /\ faults < MaxFaults
  /\ faults' = faults + 1
  /\ ReturnError("error")

\* The ciphertext of a frame on its way is altered.
Alter ==
  /\ faults < MaxFaults
  /\ \E i \in pos + 1 .. Len(wire) :
       /\ wire[i].whole
       /\ wire' = [wire EXCEPT ![i] = Altered]
  /\ faults' = faults + 1
  /\ UNCHANGED <<setup, writer, reader>>

Next ==
  \/ \E n \in setup.writes : Write(n)
  \/ WriteFrame \/ WriteFails \/ EncryptFails \/ CloseWrite
  \/ ReadBuffer \/ StartRead \/ ReadFrame \/ DecryptFails
  \/ ReadEOF \/ ReadTruncated \/ ReadTimeout
  \/ Alter

\* The copy loop that reads keeps reading.
Fairness == WF_vars(ReadBuffer \/ StartRead \/ ReadFrame \/ DecryptFails \/ ReadEOF)

Spec == Init /\ [][Next]_vars
FairSpec == Spec /\ Fairness

-----------------------------------------------------------------------------
TypeOK ==
  /\ setup \in Setups
  /\ pending \in 0..MaxBytes /\ accepted \in 0..MaxBytes
  /\ outN \in 0..MaxNonce + 1 /\ inN \in 0..MaxNonce + 1
  /\ closed \in BOOLEAN /\ failed \in BOOLEAN
  /\ used \in Seq(0..MaxNonce)
  /\ wire \in Seq(Frame) /\ pos \in 0..Len(wire)
  /\ want \in {0, setup.buf}
  /\ taken \in Seq(1..MaxBytes) /\ inputBuffer \in Seq(1..MaxBytes)
  /\ got \in Seq(1..MaxBytes)
  /\ end \in {"none", "eof", "error"}
  /\ faults \in 0..MaxFaults

\* No nonce encrypts twice, also when writes fail and are followed by others:
\* of raw and noisesocket, whose cipher states end with the last nonce.
NonceUsedOnce ==
  setup.kind # "whatsapp" =>
    \A i, j \in DOMAIN used : used[i] = used[j] => i = j

\* A record layer is a secure stream: the frames, the buffers and the faults
\* come to a prefix of what was written, and to all of it at a clean end.
Stream == INSTANCE SecureStream
IsStream == Stream!Spec

\* Whatever is written reaches the reader, and does not wait in a buffer of
\* Read for more to be written.
Delivered == []<>(faults > 0 \/ Len(got) = accepted)

\* The raw transport's test of large writes: who reads the whole stream until
\* the end has received what was written.
WholeStream == end = "eof" => Len(got) = accepted
=============================================================================
