------------------------- MODULE RecordLayerProofs -------------------------
(***************************************************************************)
(* What holds of RecordLayer for every value of its constants: its types   *)
(* and the nonces for all callers, and that it implements the secure       *)
(* stream for the callers whose buffers fit.                               *)
(***************************************************************************)
EXTENDS RecordLayer, SequenceTheorems, TLAPS

\* The callers that a record layer serves: any, but one of the raw transport
\* has room for every frame, and its writer stops at the first error.
Fits(c) ==
  c.kind = "raw" => /\ ~c.again
                    /\ MaxFrag <= c.buf \/ \A n \in c.writes : n <= c.buf

-----------------------------------------------------------------------------
(* The inductive invariant.                                                *)

\* A Write is never left running on a closed connection, nor with bytes over.
Writing ==
  /\ accepted + pending <= MaxBytes
  /\ pending > 0 => ~closed /\ (failed => setup.again)

\* A waiting Read has room left in its caller's buffer.
Room ==
  /\ want = 0 => taken = <<>>
  /\ Len(taken) < setup.buf

\* A counter that wraps stays below the wrap.
Counters ==
  setup.kind = "whatsapp" => outN <= MaxNonce /\ inN <= MaxNonce

\* The nonces used so far are those before outN, each of them once.
Nonces ==
  setup.kind # "whatsapp" =>
    /\ \A i \in DOMAIN used : used[i] < outN
    /\ \A i, j \in DOMAIN used : used[i] = used[j] => i = j

InOrder(s, lo) == \A i \in DOMAIN s : s[i] = lo + i
EndOf(f) == f.bytes[1] + Len(f.bytes) - 1

\* A frame carries consecutive bytes, and the ones that follow its neighbour's:
\* up to the last byte accepted.
Chained ==
  /\ wire = <<>> => accepted = 0
  /\ \A i \in DOMAIN wire : wire[i].bytes # <<>> =>
       /\ InOrder(wire[i].bytes, wire[i].bytes[1] - 1)
       /\ EndOf(wire[i]) <= accepted
       /\ i = 1 => wire[i].bytes[1] = 1
       /\ i = Len(wire) => EndOf(wire[i]) = accepted
  /\ \A i \in DOMAIN wire :
       (i > 1 /\ wire[i].bytes # <<>> /\ wire[i - 1].bytes # <<>>)
         => wire[i].bytes[1] = EndOf(wire[i - 1]) + 1

\* A frame cut short carries nothing; when the writer stops at the first error, it
\* is the last. When it is, all that was accepted is before it.
CutShort ==
  \A i \in DOMAIN wire : ~wire[i].whole =>
    /\ wire[i].bytes = <<>>
    /\ ~setup.again => failed /\ i = Len(wire)
    /\ i = Len(wire) =>
         /\ i = 1 => accepted = 0
         /\ (i > 1 /\ wire[i - 1].bytes # <<>>) => EndOf(wire[i - 1]) = accepted

\* The frames of a raw connection fit the reader's buffer.
Fitting ==
  setup.kind = "raw" =>
    /\ MaxFrag <= setup.buf \/ pending <= setup.buf
    /\ \A i \in DOMAIN wire : Len(wire[i].bytes) <= setup.buf
    /\ inputBuffer = <<>>

\* What Read has returned and what it holds are the bytes of the frames it has
\* consumed.
Reading ==
  /\ InOrder(got, 0)
  /\ taken = <<>>
  /\ want > 0 => inputBuffer = <<>>
  /\ end = "none" =>
       /\ InOrder(inputBuffer, Len(got))
       /\ pos = 0 => Len(got) + Len(inputBuffer) = 0
       /\ pos > 0 => /\ wire[pos].bytes # <<>>
                     /\ Len(got) + Len(inputBuffer) = EndOf(wire[pos])

TypeInv == TypeOK /\ Writing /\ Room /\ Counters
NonceInv == TypeInv /\ Nonces
StreamInv == TypeInv /\ Fits(setup) /\ Chained /\ CutShort /\ Fitting /\ Reading

-----------------------------------------------------------------------------
(* The operators on byte sequences.                                        *)

\* Bytes(lo, n) is the sequence of the n bytes after the first lo.
LEMMA BytesSeq ==
  ASSUME NEW lo \in Nat, NEW n \in Nat, lo + n <= MaxBytes
  PROVE  /\ Bytes(lo, n) \in Seq(1..MaxBytes)
         /\ Len(Bytes(lo, n)) = n
         /\ InOrder(Bytes(lo, n), lo)
<1>1. \A i \in 1..n : lo + i \in 1..MaxBytes
  BY BoundsAssumption
<1>. QED
  BY <1>1 DEF Bytes, InOrder

\* Take and Drop cut a sequence in two.
LEMMA CutSeq ==
  ASSUME NEW s \in Seq(1..MaxBytes), NEW n \in Nat
  PROVE  /\ Take(s, n) \in Seq(1..MaxBytes) /\ Drop(s, n) \in Seq(1..MaxBytes)
         /\ Len(Take(s, n)) = IF n < Len(s) THEN n ELSE Len(s)
         /\ Len(Drop(s, n)) = IF n < Len(s) THEN Len(s) - n ELSE 0
         /\ \A i \in 1..Len(Take(s, n)) : Take(s, n)[i] = s[i]
         /\ \A i \in 1..Len(Drop(s, n)) : Drop(s, n)[i] = s[n + i]
<1>. DEFINE m == IF n < Len(s) THEN n ELSE Len(s)
<1>1. Len(s) \in Nat /\ \A i \in 1..Len(s) : s[i] \in 1..MaxBytes
  BY LenProperties, ElementOfSeq
<1>2. m \in Int /\ \A i \in 1..m : s[i] \in 1..MaxBytes
  BY <1>1
<1>3. /\ SubSeq(s, 1, m) \in Seq(1..MaxBytes)
      /\ Len(SubSeq(s, 1, m)) = IF 1 <= m THEN m - 1 + 1 ELSE 0
      /\ \A i \in 1..(m - 1 + 1) : SubSeq(s, 1, m)[i] = s[1 + i - 1]
  BY <1>2, SubSeqProperties
<1>4. \A i \in (n + 1)..Len(s) : s[i] \in 1..MaxBytes
  BY <1>1
<1>5. /\ SubSeq(s, n + 1, Len(s)) \in Seq(1..MaxBytes)
      /\ Len(SubSeq(s, n + 1, Len(s)))
           = IF n + 1 <= Len(s) THEN Len(s) - (n + 1) + 1 ELSE 0
      /\ \A i \in 1..(Len(s) - (n + 1) + 1) :
           SubSeq(s, n + 1, Len(s))[i] = s[n + 1 + i - 1]
  BY <1>1, <1>4, SubSeqProperties
<1>6. /\ Take(s, n) \in Seq(1..MaxBytes)
      /\ Len(Take(s, n)) = m
      /\ \A i \in 1..Len(Take(s, n)) : Take(s, n)[i] = s[i]
  BY <1>1, <1>3 DEF Take
<1>7. /\ Drop(s, n) \in Seq(1..MaxBytes)
      /\ Len(Drop(s, n)) = IF n < Len(s) THEN Len(s) - n ELSE 0
      /\ \A i \in 1..Len(Drop(s, n)) : Drop(s, n)[i] = s[n + i]
  BY <1>1, <1>5 DEF Drop
<1>. QED
  BY <1>6, <1>7

\* Appending the next bytes to bytes in order leaves bytes in order.
LEMMA CatInOrder ==
  ASSUME NEW s \in Seq(1..MaxBytes), NEW t \in Seq(1..MaxBytes), NEW lo \in Nat,
         InOrder(s, lo), InOrder(t, lo + Len(s))
  PROVE  InOrder(s \o t, lo)
<1>1. \A i \in 1..Len(s) + Len(t) :
         (s \o t)[i] = IF i <= Len(s) THEN s[i] ELSE t[i - Len(s)]
  BY ConcatProperties
<1>2. Len(s \o t) = Len(s) + Len(t) /\ DOMAIN (s \o t) = 1..Len(s) + Len(t)
  BY ConcatProperties, LenProperties
<1>3. ASSUME NEW i \in 1..Len(s) + Len(t)
      PROVE  (s \o t)[i] = lo + i
  <2>1. CASE i <= Len(s)
    BY <1>1, <2>1 DEF InOrder
  <2>2. CASE i > Len(s)
    <3>1. i - Len(s) \in 1..Len(t)
      BY <2>2
    <3>2. t[i - Len(s)] = lo + Len(s) + (i - Len(s))
      BY <3>1 DEF InOrder
    <3>. QED
      BY <1>1, <2>2, <3>2
  <2>. QED
    BY <2>1, <2>2
<1>. QED
  BY <1>2, <1>3 DEF InOrder

-----------------------------------------------------------------------------
(* Types.                                                                  *)

\* What a run's callers are.
LEMMA SetupType ==
  ASSUME setup \in Setups
  PROVE  /\ setup.kind \in Kind /\ setup.writes \subseteq Nat \ {0}
         /\ setup.buf \in Nat \ {0} /\ setup.again \in BOOLEAN
  BY SetupsAssumption DEF Setup

\* A counter that can still encrypt or decrypt moves on within its range.
LEMMA NonceType ==
  ASSUME NEW n \in 0..MaxNonce
  PROVE  /\ NextNonce(n) \in 0..MaxNonce + 1
         /\ setup.kind = "whatsapp" => NextNonce(n) <= MaxNonce
         /\ setup.kind # "whatsapp" => NextNonce(n) = n + 1
<1>1. n + 1 \in Nat /\ MaxNonce + 1 \in Nat \ {0}
  BY BoundsAssumption
<1>2. (n + 1) % (MaxNonce + 1) \in 0..MaxNonce
  BY <1>1, BoundsAssumption
<1>. QED
  BY <1>2, BoundsAssumption DEF NextNonce

\* A connection starts in a state of the types.
LEMMA InitType == Init => TypeInv
<1>. SUFFICES ASSUME Init
              PROVE  TypeInv
  OBVIOUS
<1>1. setup \in Setups /\ setup.buf \in Nat \ {0}
  BY SetupType DEF Init
<1>2. /\ got \in Seq(1..MaxBytes) /\ taken \in Seq(1..MaxBytes)
      /\ inputBuffer \in Seq(1..MaxBytes) /\ Len(taken) = 0
      /\ used \in Seq(0..MaxNonce)
      /\ wire \in Seq(Frame) /\ Len(wire) = 0
  BY DEF Init
<1>a. /\ pending \in 0..MaxBytes /\ accepted \in 0..MaxBytes
      /\ outN \in 0..MaxNonce + 1 /\ inN \in 0..MaxNonce + 1
      /\ faults \in 0..MaxFaults
  BY BoundsAssumption DEF Init
<1>b. closed \in BOOLEAN /\ failed \in BOOLEAN
  BY DEF Init
<1>c. pos \in 0..Len(wire)
  BY <1>2 DEF Init
<1>d. want \in {0, setup.buf} /\ end \in {"none", "eof", "error"}
  BY DEF Init
<1>3. TypeOK
  BY <1>1, <1>2, <1>a, <1>b, <1>c, <1>d DEF TypeOK
<1>4. Writing
  BY BoundsAssumption DEF Init, Writing
<1>5. Room
  BY <1>1, <1>2 DEF Init, Room
<1>6. Counters
  BY BoundsAssumption DEF Init, Counters
<1>. QED
  BY <1>3, <1>4, <1>5, <1>6 DEF TypeInv

\* Write keeps the types.
LEMMA WriterType ==
  ASSUME TypeInv,
         (\E n \in setup.writes : Write(n)) \/ WriteFrame \/ WriteFails
           \/ EncryptFails \/ CloseWrite
  PROVE  TypeInv'
<1>0. setup.writes \subseteq Nat \ {0}
  BY SetupType DEF TypeInv, TypeOK
<1>a. pending \in Nat /\ accepted \in Nat /\ accepted + pending <= MaxBytes
  BY BoundsAssumption DEF TypeInv, TypeOK, Writing
<1>1. ASSUME NEW n \in setup.writes, Write(n)
      PROVE  TypeInv'
  BY <1>0, <1>1, BoundsAssumption
     DEF TypeInv, TypeOK, Writing, Room, Counters, Write, reader
<1>2. ASSUME ~Exhausted
      PROVE  outN \in 0..MaxNonce
  BY <1>2, BoundsAssumption DEF TypeInv, TypeOK, Counters, Exhausted
<1>3. CASE WriteFrame
  <2>1. Fragmented \in 1..pending
    BY <1>3, <1>a, BoundsAssumption DEF WriteFrame, Fragmented
  <2>2. Bytes(accepted, Fragmented) \in Seq(1..MaxBytes)
    BY <1>a, <2>1, BytesSeq, BoundsAssumption
  <2>3. outN \in 0..MaxNonce
    BY <1>2, <1>3 DEF WriteFrame
  <2>4. wire' \in Seq(Frame) /\ pos' \in 0..Len(wire')
    BY <1>3, <2>2, <2>3 DEF WriteFrame, Frame, reader, TypeInv, TypeOK
  <2>5. used' \in Seq(0..MaxNonce)
    BY <1>3, <2>3 DEF WriteFrame, TypeInv, TypeOK
  <2>6. /\ outN' \in 0..MaxNonce + 1
        /\ setup.kind = "whatsapp" => outN' <= MaxNonce
    BY <1>3, <2>3, NonceType DEF WriteFrame
  <2>7. /\ accepted' \in 0..MaxBytes /\ pending' \in 0..MaxBytes
        /\ accepted' + pending' <= MaxBytes
    BY <1>3, <1>a, <2>1, BoundsAssumption DEF WriteFrame
  <2>8. Writing'
    BY <1>3, <1>a, <2>1, <2>7 DEF WriteFrame, TypeInv, Writing
  <2>. QED
    BY <1>3, <2>4, <2>5, <2>6, <2>7, <2>8
       DEF WriteFrame, TypeInv, TypeOK, Room, Counters, reader
<1>4. CASE WriteFails
  <2>1. outN \in 0..MaxNonce
    BY <1>2, <1>4 DEF WriteFails
  <2>2. Fragment \in Frame
    BY BoundsAssumption DEF Fragment, Frame
  <2>3. wire' \in Seq(Frame) /\ Len(wire') >= Len(wire)
    <3>1. wire \in Seq(Frame) /\ Len(wire) \in Nat
      BY DEF TypeInv, TypeOK
    <3>2. CASE UNCHANGED wire
      BY <3>1, <3>2
    <3>3. CASE wire' = Append(wire, Fragment)
      BY <2>2, <3>1, <3>3, AppendProperties
    <3>. QED
      BY <1>4, <3>2, <3>3 DEF WriteFails
  <2>a. pos' \in 0..Len(wire')
    BY <1>4, <2>3 DEF WriteFails, reader, TypeInv, TypeOK
  <2>4. used' \in Seq(0..MaxNonce)
    BY <1>4, <2>1 DEF WriteFails, TypeInv, TypeOK
  <2>5. /\ outN' \in 0..MaxNonce + 1
        /\ setup.kind = "whatsapp" => outN' <= MaxNonce
    BY <1>4, <2>1, NonceType DEF WriteFails
  <2>6. faults' \in 0..MaxFaults
    BY <1>4, BoundsAssumption DEF WriteFails, TypeInv, TypeOK
  <2>7. pending' \in 0..MaxBytes /\ accepted' \in 0..MaxBytes /\ Writing'
    BY <1>4, <1>a, BoundsAssumption DEF WriteFails, Writing
  <2>8. TypeOK'
    BY <1>4, <2>3, <2>a, <2>4, <2>5, <2>6, <2>7
       DEF WriteFails, TypeInv, TypeOK, reader
  <2>. QED
    BY <1>4, <2>5, <2>7, <2>8 DEF WriteFails, TypeInv, Room, Counters, reader
<1>5. CASE EncryptFails
  <2>1. pending' \in 0..MaxBytes /\ Writing'
    BY <1>5, <1>a, BoundsAssumption DEF EncryptFails, Writing
  <2>2. closed' \in BOOLEAN /\ failed' \in BOOLEAN
    BY <1>5 DEF EncryptFails
  <2>3. TypeOK'
    BY <1>5, <2>1, <2>2 DEF EncryptFails, TypeInv, TypeOK, reader
  <2>. QED
    BY <1>5, <2>1, <2>3 DEF EncryptFails, TypeInv, Room, Counters, reader
<1>6. CASE CloseWrite
  <2>1. Writing'
    BY <1>6, <1>a DEF CloseWrite, Writing
  <2>2. closed' \in BOOLEAN
    BY <1>6 DEF CloseWrite
  <2>3. TypeOK'
    BY <1>6, <2>2 DEF CloseWrite, TypeInv, TypeOK, reader
  <2>. QED
    BY <1>6, <2>1, <2>3 DEF CloseWrite, TypeInv, Room, Counters, reader
<1>. QED
  BY <1>1, <1>3, <1>4, <1>5, <1>6

\* Read keeps the types, and so does an alteration.
LEMMA ReaderType ==
  ASSUME TypeInv,
         ReadBuffer \/ StartRead \/ ReadFrame \/ DecryptFails \/ ReadEOF
           \/ ReadTruncated \/ ReadTimeout \/ Alter
  PROVE  TypeInv'
<1>0. setup.buf \in Nat \ {0}
  BY SetupType DEF TypeInv, TypeOK
<1>1. CASE ReadBuffer
  <2>1. /\ Take(inputBuffer, setup.buf) \in Seq(1..MaxBytes)
        /\ Drop(inputBuffer, setup.buf) \in Seq(1..MaxBytes)
    BY <1>0, CutSeq DEF TypeInv, TypeOK
  <2>2. got' \in Seq(1..MaxBytes)
    BY <1>1, <2>1, ConcatProperties DEF ReadBuffer, TypeInv, TypeOK
  <2>. QED
    BY <1>1, <2>1, <2>2 DEF ReadBuffer, TypeInv, TypeOK, Writing, Room, Counters, writer
<1>2. CASE StartRead
  <2>1. want' \in {0, setup'.buf} /\ taken' \in Seq(1..MaxBytes)
        /\ inputBuffer' \in Seq(1..MaxBytes)
    BY <1>2 DEF StartRead, TypeInv, TypeOK
  <2>2. Len(inputBuffer) < setup.buf
    <3>1. inputBuffer = <<>> => Len(inputBuffer) = 0
      OBVIOUS
    <3>. QED
      BY <1>0, <1>2, <3>1 DEF StartRead, ServesFromBuffer, TypeInv, TypeOK
  <2>3. Room'
    BY <1>0, <1>2, <2>2 DEF StartRead, Room
  <2>4. TypeOK'
    BY <1>2, <2>1 DEF StartRead, TypeInv, TypeOK, writer
  <2>. QED
    BY <1>2, <2>3, <2>4 DEF StartRead, TypeInv, Writing, Counters, writer
<1>3. CASE ReadFrame
  <2>. DEFINE rest == want - Len(taken)
              s == Take(NextFrame.bytes, rest)
  <2>1. NextFrame \in Frame /\ pos' \in 0..Len(wire)
    BY <1>3 DEF ReadFrame, NextFrame, TypeInv, TypeOK
  <2>2. NextFrame.bytes \in Seq(1..MaxBytes) /\ inN \in 0..MaxNonce
    BY <1>3, <2>1 DEF Frame, ReadFrame, Decrypts
  <2>3. /\ inN' \in 0..MaxNonce + 1
        /\ setup.kind = "whatsapp" => inN' <= MaxNonce
    BY <1>3, <2>2, NonceType DEF ReadFrame
  <2>4. got' \in Seq(1..MaxBytes) /\ inputBuffer' \in Seq(1..MaxBytes)
    <3>1. want = setup.buf
      BY <1>3 DEF ReadFrame, Waiting, TypeInv, TypeOK
    <3>2. rest \in Nat
      BY <1>0, <3>1 DEF TypeInv, TypeOK, Room
    <3>3. s \in Seq(1..MaxBytes) /\ Drop(NextFrame.bytes, rest) \in Seq(1..MaxBytes)
      BY <2>2, <3>2, CutSeq
    <3>4. got \o taken \in Seq(1..MaxBytes)
      BY ConcatProperties DEF TypeInv, TypeOK
    <3>5. (got \o taken) \o s \in Seq(1..MaxBytes)
      BY <3>3, <3>4, ConcatProperties
    <3>. QED
      BY <1>3, <3>3, <3>5 DEF ReadFrame
  <2>5. want' = 0 /\ taken' = <<>> /\ taken' \in Seq(1..MaxBytes) /\ Len(taken') = 0
    BY <1>3 DEF ReadFrame
  <2>6. TypeOK'
    BY <1>3, <2>1, <2>3, <2>4, <2>5 DEF ReadFrame, TypeInv, TypeOK, writer
  <2>7. Room'
    BY <1>0, <1>3, <2>5 DEF ReadFrame, Room
  <2>. QED
    BY <1>3, <2>3, <2>6, <2>7 DEF ReadFrame, TypeInv, Writing, Counters, writer
<1>4. ASSUME NEW e \in {"eof", "error"}, ReturnError(e), faults' \in 0..MaxFaults
      PROVE  TypeInv'
  <2>1. want' = 0 /\ taken' = <<>> /\ taken' \in Seq(1..MaxBytes) /\ Len(taken') = 0
    BY <1>4 DEF ReturnError
  <2>2. TypeOK'
    BY <1>4, <2>1 DEF ReturnError, TypeInv, TypeOK, writer
  <2>3. Room'
    BY <1>0, <1>4, <2>1 DEF ReturnError, Room
  <2>. QED
    BY <1>4, <2>2, <2>3 DEF ReturnError, TypeInv, Writing, Counters, writer
<1>6. faults \in 0..MaxFaults
  BY DEF TypeInv, TypeOK
<1>7. CASE DecryptFails \/ ReadEOF \/ ReadTruncated
  BY <1>4, <1>6, <1>7 DEF DecryptFails, ReadEOF, ReadTruncated
<1>8. CASE ReadTimeout
  <2>1. faults' \in 0..MaxFaults
    BY <1>6, <1>8, BoundsAssumption DEF ReadTimeout
  <2>. QED
    BY <1>4, <1>8, <2>1 DEF ReadTimeout
<1>5. CASE Alter
  <2>1. Altered \in Frame
    BY BoundsAssumption DEF Altered, Frame
  <2>2. wire' \in Seq(Frame) /\ Len(wire') = Len(wire)
    BY <1>5, <2>1, ExceptSeq DEF Alter, TypeInv, TypeOK
  <2>3. faults' \in 0..MaxFaults
    BY <1>5, BoundsAssumption DEF Alter, TypeInv, TypeOK
  <2>. QED
    BY <1>5, <2>2, <2>3 DEF Alter, TypeInv, TypeOK, Writing, Room, Counters, writer, reader
<1>. QED
  BY <1>1, <1>2, <1>3, <1>5, <1>7, <1>8

\* TypeInv is inductive.
LEMMA StepType == TypeInv /\ [Next]_vars => TypeInv'
<1>1. ASSUME TypeInv, UNCHANGED vars
      PROVE  TypeInv'
  BY <1>1 DEF vars, writer, reader, TypeInv, TypeOK, Writing, Room, Counters
<1>. QED
  BY <1>1, WriterType, ReaderType DEF Next

\* Every reachable state of a record layer is of its type.
THEOREM TypeCorrect == Spec => []TypeOK
<1>1. TypeInv => TypeOK
  BY DEF TypeInv
<1>. QED
  BY <1>1, InitType, StepType, PTL DEF Spec

-----------------------------------------------------------------------------
(* Nonces.                                                                 *)

\* One more encryption, with outN, keeps the nonces distinct.
LEMMA SpendNonce ==
  ASSUME NonceInv, NEW n \in 0..MaxNonce, n = outN,
         used' = Append(used, n), outN' = NextNonce(n), setup' = setup
  PROVE  Nonces'
<1>. SUFFICES ASSUME setup.kind # "whatsapp"
              PROVE  /\ \A i \in DOMAIN used' : used'[i] < outN'
                     /\ \A i, j \in DOMAIN used' : used'[i] = used'[j] => i = j
  BY DEF Nonces
<1>1. outN' = outN + 1 /\ outN \in Nat
  BY NonceType
<1>2. used \in Seq(0..MaxNonce) /\ Len(used) \in Nat
  BY DEF NonceInv, TypeInv, TypeOK
<1>3. /\ \A i \in 1..Len(used) : used[i] \in 0..MaxNonce /\ used[i] < outN
      /\ \A i, j \in 1..Len(used) : used[i] = used[j] => i = j
  <2>1. DOMAIN used = 1..Len(used) /\ \A i \in 1..Len(used) : used[i] \in 0..MaxNonce
    BY <1>2, LenProperties, ElementOfSeq
  <2>2. /\ \A i \in DOMAIN used : used[i] < outN
        /\ \A i, j \in DOMAIN used : used[i] = used[j] => i = j
    BY DEF NonceInv, Nonces
  <2>. QED
    BY <2>1, <2>2
<1>4. /\ DOMAIN used' = 1..Len(used) + 1
      /\ \A i \in 1..Len(used) : used'[i] = used[i]
      /\ used'[Len(used) + 1] = outN
  BY <1>2
<1>5. \A i \in 1..Len(used) + 1 : i \in 1..Len(used) \/ i = Len(used) + 1
  BY <1>2
<1>6. \A i \in DOMAIN used' : used'[i] < outN'
  BY <1>1, <1>3, <1>4, <1>5
<1>7. ASSUME NEW i \in DOMAIN used', NEW j \in DOMAIN used', used'[i] = used'[j]
      PROVE  i = j
  BY <1>1, <1>3, <1>4, <1>5, <1>7
<1>. QED
  BY <1>6, <1>7

\* NonceInv is inductive.
LEMMA StepNonce == NonceInv /\ [Next]_vars => NonceInv'
<1>. SUFFICES ASSUME NonceInv, [Next]_vars
              PROVE  Nonces'
  BY StepType DEF NonceInv
<1>1. ASSUME WriteFrame \/ WriteFails
      PROVE  Nonces'
  <2>1. outN \in 0..MaxNonce
    BY <1>1, BoundsAssumption
       DEF WriteFrame, WriteFails, Exhausted, NonceInv, TypeInv, TypeOK, Counters
  <2>2. used' = Append(used, outN) /\ outN' = NextNonce(outN) /\ setup' = setup
    BY <1>1 DEF WriteFrame, WriteFails
  <2>. QED
    BY <2>1, <2>2, SpendNonce
<1>2. ASSUME UNCHANGED <<setup, outN, used>>
      PROVE  Nonces'
  BY <1>2 DEF NonceInv, Nonces
<1>3. CASE (\E n \in setup.writes : Write(n)) \/ EncryptFails \/ CloseWrite
  BY <1>2, <1>3 DEF Write, EncryptFails, CloseWrite
<1>4. CASE ReadBuffer \/ StartRead \/ ReadFrame \/ Alter
  BY <1>2, <1>4 DEF ReadBuffer, StartRead, ReadFrame, Alter, writer
<1>5. CASE DecryptFails \/ ReadEOF \/ ReadTruncated \/ ReadTimeout
  BY <1>2, <1>5
     DEF DecryptFails, ReadEOF, ReadTruncated, ReadTimeout, ReturnError, writer
<1>6. CASE UNCHANGED vars
  BY <1>2, <1>6 DEF vars, writer
<1>. QED
  BY <1>1, <1>3, <1>4, <1>5, <1>6 DEF Next

\* For any writes, faults and maximum nonce, raw and noisesocket encrypt with a
\* nonce at most once: also after writes that fail and are followed by others.
THEOREM NoncesFresh == Spec => []NonceUsedOnce
<1>1. Init => NonceInv
  BY InitType DEF Init, NonceInv, Nonces
<1>2. NonceInv => NonceUsedOnce
  BY DEF NonceInv, Nonces, NonceUsedOnce
<1>. QED
  BY <1>1, <1>2, StepNonce, PTL DEF Spec

-----------------------------------------------------------------------------
(* The stream: what the frames on the wire carry.                          *)

\* What a frame on the wire is.
LEMMA FrameType ==
  ASSUME TypeInv, NEW i \in DOMAIN wire
  PROVE  /\ wire[i] \in Frame
         /\ wire[i].bytes \in Seq(1..MaxBytes) /\ Len(wire[i].bytes) \in Nat
         /\ wire[i].bytes # <<>> =>
              /\ Len(wire[i].bytes) >= 1
              /\ wire[i].bytes[1] \in 1..MaxBytes
              /\ EndOf(wire[i]) \in Int
<1>1. wire[i] \in Frame
  BY ElementOfSeq, LenProperties DEF TypeInv, TypeOK
<1>2. wire[i].bytes \in Seq(1..MaxBytes) /\ Len(wire[i].bytes) \in Nat
  BY <1>1 DEF Frame
<1>3. ASSUME wire[i].bytes # <<>>
      PROVE  /\ Len(wire[i].bytes) >= 1
             /\ wire[i].bytes[1] \in 1..MaxBytes
  <2>1. Len(wire[i].bytes) >= 1
    BY <1>2, <1>3, EmptySeq
  <2>2. 1 \in 1..Len(wire[i].bytes)
    BY <1>2, <2>1
  <2>. QED
    BY <1>2, <2>1, <2>2, ElementOfSeq
<1>4. ASSUME wire[i].bytes # <<>>
      PROVE  EndOf(wire[i]) \in Int
  BY <1>2, <1>3, <1>4 DEF EndOf
<1>. QED
  BY <1>1, <1>2, <1>3, <1>4

\* A wire with one more frame.
LEMMA AppendFrame ==
  ASSUME TypeInv, NEW f, f \in Frame, wire' = Append(wire, f)
  PROVE  /\ Len(wire) \in Nat /\ Len(wire') = Len(wire) + 1
         /\ DOMAIN wire = 1..Len(wire) /\ DOMAIN wire' = 1..Len(wire) + 1
         /\ \A i \in 1..Len(wire) : wire'[i] = wire[i]
         /\ wire'[Len(wire) + 1] = f
         /\ wire # <<>> => Len(wire) >= 1
         /\ wire' # <<>>
BY AppendProperties, LenProperties, EmptySeq DEF TypeInv, TypeOK

\* What the reader has is not touched by what happens behind it on the wire.
LEMMA KeepReading ==
  ASSUME TypeInv, Reading, UNCHANGED reader, \A i \in 1..pos : wire'[i] = wire[i]
  PROVE  Reading'
<1>1. UNCHANGED <<got, taken, want, inputBuffer, end, pos>>
  BY DEF reader
<1>2. pos \in Nat /\ (pos > 0 => wire'[pos] = wire[pos])
  BY DEF TypeInv, TypeOK
<1>. QED
  BY <1>1, <1>2 DEF Reading

\* A new frame carries the bytes after the last one accepted.
LEMMA FrameChained ==
  ASSUME StreamInv, WriteFrame
  PROVE  Chained' /\ CutShort' /\ Fitting' /\ Reading'
<1>. DEFINE b == Bytes(accepted, Fragmented)
            f == [n |-> outN, bytes |-> b, whole |-> TRUE]
            last == Len(wire) + 1
<1>1. TypeInv
  BY DEF StreamInv
<1>2. /\ pending \in Nat /\ accepted \in Nat /\ accepted + pending <= MaxBytes
      /\ pending > 0 /\ outN \in 0..MaxNonce
  BY <1>1, BoundsAssumption
     DEF WriteFrame, Exhausted, TypeInv, TypeOK, Writing, Counters
<1>3. Fragmented \in 1..pending /\ Fragmented <= MaxFrag
  BY <1>2, BoundsAssumption DEF Fragmented
<1>4. /\ b \in Seq(1..MaxBytes) /\ Len(b) = Fragmented
      /\ InOrder(b, accepted)
  BY <1>2, <1>3, BytesSeq, BoundsAssumption
<1>5. b # <<>> /\ b[1] = accepted + 1
  <2>1. 1 \in DOMAIN b
    BY <1>3, <1>4, LenProperties
  <2>. QED
    BY <1>3, <1>4, <2>1 DEF InOrder
<1>6. f \in Frame /\ f.bytes = b /\ f.whole = TRUE
  BY <1>2, <1>4 DEF Frame
<1>7. EndOf(f) = accepted + Fragmented /\ EndOf(f) = accepted'
  <2>1. accepted' = accepted + Fragmented
    BY DEF WriteFrame
  <2>2. EndOf(f) = b[1] + Len(b) - 1
    BY DEF EndOf
  <2>. HIDE DEF b, f
  <2>. QED
    BY <1>2, <1>3, <1>4, <1>5, <2>1, <2>2
<1>8. wire' = Append(wire, f)
  BY DEF WriteFrame
<1>9. /\ Len(wire) \in Nat /\ Len(wire') = last
      /\ DOMAIN wire = 1..Len(wire) /\ DOMAIN wire' = 1..last
      /\ \A i \in 1..Len(wire) : wire'[i] = wire[i]
      /\ wire'[last] = f
      /\ wire # <<>> => Len(wire) >= 1
      /\ wire' # <<>>
  BY <1>1, <1>6, <1>8, AppendFrame
<1>10. \A i \in 1..last : i \in 1..Len(wire) \/ i = last
  BY <1>9
<1>. HIDE DEF b, f, last
<1>11. \A i \in DOMAIN wire' : wire'[i].bytes # <<>> =>
         /\ InOrder(wire'[i].bytes, wire'[i].bytes[1] - 1)
         /\ EndOf(wire'[i]) <= accepted'
         /\ i = 1 => wire'[i].bytes[1] = 1
         /\ i = Len(wire') => EndOf(wire'[i]) = accepted'
  <2>. SUFFICES ASSUME NEW i \in 1..last, wire'[i].bytes # <<>>
                PROVE  /\ InOrder(wire'[i].bytes, wire'[i].bytes[1] - 1)
                       /\ EndOf(wire'[i]) <= accepted'
                       /\ i = 1 => wire'[i].bytes[1] = 1
                       /\ i = last => EndOf(wire'[i]) = accepted'
    BY <1>9
  <2>1. CASE i \in 1..Len(wire)
    <3>1. wire'[i] = wire[i] /\ i # last
      BY <1>9, <2>1 DEF last
    <3>2. /\ InOrder(wire[i].bytes, wire[i].bytes[1] - 1)
          /\ EndOf(wire[i]) <= accepted
          /\ i = 1 => wire[i].bytes[1] = 1
      BY <1>9, <2>1, <3>1 DEF StreamInv, Chained
    <3>3. EndOf(wire[i]) \in Int
      BY <1>1, <1>9, <2>1, <3>1, FrameType
    <3>4. EndOf(wire[i]) <= accepted'
      BY <1>2, <1>3, <3>2, <3>3 DEF WriteFrame
    <3>. QED
      BY <3>1, <3>2, <3>4
  <2>2. CASE i = last
    <3>1. wire'[i].bytes = b /\ EndOf(wire'[i]) = accepted'
      BY <1>6, <1>7, <1>9, <2>2
    <3>2. InOrder(b, b[1] - 1)
      BY <1>2, <1>4, <1>5
    <3>3. accepted' <= accepted'
      BY <1>2, <1>3 DEF WriteFrame
    <3>4. i = 1 => accepted = 0
      BY <1>9, <2>2 DEF last, StreamInv, Chained
    <3>. QED
      BY <1>5, <3>1, <3>2, <3>3, <3>4
  <2>. QED
    BY <1>10, <2>1, <2>2
<1>12. \A i \in DOMAIN wire' :
         (i > 1 /\ wire'[i].bytes # <<>> /\ wire'[i - 1].bytes # <<>>)
           => wire'[i].bytes[1] = EndOf(wire'[i - 1]) + 1
  <2>. SUFFICES ASSUME NEW i \in 1..last, i > 1, wire'[i].bytes # <<>>,
                       wire'[i - 1].bytes # <<>>
                PROVE  wire'[i].bytes[1] = EndOf(wire'[i - 1]) + 1
    BY <1>9
  <2>1. i - 1 \in 1..Len(wire) /\ wire'[i - 1] = wire[i - 1]
    BY <1>9 DEF last
  <2>2. CASE i \in 1..Len(wire)
    BY <1>9, <2>1, <2>2 DEF StreamInv, Chained
  <2>3. CASE i = last
    <3>1. i - 1 = Len(wire) /\ i - 1 \in DOMAIN wire
      BY <1>9, <2>1, <2>3 DEF last
    <3>2. EndOf(wire[i - 1]) = accepted
      BY <2>1, <3>1 DEF StreamInv, Chained
    <3>. QED
      BY <1>5, <1>6, <1>9, <2>1, <2>3, <3>2
  <2>. QED
    BY <1>10, <2>2, <2>3
<1>13. Chained'
  BY <1>9, <1>11, <1>12 DEF Chained
<1>14. CutShort'
  <2>. SUFFICES ASSUME NEW i \in 1..last, ~wire'[i].whole
                PROVE  wire'[i].bytes = <<>> /\ setup.again /\ i # Len(wire')
    BY <1>9 DEF WriteFrame, CutShort
  <2>1. i \in 1..Len(wire) /\ wire'[i] = wire[i]
    BY <1>6, <1>9, <1>10
  <2>2. wire[i].bytes = <<>> /\ (~setup.again => failed)
    BY <1>9, <2>1 DEF StreamInv, CutShort
  <2>3. failed => setup.again
    BY <1>1, <1>2 DEF TypeInv, Writing
  <2>4. i # Len(wire')
    BY <1>9, <2>1 DEF last
  <2>. QED
    BY <2>1, <2>2, <2>3, <2>4
<1>15. Fitting'
  <2>. SUFFICES ASSUME setup.kind = "raw"
                PROVE  /\ MaxFrag <= setup.buf \/ pending' <= setup.buf
                       /\ \A i \in 1..last : Len(wire'[i].bytes) <= setup.buf
                       /\ inputBuffer = <<>>
    BY <1>9 DEF WriteFrame, reader, Fitting
  <2>1. /\ MaxFrag <= setup.buf \/ pending <= setup.buf
        /\ \A i \in 1..Len(wire) : Len(wire[i].bytes) <= setup.buf
        /\ inputBuffer = <<>>
    BY <1>9 DEF StreamInv, Fitting
  <2>2. setup.buf \in Nat
    BY <1>1, SetupType DEF TypeInv, TypeOK
  <2>3. pending' = pending - Fragmented
    BY DEF WriteFrame
  <2>4. Len(b) <= setup.buf
    BY <1>2, <1>3, <1>4, <2>1, <2>2, BoundsAssumption
  <2>5. MaxFrag <= setup.buf \/ pending' <= setup.buf
    BY <1>2, <1>3, <2>1, <2>2, <2>3, BoundsAssumption
  <2>. QED
    BY <1>6, <1>9, <1>10, <2>1, <2>4, <2>5
<1>16. Reading'
  <2>1. \A i \in 1..pos : wire'[i] = wire[i]
    BY <1>1, <1>9 DEF TypeInv, TypeOK
  <2>. QED
    BY <1>1, <2>1, KeepReading DEF StreamInv, WriteFrame
<1>. QED
  BY <1>13, <1>14, <1>15, <1>16

\* A connection starts with nothing on its wire.
LEMMA InitStream ==
  ASSUME \A c \in Setups : Fits(c), Init
  PROVE  StreamInv
<1>1. TypeInv
  BY InitType
<1>2. /\ setup \in Setups /\ pending = 0 /\ accepted = 0
      /\ wire = <<>> /\ Len(wire) = 0 /\ DOMAIN wire = {}
      /\ got = <<>> /\ Len(got) = 0 /\ DOMAIN got = {}
      /\ inputBuffer = <<>> /\ Len(inputBuffer) = 0 /\ DOMAIN inputBuffer = {}
      /\ taken = <<>> /\ want = 0 /\ pos = 0
  BY DEF Init
<1>3. Fits(setup)
  BY <1>2
<1>4. Chained /\ CutShort
  BY <1>2 DEF Chained, CutShort
<1>5. Fitting
  BY <1>1, <1>2, SetupType DEF Fitting, TypeInv, TypeOK
<1>6. Reading
  BY <1>2 DEF Reading, InOrder
<1>. QED
  BY <1>1, <1>3, <1>4, <1>5, <1>6 DEF StreamInv

\* A frame cut short ends what a writer that stops at the first error writes.
LEMMA FragmentChained ==
  ASSUME StreamInv, WriteFails
  PROVE  Chained' /\ CutShort' /\ Fitting' /\ Reading'
<1>. DEFINE last == Len(wire) + 1
<1>1. TypeInv
  BY DEF StreamInv
<1>2. /\ accepted' = accepted /\ pending' = 0 /\ setup' = setup /\ failed' = TRUE
      /\ UNCHANGED reader
  BY DEF WriteFails
<1>3. UNCHANGED <<pos, want, taken, inputBuffer, got, end>>
  BY <1>2 DEF reader
<1>4. ~setup.again => ~failed
  BY <1>1 DEF TypeInv, Writing, WriteFails
<1>5. Fitting \/ setup.kind # "raw"
  BY DEF StreamInv
<1>6. setup.buf \in Nat /\ MaxFrag \in Nat
  BY <1>1, SetupType, BoundsAssumption DEF TypeInv, TypeOK
<1>7. CASE UNCHANGED wire
  <2>1. Chained' /\ CutShort'
    BY <1>2, <1>4, <1>7 DEF StreamInv, Chained, CutShort
  <2>2. Fitting'
    BY <1>2, <1>3, <1>6, <1>7 DEF StreamInv, Fitting
  <2>3. Reading'
    BY <1>1, <1>2, <1>7, KeepReading DEF StreamInv
  <2>. QED
    BY <2>1, <2>2, <2>3
<1>8. CASE wire' = Append(wire, Fragment)
  <2>1. Fragment \in Frame /\ Fragment.bytes = <<>> /\ Fragment.whole = FALSE
    BY BoundsAssumption DEF Fragment, Frame
  <2>2. /\ Len(wire) \in Nat /\ Len(wire') = last
        /\ DOMAIN wire = 1..Len(wire) /\ DOMAIN wire' = 1..last
        /\ \A i \in 1..Len(wire) : wire'[i] = wire[i]
        /\ wire'[last] = Fragment
        /\ wire' # <<>>
    BY <1>1, <1>8, <2>1, AppendFrame
  <2>3. \A i \in 1..last : \/ i \in 1..Len(wire) /\ i # last
                           \/ i = last
    BY <2>2
  <2>4. \A i \in 1..last : i > 1 => i - 1 \in 1..Len(wire)
    BY <2>2
  <2>. HIDE DEF last
  <2>5. \A i \in DOMAIN wire' : wire'[i].bytes # <<>> =>
          /\ InOrder(wire'[i].bytes, wire'[i].bytes[1] - 1)
          /\ EndOf(wire'[i]) <= accepted
          /\ i = 1 => wire'[i].bytes[1] = 1
          /\ i = Len(wire') => EndOf(wire'[i]) = accepted
    <3>. SUFFICES ASSUME NEW i \in 1..Len(wire), i # last, wire[i].bytes # <<>>
                  PROVE  /\ InOrder(wire[i].bytes, wire[i].bytes[1] - 1)
                         /\ EndOf(wire[i]) <= accepted
                         /\ i = 1 => wire[i].bytes[1] = 1
      BY <2>1, <2>2, <2>3
    <3>. QED
      BY <2>2 DEF StreamInv, Chained
  <2>6. \A i \in DOMAIN wire' :
          (i > 1 /\ wire'[i].bytes # <<>> /\ wire'[i - 1].bytes # <<>>)
            => wire'[i].bytes[1] = EndOf(wire'[i - 1]) + 1
    <3>. SUFFICES ASSUME NEW i \in 1..Len(wire), i > 1, wire[i].bytes # <<>>,
                         wire[i - 1].bytes # <<>>
                  PROVE  wire[i].bytes[1] = EndOf(wire[i - 1]) + 1
      BY <2>1, <2>2, <2>3, <2>4
    <3>. QED
      BY <2>2 DEF StreamInv, Chained
  <2>7. Chained'
    BY <1>2, <2>2, <2>5, <2>6 DEF Chained
  <2>8. CutShort'
    <3>1. ASSUME NEW i \in 1..Len(wire), ~wire[i].whole
          PROVE  wire[i].bytes = <<>> /\ setup.again
      BY <1>4, <2>2, <3>1 DEF StreamInv, CutShort
    <3>2. last = 1 => accepted = 0
      BY <2>2 DEF last, StreamInv, Chained
    <3>3. (last > 1 /\ wire'[last - 1].bytes # <<>>)
            => EndOf(wire'[last - 1]) = accepted
      <4>. SUFFICES ASSUME last > 1, wire'[last - 1].bytes # <<>>
                    PROVE  EndOf(wire'[last - 1]) = accepted
        OBVIOUS
      <4>1. last - 1 = Len(wire) /\ Len(wire) \in 1..Len(wire)
        BY <2>2 DEF last
      <4>. QED
        BY <2>2, <4>1 DEF StreamInv, Chained
    <3>. QED
      BY <1>2, <2>1, <2>2, <2>3, <3>1, <3>2, <3>3 DEF CutShort
  <2>9. Fitting'
    <3>1. Len(<<>>) = 0
      OBVIOUS
    <3>. QED
      BY <1>2, <1>3, <1>6, <2>1, <2>2, <2>3, <3>1 DEF StreamInv, Fitting
  <2>10. Reading'
    <3>1. \A i \in 1..pos : wire'[i] = wire[i]
      BY <1>1, <2>2 DEF TypeInv, TypeOK
    <3>. QED
      BY <1>1, <1>2, <3>1, KeepReading DEF StreamInv
  <2>. QED
    BY <2>7, <2>8, <2>9, <2>10
<1>. QED
  BY <1>7, <1>8 DEF WriteFails

\* The other steps of the writer leave the wire alone.
LEMMA WriterStream ==
  ASSUME StreamInv,
         (\E n \in setup.writes : Write(n)) \/ EncryptFails \/ CloseWrite
  PROVE  Chained' /\ CutShort' /\ Fitting' /\ Reading'
<1>1. /\ UNCHANGED <<setup, accepted, wire, pos, want, taken, inputBuffer, got, end>>
      /\ UNCHANGED reader
      /\ failed => failed'
  BY DEF Write, EncryptFails, CloseWrite, reader
<1>2. Chained' /\ CutShort'
  BY <1>1 DEF StreamInv, Chained, CutShort
<1>3. Reading'
  BY <1>1, KeepReading DEF StreamInv
<1>4. setup.buf \in Nat
  BY SetupType DEF StreamInv, TypeInv, TypeOK
<1>5. setup.kind = "raw" => MaxFrag <= setup.buf \/ pending' <= setup.buf
  <2>1. ASSUME NEW n \in setup.writes, Write(n), setup.kind = "raw"
        PROVE  MaxFrag <= setup.buf \/ pending' <= setup.buf
    BY <2>1 DEF StreamInv, Fits, Write
  <2>2. CASE EncryptFails
    BY <1>4, <2>2 DEF EncryptFails
  <2>3. CASE CloseWrite
    BY <2>3 DEF CloseWrite, StreamInv, Fitting
  <2>. QED
    BY <2>1, <2>2, <2>3
<1>6. Fitting'
  BY <1>1, <1>5 DEF StreamInv, Fitting
<1>. QED
  BY <1>2, <1>3, <1>6

\* An alteration, ahead of the reader, leaves a frame that carries nothing.
LEMMA AlterStream ==
  ASSUME StreamInv, Alter
  PROVE  Chained' /\ CutShort' /\ Fitting' /\ Reading'
<1>1. TypeInv
  BY DEF StreamInv
<1>2. PICK k \in pos + 1 .. Len(wire) :
        wire[k].whole /\ wire' = [wire EXCEPT ![k] = Altered]
  BY DEF Alter
<1>3. /\ UNCHANGED <<setup, accepted, pending, failed, inputBuffer>>
      /\ UNCHANGED reader
  BY DEF Alter, writer, reader
<1>4. Altered \in Frame /\ Altered.bytes = <<>> /\ Altered.whole = TRUE
  BY BoundsAssumption DEF Altered, Frame
<1>5. /\ Len(wire) \in Nat /\ Len(wire') = Len(wire) /\ pos \in Nat
      /\ DOMAIN wire = 1..Len(wire) /\ DOMAIN wire' = 1..Len(wire)
      /\ \A i \in 1..Len(wire) : i # k => wire'[i] = wire[i]
      /\ wire'[k] = Altered
  BY <1>1, <1>2, <1>4, ExceptSeq, LenProperties DEF TypeInv, TypeOK
<1>6. wire # <<>> /\ wire' # <<>>
  BY <1>2, <1>5, EmptySeq
<1>7. \A i \in DOMAIN wire' : i > 1 => i - 1 \in DOMAIN wire
  BY <1>5
<1>8. Chained'
  <2>1. \A i \in DOMAIN wire' : wire'[i].bytes # <<>> => wire'[i] = wire[i]
    BY <1>4, <1>5
  <2>2. \A i \in DOMAIN wire' : wire'[i].bytes # <<>> =>
          /\ InOrder(wire'[i].bytes, wire'[i].bytes[1] - 1)
          /\ EndOf(wire'[i]) <= accepted
          /\ i = 1 => wire'[i].bytes[1] = 1
          /\ i = Len(wire') => EndOf(wire'[i]) = accepted
    BY <1>5, <2>1 DEF StreamInv, Chained
  <2>3. \A i \in DOMAIN wire' :
          (i > 1 /\ wire'[i].bytes # <<>> /\ wire'[i - 1].bytes # <<>>)
            => wire'[i].bytes[1] = EndOf(wire'[i - 1]) + 1
    <3>. SUFFICES ASSUME NEW i \in DOMAIN wire', i > 1, wire'[i].bytes # <<>>,
                         wire'[i - 1].bytes # <<>>
                  PROVE  wire'[i].bytes[1] = EndOf(wire'[i - 1]) + 1
      OBVIOUS
    <3>1. wire'[i] = wire[i] /\ wire'[i - 1] = wire[i - 1]
      BY <1>5, <1>7, <2>1
    <3>. QED
      BY <1>5, <3>1 DEF StreamInv, Chained
  <2>. QED
    BY <1>3, <1>6, <2>2, <2>3 DEF Chained
<1>9. CutShort'
  <2>. SUFFICES ASSUME NEW i \in DOMAIN wire', ~wire'[i].whole
                PROVE  /\ wire'[i].bytes = <<>>
                       /\ ~setup.again => failed /\ i = Len(wire)
                       /\ i = Len(wire) =>
                            /\ i = 1 => accepted = 0
                            /\ (i > 1 /\ wire'[i - 1].bytes # <<>>)
                                 => EndOf(wire'[i - 1]) = accepted
    BY <1>3, <1>5 DEF CutShort
  <2>1. wire'[i] = wire[i] /\ i \in DOMAIN wire
    BY <1>4, <1>5
  <2>2. (i > 1 /\ wire'[i - 1].bytes # <<>>) => wire'[i - 1] = wire[i - 1]
    BY <1>4, <1>5, <1>7
  <2>. QED
    BY <2>1, <2>2 DEF StreamInv, CutShort
<1>10. Fitting'
  <2>. SUFFICES ASSUME setup.kind = "raw"
                PROVE  \A i \in DOMAIN wire' : Len(wire'[i].bytes) <= setup.buf
    BY <1>3 DEF StreamInv, Fitting
  <2>1. setup.buf \in Nat /\ Len(<<>>) = 0
    BY <1>1, SetupType DEF TypeInv, TypeOK
  <2>. QED
    BY <1>4, <1>5, <2>1 DEF StreamInv, Fitting
<1>11. Reading'
  <2>1. \A i \in 1..pos : wire'[i] = wire[i]
    BY <1>2, <1>5
  <2>. QED
    BY <1>1, <1>3, <2>1, KeepReading DEF StreamInv
<1>. QED
  BY <1>8, <1>9, <1>10, <1>11

\* Bytes in order are Bytes.
LEMMA InOrderBytes ==
  ASSUME NEW s \in Seq(1..MaxBytes), InOrder(s, 0)
  PROVE  s = [i \in 1..Len(s) |-> 0 + i]
BY LenProperties DEF InOrder

\* What Read returns of the next bytes comes after what it has returned, and what
\* it keeps of them comes after that.
LEMMA ReturnedInOrder ==
  ASSUME NEW g \in Seq(1..MaxBytes), InOrder(g, 0), NEW n \in Nat \ {0},
         NEW t \in Seq(1..MaxBytes), t # <<>>, InOrder(t, Len(g))
  PROVE  /\ g \o Take(t, n) \in Seq(1..MaxBytes) /\ InOrder(g \o Take(t, n), 0)
         /\ InOrder(Drop(t, n), Len(g \o Take(t, n)))
         /\ Len(g \o Take(t, n)) + Len(Drop(t, n)) = Len(g) + Len(t)
         /\ Len(g \o Take(t, n)) > Len(g)
         /\ Len(g \o Take(t, n)) \in Nat /\ Len(Drop(t, n)) \in Nat
         /\ Len(t) <= n => Drop(t, n) = <<>>
<1>. DEFINE s == Take(t, n)
            d == Drop(t, n)
<1>1. Len(g) \in Nat /\ Len(t) \in Nat /\ Len(t) >= 1
  BY EmptySeq
<1>2. /\ s \in Seq(1..MaxBytes) /\ d \in Seq(1..MaxBytes)
      /\ Len(s) = IF n < Len(t) THEN n ELSE Len(t)
      /\ Len(d) = IF n < Len(t) THEN Len(t) - n ELSE 0
      /\ \A i \in 1..Len(s) : s[i] = t[i]
      /\ \A i \in 1..Len(d) : d[i] = t[n + i]
      /\ DOMAIN s = 1..Len(s) /\ DOMAIN d = 1..Len(d)
      /\ DOMAIN t = 1..Len(t)
  BY CutSeq, LenProperties
<1>. HIDE DEF s, d
<1>3. /\ Len(s) \in 1..Len(t) /\ Len(s) + Len(d) = Len(t) /\ Len(d) \in Nat
      /\ Len(d) > 0 => Len(s) = n
      /\ Len(t) <= n => Len(d) = 0
  <2>1. /\ Len(s) = IF n < Len(t) THEN n ELSE Len(t)
        /\ Len(d) = IF n < Len(t) THEN Len(t) - n ELSE 0
    BY <1>2
  <2>2. CASE n < Len(t)
    BY <1>1, <2>1, <2>2
  <2>3. CASE ~(n < Len(t))
    BY <1>1, <2>1, <2>3
  <2>. QED
    BY <2>2, <2>3
<1>4. \A i \in 1..Len(t) : t[i] = Len(g) + i
  BY <1>2 DEF InOrder
<1>5. InOrder(s, Len(g))
  <2>1. \A i \in 1..Len(s) : s[i] = Len(g) + i
    <3>1. \A i \in 1..Len(s) : i \in 1..Len(t)
      <4>1. Len(s) \in Nat /\ Len(s) <= Len(t)
        BY <1>1, <1>3
      <4>. QED
        BY <1>1, <4>1
    <3>2. \A i \in 1..Len(s) : s[i] = t[i]
      BY <1>2
    <3>. QED
      BY <1>4, <3>1, <3>2
  <2>. QED
    BY <1>2, <2>1 DEF InOrder
<1>6. g \o s \in Seq(1..MaxBytes) /\ Len(g \o s) = Len(g) + Len(s)
  BY <1>2, ConcatProperties
<1>7. InOrder(g \o s, 0)
  <2>1. 0 + Len(g) = Len(g)
    BY <1>1
  <2>2. s \in Seq(1..MaxBytes) /\ InOrder(s, 0 + Len(g))
    BY <1>2, <1>5, <2>1
  <2>. QED
    BY <2>2, CatInOrder
<1>8. InOrder(d, Len(g \o s))
  <2>1. ASSUME NEW i \in 1..Len(d)
        PROVE  d[i] = Len(g \o s) + i
    <3>1. n + i \in 1..Len(t) /\ Len(s) = n
      BY <1>1, <1>3
    <3>2. d[i] = Len(g) + (n + i)
      BY <1>2, <1>4, <3>1
    <3>. QED
      BY <1>1, <1>6, <3>1, <3>2
  <2>. QED
    BY <1>2, <2>1 DEF InOrder
<1>9. Len(t) <= n => d = <<>>
  BY <1>2, <1>3, EmptySeq
<1>10. /\ Len(g \o s) + Len(d) = Len(g) + Len(t) /\ Len(g \o s) > Len(g)
       /\ Len(g \o s) \in Nat /\ Len(d) \in Nat
  BY <1>1, <1>3, <1>6
<1>. QED
  BY <1>6, <1>7, <1>8, <1>9, <1>10 DEF s, d

\* What a consumed frame carries was accepted.
LEMMA ConsumedAccepted ==
  ASSUME StreamInv, NEW p \in DOMAIN wire, wire[p].bytes # <<>>
  PROVE  EndOf(wire[p]) <= accepted
BY DEF StreamInv, Chained

\* The bytes that Read takes from its buffer follow the ones it has returned.
LEMMA BufferRead ==
  ASSUME StreamInv, ReadBuffer
  PROVE  /\ Reading' /\ inputBuffer # <<>>
         /\ got' \in Seq(1..MaxBytes) /\ InOrder(got', 0)
         /\ Len(got') \in Len(got) + 1 .. accepted
<1>1. /\ TypeInv /\ setup.buf \in Nat \ {0}
      /\ got \in Seq(1..MaxBytes) /\ inputBuffer \in Seq(1..MaxBytes)
      /\ Len(got) \in Nat /\ pos \in 0..Len(wire) /\ accepted \in Nat
      /\ Len(wire) \in Nat /\ DOMAIN wire = 1..Len(wire)
  BY SetupType, LenProperties, BoundsAssumption DEF StreamInv, TypeInv, TypeOK
<1>2. /\ inputBuffer # <<>> /\ want = 0 /\ end = "none"
      /\ got' = got \o Take(inputBuffer, setup.buf)
      /\ inputBuffer' = Drop(inputBuffer, setup.buf)
      /\ UNCHANGED <<pos, want, taken, end, wire>>
  BY DEF ReadBuffer, Idle, ServesFromBuffer
<1>3. /\ InOrder(got, 0) /\ InOrder(inputBuffer, Len(got)) /\ taken = <<>>
      /\ pos = 0 => Len(got) + Len(inputBuffer) = 0
      /\ pos > 0 => /\ wire[pos].bytes # <<>>
                    /\ Len(got) + Len(inputBuffer) = EndOf(wire[pos])
  BY <1>2 DEF StreamInv, Reading
<1>4. /\ got' \in Seq(1..MaxBytes) /\ InOrder(got', 0)
      /\ InOrder(inputBuffer', Len(got'))
      /\ Len(got') + Len(inputBuffer') = Len(got) + Len(inputBuffer)
      /\ Len(got') > Len(got) /\ Len(got') \in Nat /\ Len(inputBuffer') \in Nat
  BY <1>1, <1>2, <1>3, ReturnedInOrder
<1>5. pos > 0
  BY <1>1, <1>3, <1>4
<1>6. EndOf(wire[pos]) <= accepted
  BY <1>1, <1>3, <1>5, ConsumedAccepted
<1>7. Len(got') \in Len(got) + 1 .. accepted
  BY <1>1, <1>3, <1>4, <1>5, <1>6
<1>8. Reading'
  BY <1>2, <1>3, <1>4, <1>5 DEF Reading
<1>. QED
  BY <1>2, <1>4, <1>7, <1>8

\* The next frame that decrypts carries the bytes that follow.
LEMMA FrameRead ==
  ASSUME StreamInv, ReadFrame
  PROVE  /\ Reading' /\ Fitting'
         /\ got' \in Seq(1..MaxBytes) /\ InOrder(got', 0)
         /\ Len(got') \in Len(got) + 1 .. accepted
<1>. DEFINE t == NextFrame.bytes
<1>1. /\ TypeInv /\ setup.buf \in Nat \ {0}
      /\ got \in Seq(1..MaxBytes)
      /\ Len(got) \in Nat /\ pos \in 0..Len(wire) /\ accepted \in Nat
      /\ Len(wire) \in Nat /\ DOMAIN wire = 1..Len(wire)
  BY SetupType, LenProperties, BoundsAssumption DEF StreamInv, TypeInv, TypeOK
<1>2. /\ want = setup.buf /\ want > 0 /\ end = "none" /\ pos < Len(wire)
      /\ t # <<>>
      /\ pos' = pos + 1 /\ want' = 0 /\ taken' = <<>>
      /\ UNCHANGED <<setup, end, wire, pending>>
  BY <1>1 DEF ReadFrame, Waiting, Decrypts, writer, TypeInv, TypeOK
<1>3. /\ InOrder(got, 0) /\ taken = <<>> /\ inputBuffer = <<>> /\ Len(<<>>) = 0
      /\ pos = 0 => Len(got) + Len(inputBuffer) = 0
      /\ pos > 0 => /\ wire[pos].bytes # <<>>
                    /\ Len(got) + Len(inputBuffer) = EndOf(wire[pos])
  BY <1>2 DEF StreamInv, Reading
<1>4. pos + 1 \in DOMAIN wire /\ (pos > 0 => pos \in DOMAIN wire)
  BY <1>1, <1>2
<1>5. /\ t \in Seq(1..MaxBytes) /\ Len(t) \in Nat /\ t[1] \in 1..MaxBytes
      /\ EndOf(NextFrame) = t[1] + Len(t) - 1
  BY <1>1, <1>2, <1>4, FrameType DEF NextFrame, EndOf
<1>6. InOrder(t, t[1] - 1) /\ (pos = 0 => t[1] = 1)
  <2>1. pos = 0 => pos + 1 = 1
    OBVIOUS
  <2>. QED
    BY <1>2, <1>4, <2>1 DEF NextFrame, StreamInv, Chained
<1>7. pos > 0 => t[1] = EndOf(wire[pos]) + 1
  <2>1. pos > 0 => pos + 1 > 1 /\ (pos + 1) - 1 = pos
    BY <1>1
  <2>. QED
    BY <1>2, <1>3, <1>4, <2>1 DEF NextFrame, StreamInv, Chained
<1>8. t[1] - 1 = Len(got)
  BY <1>1, <1>3, <1>5, <1>6, <1>7
<1>. HIDE DEF t
<1>9. got' = got \o Take(t, setup.buf) /\ inputBuffer' = Drop(t, setup.buf)
  <2>1. want - Len(taken) = setup.buf
    BY <1>1, <1>2, <1>3
  <2>2. got \o taken = got
    BY <1>1, <1>3, ConcatEmptySeq
  <2>. QED
    BY <2>1, <2>2 DEF ReadFrame, t
<1>10. /\ got' \in Seq(1..MaxBytes) /\ InOrder(got', 0)
       /\ InOrder(inputBuffer', Len(got'))
       /\ Len(got') + Len(inputBuffer') = Len(got) + Len(t)
       /\ Len(got') > Len(got) /\ Len(got') \in Nat /\ Len(inputBuffer') \in Nat
       /\ Len(t) <= setup.buf => inputBuffer' = <<>>
  <2>1. InOrder(t, Len(got)) /\ InOrder(got, 0) /\ t # <<>>
    BY <1>2, <1>3, <1>6, <1>8
  <2>. QED
    BY <1>1, <1>5, <1>9, <2>1, ReturnedInOrder
<1>11. EndOf(NextFrame) = Len(got) + Len(t)
  BY <1>1, <1>5, <1>8
<1>12. EndOf(NextFrame) <= accepted
  BY <1>2, <1>4, ConsumedAccepted DEF NextFrame, t
<1>13. Len(got') \in Len(got) + 1 .. accepted
  BY <1>1, <1>5, <1>10, <1>11, <1>12
<1>14. Reading'
  <2>1. pos' > 0 /\ pos' # 0
    BY <1>1, <1>2
  <2>2. wire'[pos'] = NextFrame /\ wire'[pos'].bytes # <<>>
    BY <1>2 DEF NextFrame, t
  <2>. QED
    BY <1>2, <1>10, <1>11, <2>1, <2>2 DEF Reading
<1>15. Fitting'
  <2>1. setup.kind = "raw" => Len(t) <= setup.buf
    BY <1>4 DEF StreamInv, Fitting, NextFrame, t
  <2>. QED
    BY <1>2, <1>10, <2>1 DEF StreamInv, Fitting
<1>. QED
  BY <1>10, <1>13, <1>14, <1>15

\* What Read takes up before it waits, and the errors it returns.
LEMMA ReaderStream ==
  ASSUME StreamInv,
         StartRead \/ DecryptFails \/ ReadEOF \/ ReadTruncated \/ ReadTimeout
  PROVE  Reading' /\ UNCHANGED <<inputBuffer, pos, got, setup, writer, wire>>
<1>1. /\ InOrder(got, 0) /\ taken = <<>>
      /\ want > 0 => inputBuffer = <<>>
      /\ end = "none" =>
           /\ InOrder(inputBuffer, Len(got))
           /\ pos = 0 => Len(got) + Len(inputBuffer) = 0
           /\ pos > 0 => /\ wire[pos].bytes # <<>>
                         /\ Len(got) + Len(inputBuffer) = EndOf(wire[pos])
  BY DEF StreamInv, Reading
<1>2. CASE StartRead
  <2>1. inputBuffer = <<>>
    <3>1. setup.kind = "raw" => inputBuffer = <<>>
      BY DEF StreamInv, Fitting
    <3>. QED
      BY <1>2, <3>1 DEF StartRead, ServesFromBuffer
  <2>2. /\ inputBuffer' = inputBuffer /\ taken' = <<>>
        /\ UNCHANGED <<got, pos, end, wire, setup, writer>>
    BY <1>2, <2>1 DEF StartRead
  <2>. QED
    BY <1>1, <2>1, <2>2 DEF Reading
<1>3. ASSUME NEW e \in {"eof", "error"}, ReturnError(e)
      PROVE  Reading' /\ UNCHANGED <<inputBuffer, pos, got, setup, writer, wire>>
  <2>1. /\ end' # "none" /\ want' = 0 /\ taken' = <<>>
        /\ UNCHANGED <<inputBuffer, pos, got, setup, writer, wire>>
    BY <1>3 DEF ReturnError
  <2>. QED
    BY <1>1, <2>1 DEF Reading
<1>. QED
  BY <1>2, <1>3 DEF DecryptFails, ReadEOF, ReadTruncated, ReadTimeout

\* StreamInv is inductive.
LEMMA StepStream == StreamInv /\ [Next]_vars => StreamInv'
<1>. SUFFICES ASSUME StreamInv, [Next]_vars
              PROVE  StreamInv'
  OBVIOUS
<1>1. TypeInv'
  BY StepType DEF StreamInv
<1>2. Fits(setup)'
  <2>1. setup' = setup
    BY DEF Next, vars, Write, WriteFrame, WriteFails, EncryptFails, CloseWrite,
           ReadBuffer, StartRead, ReadFrame, DecryptFails, ReadEOF,
           ReadTruncated, ReadTimeout, ReturnError, Alter
  <2>. QED
    BY <2>1 DEF StreamInv, Fits
<1>3. ASSUME UNCHANGED <<setup, accepted, pending, failed, wire, inputBuffer>>
      PROVE  Chained' /\ CutShort' /\ Fitting'
  BY <1>3 DEF StreamInv, Chained, CutShort, Fitting
<1>4. CASE (\E n \in setup.writes : Write(n)) \/ EncryptFails \/ CloseWrite
  BY <1>1, <1>2, <1>4, WriterStream DEF StreamInv
<1>5. CASE WriteFrame
  BY <1>1, <1>2, <1>5, FrameChained DEF StreamInv
<1>6. CASE WriteFails
  BY <1>1, <1>2, <1>6, FragmentChained DEF StreamInv
<1>7. CASE Alter
  BY <1>1, <1>2, <1>7, AlterStream DEF StreamInv
<1>8. CASE ReadBuffer
  <2>1. /\ UNCHANGED <<setup, accepted, pending, failed, wire>>
        /\ Reading' /\ inputBuffer # <<>>
    BY <1>8, BufferRead DEF ReadBuffer, writer
  <2>2. setup.kind # "raw"
    BY <2>1 DEF StreamInv, Fitting
  <2>3. Chained' /\ CutShort' /\ Fitting'
    BY <2>1, <2>2 DEF StreamInv, Chained, CutShort, Fitting
  <2>. QED
    BY <1>1, <1>2, <2>1, <2>3 DEF StreamInv
<1>9. CASE ReadFrame
  <2>1. UNCHANGED <<setup, accepted, pending, failed, wire>> /\ Reading' /\ Fitting'
    BY <1>9, FrameRead DEF ReadFrame, writer
  <2>2. Chained' /\ CutShort'
    BY <2>1 DEF StreamInv, Chained, CutShort
  <2>. QED
    BY <1>1, <1>2, <2>1, <2>2 DEF StreamInv
<1>10. CASE StartRead \/ DecryptFails \/ ReadEOF \/ ReadTruncated \/ ReadTimeout
  <2>1. Reading' /\ UNCHANGED <<setup, accepted, pending, failed, wire, inputBuffer>>
    BY <1>10, ReaderStream DEF writer
  <2>. QED
    BY <1>1, <1>2, <1>3, <2>1 DEF StreamInv
<1>11. CASE UNCHANGED vars
  <2>1. UNCHANGED <<setup, accepted, pending, failed, wire, inputBuffer>>
    BY <1>11 DEF vars, writer, reader
  <2>2. Reading'
    BY <1>11, KeepReading DEF StreamInv, vars
  <2>. QED
    BY <1>1, <1>2, <1>3, <2>1, <2>2 DEF StreamInv
<1>. QED
  BY <1>4, <1>5, <1>6, <1>7, <1>8, <1>9, <1>10, <1>11 DEF Next

-----------------------------------------------------------------------------
(* Refinement.                                                             *)

\* At the end of what the writer has sent, Read has returned all of it.
LEMMA AllGot ==
  ASSUME StreamInv, Waiting,
         pos = Len(wire)
           \/ (/\ pos < Len(wire) /\ ~NextFrame.whole
               /\ setup.kind = "raw" \/ pos + 1 = Len(wire))
  PROVE  Len(got) = accepted
<1>1. /\ Len(wire) \in Nat /\ DOMAIN wire = 1..Len(wire) /\ pos \in 0..Len(wire)
      /\ Len(got) \in Nat
  BY LenProperties DEF StreamInv, TypeInv, TypeOK
<1>2. /\ inputBuffer = <<>> /\ Len(<<>>) = 0
      /\ pos = 0 => Len(got) + Len(inputBuffer) = 0
      /\ pos > 0 => /\ wire[pos].bytes # <<>>
                    /\ Len(got) + Len(inputBuffer) = EndOf(wire[pos])
  BY DEF StreamInv, Reading, Waiting
<1>3. /\ pos = 0 => Len(got) = 0
      /\ pos > 0 => wire[pos].bytes # <<>> /\ Len(got) = EndOf(wire[pos])
  <2>1. Len(got) + Len(inputBuffer) = Len(got)
    BY <1>1, <1>2
  <2>. QED
    BY <1>2, <2>1
<1>a. pos \in Nat /\ (pos = 0 \/ pos > 0)
  BY DEF StreamInv, TypeInv, TypeOK
<1>b. pos > 0 => pos \in DOMAIN wire
  <2>1. wire \in Seq(Frame) /\ pos \in 0..Len(wire)
    BY DEF StreamInv, TypeInv, TypeOK
  <2>2. pos > 0 => pos \in 1..Len(wire)
    BY <2>1
  <2>. QED
    BY <1>1, <2>2
<1>4. CASE pos = Len(wire)
  <2>1. CASE pos = 0
    <3>1. wire = <<>>
      BY <1>4, <2>1, EmptySeq DEF StreamInv, TypeInv, TypeOK
    <3>. QED
      BY <1>3, <2>1, <3>1 DEF StreamInv, Chained
  <2>2. CASE pos > 0
    <3>1. pos \in DOMAIN wire
      BY <1>b, <2>2
    <3>. QED
      <4>1. EndOf(wire[pos]) = accepted
        BY <1>3, <1>4, <2>2, <3>1 DEF StreamInv, Chained
      <4>. QED
        BY <1>3, <2>2, <4>1
  <2>. QED
    BY <1>a, <2>1, <2>2
<1>5. CASE /\ pos < Len(wire) /\ ~NextFrame.whole
           /\ setup.kind = "raw" \/ pos + 1 = Len(wire)
  <2>a. pos + 1 \in DOMAIN wire
    <3>1. wire \in Seq(Frame) /\ pos \in 0..Len(wire)
      BY DEF StreamInv, TypeInv, TypeOK
    <3>2. pos + 1 \in 1..Len(wire)
      BY <1>5, <3>1
    <3>. QED
      BY <1>1, <3>2
  <2>b. ~wire[pos + 1].whole
    BY <1>5 DEF NextFrame
  <2>c. pos + 1 = Len(wire)
    <3>1. CASE setup.kind = "raw"
      <4>1. ~setup.again
        BY <3>1 DEF StreamInv, Fits
      <4>. QED
        BY <2>a, <2>b, <4>1 DEF StreamInv, CutShort
    <3>. QED
      BY <1>5, <3>1
  <2>1. pos + 1 \in DOMAIN wire /\ ~wire[pos + 1].whole /\ pos + 1 = Len(wire)
    BY <2>a, <2>b, <2>c
  <2>2. /\ pos + 1 = 1 => accepted = 0
        /\ (pos + 1 > 1 /\ wire[(pos + 1) - 1].bytes # <<>>)
             => EndOf(wire[(pos + 1) - 1]) = accepted
    BY <2>1 DEF StreamInv, CutShort
  <2>3. (pos + 1) - 1 = pos /\ (pos = 0 => pos + 1 = 1) /\ (pos > 0 => pos + 1 > 1)
    BY <1>a
  <2>4. CASE pos = 0
    BY <1>3, <2>2, <2>3, <2>4
  <2>5. CASE pos > 0
    BY <1>3, <2>2, <2>3, <2>5
  <2>. QED
    BY <1>a, <2>4, <2>5
<1>. QED
  BY <1>4, <1>5

\* Each step is one of the stream, or none.
LEMMA StepIsStream ==
  ASSUME StreamInv, [Next]_vars
  PROVE  [Stream!Next]_(Stream!vars)
<1>1. ASSUME UNCHANGED <<accepted, got, closed, end>>
      PROVE  [Stream!Next]_(Stream!vars)
  BY <1>1 DEF Stream!vars
<1>2. CASE (\E n \in setup.writes : Write(n)) \/ WriteFails \/ StartRead \/ Alter
  BY <1>1, <1>2 DEF Write, WriteFails, StartRead, Alter, writer, reader
<1>3. CASE UNCHANGED vars
  BY <1>1, <1>3 DEF vars, writer, reader
<1>4. CASE WriteFrame
  <2>1. /\ pending \in Nat /\ accepted \in Nat /\ accepted + pending <= MaxBytes
        /\ pending > 0 /\ ~closed
    BY <1>4, BoundsAssumption DEF WriteFrame, StreamInv, TypeInv, TypeOK, Writing
  <2>2. Fragmented \in 1..pending
    BY <2>1, BoundsAssumption DEF Fragmented
  <2>3. accepted' \in accepted + 1 .. MaxBytes
    BY <1>4, <2>1, <2>2, BoundsAssumption DEF WriteFrame
  <2>. QED
    BY <1>4, <2>1, <2>3 DEF WriteFrame, reader, Stream!Accept, Stream!Next
<1>5. CASE EncryptFails \/ CloseWrite
  BY <1>5 DEF EncryptFails, CloseWrite, reader, Stream!CloseWrite, Stream!Next
<1>6. CASE ReadBuffer \/ ReadFrame
  <2>1. /\ got' \in Seq(1..MaxBytes) /\ InOrder(got', 0)
        /\ Len(got') \in Len(got) + 1 .. accepted
    BY <1>6, BufferRead, FrameRead
  <2>2. got' = Stream!Bytes(0, Len(got'))
    BY <2>1, InOrderBytes DEF Stream!Bytes
  <2>3. end = "none" /\ UNCHANGED <<accepted, closed, end>>
    BY <1>6 DEF ReadBuffer, ReadFrame, Idle, Waiting, writer
  <2>. QED
    BY <2>1, <2>2, <2>3 DEF Stream!Deliver, Stream!Next
<1>7. ASSUME ReturnError("error"), end = "none"
      PROVE  [Stream!Next]_(Stream!vars)
  BY <1>7 DEF ReturnError, writer, Stream!Fail, Stream!Next
<1>8. ASSUME ReturnError("eof"), end = "none", closed, Len(got) = accepted
      PROVE  [Stream!Next]_(Stream!vars)
  BY <1>8 DEF ReturnError, writer, Stream!EndOfStream, Stream!Next
<1>9. CASE DecryptFails \/ ReadTimeout
  BY <1>7, <1>9 DEF DecryptFails, ReadTimeout, Waiting
<1>10. CASE ReadEOF
  <2>1. Len(got) = accepted
    BY <1>10, AllGot DEF ReadEOF
  <2>. QED
    BY <1>8, <1>10, <2>1 DEF ReadEOF, Waiting
<1>11. CASE ReadTruncated
  <2>1. CASE (setup.kind = "raw" \/ pos + 1 = Len(wire)) /\ ReturnError("eof")
    <3>1. Len(got) = accepted
      BY <1>11, <2>1, AllGot DEF ReadTruncated
    <3>. QED
      BY <1>8, <1>11, <2>1, <3>1 DEF ReadTruncated, Waiting
  <2>2. CASE ReturnError("error")
    BY <1>7, <1>11, <2>2 DEF ReadTruncated, Waiting
  <2>. QED
    BY <1>11, <2>1, <2>2 DEF ReadTruncated
<1>. QED
  BY <1>2, <1>3, <1>4, <1>5, <1>6, <1>9, <1>10, <1>11 DEF Next

\* For any sizes of frames, buffers and writes and any number of faults, the
\* record layers of noisesocket and whatsapp are secure streams, and so is the
\* raw one for a reader whose buffer has room for every frame and a writer that
\* stops at the first error: the reader gets a prefix of what was written, in
\* order, and a clean end only after all of it.
THEOREM ImplementsStream ==
  ASSUME \A c \in Setups : Fits(c)
  PROVE  Spec => IsStream
<1>1. Init => StreamInv
  BY InitStream
<1>2. Init => Stream!Init
  BY DEF Init, Stream!Init
<1>3. StreamInv /\ [Next]_vars => [Stream!Next]_(Stream!vars)
  BY StepIsStream
<1>. QED
  BY <1>1, <1>2, <1>3, StepStream, PTL DEF Spec, IsStream, Stream!Spec
=============================================================================
