------------------------ MODULE Bolt8TransportProofs ------------------------
(***************************************************************************)
(* What holds of Bolt8Transport for every value of its constants: its      *)
(* types, that no nonce encrypts twice under one key, that what is read is *)
(* what was written, and that both ends rotate their keys together.        *)
(***************************************************************************)
EXTENDS Bolt8Transport, TLAPS

USE DEF End

-----------------------------------------------------------------------------
(* The ciphers.                                                            *)

\* Advancing a cipher by a nonce or by a key leaves a cipher.
LEMMA CipherStep ==
  ASSUME NEW c \in Cipher
  PROVE  /\ Bump(c) \in Cipher
         /\ maybeRekeySend(c) \in Cipher /\ maybeRekeyRecv(c) \in Cipher
<1>1. Bump(c) \in Cipher
  BY DEF Cipher, Bump
<1>2. hkdfExpand(c) \in Cipher
  BY DEF Cipher, Key, hkdfExpand
<1>. QED
  BY <1>1, <1>2 DEF maybeRekeySend, maybeRekeyRecv

\* What writeMessage puts on the wire is made of ciphertexts.
LEMMA UnitType ==
  ASSUME NEW c \in Cipher, NEW m \in Msgs
  PROVE  /\ LengthUnit(c, m) \in UnitSet
         /\ BodyUnit(c, m) \in UnitSet
         /\ Pairs(c) \in Seq([k : Key, n : Nat])
<1>1. Size[m] \in Nat
  BY MsgsAssumption
<1>2. c.k \in Key /\ c.n \in Nat /\ Bump(c).k \in Key /\ Bump(c).n \in Nat
  BY DEF Cipher, Bump
<1>3. [len |-> Size[m]] \in Plain /\ [msg |-> m] \in Plain
  BY <1>1 DEF Plain
<1>4. LengthUnit(c, m) \in UnitSet
  BY <1>1, <1>2, <1>3 DEF LengthUnit, Unit, UnitSet, macSize
<1>5. BodyUnit(c, m) \in UnitSet
  BY <1>1, <1>2, <1>3 DEF BodyUnit, Unit, UnitSet, macSize
<1>6. Pairs(c) \in Seq([k : Key, n : Nat])
  BY <1>2 DEF Pairs
<1>. QED
  BY <1>4, <1>5, <1>6

\* The remains of a ciphertext count as one on the wire.
LEMMA FragmentType == Fragment \in UnitSet
BY DEF Fragment, UnitSet, Plain

\* So does whatever a failed Write may leave there.
LEMMA PartialType ==
  ASSUME NEW c \in Cipher, NEW m \in Msgs, NEW p \in Partial(c, m)
  PROVE  p \in Seq(UnitSet)
<1>1. LengthUnit(c, m) \in UnitSet /\ Fragment \in UnitSet
  BY UnitType, FragmentType
<1>2. /\ <<>> \in Seq(UnitSet) /\ <<Fragment>> \in Seq(UnitSet)
      /\ <<LengthUnit(c, m)>> \in Seq(UnitSet)
      /\ <<LengthUnit(c, m), Fragment>> \in Seq(UnitSet)
  BY <1>1
<1>. QED
  BY <1>2 DEF Partial

\* The two bytes of a plaintext are a length, whatever it is.
LEMMA LengthType ==
  ASSUME NEW p \in Plain
  PROVE  LengthOf(p) \in Nat
<1>1. CASE p \in [len : Nat]
  BY <1>1 DEF LengthOf
<1>2. CASE p \in [msg : Msgs]
  <2>1. "len" \notin DOMAIN p
    BY <1>2
  <2>. QED
    BY <1>2, <2>1, MsgsAssumption DEF LengthOf
<1>. QED
  BY <1>1, <1>2 DEF Plain

-----------------------------------------------------------------------------
(* Type correctness.                                                       *)

\* Both ends come out of the handshake with well-formed ciphers.
LEMMA InitType == Init => TypeOK
BY BoundsAssumption
   DEF Init, TypeOK, Split, Cipher, Key, None, ends

\* writeMessage keeps the types, also when conn.Write fails.
LEMMA WriteType ==
  ASSUME TypeOK, NEW e \in End, NEW m \in Msgs, WriteMessage(e, m) \/ WriteFails(e, m)
  PROVE  TypeOK'
<1>1. Peer(e) \in End
  BY DEF Peer
<1>2. send[e] \in Cipher
  BY DEF TypeOK
<1>3. /\ Bump(Bump(send[e])) \in Cipher
      /\ maybeRekeySend(Bump(Bump(send[e]))) \in Cipher
  BY <1>2, CipherStep
<1>4. /\ LengthUnit(send[e], m) \in UnitSet /\ BodyUnit(send[e], m) \in UnitSet
      /\ Pairs(send[e]) \in Seq([k : Key, n : Nat])
  BY <1>2, UnitType
<1>5. used[e] \o Pairs(send[e]) \in Seq([k : Key, n : Nat])
  BY <1>4 DEF TypeOK
<1>6. CASE WriteMessage(e, m)
  <2>1. stream[Peer(e)] \o <<LengthUnit(send[e], m), BodyUnit(send[e], m)>> \in Seq(UnitSet)
    BY <1>1, <1>4 DEF TypeOK
  <2>2. Append(sent[e], m) \in Seq(Msgs)
    BY DEF TypeOK
  <2>. QED
    BY <1>3, <1>5, <1>6, <2>1, <2>2 DEF TypeOK, WriteMessage, ends
<1>7. CASE WriteFails(e, m)
  <2>3. stream' \in [End -> Seq(UnitSet)]
    <3>1. CASE open[e] /\ ~shut[e]
      <4>1. PICK p \in Partial(send[e], m) :
              stream' = [stream EXCEPT ![Peer(e)] = @ \o p]
        BY <1>7, <3>1 DEF WriteFails
      <4>2. p \in Seq(UnitSet)
        BY <1>2, PartialType
      <4>3. stream[Peer(e)] \o p \in Seq(UnitSet)
        BY <1>1, <4>2 DEF TypeOK
      <4>. QED
        BY <4>1, <4>3 DEF TypeOK
    <3>2. CASE ~(open[e] /\ ~shut[e])
      BY <1>7, <3>2 DEF TypeOK, WriteFails
    <3>. QED
      BY <3>1, <3>2
  <2>4. faults' \in 0..MaxFaults
    BY <1>7, BoundsAssumption DEF TypeOK, WriteFails
  <2>. QED
    BY <1>3, <1>5, <1>7, <2>3, <2>4 DEF TypeOK, WriteFails, ends
<1>. QED
  BY <1>6, <1>7

\* A Read that finds a ciphertext takes the one behind those it has consumed.
LEMMA ReadingType ==
  ASSUME TypeOK, NEW e \in End, Reading(e)
  PROVE  pos[e] + 1 \in 1 .. Len(stream[e]) /\ NextUnit(e) \in UnitSet
<1>1. pos[e] \in Nat /\ stream[e] \in Seq(UnitSet)
  BY DEF TypeOK
<1>2. pos[e] + 1 \in 1 .. Len(stream[e])
  BY <1>1 DEF Reading
<1>. QED
  BY <1>1, <1>2 DEF NextUnit

\* What a buffer has no room for is a number of bytes.
LEMMA SurplusType ==
  ASSUME NEW n \in Int
  PROVE  Surplus(n) \in Nat
BY BoundsAssumption DEF Surplus

\* Read keeps the types when it decrypts a length or a body.
LEMMA ReadType ==
  ASSUME TypeOK, NEW e \in End, ReadLength(e) \/ ReadBody(e) \/ ReadFails(e)
  PROVE  TypeOK'
<1>1. NextUnit(e) \in UnitSet
  <2>1. Reading(e)
    BY DEF ReadLength, ReadBody, ReadFails, Authentic
  <2>. QED
    BY <2>1, ReadingType
<1>2. NextUnit(e).plain \in Plain
  BY <1>1 DEF UnitSet
<1>3. pos[e] + 1 \in Nat
  BY DEF TypeOK
<1>4. Bump(recv[e]) \in Cipher /\ maybeRekeyRecv(Bump(recv[e])) \in Cipher
  BY CipherStep DEF TypeOK
<1>5. CASE ReadLength(e)
  <2>1. LengthOf(NextUnit(e).plain) \in Nat
    BY <1>2, LengthType
  <2>. QED
    BY <1>3, <1>4, <1>5, <2>1 DEF TypeOK, ReadLength, ends
<1>6. CASE ReadBody(e)
  <2>1. Append(got[e], NextUnit(e).plain) \in Seq(Plain)
    BY <1>2 DEF TypeOK
  <2>2. Surplus(NextUnit(e).size - macSize) \in Nat
    BY <1>1, SurplusType DEF UnitSet, macSize
  <2>3. readBuf' \in [End -> Nat]
    BY <1>6, <2>2 DEF TypeOK, ReadBody
  <2>. QED
    BY <1>3, <1>4, <1>6, <2>1, <2>3 DEF TypeOK, ReadBody
<1>7. CASE ReadFails(e)
  BY <1>3, <1>7 DEF TypeOK, ReadFails, ends
<1>. QED
  BY <1>5, <1>6, <1>7

\* So do a failed authentication, a passed deadline and an altered ciphertext.
LEMMA FaultType ==
  ASSUME TypeOK, NEW e \in End, ReadTimeout(e) \/ Alter(e)
  PROVE  TypeOK'
<1>1. faults' \in 0..MaxFaults
  <2>1. faults < MaxFaults /\ faults' = faults + 1
    BY DEF ReadTimeout, Alter
  <2>2. faults \in 0..MaxFaults
    BY DEF TypeOK
  <2>. QED
    BY <2>1, <2>2, BoundsAssumption
<1>2. CASE ReadTimeout(e)
  <2>1. stream' \in [End -> Seq(UnitSet)]
    <3>1. CASE UNCHANGED stream
      BY <3>1 DEF TypeOK
    <3>2. CASE Reading(e) /\ stream' = [stream EXCEPT ![e][pos[e] + 1] = Fragment]
      <4>1. [stream[e] EXCEPT ![pos[e] + 1] = Fragment] \in Seq(UnitSet)
        BY <3>2, FragmentType DEF TypeOK, Reading
      <4>. QED
        BY <3>2, <4>1 DEF TypeOK
    <3>. QED
      BY <1>2, <3>1, <3>2 DEF ReadTimeout
  <2>2. stopped' \in [End -> BOOLEAN] /\ bodyLen' \in [End -> [len : Nat] \cup {None}]
    BY <1>2, BoundsAssumption DEF TypeOK, ReadTimeout
  <2>. QED
    BY <1>1, <1>2, <2>1, <2>2 DEF TypeOK, ReadTimeout, ends
<1>3. CASE Alter(e)
  <2>1. PICK i \in pos[e] + 1 .. Len(stream[e]) :
          stream' = [stream EXCEPT ![e][i].k = NoKey]
    BY <1>3 DEF Alter
  <2>2. i \in 1 .. Len(stream[e]) /\ stream[e] \in Seq(UnitSet)
    BY DEF TypeOK
  <2>3. stream[e][i] \in UnitSet
    BY <2>2
  <2>4. [stream[e][i] EXCEPT !.k = NoKey] \in UnitSet
    BY <2>3 DEF UnitSet
  <2>5. [stream[e] EXCEPT ![i] = [stream[e][i] EXCEPT !.k = NoKey]] \in Seq(UnitSet)
    BY <2>2, <2>4
  <2>6. stream' \in [End -> Seq(UnitSet)]
    BY <2>1, <2>5 DEF TypeOK
  <2>. QED
    BY <1>1, <1>3, <2>6 DEF TypeOK, Alter, ends
<1>. QED
  BY <1>2, <1>3

\* And so do a half-close, the stream's end and the rest of a body.
LEMMA EndType ==
  ASSUME TypeOK, NEW e \in End, CloseWrite(e) \/ ReadBuffer(e) \/ ReadEnd(e)
  PROVE  TypeOK'
<1>1. CASE CloseWrite(e)
  BY <1>1 DEF TypeOK, CloseWrite
<1>2. CASE ReadBuffer(e)
  <2>1. Surplus(readBuf[e]) \in Nat
    <3>1. readBuf[e] \in Int
      BY DEF TypeOK
    <3>. QED
      BY <3>1, SurplusType
  <2>. QED
    BY <1>2, <2>1 DEF TypeOK, ReadBuffer
<1>3. CASE ReadEnd(e)
  BY <1>3 DEF TypeOK, ReadEnd
<1>. QED
  BY <1>1, <1>2, <1>3

\* TypeOK is inductive.
LEMMA StepType == TypeOK /\ [Next]_vars => TypeOK'
<1>. SUFFICES ASSUME TypeOK, [Next]_vars
              PROVE  TypeOK'
  OBVIOUS
<1>1. CASE Next
  BY <1>1, WriteType, ReadType, FaultType, EndType DEF Next
<1>2. CASE UNCHANGED vars
  BY <1>2 DEF vars, ends, TypeOK
<1>. QED
  BY <1>1, <1>2

\* Every reachable state of a connection is of its type.
THEOREM TypeCorrect == Spec => []TypeOK
BY InitType, StepType, PTL DEF Spec

-----------------------------------------------------------------------------
(* No nonce encrypts twice under one key.                                  *)

DirOf(e) == IF e = "initiator" THEN "a" ELSE "b"

\* The pair u was spent before cipher c came to where it is.
Spent(u, c) ==
  u.k.turn < c.k.turn \/ (u.k.turn = c.k.turn /\ u.n < c.n)

\* NonceUsedOnce is not inductive: it is for the pairs to lie behind the cipher
\* that spends the next ones, in keys of its own direction.
Behind ==
  \A e \in End :
    /\ send[e].k.dir = DirOf(e)
    /\ \A i \in DOMAIN used[e] :
         used[e][i].k.dir = DirOf(e) /\ Spent(used[e][i], send[e])
Distinct ==
  \A e \in End : \A i, j \in DOMAIN used[e] : used[e][i] = used[e][j] => i = j
NonceInv == TypeOK /\ Behind /\ Distinct

\* A message takes its cipher past the two pairs it uses, and stays past those
\* it was past: with or without the rotation of the key.
LEMMA CipherMovesOn ==
  ASSUME NEW c \in Cipher, NEW d \in {Bump(Bump(c)), maybeRekeySend(Bump(Bump(c)))},
         NEW u \in [k : Key, n : Nat], Spent(u, c) \/ u = Pairs(c)[1] \/ u = Pairs(c)[2]
  PROVE  Spent(u, d) /\ d.k.dir = c.k.dir
<1>1. /\ c.k \in Key /\ c.n \in Nat /\ c.ck \in Nat
      /\ c.k.turn \in Nat /\ u.k.turn \in Nat /\ u.n \in Nat
  BY DEF Cipher, Key
<1>2. /\ Bump(c).k = c.k /\ Bump(c).n = c.n + 1
      /\ Bump(Bump(c)).k = c.k /\ Bump(Bump(c)).n = c.n + 2 /\ Bump(Bump(c)).ck = c.ck
  BY DEF Cipher, Bump
<1>3. Spent(u, Bump(Bump(c)))
  BY <1>1, <1>2 DEF Spent, Pairs
<1>4. /\ hkdfExpand(Bump(Bump(c))).k.turn = c.k.turn + 1
      /\ hkdfExpand(Bump(Bump(c))).k.dir = c.k.dir
  BY <1>2 DEF hkdfExpand
<1>5. Spent(u, hkdfExpand(Bump(Bump(c))))
  BY <1>1, <1>2, <1>3, <1>4 DEF Spent
<1>. QED
  BY <1>2, <1>3, <1>4, <1>5 DEF maybeRekeySend

\* No pair has been used when the handshake ends.
LEMMA InitNonce == Init => NonceInv
<1>. SUFFICES ASSUME Init PROVE NonceInv
  OBVIOUS
<1>1. Behind /\ Distinct
  BY DEF Init, Behind, Distinct, DirOf, Split
<1>. QED
  BY <1>1, InitType DEF NonceInv

\* Two elements at the end of a sequence.
LEMMA AppendTwo ==
  ASSUME NEW S, NEW s \in Seq(S), NEW a \in S, NEW b \in S
  PROVE  /\ DOMAIN s = 1 .. Len(s) /\ Len(s) \in Nat
         /\ DOMAIN (s \o <<a, b>>) = 1 .. Len(s) + 2
         /\ \A i \in 1 .. Len(s) : (s \o <<a, b>>)[i] = s[i]
         /\ (s \o <<a, b>>)[Len(s) + 1] = a /\ (s \o <<a, b>>)[Len(s) + 2] = b
         /\ \A i \in 1 .. Len(s) + 2 : (s \o <<a, b>>)[i] \in S
OBVIOUS

\* What a step that encrypts does to the pairs, written or not.
LEMMA EncryptNonce ==
  ASSUME NonceInv, NEW e \in End, TypeOK',
         NEW d \in {Bump(Bump(send[e])), maybeRekeySend(Bump(Bump(send[e])))},
         send' = [send EXCEPT ![e] = d],
         used' = [used EXCEPT ![e] = @ \o Pairs(send[e])]
  PROVE  Behind' /\ Distinct'
<1>. DEFINE c == send[e]
            a == Pairs(c)[1]
            b == Pairs(c)[2]
            old == used[e]
            new == old \o Pairs(c)
<1>1. /\ c \in Cipher /\ old \in Seq([k : Key, n : Nat])
      /\ send'[e] = d /\ used'[e] = new
      /\ \A f \in End \ {e} : send'[f] = send[f] /\ used'[f] = used[f]
  BY DEF NonceInv, TypeOK
<1>ab. /\ c.n \in Nat /\ c.k \in Key /\ c.k.turn \in Nat
       /\ Pairs(c) = <<a, b>>
       /\ a.k = c.k /\ a.n = c.n /\ b.k = c.k /\ b.n = c.n + 1
       /\ a \in [k : Key, n : Nat] /\ b \in [k : Key, n : Nat]
  BY <1>1 DEF Pairs, Cipher, Key, Bump
<1>2. /\ DOMAIN old = 1 .. Len(old) /\ Len(old) \in Nat
      /\ DOMAIN new = 1 .. Len(old) + 2
      /\ \A i \in 1 .. Len(old) : new[i] = old[i]
      /\ new[Len(old) + 1] = a /\ new[Len(old) + 2] = b
      /\ \A i \in 1 .. Len(old) + 2 : new[i] \in [k : Key, n : Nat]
  <2>1. new = old \o <<a, b>>
    BY <1>ab
  <2>. DEFINE S == [k : Key, n : Nat]
  <2>2. old \in Seq(S) /\ a \in S /\ b \in S
    BY <1>1, <1>ab
  <2>. HIDE DEF a, b, c, old, new, S
  <2>3. /\ DOMAIN old = 1 .. Len(old) /\ Len(old) \in Nat
        /\ DOMAIN new = 1 .. Len(old) + 2
        /\ \A i \in 1 .. Len(old) : new[i] = old[i]
        /\ new[Len(old) + 1] = a /\ new[Len(old) + 2] = b
        /\ \A i \in 1 .. Len(old) + 2 : new[i] \in S
    BY <2>1, <2>2, AppendTwo
  <2>. QED
    BY <2>3 DEF S
<1>3. \A i \in DOMAIN old : old[i].k.dir = DirOf(e) /\ Spent(old[i], c)
  BY DEF NonceInv, Behind
<1>4. c.k.dir = DirOf(e)
  BY DEF NonceInv, Behind
<1>. HIDE DEF a, b, c, old, new
<1>6. \A i \in DOMAIN new : new[i].k.dir = DirOf(e) /\ Spent(new[i], d)
  <2>. SUFFICES ASSUME NEW i \in DOMAIN new
                PROVE  new[i].k.dir = DirOf(e) /\ Spent(new[i], d)
    OBVIOUS
  <2>1. CASE i \in DOMAIN old
    BY <1>1, <1>2, <1>3, <2>1, CipherMovesOn DEF c
  <2>2. CASE i \in {Len(old) + 1, Len(old) + 2}
    <3>1. new[i] = a \/ new[i] = b
      BY <1>2, <2>2
    <3>2. new[i].k = c.k
      BY <1>ab, <3>1
    <3>3. Spent(a, d) /\ Spent(b, d)
      BY <1>1, <1>ab, CipherMovesOn DEF a, b, c
    <3>. QED
      BY <1>4, <3>1, <3>2, <3>3
  <2>. QED
    BY <1>2, <2>1, <2>2
<1>7. d.k.dir = DirOf(e)
  BY <1>1, <1>4, <1>ab, CipherMovesOn DEF a, c
<1>8. Behind'
  <2>1. ASSUME NEW f \in End \ {e}
        PROVE  /\ send'[f].k.dir = DirOf(f)
               /\ \A i \in DOMAIN used'[f] :
                    used'[f][i].k.dir = DirOf(f) /\ Spent(used'[f][i], send'[f])
    BY <1>1, <2>1 DEF NonceInv, Behind
  <2>2. /\ send'[e].k.dir = DirOf(e)
        /\ \A i \in DOMAIN used'[e] :
             used'[e][i].k.dir = DirOf(e) /\ Spent(used'[e][i], send'[e])
    BY <1>1, <1>6, <1>7
  <2>. QED
    BY <2>1, <2>2 DEF Behind
<1>9. \A i, j \in DOMAIN new : new[i] = new[j] => i = j
  <2>1. \A i \in DOMAIN old : old[i] # a /\ old[i] # b
    <3>. SUFFICES ASSUME NEW i \in DOMAIN old
                  PROVE  old[i] # a /\ old[i] # b
      OBVIOUS
    <3>1. Spent(old[i], c) /\ old[i].k.turn \in Nat /\ old[i].n \in Nat
      BY <1>2, <1>3 DEF Key
    <3>. QED
      BY <1>ab, <3>1 DEF Spent
  <2>2. \A i, j \in DOMAIN old : old[i] = old[j] => i = j
    BY DEF NonceInv, Distinct, old
  <2>3. a # b
    BY <1>ab
  <2>. SUFFICES ASSUME NEW i \in DOMAIN new, NEW j \in DOMAIN new, new[i] = new[j]
                PROVE  i = j
    OBVIOUS
  <2>4. \A n \in Nat : \A x \in 1 .. n + 2 : x \in 1 .. n \/ x = n + 1 \/ x = n + 2
    OBVIOUS
  <2>5. /\ i \in 1 .. Len(old) + 2 /\ j \in 1 .. Len(old) + 2
        /\ Len(old) \in Nat /\ DOMAIN old = 1 .. Len(old)
    BY <1>2
  <2>6. /\ i \in DOMAIN old \/ i = Len(old) + 1 \/ i = Len(old) + 2
        /\ j \in DOMAIN old \/ j = Len(old) + 1 \/ j = Len(old) + 2
    BY <2>4, <2>5, Zenon
  <2>. QED
    BY <1>2, <2>1, <2>2, <2>3, <2>6
<1>10. Distinct'
  <2>1. ASSUME NEW f \in End \ {e}
        PROVE  \A i, j \in DOMAIN used'[f] : used'[f][i] = used'[f][j] => i = j
    BY <1>1, <2>1 DEF NonceInv, Distinct
  <2>2. \A i, j \in DOMAIN used'[e] : used'[e][i] = used'[e][j] => i = j
    BY <1>1, <1>9, Zenon
  <2>3. SUFFICES ASSUME NEW f \in End
                 PROVE  \A i, j \in DOMAIN used'[f] : used'[f][i] = used'[f][j] => i = j
    BY DEF Distinct
  <2>4. CASE f = e
    BY <2>2, <2>4, Zenon
  <2>5. CASE f # e
    BY <2>1, <2>5, Zenon
  <2>. QED
    BY <2>4, <2>5
<1>. QED
  BY <1>8, <1>10

\* NonceInv is inductive.
LEMMA StepNonce == NonceInv /\ [Next]_vars => NonceInv'
<1>. SUFFICES ASSUME NonceInv, [Next]_vars
              PROVE  NonceInv'
  OBVIOUS
<1>1. TypeOK'
  BY StepType DEF NonceInv
<1>2. ASSUME NEW e \in End, NEW m \in Msgs, WriteMessage(e, m)
      PROVE  Behind' /\ Distinct'
  <2>1. /\ send' = [send EXCEPT ![e] = maybeRekeySend(Bump(Bump(send[e])))]
        /\ used' = [used EXCEPT ![e] = @ \o Pairs(send[e])]
    BY <1>2 DEF WriteMessage
  <2>. QED
    BY <1>1, <2>1, EncryptNonce
<1>3. ASSUME NEW e \in End, NEW m \in Msgs, WriteFails(e, m)
      PROVE  Behind' /\ Distinct'
  <2>1. /\ send' = [send EXCEPT ![e] = Bump(Bump(send[e]))]
        /\ used' = [used EXCEPT ![e] = @ \o Pairs(send[e])]
    BY <1>3 DEF WriteFails
  <2>. QED
    BY <1>1, <2>1, EncryptNonce
<1>4. ASSUME UNCHANGED <<send, used>>
      PROVE  Behind' /\ Distinct'
  BY <1>4 DEF NonceInv, Behind, Distinct
<1>5. ASSUME NEW e \in End,
             ReadLength(e) \/ ReadBody(e) \/ ReadFails(e) \/ ReadTimeout(e) \/ Alter(e)
      PROVE  UNCHANGED <<send, used>>
  BY <1>5 DEF ReadLength, ReadBody, ReadFails, ReadTimeout, Alter
<1>6. UNCHANGED vars => UNCHANGED <<send, used>>
  BY DEF vars
<1>7. ASSUME NEW e \in End, CloseWrite(e) \/ ReadBuffer(e) \/ ReadEnd(e)
      PROVE  UNCHANGED <<send, used>>
  BY <1>7 DEF CloseWrite, ReadBuffer, ReadEnd
<1>. QED
  BY <1>1, <1>2, <1>3, <1>4, <1>5, <1>6, <1>7 DEF Next, NonceInv

\* Pairs behind the cipher, and distinct, are used once in both directions.
LEMMA NonceImplied == NonceInv => NonceUsedOnce
<1>. SUFFICES ASSUME NonceInv PROVE NonceUsedOnce
  OBVIOUS
<1>1. \A i \in DOMAIN used["initiator"], j \in DOMAIN used["responder"] :
        used["initiator"][i] # used["responder"][j]
  <2>. SUFFICES ASSUME NEW i \in DOMAIN used["initiator"],
                       NEW j \in DOMAIN used["responder"]
                PROVE  used["initiator"][i] # used["responder"][j]
    OBVIOUS
  <2>1. used["initiator"][i].k.dir = "a" /\ used["responder"][j].k.dir = "b"
    BY DEF NonceInv, Behind, DirOf
  <2>. QED
    BY <2>1
<1>. QED
  BY <1>1 DEF NonceInv, Distinct, NonceUsedOnce

\* However many messages are written, however many writes fail, and whatever the
\* rekey interval: each end's Write encrypts with a fresh nonce.
THEOREM NoncesFresh == Spec => []NonceUsedOnce
BY InitNonce, StepNonce, NonceImplied, PTL DEF Spec
-----------------------------------------------------------------------------
(* What is read is what was written, and both ends rotate together.        *)

\* A pair as the cipher that spends it, and the cipher a body leaves behind.
Pair(c) == [k |-> c.k, n |-> c.n]
Whole(u) == [k |-> u.k, ck |-> u.k.turn, n |-> u.n]
After(u) == maybeRekeySend(Bump(Whole(u)))

\* The first f messages of p went out whole, and are the first f that its Write
\* accepted; if there is another one, its body never reached the wire.
Sender(p, f) ==
  /\ f \in 0 .. Len(sent[p])
  /\ \E a \in f .. Len(used[p]) : Len(used[p]) = 2 * a /\ (a = f => f = Len(sent[p]))
  /\ send[p].ck = send[p].k.turn
  /\ Len(used[p]) = 2 * f /\ f > 0 => send[p] = After(used[p][2 * f])

\* The pairs of a message follow each other, and those of the first f messages
\* lead to the next message's.
Chained(p, f) ==
  \A i \in 1 .. Len(used[p]) :
    /\ 2 * i <= Len(used[p]) =>
         Whole(used[p][2 * i]) = Bump(Whole(used[p][2 * i - 1]))
    /\ i <= f /\ 2 * i + 1 <= Len(used[p]) =>
         Whole(used[p][2 * i + 1]) = After(used[p][2 * i])

\* u is the length of the i-th message, or its body.
IsLength(p, u, i) == 2 * i <= Len(used[p]) /\ Pair(u) = used[p][2 * i - 1]
IsBody(p, f, u, i) ==
  /\ 2 * i <= Len(used[p]) /\ Pair(u) = used[p][2 * i]
  /\ i # f + 1
  /\ i <= f => u.plain = [msg |-> sent[p][i]]

OnWire(p, f) ==
  \A x \in 1 .. Len(stream[Peer(p)]) : stream[Peer(p)][x].k # NoKey =>
    \E i \in 1 .. Len(used[p]) :
      IsLength(p, stream[Peer(p)][x], i) \/ IsBody(p, f, stream[Peer(p)][x], i)

\* A Read that stopped half way is not resumed.
Steady == faults = 0 \/ ~ReadAgain

Consumed(e) == 2 * Len(got[e]) + (IF bodyLen[e] = None THEN 0 ELSE 1)

\* The receiver's cipher is the one that the sender had after as many
\* ciphertexts as the receiver has accepted.
Receiver(e, f) ==
  Steady =>
    /\ Len(got[e]) <= f
    /\ \A i \in 1 .. Len(got[e]) : got[e][i] = [msg |-> sent[Peer(e)][i]]
    /\ open[e] /\ ~stopped[e] =>
         /\ Consumed(e) <= 2 * f + 1 /\ Consumed(e) <= Len(used[Peer(e)])
         /\ IF Consumed(e) < Len(used[Peer(e)])
            THEN recv[e] = Whole(used[Peer(e)][Consumed(e) + 1])
            ELSE recv[e] = send[Peer(e)]

Flow(p, f) == Sender(p, f) /\ Chained(p, f) /\ OnWire(p, f) /\ Receiver(Peer(p), f)
DeliveryInv == NonceInv /\ \A p \in End : \E f \in Nat : Flow(p, f)

\* Without faults the wire holds every pair spent, in order and of its size.
InStep(e) ==
  LET p == Peer(e) IN
    /\ open[e] /\ ~stopped[e]
    /\ Len(used[p]) = 2 * Len(sent[p]) /\ Len(stream[e]) = 2 * Len(sent[p])
    /\ pos[e] = Consumed(e)
    /\ \A i \in 1 .. Len(sent[p]) :
         /\ Pair(stream[e][2 * i - 1]) = used[p][2 * i - 1]
         /\ Pair(stream[e][2 * i]) = used[p][2 * i]
         /\ stream[e][2 * i - 1].size = 2 + macSize
         /\ stream[e][2 * i - 1].plain = [len |-> Size[sent[p][i]]]
         /\ stream[e][2 * i].size = Size[sent[p][i]] + macSize
    /\ bodyLen[e] # None => bodyLen[e] = [len |-> Size[sent[p][Len(got[e]) + 1]]]

LockstepInv == DeliveryInv /\ (faults = 0 => \A e \in End : InStep(e))

\* The two ends are each other's peers.
LEMMA Peers ==
  ASSUME NEW e \in End
  PROVE  Peer(e) \in End /\ Peer(e) # e /\ Peer(Peer(e)) = e
BY DEF Peer

\* The initial ciphers of a direction are the same at both ends.
LEMMA InitFlow == Init => DeliveryInv /\ \A e \in End : InStep(e)
<1>. SUFFICES ASSUME Init PROVE DeliveryInv /\ \A e \in End : InStep(e)
  OBVIOUS
<1>1. ASSUME NEW p \in End PROVE Flow(p, 0)
  <2>1. Sender(p, 0) /\ Chained(p, 0) /\ OnWire(p, 0)
    BY Peers DEF Init, Sender, Chained, OnWire, Split
  <2>2. Receiver(Peer(p), 0)
    BY Peers DEF Init, Receiver, Consumed, Peer
  <2>. QED
    BY <2>1, <2>2 DEF Flow
<1>2. ASSUME NEW e \in End PROVE InStep(e)
  BY Peers DEF Init, InStep, Consumed
<1>. QED
  BY <1>1, <1>2, InitNonce DEF DeliveryInv

\* A step that leaves one direction alone leaves what is known of it.
LEMMA FlowUntouched ==
  ASSUME NEW p \in End, NEW f \in Nat, Flow(p, f), Steady' => Steady,
         send'[p] = send[p], used'[p] = used[p], sent'[p] = sent[p],
         stream'[Peer(p)] = stream[Peer(p)],
         got'[Peer(p)] = got[Peer(p)], recv'[Peer(p)] = recv[Peer(p)],
         bodyLen'[Peer(p)] = bodyLen[Peer(p)],
         open'[Peer(p)] = open[Peer(p)], stopped'[Peer(p)] = stopped[Peer(p)]
  PROVE  Flow(p, f)'
<1>1. Sender(p, f)'
  BY DEF Flow, Sender
<1>2. Chained(p, f)'
  BY DEF Flow, Chained
<1>3. OnWire(p, f)'
  <2>1. \A w : \A i : /\ IsLength(p, w, i)' <=> IsLength(p, w, i)
                      /\ IsBody(p, f, w, i)' <=> IsBody(p, f, w, i)
    BY DEF IsLength, IsBody
  <2>. QED
    BY <2>1 DEF Flow, OnWire
<1>4. Receiver(Peer(p), f)'
  <2>1. PICK e \in End : e = Peer(p) /\ Peer(e) = p
    BY Peers
  <2>2. Consumed(e)' = Consumed(e)
    BY <2>1 DEF Consumed
  <2>3. Receiver(e, f)
    BY <2>1 DEF Flow
  <2>4. Receiver(e, f)'
    BY <2>1, <2>2, <2>3 DEF Receiver
  <2>. QED
    BY <2>1, <2>4
<1>. QED
  BY <1>1, <1>2, <1>3, <1>4 DEF Flow

\* Two pairs behind those of a direction, as ciphers.
LEMMA PairsSpent ==
  ASSUME NEW c \in Cipher, c.ck = c.k.turn, NEW s \in Seq([k : Key, n : Nat])
  PROVE  /\ Len(s) \in Nat /\ Len(s \o Pairs(c)) = Len(s) + 2
         /\ \A i \in 1 .. Len(s) : (s \o Pairs(c))[i] = s[i]
         /\ (s \o Pairs(c))[Len(s) + 1] = Pair(c)
         /\ (s \o Pairs(c))[Len(s) + 2] = Pair(Bump(c))
         /\ Whole(Pair(c)) = c /\ Whole(Pair(Bump(c))) = Bump(c)
         /\ After(Pair(Bump(c))) = maybeRekeySend(Bump(Bump(c)))
<1>1. /\ c = [k |-> c.k, ck |-> c.ck, n |-> c.n] /\ c.k \in Key /\ c.n \in Nat
      /\ Bump(c) = [k |-> c.k, ck |-> c.ck, n |-> c.n + 1]
  BY DEF Cipher, Bump
<1>2. Whole(Pair(c)) = c /\ Whole(Pair(Bump(c))) = Bump(c)
  BY <1>1 DEF Whole, Pair
<1>3. After(Pair(Bump(c))) = maybeRekeySend(Bump(Bump(c)))
  BY <1>2 DEF After
<1>4. /\ Pairs(c) = <<Pair(c), Pair(Bump(c))>>
      /\ Pair(c) \in [k : Key, n : Nat] /\ Pair(Bump(c)) \in [k : Key, n : Nat]
  BY <1>1 DEF Pairs, Pair
<1>5. /\ Len(s) \in Nat /\ Len(s \o Pairs(c)) = Len(s) + 2
      /\ \A i \in 1 .. Len(s) : (s \o Pairs(c))[i] = s[i]
      /\ (s \o Pairs(c))[Len(s) + 1] = Pair(c)
      /\ (s \o Pairs(c))[Len(s) + 2] = Pair(Bump(c))
  <2>. DEFINE a == Pair(c)
              b == Pair(Bump(c))
              S == [k : Key, n : Nat]
  <2>1. Pairs(c) = <<a, b>> /\ a \in S /\ b \in S /\ s \in Seq(S)
    BY <1>4
  <2>. HIDE DEF a, b, S
  <2>2. /\ Len(s) \in Nat /\ Len(s \o <<a, b>>) = Len(s) + 2
        /\ \A i \in 1 .. Len(s) : (s \o <<a, b>>)[i] = s[i]
        /\ (s \o <<a, b>>)[Len(s) + 1] = a /\ (s \o <<a, b>>)[Len(s) + 2] = b
    BY <2>1
  <2>. QED
    BY <2>1, <2>2 DEF a, b
<1>. QED
  BY <1>2, <1>3, <1>5

\* A cipher's chaining key counts its turns, before and after a rotation.
LEMMA TurnsCounted ==
  ASSUME NEW c \in Cipher, c.ck = c.k.turn
  PROVE  /\ Bump(c).ck = Bump(c).k.turn
         /\ maybeRekeySend(c).ck = maybeRekeySend(c).k.turn
<1>1. Bump(c).ck = Bump(c).k.turn
  BY DEF Cipher, Bump
<1>2. hkdfExpand(c).ck = hkdfExpand(c).k.turn
  BY DEF Cipher, Key, hkdfExpand
<1>. QED
  BY <1>1, <1>2 DEF maybeRekeySend

\* The elements of two sequences put together.
LEMMA ConcatElement ==
  ASSUME NEW S, NEW s \in Seq(S), NEW q \in Seq(S), NEW x \in 1 .. Len(s \o q)
  PROVE  \/ x \in 1 .. Len(s) /\ (s \o q)[x] = s[x]
         \/ \E y \in 1 .. Len(q) : (s \o q)[x] = q[y]
<1>1. CASE x \in 1 .. Len(s)
  BY <1>1
<1>2. CASE x \notin 1 .. Len(s)
  <2>1. x - Len(s) \in 1 .. Len(q) /\ (s \o q)[x] = q[x - Len(s)]
    BY <1>2
  <2>. QED
    BY <2>1
<1>. QED
  BY <1>1, <1>2

\* A message, written or not, prolongs the chain of its direction's pairs.  It
\* is one more of those that lead to the next (g = f + 1) only while none failed.
LEMMA WriteChains ==
  ASSUME TypeOK, NEW p \in End, NEW f \in Nat, Sender(p, f), Chained(p, f),
         used'[p] = used[p] \o Pairs(send[p]),
         NEW g \in {f, f + 1}, g = f + 1 => Len(used[p]) = 2 * f
  PROVE  /\ Chained(p, g)'
         /\ Len(used'[p]) = Len(used[p]) + 2 /\ Len(used[p]) \in Nat
         /\ \A i \in 1 .. Len(used[p]) : used'[p][i] = used[p][i]
         /\ used'[p][Len(used[p]) + 1] = Pair(send[p])
         /\ used'[p][Len(used[p]) + 2] = Pair(Bump(send[p]))
         /\ Whole(Pair(send[p])) = send[p]
<1>. DEFINE c == send[p]
            u == used[p]
            v == used'[p]
<1>1. c \in Cipher /\ c.ck = c.k.turn /\ u \in Seq([k : Key, n : Nat])
  BY DEF TypeOK, Sender
<1>2. /\ Len(u) \in Nat /\ Len(v) = Len(u) + 2
      /\ \A i \in 1 .. Len(u) : v[i] = u[i]
      /\ v[Len(u) + 1] = Pair(c) /\ v[Len(u) + 2] = Pair(Bump(c))
      /\ Whole(Pair(c)) = c /\ Whole(Pair(Bump(c))) = Bump(c)
  <2>1. v = u \o Pairs(c)
    OBVIOUS
  <2>. HIDE DEF c, u, v
  <2>. QED
    BY <1>1, <2>1, PairsSpent
<1>3. PICK a \in f .. Len(u) : Len(u) = 2 * a
  BY DEF Sender
<1>4. Len(u) = 2 * f /\ f > 0 => c = After(u[2 * f])
  BY DEF Sender
<1>5. ASSUME NEW i \in 1 .. Len(u)
      PROVE  /\ 2 * i <= Len(u) => Whole(u[2 * i]) = Bump(Whole(u[2 * i - 1]))
             /\ i <= f /\ 2 * i + 1 <= Len(u) => Whole(u[2 * i + 1]) = After(u[2 * i])
  BY DEF Chained
<1>. HIDE DEF c, u, v
<1>6. ASSUME NEW i \in 1 .. Len(v), 2 * i <= Len(v)
      PROVE  Whole(v[2 * i]) = Bump(Whole(v[2 * i - 1]))
  <2>1. CASE 2 * i <= Len(u)
    BY <1>2, <1>5, <2>1
  <2>2. CASE 2 * i > Len(u)
    <3>1. 2 * i = Len(u) + 2
      BY <1>2, <1>3, <1>6, <2>2
    <3>. QED
      BY <1>2, <3>1
  <2>. QED
    BY <1>2, <2>1, <2>2
<1>7. ASSUME NEW i \in 1 .. Len(v), i <= g, 2 * i + 1 <= Len(v)
      PROVE  Whole(v[2 * i + 1]) = After(v[2 * i])
  <2>1. CASE 2 * i + 1 <= Len(u)
    <3>1. i <= f
      BY <1>2, <1>7, <2>1 DEF u
    <3>. QED
      BY <1>2, <1>5, <2>1, <3>1
  <2>2. CASE 2 * i + 1 > Len(u)
    <3>1. 2 * i + 1 = Len(u) + 1 /\ i = f /\ Len(u) = 2 * f
      BY <1>2, <1>3, <1>7, <2>2 DEF u
    <3>2. v[2 * i] = u[2 * i]
      BY <1>2, <3>1
    <3>. QED
      BY <1>2, <1>4, <3>1, <3>2
  <2>. QED
    BY <1>2, <2>1, <2>2
<1>8. Chained(p, g)'
  BY <1>6, <1>7 DEF Chained, v
<1>. QED
  BY <1>2, <1>8 DEF c, u, v

\* What a reader has consumed is a number.
LEMMA ConsumedType ==
  ASSUME TypeOK, NEW e \in End
  PROVE  /\ Len(got[e]) \in Nat /\ Consumed(e) \in Nat
         /\ bodyLen[e] = None => Consumed(e) = 2 * Len(got[e])
         /\ bodyLen[e] # None => Consumed(e) = 2 * Len(got[e]) + 1
<1>1. Len(got[e]) \in Nat
  BY DEF TypeOK
<1>2. \A x \in Nat : 2 * x + 0 \in Nat /\ 2 * x + 1 \in Nat /\ 2 * x + 0 = 2 * x
  OBVIOUS
<1>3. /\ bodyLen[e] = None => Consumed(e) = 2 * Len(got[e]) + 0
      /\ bodyLen[e] # None => Consumed(e) = 2 * Len(got[e]) + 1
  BY Zenon DEF Consumed
<1>. QED
  BY <1>1, <1>2, <1>3, Zenon

\* The receiver of a direction does not notice that its peer encrypts.
LEMMA WriteReceives ==
  ASSUME TypeOK, NEW p \in End, NEW f \in Nat, Flow(p, f), Steady' => Steady,
         NEW g \in {f, f + 1}, g = f + 1 => Len(used[p]) = 2 * f,
         used'[p] = used[p] \o Pairs(send[p]),
         NEW m \in Msgs, sent'[p] \in {sent[p], Append(sent[p], m)},
         got'[Peer(p)] = got[Peer(p)], recv'[Peer(p)] = recv[Peer(p)],
         bodyLen'[Peer(p)] = bodyLen[Peer(p)],
         open'[Peer(p)] = open[Peer(p)], stopped'[Peer(p)] = stopped[Peer(p)]
  PROVE  Receiver(Peer(p), g)'
<1>1. PICK e \in End : e = Peer(p) /\ Peer(e) = p
  BY Peers
<1>2. Consumed(e)' = Consumed(e) /\ Consumed(e) \in Nat /\ Len(got[e]) \in Nat
  <2>1. got'[e] = got[e] /\ bodyLen'[e] = bodyLen[e]
    BY <1>1
  <2>2. Consumed(e)' = Consumed(e)
    BY <2>1, Zenon DEF Consumed
  <2>. QED
    BY <2>2, ConsumedType
<1>3. /\ Len(used'[p]) = Len(used[p]) + 2 /\ Len(used[p]) \in Nat
      /\ \A i \in 1 .. Len(used[p]) : used'[p][i] = used[p][i]
      /\ used'[p][Len(used[p]) + 1] = Pair(send[p])
      /\ Whole(Pair(send[p])) = send[p]
  BY WriteChains DEF Flow
<1>4. Receiver(e, f) /\ f \in 0 .. Len(sent[p])
  BY <1>1 DEF Flow, Sender
<1>5. \A i \in 1 .. Len(sent[p]) : sent'[p][i] = sent[p][i]
  <2>1. sent[p] \in Seq(Msgs)
    BY DEF TypeOK
  <2>2. \A i \in 1 .. Len(sent[p]) : Append(sent[p], m)[i] = sent[p][i]
    BY <2>1
  <2>. QED
    BY <2>2
<1>r. /\ got'[e] = got[e] /\ recv'[e] = recv[e]
      /\ open'[e] = open[e] /\ stopped'[e] = stopped[e]
  BY <1>1
<1>6. ASSUME Steady'
      PROVE  /\ Len(got'[e]) <= g
             /\ \A i \in 1 .. Len(got'[e]) : got'[e][i] = [msg |-> sent'[p][i]]
  <2>1. Steady
    BY <1>6
  <2>2. /\ Len(got[e]) <= f
        /\ \A i \in 1 .. Len(got[e]) : got[e][i] = [msg |-> sent[p][i]]
    BY <1>1, <1>4, <2>1 DEF Receiver
  <2>3. \A i \in 1 .. Len(got[e]) : i \in 1 .. Len(sent[p])
    BY <1>2, <1>4, <2>2
  <2>. QED
    BY <1>2, <1>5, <1>r, <2>2, <2>3
<1>7. ASSUME Steady', open'[e], ~stopped'[e]
      PROVE  /\ Consumed(e) <= 2 * g + 1 /\ Consumed(e) <= Len(used'[p])
             /\ IF Consumed(e) < Len(used'[p])
                THEN recv'[e] = Whole(used'[p][Consumed(e) + 1])
                ELSE recv'[e] = send'[p]
  <2>1. /\ Consumed(e) <= 2 * f + 1 /\ Consumed(e) <= Len(used[p])
        /\ IF Consumed(e) < Len(used[p])
           THEN recv[e] = Whole(used[p][Consumed(e) + 1])
           ELSE recv[e] = send[p]
    <3>1. Steady /\ open[e] /\ ~stopped[e]
      BY <1>7, <1>r
    <3>. QED
      BY <1>1, <1>4, <3>1 DEF Receiver
  <2>2. Consumed(e) <= 2 * g + 1 /\ Consumed(e) < Len(used'[p])
    BY <1>2, <1>3, <2>1
  <2>3. recv'[e] = Whole(used'[p][Consumed(e) + 1])
    <3>. DEFINE q == Consumed(e)
                u == used[p]
                v == used'[p]
    <3>1. /\ q \in Nat /\ Len(u) \in Nat /\ q <= Len(u)
          /\ \A i \in 1 .. Len(u) : v[i] = u[i]
          /\ v[Len(u) + 1] = Pair(send[p])
      BY <1>2, <1>3, <2>1
    <3>2. q < Len(u) => recv[e] = Whole(u[q + 1])
      BY <2>1
    <3>3. q = Len(u) => recv[e] = Whole(Pair(send[p]))
      BY <1>3, <2>1
    <3>. HIDE DEF q, u, v
    <3>4. recv[e] = Whole(v[q + 1])
      BY <3>1, <3>2, <3>3
    <3>. QED
      BY <1>r, <3>4 DEF q, v
  <2>. QED
    BY <1>2, <1>3, <2>2, <2>3
<1>8. Receiver(e, g)'
  <2>1. Peer(e) = p /\ Consumed(e)' = Consumed(e)
    BY <1>1, <1>2
  <2>. QED
    BY <2>1, <1>6, <1>7 DEF Receiver
<1>. QED
  BY <1>1, <1>8

\* What is on the wire stays what it is while pairs and messages are added.
LEMMA UnitKept ==
  ASSUME TypeOK, NEW p \in End, NEW f \in Nat, Sender(p, f), Chained(p, f),
         NEW g \in {f, f + 1}, g = f + 1 => Len(used[p]) = 2 * f,
         used'[p] = used[p] \o Pairs(send[p]),
         NEW m \in Msgs, sent'[p] \in {sent[p], Append(sent[p], m)},
         NEW w, NEW j \in 1 .. Len(used[p]), IsLength(p, w, j) \/ IsBody(p, f, w, j)
  PROVE  \E i \in 1 .. Len(used'[p]) : IsLength(p, w, i)' \/ IsBody(p, g, w, i)'
<1>. DEFINE u == used[p]
            v == used'[p]
<1>1. /\ Len(v) = Len(u) + 2 /\ Len(u) \in Nat
      /\ \A i \in 1 .. Len(u) : v[i] = u[i]
  BY WriteChains
<1>2. \A i \in 1 .. Len(sent[p]) : sent'[p][i] = sent[p][i]
  <2>1. sent[p] \in Seq(Msgs)
    BY DEF TypeOK
  <2>2. \A i \in 1 .. Len(sent[p]) : Append(sent[p], m)[i] = sent[p][i]
    BY <2>1
  <2>. QED
    BY <2>2
<1>3. f \in 0 .. Len(sent[p]) /\ Len(sent[p]) \in Nat
  BY DEF Sender, TypeOK
<1>4. j \in 1 .. Len(v)
  BY <1>1
<1>j. j \in 1 .. Len(u) /\ (g = f + 1 => Len(u) = 2 * f)
  OBVIOUS
<1>5. CASE IsLength(p, w, j)
  <2>1. 2 * j <= Len(u) /\ Pair(w) = u[2 * j - 1]
    BY <1>5 DEF IsLength
  <2>2. 2 * j <= Len(v) /\ Pair(w) = v[2 * j - 1]
    <3>. HIDE DEF u, v
    <3>. QED
      BY <1>1, <1>j, <2>1
  <2>. QED
    BY <1>4, <2>2 DEF IsLength
<1>6. CASE IsBody(p, f, w, j)
  <2>1. /\ 2 * j <= Len(u) /\ Pair(w) = u[2 * j] /\ j # f + 1
        /\ j <= f => w.plain = [msg |-> sent[p][j]]
    BY <1>6 DEF IsBody
  <2>2. 2 * j <= Len(v) /\ Pair(w) = v[2 * j]
    <3>. HIDE DEF u, v
    <3>. QED
      BY <1>1, <1>j, <2>1
  <2>3. j # g + 1 /\ (j <= g => j <= f)
    <3>. HIDE DEF u, v
    <3>. QED
      BY <1>1, <1>j, <2>1
  <2>4. j <= g => w.plain = [msg |-> sent'[p][j]]
    <3>1. j <= f => j \in 1 .. Len(sent[p])
      BY <1>3
    <3>. QED
      BY <1>2, <2>1, <2>3, <3>1
  <2>. QED
    BY <1>4, <2>2, <2>3, <2>4 DEF IsBody
<1>. QED
  BY <1>5, <1>6

\* Whatever of a message reaches the wire is one of the pairs spent on it.
LEMMA WriteOnWire ==
  ASSUME TypeOK, NEW p \in End, NEW f \in Nat, Flow(p, f),
         NEW g \in {f, f + 1}, g = f + 1 => Len(used[p]) = 2 * f,
         used'[p] = used[p] \o Pairs(send[p]),
         NEW m \in Msgs, sent'[p] \in {sent[p], Append(sent[p], m)},
         NEW q \in Seq(UnitSet), stream'[Peer(p)] = stream[Peer(p)] \o q,
         \A y \in 1 .. Len(q) : q[y].k # NoKey =>
           \E i \in 1 .. Len(used'[p]) : IsLength(p, q[y], i)' \/ IsBody(p, g, q[y], i)'
  PROVE  OnWire(p, g)'
<1>1. stream[Peer(p)] \in Seq(UnitSet)
  BY Peers DEF TypeOK
<1>. DEFINE s == stream[Peer(p)]
            t == stream'[Peer(p)]
<1>2. SUFFICES ASSUME NEW x \in 1 .. Len(t), NEW w, w = t[x], w.k # NoKey
               PROVE  \E i \in 1 .. Len(used'[p]) :
                        IsLength(p, w, i)' \/ IsBody(p, g, w, i)'
  BY DEF OnWire, IsLength, IsBody
<1>3. \/ x \in 1 .. Len(s) /\ t[x] = s[x]
      \/ \E y \in 1 .. Len(q) : t[x] = q[y]
  <2>1. s \in Seq(UnitSet) /\ t = s \o q
    BY <1>1
  <2>. HIDE DEF s, t
  <2>. QED
    BY <2>1, ConcatElement
<1>4. CASE x \in 1 .. Len(s) /\ t[x] = s[x]
  <2>1. PICK i \in 1 .. Len(used[p]) : IsLength(p, w, i) \/ IsBody(p, f, w, i)
    BY <1>2, <1>4 DEF Flow, OnWire
  <2>. QED
    BY <2>1, UnitKept DEF Flow
<1>5. CASE \E y \in 1 .. Len(q) : t[x] = q[y]
  <2>1. PICK y \in 1 .. Len(q) : w = q[y]
    BY <1>2, <1>5
  <2>. QED
    BY <1>2, <2>1
<1>. QED
  BY <1>3, <1>4, <1>5

\* The two ciphertexts of a message are the pairs that it spends, its body on
\* the wire only when it is written whole.
LEMMA MessageUnits ==
  ASSUME TypeOK, NEW p \in End, NEW f \in Nat, Flow(p, f),
         NEW g \in {f, f + 1}, g = f + 1 => Len(used[p]) = 2 * f,
         used'[p] = used[p] \o Pairs(send[p]),
         NEW c, c = send[p], NEW m \in Msgs
  PROVE  /\ c \in Cipher
         /\ \E i \in 1 .. Len(used'[p]) : IsLength(p, LengthUnit(c, m), i)'
         /\ (\/ g = f /\ Len(used[p]) # 2 * f
             \/ g = f + 1 /\ sent'[p][f + 1] = m) =>
              \E i \in 1 .. Len(used'[p]) : IsBody(p, g, BodyUnit(c, m), i)'
<1>. DEFINE u == used[p]
            v == used'[p]
<1>1. /\ Len(v) = Len(u) + 2 /\ Len(u) \in Nat
      /\ v[Len(u) + 1] = Pair(c) /\ v[Len(u) + 2] = Pair(Bump(c))
  BY WriteChains DEF Flow
<1>2. PICK a \in f .. Len(u) : Len(u) = 2 * a
  BY DEF Flow, Sender
<1>3. c \in Cipher
  BY DEF TypeOK
<1>4. /\ Pair(LengthUnit(c, m)) = Pair(c) /\ Pair(BodyUnit(c, m)) = Pair(Bump(c))
      /\ BodyUnit(c, m).plain = [msg |-> m]
  BY DEF LengthUnit, BodyUnit, Unit, Pair
<1>5. g = f + 1 => Len(u) = 2 * f
  OBVIOUS
<1>. HIDE DEF u, v
<1>6. /\ a + 1 \in 1 .. Len(v) /\ 2 * (a + 1) <= Len(v)
      /\ v[2 * (a + 1) - 1] = Pair(c) /\ v[2 * (a + 1)] = Pair(Bump(c))
  <2>1. /\ a \in Nat /\ 2 * (a + 1) = Len(u) + 2 /\ 2 * (a + 1) - 1 = Len(u) + 1
    BY <1>1, <1>2
  <2>. QED
    BY <1>1, <2>1
<1>7. IsLength(p, LengthUnit(c, m), a + 1)'
  BY <1>4, <1>6 DEF IsLength, v
<1>8. ASSUME \/ g = f /\ Len(u) # 2 * f
             \/ g = f + 1 /\ sent'[p][f + 1] = m
      PROVE  IsBody(p, g, BodyUnit(c, m), a + 1)'
  <2>1. a + 1 # g + 1 /\ (a + 1 <= g => a + 1 = f + 1 /\ g = f + 1)
    BY <1>1, <1>2, <1>5, <1>8
  <2>2. a + 1 <= g => BodyUnit(c, m).plain = [msg |-> sent'[p][a + 1]]
    BY <1>4, <1>8, <2>1
  <2>. QED
    BY <1>4, <1>6, <2>1, <2>2 DEF IsBody, v
<1>. QED
  BY <1>3, <1>6, <1>7, <1>8 DEF u, v

\* The message of a failed Write is the first that is not among the f, unless
\* there is one already.
LEMMA WriteFailsFlow ==
  ASSUME TypeOK, NEW p \in End, NEW f \in Nat, Flow(p, f), NEW m \in Msgs,
         WriteFails(p, m)
  PROVE  Flow(p, f)'
<1>1. /\ used'[p] = used[p] \o Pairs(send[p]) /\ send'[p] = Bump(Bump(send[p]))
      /\ sent'[p] = sent[p]
      /\ sent'[p] \in {sent[p], Append(sent[p], m)}
  BY DEF WriteFails, TypeOK
<1>2. /\ got'[Peer(p)] = got[Peer(p)] /\ recv'[Peer(p)] = recv[Peer(p)]
      /\ bodyLen'[Peer(p)] = bodyLen[Peer(p)] /\ open'[Peer(p)] = open[Peer(p)]
      /\ stopped'[Peer(p)] = stopped[Peer(p)]
  BY DEF WriteFails
<1>s. Steady' => Steady
  <2>1. faults \in Nat /\ faults' \in {faults, faults + 1}
    BY DEF WriteFails, TypeOK
  <2>. QED
    BY <2>1 DEF Steady
<1>g. f \in {f, f + 1} /\ (f = f + 1 => Len(used[p]) = 2 * f)
  OBVIOUS
<1>3. Receiver(Peer(p), f)'
  BY <1>1, <1>2, <1>s, <1>g, WriteReceives
<1>4. /\ Chained(p, f)'
      /\ Len(used'[p]) = Len(used[p]) + 2 /\ Len(used[p]) \in Nat
  BY <1>1, <1>g, WriteChains DEF Flow
<1>5. Sender(p, f)'
  <2>1. PICK a \in f .. Len(used[p]) : Len(used[p]) = 2 * a
    BY DEF Flow, Sender
  <2>2. /\ a + 1 \in f .. Len(used'[p]) /\ Len(used'[p]) = 2 * (a + 1) /\ a + 1 # f
        /\ Len(used'[p]) # 2 * f
    BY <1>4, <2>1
  <2>3. send[p] \in Cipher /\ send[p].ck = send[p].k.turn
    BY DEF TypeOK, Flow, Sender
  <2>4. send'[p].ck = send'[p].k.turn
    BY <1>1, <2>3, CipherStep, TurnsCounted
  <2>. QED
    BY <1>1, <2>2, <2>4 DEF Flow, Sender
<1>6. OnWire(p, f)'
  <2>1. PICK c : c = send[p]
    OBVIOUS
  <2>2. /\ c \in Cipher
        /\ \E i \in 1 .. Len(used'[p]) : IsLength(p, LengthUnit(c, m), i)'
    BY <1>1, <1>g, <2>1, MessageUnits
  <2>3. Fragment.k = NoKey
    BY DEF Fragment
  <2>4. ASSUME NEW q \in Partial(c, m), NEW y \in 1 .. Len(q), q[y].k # NoKey
        PROVE  \E i \in 1 .. Len(used'[p]) : IsLength(p, q[y], i)'
    <3>1. q[y] = Fragment \/ q[y] = LengthUnit(c, m)
      BY <2>4 DEF Partial
    <3>. QED
      BY <2>2, <2>3, <2>4, <3>1
  <2>5. <<>> \in Partial(c, m)
    BY DEF Partial
  <2>6. PICK q \in Partial(c, m) : stream'[Peer(p)] = stream[Peer(p)] \o q
    <3>1. stream \in [End -> Seq(UnitSet)] /\ stream[Peer(p)] \o <<>> = stream[Peer(p)]
      BY Peers DEF TypeOK
    <3>2. CASE open[p] /\ ~shut[p]
      BY <2>1, <3>1, <3>2, Peers DEF WriteFails
    <3>3. CASE ~(open[p] /\ ~shut[p])
      BY <2>5, <3>1, <3>3 DEF WriteFails
    <3>. QED
      BY <3>2, <3>3
  <2>7. q \in Seq(UnitSet)
    BY <2>2, PartialType
  <2>. QED
    BY <1>1, <1>g, <2>4, <2>6, <2>7, WriteOnWire
<1>. QED
  BY <1>3, <1>4, <1>5, <1>6 DEF Flow

\* A message written whole is one more of the f, unless one has failed.
LEMMA WriteMessageFlow ==
  ASSUME TypeOK, NEW p \in End, NEW f \in Nat, Flow(p, f), NEW m \in Msgs,
         WriteMessage(p, m)
  PROVE  \E g \in Nat : Flow(p, g)'
<1>1. /\ used'[p] = used[p] \o Pairs(send[p]) /\ send'[p] = maybeRekeySend(Bump(Bump(send[p])))
      /\ sent'[p] = Append(sent[p], m)
      /\ sent'[p] \in {sent[p], Append(sent[p], m)}
  BY DEF WriteMessage, TypeOK
<1>2. /\ got'[Peer(p)] = got[Peer(p)] /\ recv'[Peer(p)] = recv[Peer(p)]
      /\ bodyLen'[Peer(p)] = bodyLen[Peer(p)] /\ open'[Peer(p)] = open[Peer(p)]
      /\ stopped'[Peer(p)] = stopped[Peer(p)]
  BY DEF WriteMessage
<1>s. Steady' => Steady
  <2>1. faults \in Nat /\ faults' \in {faults, faults + 1}
    BY DEF WriteMessage, TypeOK
  <2>. QED
    BY <2>1 DEF Steady
<1>3. PICK a \in f .. Len(used[p]) : Len(used[p]) = 2 * a /\ (a = f => f = Len(sent[p]))
  BY DEF Flow, Sender
<1>4. PICK g \in {f, f + 1} :
        /\ IF Len(used[p]) = 2 * f THEN g = f + 1 ELSE g = f
        /\ g = f + 1 => Len(used[p]) = 2 * f
  OBVIOUS
<1>5. Receiver(Peer(p), g)'
  BY <1>1, <1>2, <1>s, <1>4, WriteReceives
<1>6. /\ Chained(p, g)'
      /\ Len(used'[p]) = Len(used[p]) + 2 /\ Len(used[p]) \in Nat
      /\ used'[p][Len(used[p]) + 2] = Pair(Bump(send[p]))
  BY <1>1, <1>4, WriteChains DEF Flow
<1>7. send[p] \in Cipher /\ send[p].ck = send[p].k.turn /\ sent[p] \in Seq(Msgs)
  BY DEF TypeOK, Flow, Sender
<1>8. f \in 0 .. Len(sent[p])
  BY DEF Flow, Sender
<1>9. /\ Len(sent'[p]) = Len(sent[p]) + 1 /\ Len(sent[p]) \in Nat
      /\ sent'[p][Len(sent[p]) + 1] = m
  BY <1>1, <1>7
<1>10. Sender(p, g)'
  <2>1. /\ a + 1 \in g .. Len(used'[p]) /\ Len(used'[p]) = 2 * (a + 1)
        /\ a + 1 = g => a = f
        /\ g \in 0 .. Len(sent'[p])
    BY <1>3, <1>4, <1>6, <1>8, <1>9
  <2>2. a + 1 = g => g = Len(sent'[p])
    BY <1>3, <1>9, <2>1
  <2>3. send'[p].ck = send'[p].k.turn
    BY <1>1, <1>7, CipherStep, TurnsCounted
  <2>4. Len(used'[p]) = 2 * g => send'[p] = After(used'[p][2 * g])
    <3>1. After(Pair(Bump(send[p]))) = maybeRekeySend(Bump(Bump(send[p])))
      BY <1>7, PairsSpent DEF TypeOK
    <3>2. Len(used'[p]) = 2 * g => used'[p][2 * g] = Pair(Bump(send[p]))
      BY <1>6
    <3>. QED
      BY <1>1, <3>1, <3>2
  <2>. QED
    BY <2>1, <2>2, <2>3, <2>4 DEF Sender
<1>11. OnWire(p, g)'
  <2>1. PICK c : c = send[p]
    OBVIOUS
  <2>2. PICK l, b : l = LengthUnit(c, m) /\ b = BodyUnit(c, m)
    OBVIOUS
  <2>3. Len(used[p]) = 2 * f => sent'[p][f + 1] = m
    BY <1>3, <1>9
  <2>4. /\ \E i \in 1 .. Len(used'[p]) : IsLength(p, l, i)'
        /\ \E i \in 1 .. Len(used'[p]) : IsBody(p, g, b, i)'
    BY <1>1, <1>4, <2>1, <2>2, <2>3, MessageUnits
  <2>5. l \in UnitSet /\ b \in UnitSet
    BY <1>7, <2>1, <2>2, UnitType
  <2>6. PICK q \in Seq(UnitSet) : q = <<l, b>>
    <3>1. \A S : \A x, y \in S : <<x, y>> \in Seq(S)
      OBVIOUS
    <3>. QED
      BY <2>5, <3>1
  <2>7. ASSUME NEW y \in 1 .. Len(q)
        PROVE  \E i \in 1 .. Len(used'[p]) : IsLength(p, q[y], i)' \/ IsBody(p, g, q[y], i)'
    <3>1. q[y] = l \/ q[y] = b
      BY <2>6
    <3>. QED
      BY <2>4, <3>1
  <2>8. stream'[Peer(p)] = stream[Peer(p)] \o q
    BY <2>1, <2>2, <2>6, Peers DEF WriteMessage, TypeOK
  <2>. QED
    BY <1>1, <1>4, <2>7, <2>8, WriteOnWire
<1>. QED
  BY <1>5, <1>6, <1>10, <1>11 DEF Flow

\* A ciphertext that opens is the one after those that the reader has consumed:
\* no other carries its pair.
LEMMA OpensNext ==
  ASSUME NonceInv, NEW p \in End, NEW f \in Nat, Flow(p, f), Steady,
         NEW e \in End, e = Peer(p), Peer(e) = p, Authentic(e)
  PROVE  /\ Consumed(e) \in Nat /\ Consumed(e) < Len(used[p])
         /\ Consumed(e) <= 2 * f + 1
         /\ recv[e] = Whole(used[p][Consumed(e) + 1])
         /\ \E i \in 1 .. Len(used[p]) :
              \/ IsLength(p, NextUnit(e), i) /\ Consumed(e) + 1 = 2 * i - 1
              \/ IsBody(p, f, NextUnit(e), i) /\ Consumed(e) + 1 = 2 * i
<1>. DEFINE u == used[p]
            w == NextUnit(e)
            q == Consumed(e)
<1>1. /\ u \in Seq([k : Key, n : Nat]) /\ Len(u) \in Nat
      /\ recv[e] \in Cipher /\ send[p] \in Cipher
      /\ q \in Nat
  <2>1. TypeOK /\ q \in Nat
    BY ConsumedType DEF NonceInv
  <2>2. u \in Seq([k : Key, n : Nat]) /\ recv[e] \in Cipher /\ send[p] \in Cipher
    BY <2>1 DEF TypeOK
  <2>. QED
    BY <2>1, <2>2
<1>2. /\ open[e] /\ ~stopped[e]
      /\ pos[e] + 1 \in 1 .. Len(stream[e]) /\ w = stream[e][pos[e] + 1]
      /\ w.k = recv[e].k /\ w.n = recv[e].n
  <2>1. /\ open[e] /\ ~stopped[e] /\ pos[e] < Len(stream[e])
        /\ w.k = recv[e].k /\ w.n = recv[e].n
    BY DEF Authentic, Reading, AtConn, Decrypts
  <2>2. pos[e] \in Nat /\ stream[e] \in Seq(UnitSet)
    BY DEF NonceInv, TypeOK
  <2>3. pos[e] + 1 \in 1 .. Len(stream[e])
    BY <2>1, <2>2
  <2>. QED
    BY <2>1, <2>3 DEF NextUnit
<1>3. w.k # NoKey
  BY <1>1, <1>2 DEF Cipher, Key, NoKey
<1>4. PICK i \in 1 .. Len(u) : IsLength(p, w, i) \/ IsBody(p, f, w, i)
  BY <1>2, <1>3 DEF Flow, OnWire
<1>5. PICK j \in 1 .. Len(u) :
        /\ Pair(w) = u[j]
        /\ \/ IsLength(p, w, i) /\ j = 2 * i - 1
           \/ IsBody(p, f, w, i) /\ j = 2 * i
  <2>1. CASE IsLength(p, w, i)
    <3>1. 2 * i <= Len(u) /\ Pair(w) = u[2 * i - 1]
      BY <2>1 DEF IsLength
    <3>. HIDE DEF u, w, q
    <3>2. PICK j \in 1 .. Len(u) : j = 2 * i - 1
      BY <1>1, <3>1
    <3>. QED
      BY <2>1, <3>1, <3>2
  <2>2. CASE IsBody(p, f, w, i)
    <3>1. 2 * i <= Len(u) /\ Pair(w) = u[2 * i]
      BY <2>2 DEF IsBody
    <3>. HIDE DEF u, w, q
    <3>2. PICK j \in 1 .. Len(u) : j = 2 * i
      BY <1>1, <3>1
    <3>. QED
      BY <2>2, <3>1, <3>2
  <2>. QED
    BY <1>4, <2>1, <2>2
<1>6. /\ q <= 2 * f + 1 /\ q <= Len(u)
      /\ IF q < Len(u) THEN recv[e] = Whole(u[q + 1]) ELSE recv[e] = send[p]
  BY <1>2 DEF Flow, Receiver
<1>7. u[j] = Pair(recv[e])
  BY <1>2, <1>5 DEF Pair
<1>8. CASE q = Len(u)
  <2>1. u[j].k = send[p].k /\ u[j].n = send[p].n
    BY <1>6, <1>7, <1>8 DEF Pair
  <2>2. Spent(u[j], send[p])
    BY <1>1 DEF NonceInv, Behind
  <2>3. send[p].k.turn \in Nat /\ send[p].n \in Nat
    BY <1>1 DEF Cipher, Key
  <2>4. FALSE
    BY <2>1, <2>2, <2>3 DEF Spent
  <2>. QED
    BY <2>4
<1>9. CASE q < Len(u)
  <2>1. q + 1 \in 1 .. Len(u) /\ recv[e] = Whole(u[q + 1])
    BY <1>1, <1>6, <1>9
  <2>2. u[q + 1] \in [k : Key, n : Nat]
    <3>1. \A S : \A s \in Seq(S) : \A x \in 1 .. Len(s) : s[x] \in S
      OBVIOUS
    <3>. QED
      BY <1>1, <2>1, <3>1, Zenon
  <2>3. Pair(Whole(u[q + 1])) = u[q + 1]
    BY <2>2 DEF Pair, Whole
  <2>4. u[q + 1] = u[j]
    BY <1>7, <2>1, <2>3
  <2>5. \A x, y \in DOMAIN u : u[x] = u[y] => x = y
    BY DEF NonceInv, Distinct
  <2>6. q + 1 = j
    BY <1>1, <2>1, <2>4, <2>5
  <2>. QED
    BY <1>1, <1>5, <1>6, <1>9, <2>1, <2>6
<1>. QED
  BY <1>1, <1>6, <1>8, <1>9

\* A Read leaves alone what its peer wrote.
LEMMA ReadKeepsSender ==
  ASSUME NEW p \in End, NEW f \in Nat, Flow(p, f),
         send' = send, used' = used, sent' = sent, stream' = stream
  PROVE  Sender(p, f)' /\ Chained(p, f)' /\ OnWire(p, f)'
<1>1. Sender(p, f)'
  BY DEF Flow, Sender
<1>2. Chained(p, f)'
  BY DEF Flow, Chained
<1>3. OnWire(p, f)'
  BY DEF Flow, OnWire, IsLength, IsBody
<1>. QED
  BY <1>1, <1>2, <1>3

\* A length read takes the receiver to the pair of its body.
LEMMA ReadLengthFlow ==
  ASSUME NonceInv, NEW p \in End, NEW f \in Nat, Flow(p, f),
         NEW e \in End, e = Peer(p), Peer(e) = p, ReadLength(e)
  PROVE  Flow(p, f)'
<1>1. Sender(p, f)' /\ Chained(p, f)' /\ OnWire(p, f)'
  BY ReadKeepsSender DEF ReadLength
<1>2. /\ recv'[e] = Bump(recv[e]) /\ bodyLen[e] = None /\ bodyLen'[e] # None
      /\ got' = got /\ open' = open /\ stopped' = stopped /\ faults' = faults
      /\ used' = used /\ sent' = sent
  BY DEF ReadLength, NonceInv, TypeOK, None
<1>3. /\ Len(got[e]) \in Nat /\ Consumed(e) = 2 * Len(got[e])
      /\ Consumed(e)' = Consumed(e) + 1
  <2>1. Len(got[e]) \in Nat /\ Consumed(e) = 2 * Len(got[e])
    BY <1>2, ConsumedType DEF NonceInv
  <2>2. Consumed(e)' = 2 * Len(got[e]) + 1
    BY <1>2, Zenon DEF Consumed
  <2>. QED
    BY <2>1, <2>2
<1>4. ASSUME Steady, open[e], ~stopped[e]
      PROVE  /\ Consumed(e) + 1 <= 2 * f + 1 /\ Consumed(e) + 1 < Len(used[p])
             /\ Bump(recv[e]) = Whole(used[p][Consumed(e) + 2])
  <2>1. /\ Consumed(e) <= 2 * f + 1
        /\ recv[e] = Whole(used[p][Consumed(e) + 1])
        /\ \E i \in 1 .. Len(used[p]) :
             \/ IsLength(p, NextUnit(e), i) /\ Consumed(e) + 1 = 2 * i - 1
             \/ IsBody(p, f, NextUnit(e), i) /\ Consumed(e) + 1 = 2 * i
    BY <1>4, OpensNext DEF ReadLength
  <2>2. PICK i \in 1 .. Len(used[p]) :
          IsLength(p, NextUnit(e), i) /\ Consumed(e) + 1 = 2 * i - 1
    <3>1. ASSUME NEW i \in 1 .. Len(used[p]) PROVE Consumed(e) + 1 # 2 * i
      <4>1. PICK l \in Nat : Consumed(e) = 2 * l
        BY <1>3
      <4>2. i \in Int
        OBVIOUS
      <4>. QED
        BY <4>1, <4>2
    <3>. QED
      BY <2>1, <3>1
  <2>3. 2 * i <= Len(used[p]) /\ Len(used[p]) \in Nat
    BY <2>2 DEF IsLength, NonceInv, TypeOK
  <2>4. Whole(used[p][2 * i]) = Bump(Whole(used[p][2 * i - 1]))
    BY <2>3 DEF Flow, Chained
  <2>5. Consumed(e) + 1 = 2 * i - 1 /\ Consumed(e) + 2 = 2 * i
    BY <1>3, <2>2
  <2>6. Consumed(e) + 1 < Len(used[p])
    BY <1>3, <2>3, <2>5
  <2>7. Consumed(e) + 1 <= 2 * f + 1
    BY <1>3, <2>1, <2>5
  <2>8. Bump(recv[e]) = Whole(used[p][Consumed(e) + 2])
    BY <2>1, <2>4, <2>5
  <2>. QED
    BY <2>6, <2>7, <2>8
<1>5. Receiver(e, f)'
  <2>1. Receiver(e, f) /\ Steady' = Steady
    BY <1>2 DEF Flow, Steady
  <2>. QED
    BY <1>2, <1>3, <1>4, <2>1 DEF Receiver
<1>. QED
  BY <1>1, <1>5 DEF Flow

\* A body read is that of the next message written, and takes the receiver to
\* where the sender was after it, with a new key or the same.
LEMMA ReadBodyFlow ==
  ASSUME NonceInv, NEW p \in End, NEW f \in Nat, Flow(p, f),
         NEW e \in End, e = Peer(p), Peer(e) = p, ReadBody(e)
  PROVE  Flow(p, f)'
<1>1. Sender(p, f)' /\ Chained(p, f)' /\ OnWire(p, f)'
  BY ReadKeepsSender DEF ReadBody
<1>2. /\ recv'[e] = maybeRekeyRecv(Bump(recv[e]))
      /\ bodyLen[e] # None /\ bodyLen'[e] = None
      /\ got'[e] = Append(got[e], NextUnit(e).plain)
      /\ open' = open /\ stopped' = stopped /\ faults' = faults
      /\ used' = used /\ sent' = sent /\ send' = send
  BY DEF ReadBody, NonceInv, TypeOK
<1>g. got[e] \in Seq(Plain) /\ NextUnit(e).plain \in Plain
  <2>1. Reading(e)
    BY DEF ReadBody, Authentic
  <2>2. NextUnit(e) \in UnitSet
    BY <2>1, ReadingType DEF NonceInv
  <2>. QED
    BY <2>2 DEF NonceInv, TypeOK, UnitSet
<1>3. /\ Len(got[e]) \in Nat /\ Consumed(e) = 2 * Len(got[e]) + 1
      /\ Len(got'[e]) = Len(got[e]) + 1
      /\ \A i \in 1 .. Len(got[e]) : got'[e][i] = got[e][i]
      /\ got'[e][Len(got[e]) + 1] = NextUnit(e).plain
      /\ Consumed(e)' = Consumed(e) + 1
  <2>1. Len(got[e]) \in Nat /\ Consumed(e) = 2 * Len(got[e]) + 1
    BY <1>2, ConsumedType DEF NonceInv
  <2>2. /\ Len(got'[e]) = Len(got[e]) + 1
        /\ \A i \in 1 .. Len(got[e]) : got'[e][i] = got[e][i]
        /\ got'[e][Len(got[e]) + 1] = NextUnit(e).plain
    BY <1>2, <1>g
  <2>3. Consumed(e)' = 2 * (Len(got[e]) + 1) + 0
    BY <1>2, <2>2, Zenon DEF Consumed
  <2>. QED
    BY <2>1, <2>2, <2>3
<1>. DEFINE q == Consumed(e)
            u == used[p]
            l == Len(got[e])
<1>4. ASSUME Steady, open[e], ~stopped[e]
      PROVE  /\ l + 1 <= f /\ NextUnit(e).plain = [msg |-> sent[p][l + 1]]
             /\ q + 1 <= 2 * f + 1 /\ q + 1 <= Len(u)
             /\ IF q + 1 < Len(u) THEN recv'[e] = Whole(u[q + 2])
                                  ELSE recv'[e] = send[p]
  <2>1. /\ q <= 2 * f + 1 /\ recv[e] = Whole(u[q + 1])
        /\ \E i \in 1 .. Len(u) :
             \/ IsLength(p, NextUnit(e), i) /\ q + 1 = 2 * i - 1
             \/ IsBody(p, f, NextUnit(e), i) /\ q + 1 = 2 * i
    BY <1>4, OpensNext DEF ReadBody
  <2>2. PICK i \in 1 .. Len(u) : IsBody(p, f, NextUnit(e), i) /\ q + 1 = 2 * i
    BY <1>3, <2>1
  <2>3. /\ 2 * i <= Len(u) /\ Len(u) \in Nat
        /\ i # f + 1
        /\ i <= f => NextUnit(e).plain = [msg |-> sent[p][i]]
    BY <2>2 DEF IsBody, NonceInv, TypeOK
  <2>4. i = l + 1 /\ i <= f
    BY <1>3, <2>1, <2>2, <2>3
  <2>5. recv'[e] = After(u[2 * i])
    BY <1>2, <2>1, <2>2 DEF After, maybeRekeySend, maybeRekeyRecv
  <2>6. 2 * i + 1 <= Len(u) => Whole(u[2 * i + 1]) = After(u[2 * i])
    BY <2>4 DEF Flow, Chained
  <2>7. PICK a \in f .. Len(u) : Len(u) = 2 * a
    BY DEF Flow, Sender
  <2>8. Len(u) = 2 * f => send[p] = After(u[2 * f])
    BY <2>4 DEF Flow, Sender
  <2>9. CASE q + 1 < Len(u)
    <3>1. q + 2 = 2 * i + 1 /\ 2 * i + 1 <= Len(u)
      BY <1>3, <2>2, <2>3, <2>9
    <3>2. recv'[e] = Whole(u[q + 2])
      BY <2>5, <2>6, <3>1
    <3>. QED
      BY <1>3, <2>2, <2>3, <2>4, <2>9, <3>2
  <2>10. CASE q + 1 = Len(u)
    <3>1. i = f /\ Len(u) = 2 * f
      BY <2>2, <2>4, <2>7, <2>10
    <3>2. recv'[e] = send[p]
      BY <2>5, <2>8, <3>1
    <3>3. ~(q + 1 < Len(u)) /\ q + 1 <= Len(u) /\ q + 1 <= 2 * f + 1
      BY <1>3, <2>2, <2>3, <2>4, <2>10
    <3>. QED
      BY <2>3, <2>4, <3>2, <3>3
  <2>11. q + 1 < Len(u) \/ q + 1 = Len(u)
    <3>1. q \in Nat /\ i \in Nat
      BY <1>3
    <3>. QED
      BY <2>2, <2>3, <3>1
  <2>. QED
    BY <2>9, <2>10, <2>11
<1>5. Receiver(e, f)'
  <2>1. Receiver(e, f) /\ Steady' = Steady
    BY <1>2 DEF Flow, Steady
  <2>2. ASSUME Steady
        PROVE  /\ Len(got'[e]) <= f
               /\ \A i \in 1 .. Len(got'[e]) : got'[e][i] = [msg |-> sent[p][i]]
    <3>1. open[e] /\ ~stopped[e]
      BY DEF ReadBody, Authentic, Reading, AtConn
    <3>2. \A i \in 1 .. l : got[e][i] = [msg |-> sent[p][i]]
      BY <2>1, <2>2 DEF Receiver
    <3>3. l + 1 <= f /\ got'[e][l + 1] = [msg |-> sent[p][l + 1]]
      BY <1>3, <1>4, <2>2, <3>1
    <3>4. l \in Nat /\ Len(got'[e]) = l + 1
      BY <1>3
    <3>5. ASSUME NEW i \in 1 .. l + 1
          PROVE  got'[e][i] = [msg |-> sent[p][i]]
      <4>1. CASE i \in 1 .. l
        BY <1>3, <3>2, <4>1
      <4>2. CASE i = l + 1
        BY <3>3, <4>2
      <4>. QED
        BY <3>4, <4>1, <4>2
    <3>. QED
      BY <3>3, <3>4, <3>5
  <2>3. ASSUME Steady, open[e], ~stopped[e]
        PROVE  /\ Consumed(e)' <= 2 * f + 1 /\ Consumed(e)' <= Len(u)
               /\ IF Consumed(e)' < Len(u) THEN recv'[e] = Whole(u[Consumed(e)' + 1])
                                           ELSE recv'[e] = send[p]
    <3>1. Consumed(e)' = q + 1 /\ Consumed(e)' + 1 = q + 2
      BY <1>3
    <3>. QED
      BY <1>4, <2>3, <3>1
  <2>. QED
    BY <1>2, <2>1, <2>2, <2>3 DEF Receiver
<1>. QED
  BY <1>1, <1>5 DEF Flow

\* After a failed authentication or a passed deadline no more is read, or a
\* passed deadline has already made this connection unsteady.
LEMMA ReadEndsFlow ==
  ASSUME NonceInv, NEW p \in End, NEW f \in Nat, Flow(p, f),
         NEW e \in End, e = Peer(p), Peer(e) = p, ReadFails(e) \/ ReadTimeout(e) \/ Alter(e)
  PROVE  Flow(p, f)'
<1>1. Sender(p, f)' /\ Chained(p, f)'
  <2>1. send' = send /\ used' = used /\ sent' = sent
    BY DEF ReadFails, ReadTimeout, Alter
  <2>. QED
    BY <2>1 DEF Flow, Sender, Chained
<1>2. \A x \in 1 .. Len(stream'[e]) :
        /\ x \in 1 .. Len(stream[e])
        /\ stream'[e][x] = stream[e][x] \/ stream'[e][x].k = NoKey
  <2>1. stream[e] \in Seq(UnitSet) /\ stream \in [End -> Seq(UnitSet)]
    BY DEF NonceInv, TypeOK
  <2>2. CASE stream' = stream
    BY <2>2
  <2>3. ASSUME NEW y \in 1 .. Len(stream[e]), NEW w \in UnitSet, w.k = NoKey,
               stream' = [stream EXCEPT ![e][y] = w]
        PROVE  \A x \in 1 .. Len(stream'[e]) :
                 /\ x \in 1 .. Len(stream[e])
                 /\ stream'[e][x] = stream[e][x] \/ stream'[e][x].k = NoKey
    BY <2>1, <2>3
  <2>4. CASE ReadTimeout(e)
    <3>1. CASE Reading(e) /\ stream' = [stream EXCEPT ![e][pos[e] + 1] = Fragment]
      <4>1. pos[e] + 1 \in 1 .. Len(stream[e])
        BY <2>1, <3>1 DEF Reading, NonceInv, TypeOK
      <4>2. Fragment.k = NoKey
        BY DEF Fragment
      <4>. QED
        BY <2>3, <3>1, <4>1, <4>2, FragmentType
    <3>. QED
      BY <2>2, <2>4, <3>1 DEF ReadTimeout
  <2>5. CASE Alter(e)
    <3>1. PICK y \in pos[e] + 1 .. Len(stream[e]) :
            stream' = [stream EXCEPT ![e][y].k = NoKey]
      BY <2>5 DEF Alter
    <3>2. y \in 1 .. Len(stream[e])
      BY <2>1 DEF NonceInv, TypeOK
    <3>3. stream[e][y] \in UnitSet
      BY <2>1, <3>2
    <3>4. PICK w \in UnitSet : w = [stream[e][y] EXCEPT !.k = NoKey]
      BY <3>3 DEF UnitSet
    <3>5. w.k = NoKey
      BY <3>3, <3>4 DEF UnitSet
    <3>6. stream' = [stream EXCEPT ![e][y] = w]
      BY <3>1, <3>4
    <3>. QED
      BY <2>3, <3>2, <3>5, <3>6
  <2>6. CASE ReadFails(e)
    BY <2>2, <2>6 DEF ReadFails
  <2>. QED
    BY <2>4, <2>5, <2>6
<1>3. OnWire(p, f)'
  <2>1. used' = used /\ sent' = sent
    BY DEF ReadFails, ReadTimeout, Alter
  <2>2. SUFFICES ASSUME NEW x \in 1 .. Len(stream'[e]), stream'[e][x].k # NoKey
                 PROVE  \E i \in 1 .. Len(used[p]) :
                          \/ IsLength(p, stream'[e][x], i)
                          \/ IsBody(p, f, stream'[e][x], i)
    BY <2>1 DEF OnWire, IsLength, IsBody
  <2>3. x \in 1 .. Len(stream[e]) /\ stream'[e][x] = stream[e][x]
    BY <1>2, <2>2
  <2>4. OnWire(p, f)
    BY DEF Flow
  <2>. QED
    BY <2>2, <2>3, <2>4 DEF OnWire
<1>4. Receiver(e, f)'
  <2>1. /\ got' = got /\ used' = used /\ sent' = sent /\ send' = send /\ recv' = recv
        /\ Receiver(e, f)
    BY DEF ReadFails, ReadTimeout, Alter, Flow
  <2>2. Steady' => Steady
    BY DEF ReadFails, ReadTimeout, Alter, Steady, NonceInv, TypeOK
  <2>3. CASE Alter(e)
    <3>1. Consumed(e)' = Consumed(e) /\ open' = open /\ stopped' = stopped
      BY <2>3 DEF Alter, Consumed
    <3>. QED
      BY <2>1, <2>2, <3>1 DEF Receiver
  <2>4. CASE ~Steady' \/ ~open'[e] \/ stopped'[e]
    BY <2>1, <2>2, <2>4 DEF Receiver
  <2>5. CASE ReadFails(e)
    BY <2>4, <2>5 DEF ReadFails, NonceInv, TypeOK
  <2>6. CASE ReadTimeout(e)
    <3>1. faults' # 0 /\ stopped'[e] = ~ReadAgain
      BY <2>6 DEF ReadTimeout, NonceInv, TypeOK
    <3>. QED
      BY <2>4, <3>1, BoundsAssumption DEF Steady
  <2>. QED
    BY <2>3, <2>5, <2>6
<1>. QED
  BY <1>1, <1>3, <1>4 DEF Flow

\* DeliveryInv is inductive.
LEMMA StepDelivery == DeliveryInv /\ [Next]_vars => DeliveryInv'
<1>. SUFFICES ASSUME DeliveryInv, [Next]_vars
              PROVE  DeliveryInv'
  OBVIOUS
<1>1. NonceInv' /\ TypeOK
  BY StepNonce DEF DeliveryInv, NonceInv
<1>2. SUFFICES ASSUME NEW p \in End, NEW f \in Nat, Flow(p, f)
               PROVE  \E g \in Nat : Flow(p, g)'
  BY <1>1 DEF DeliveryInv
<1>3. PICK e \in End : e = Peer(p) /\ Peer(e) = p /\ e # p
  BY Peers
<1>4. ASSUME NEW x \in End, NEW m \in Msgs, WriteMessage(x, m) \/ WriteFails(x, m)
      PROVE  \E g \in Nat : Flow(p, g)'
  <2>1. CASE x = p
    BY <1>1, <1>2, <1>4, <2>1, WriteMessageFlow, WriteFailsFlow
  <2>2. CASE x # p
    <3>1. Peer(x) # Peer(p) /\ Peer(p) \in End
      BY <2>2 DEF Peer
    <3>2. Steady' => Steady
      <4>1. faults \in Nat
        BY <1>1 DEF TypeOK
      <4>2. faults' = faults \/ faults' = faults + 1
        BY <1>4 DEF WriteMessage, WriteFails
      <4>. QED
        BY <4>1, <4>2 DEF Steady
    <3>3. /\ send'[p] = send[p] /\ used'[p] = used[p] /\ sent'[p] = sent[p]
          /\ stream'[Peer(p)] = stream[Peer(p)]
      BY <1>1, <1>4, <2>2, <3>1 DEF WriteMessage, WriteFails, TypeOK
    <3>4. /\ got' = got /\ recv' = recv /\ bodyLen' = bodyLen
          /\ open' = open /\ stopped' = stopped
      BY <1>4 DEF WriteMessage, WriteFails
    <3>. QED
      BY <1>2, <3>2, <3>3, <3>4, FlowUntouched
  <2>. QED
    BY <2>1, <2>2
<1>5. ASSUME NEW x \in End,
             ReadLength(x) \/ ReadBody(x) \/ ReadFails(x) \/ ReadTimeout(x) \/ Alter(x)
      PROVE  \E g \in Nat : Flow(p, g)'
  <2>1. CASE x = e
    <3>1. NonceInv
      BY DEF DeliveryInv
    <3>. QED
      BY <1>2, <1>3, <1>5, <2>1, <3>1, ReadLengthFlow, ReadBodyFlow, ReadEndsFlow
  <2>2. CASE x # e
    <3>1. Steady' => Steady
      BY <1>1, <1>5
         DEF Steady, ReadLength, ReadBody, ReadFails, ReadTimeout, Alter, TypeOK
    <3>2. /\ send' = send /\ used' = used /\ sent' = sent
          /\ stream'[e] = stream[e] /\ got'[e] = got[e] /\ recv'[e] = recv[e]
          /\ bodyLen'[e] = bodyLen[e] /\ open'[e] = open[e] /\ stopped'[e] = stopped[e]
      BY <1>1, <1>5, <2>2
         DEF ReadLength, ReadBody, ReadFails, ReadTimeout, Alter, TypeOK
    <3>. QED
      BY <1>2, <1>3, <3>1, <3>2, FlowUntouched
  <2>. QED
    BY <2>1, <2>2
<1>6. CASE UNCHANGED vars
  <2>1. Steady' => Steady
    BY <1>6 DEF vars, Steady
  <2>2. /\ send' = send /\ used' = used /\ sent' = sent /\ stream' = stream
        /\ got' = got /\ recv' = recv /\ bodyLen' = bodyLen
        /\ open' = open /\ stopped' = stopped
    BY <1>6 DEF vars
  <2>. QED
    BY <1>2, <2>1, <2>2, FlowUntouched
<1>7. ASSUME NEW x \in End, CloseWrite(x) \/ ReadBuffer(x) \/ ReadEnd(x)
      PROVE  \E g \in Nat : Flow(p, g)'
  <2>1. /\ send' = send /\ used' = used /\ sent' = sent /\ stream' = stream
        /\ got' = got /\ recv' = recv /\ bodyLen' = bodyLen
        /\ open' = open /\ stopped' = stopped /\ faults' = faults
    BY <1>7 DEF CloseWrite, ReadBuffer, ReadEnd
  <2>2. Steady' => Steady
    BY <2>1 DEF Steady
  <2>. QED
    BY <1>2, <2>1, <2>2, FlowUntouched
<1>. QED
  BY <1>4, <1>5, <1>6, <1>7 DEF Next

\* What the receiver of each direction has got is all that Delivery speaks of.
LEMMA DeliveryImplied == DeliveryInv /\ Steady => Delivery
<1>. SUFFICES ASSUME DeliveryInv, Steady, NEW e \in End
              PROVE  /\ Len(got[e]) <= Len(sent[Peer(e)])
                     /\ \A i \in DOMAIN got[e] : got[e][i] = [msg |-> sent[Peer(e)][i]]
  BY DEF Delivery
<1>1. PICK p \in End : p = Peer(e) /\ Peer(p) = e
  BY Peers
<1>2. PICK f \in Nat : Flow(p, f)
  BY DEF DeliveryInv
<1>3. /\ Len(got[e]) <= f
      /\ \A i \in 1 .. Len(got[e]) : got[e][i] = [msg |-> sent[p][i]]
  BY <1>1, <1>2 DEF Flow, Receiver
<1>4. f <= Len(sent[p]) /\ Len(sent[p]) \in Nat /\ Len(got[e]) \in Nat
  <2>1. sent[p] \in Seq(Msgs) /\ got[e] \in Seq(Plain)
    BY DEF DeliveryInv, NonceInv, TypeOK
  <2>2. f \in 0 .. Len(sent[p])
    BY <1>2 DEF Flow, Sender
  <2>. QED
    BY <2>1, <2>2
<1>5. DOMAIN got[e] = 1 .. Len(got[e])
  BY DEF DeliveryInv, NonceInv, TypeOK
<1>. QED
  BY <1>1, <1>3, <1>4, <1>5

\* Unless a Read that timed out half way is followed by another one: whatever
\* fails or is altered, and whenever the keys rotate, Read returns the bodies
\* that the peer's Write accepted, in order, and nothing else.
THEOREM BodiesDelivered ==
  ASSUME ~ReadAgain
  PROVE  Spec => []Delivery
<1>1. DeliveryInv => Delivery
  BY DeliveryImplied DEF Steady
<1>. QED
  BY <1>1, InitFlow, StepDelivery, PTL DEF Spec

-----------------------------------------------------------------------------
(* Without faults.                                                         *)

\* With nothing failed, a reader in step finds what it needs next on the wire.
LEMMA LockstepImplied == LockstepInv => Lockstep
<1>. SUFFICES ASSUME LockstepInv, faults = 0, NEW e \in End
              PROVE  /\ open[e]
                     /\ IF pos[e] < Len(stream[e])
                        THEN Aligned(e) /\ Decrypts(recv[e], NextUnit(e))
                        ELSE recv[e] = send[Peer(e)]
  BY DEF Lockstep
<1>1. PICK p \in End : p = Peer(e) /\ Peer(p) = e
  BY Peers
<1>2. PICK f \in Nat : Flow(p, f)
  BY DEF LockstepInv, DeliveryInv
<1>3. InStep(e)
  BY DEF LockstepInv
<1>. DEFINE u == used[p]
            q == Consumed(e)
            n == Len(sent[p])
            l == Len(got[e])
            s == stream[e]
<1>4. /\ open[e] /\ ~stopped[e] /\ Len(u) = 2 * n /\ Len(s) = 2 * n /\ pos[e] = q
  BY <1>1, <1>3 DEF InStep
<1>5. \A i \in 1 .. n :
        /\ Pair(s[2 * i - 1]) = u[2 * i - 1] /\ Pair(s[2 * i]) = u[2 * i]
        /\ s[2 * i - 1].size = 2 + macSize
        /\ s[2 * i].size = Size[sent[p][i]] + macSize
  BY <1>1, <1>3 DEF InStep
<1>6. bodyLen[e] # None => bodyLen[e].len = Size[sent[p][l + 1]]
  BY <1>1, <1>3 DEF InStep
<1>7. /\ q <= Len(u)
      /\ IF q < Len(u) THEN recv[e] = Whole(u[q + 1]) ELSE recv[e] = send[p]
  BY <1>1, <1>2, <1>4 DEF Flow, Receiver, Steady
<1>8. /\ l \in Nat /\ n \in Nat /\ q \in Nat
      /\ bodyLen[e] = None => q = 2 * l
      /\ bodyLen[e] # None => q = 2 * l + 1
  <2>1. TypeOK
    BY DEF LockstepInv, DeliveryInv, NonceInv
  <2>2. n \in Nat
    BY <2>1 DEF TypeOK
  <2>. QED
    BY <2>1, <2>2, ConsumedType
<1>9. ASSUME q < Len(s)
      PROVE  Aligned(e) /\ Decrypts(recv[e], NextUnit(e))
  <2>1. recv[e] = Whole(u[q + 1]) /\ NextUnit(e) = s[q + 1]
    BY <1>4, <1>7, <1>9 DEF NextUnit
  <2>2. l + 1 \in 1 .. n
    BY <1>4, <1>8, <1>9
  <2>3. Pair(s[q + 1]) = u[q + 1] /\ s[q + 1].size = Needed(e)
    <3>1. CASE bodyLen[e] = None
      <4>1. q + 1 = 2 * (l + 1) - 1
        BY <1>8, <3>1
      <4>. QED
        BY <1>5, <2>2, <3>1, <4>1 DEF Needed, macSize
    <3>2. CASE bodyLen[e] # None
      <4>1. q + 1 = 2 * (l + 1)
        BY <1>8, <3>2
      <4>2. sent[p][l + 1] \in Msgs
        BY <2>2 DEF LockstepInv, DeliveryInv, NonceInv, TypeOK
      <4>3. Size[sent[p][l + 1]] \in Nat
        BY <4>2, MsgsAssumption
      <4>4. s[q + 1].size = Size[sent[p][l + 1]] + macSize
        BY <1>5, <2>2, <4>1
      <4>5. Pair(s[q + 1]) = u[q + 1]
        BY <1>5, <2>2, <4>1
      <4>6. bodyLen[e].len = Size[sent[p][l + 1]]
        BY <1>6, <3>2
      <4>7. Needed(e) = macSize + Size[sent[p][l + 1]]
        BY <3>2, <4>6, Zenon DEF Needed
      <4>. QED
        BY <4>3, <4>4, <4>5, <4>7 DEF macSize
    <3>. QED
      BY <3>1, <3>2
  <2>4. recv[e].k = s[q + 1].k /\ recv[e].n = s[q + 1].n
    BY <2>1, <2>3 DEF Whole, Pair
  <2>. QED
    BY <2>1, <2>3, <2>4 DEF Aligned, Decrypts
<1>10. ~(q < Len(s)) => recv[e] = send[p]
  BY <1>4, <1>7
<1>. QED
  BY <1>1, <1>4, <1>9, <1>10

\* A message that is written whole, with nothing failed, goes to the end of the
\* wire with its pairs.
LEMMA WriteInStep ==
  ASSUME TypeOK, TypeOK', NEW e \in End, NEW p \in End, p = Peer(e), e = Peer(p),
         InStep(e), NEW f \in Nat, Flow(p, f), Steady, NEW m \in Msgs, WriteMessage(p, m)
  PROVE  InStep(e)'
<1>. DEFINE u == used[p]
            v == used'[p]
            s == stream[e]
            t == stream'[e]
            n == Len(sent[p])
<1>1. /\ v = u \o Pairs(send[p]) /\ sent'[p] = Append(sent[p], m)
      /\ t = s \o <<LengthUnit(send[p], m), BodyUnit(send[p], m)>>
      /\ got' = got /\ bodyLen' = bodyLen /\ pos' = pos
      /\ open' = open /\ stopped' = stopped
  BY DEF WriteMessage, TypeOK
<1>2. /\ open[e] /\ ~stopped[e] /\ Len(u) = 2 * n /\ Len(s) = 2 * n
      /\ pos[e] = Consumed(e)
      /\ \A i \in 1 .. n :
           /\ Pair(s[2 * i - 1]) = u[2 * i - 1] /\ Pair(s[2 * i]) = u[2 * i]
           /\ s[2 * i - 1].size = 2 + macSize
           /\ s[2 * i - 1].plain = [len |-> Size[sent[p][i]]]
           /\ s[2 * i].size = Size[sent[p][i]] + macSize
      /\ bodyLen[e] # None => bodyLen[e] = [len |-> Size[sent[p][Len(got[e]) + 1]]]
  <2>1. Peer(e) = p
    OBVIOUS
  <2>. QED
    BY <2>1 DEF InStep
<1>3. n \in Nat /\ sent[p] \in Seq(Msgs) /\ s \in Seq(UnitSet) /\ send[p] \in Cipher
  <2>1. sent[p] \in Seq(Msgs) /\ s \in Seq(UnitSet) /\ send[p] \in Cipher
    BY DEF TypeOK
  <2>2. n \in Nat
    BY <2>1
  <2>. QED
    BY <2>1, <2>2
<1>4. /\ Len(sent'[p]) = n + 1 /\ sent'[p][n + 1] = m
      /\ \A i \in 1 .. n : sent'[p][i] = sent[p][i]
  <2>1. /\ Len(Append(sent[p], m)) = n + 1 /\ Append(sent[p], m)[n + 1] = m
        /\ \A i \in 1 .. n : Append(sent[p], m)[i] = sent[p][i]
    BY <1>3
  <2>. QED
    BY <1>1, <2>1
<1>5. /\ Len(v) = 2 * n + 2
      /\ \A x \in 1 .. 2 * n : v[x] = u[x]
      /\ v[2 * n + 1] = Pair(send[p]) /\ v[2 * n + 2] = Pair(Bump(send[p]))
  <2>1. f \in {f, f + 1} /\ (f = f + 1 => Len(used[p]) = 2 * f)
    OBVIOUS
  <2>2. /\ Len(v) = Len(u) + 2
        /\ \A x \in 1 .. Len(u) : v[x] = u[x]
        /\ v[Len(u) + 1] = Pair(send[p]) /\ v[Len(u) + 2] = Pair(Bump(send[p]))
    BY <1>1, <2>1, WriteChains DEF Flow
  <2>3. Len(u) = 2 * n
    BY <1>2
  <2>. HIDE DEF u, v
  <2>. QED
    BY <2>2, <2>3
<1>6. PICK l \in UnitSet, b \in UnitSet :
        l = LengthUnit(send[p], m) /\ b = BodyUnit(send[p], m)
  BY <1>3, UnitType
<1>7. /\ Len(t) = 2 * n + 2
      /\ \A x \in 1 .. 2 * n : t[x] = s[x]
      /\ t[2 * n + 1] = l /\ t[2 * n + 2] = b
  <2>1. t = s \o <<l, b>> /\ Len(s) = 2 * n
    BY <1>1, <1>2, <1>6
  <2>. HIDE DEF s, t
  <2>. QED
    BY <1>3, <1>6, <2>1, AppendTwo
<1>8. /\ Pair(l) = Pair(send[p]) /\ Pair(b) = Pair(Bump(send[p]))
      /\ l.size = 2 + macSize /\ l.plain = [len |-> Size[m]]
      /\ b.size = Size[m] + macSize
  BY <1>6 DEF LengthUnit, BodyUnit, Unit, Pair
<1>n. /\ 2 * n + 2 = 2 * (n + 1)
      /\ \A i : i = n + 1 => 2 * i - 1 = 2 * n + 1 /\ 2 * i = 2 * n + 2
  <2>. HIDE DEF n
  <2>. QED
    BY <1>3
<1>9. ASSUME NEW i \in 1 .. n + 1
      PROVE  /\ Pair(t[2 * i - 1]) = v[2 * i - 1] /\ Pair(t[2 * i]) = v[2 * i]
             /\ t[2 * i - 1].size = 2 + macSize
             /\ t[2 * i - 1].plain = [len |-> Size[sent'[p][i]]]
             /\ t[2 * i].size = Size[sent'[p][i]] + macSize
  <2>. HIDE DEF s, t, u, v
  <2>1. CASE i \in 1 .. n
    <3>1. /\ 2 * i - 1 \in 1 .. 2 * n /\ 2 * i \in 1 .. 2 * n
      BY <1>3, <2>1
    <3>2. /\ t[2 * i - 1] = s[2 * i - 1] /\ t[2 * i] = s[2 * i]
          /\ v[2 * i - 1] = u[2 * i - 1] /\ v[2 * i] = u[2 * i]
          /\ sent'[p][i] = sent[p][i]
      BY <1>4, <1>5, <1>7, <2>1, <3>1
    <3>3. /\ Pair(s[2 * i - 1]) = u[2 * i - 1] /\ Pair(s[2 * i]) = u[2 * i]
          /\ s[2 * i - 1].size = 2 + macSize
          /\ s[2 * i - 1].plain = [len |-> Size[sent[p][i]]]
          /\ s[2 * i].size = Size[sent[p][i]] + macSize
      BY <1>2, <2>1, Zenon
    <3>4. /\ Pair(t[2 * i - 1]) = v[2 * i - 1] /\ Pair(t[2 * i]) = v[2 * i]
          /\ t[2 * i - 1].size = 2 + macSize
          /\ t[2 * i].size = Size[sent'[p][i]] + macSize
      BY <3>2, <3>3
    <3>5. t[2 * i - 1].plain = [len |-> Size[sent'[p][i]]]
      BY <3>2, <3>3
    <3>. QED
      BY <3>4, <3>5
  <2>2. CASE i = n + 1
    <3>1. 2 * i - 1 = 2 * n + 1 /\ 2 * i = 2 * n + 2
      BY <1>n, <2>2
    <3>2. /\ t[2 * i - 1] = l /\ t[2 * i] = b /\ sent'[p][i] = m
          /\ v[2 * i - 1] = Pair(send[p]) /\ v[2 * i] = Pair(Bump(send[p]))
      BY <1>4, <1>5, <1>7, <2>2, <3>1
    <3>. QED
      BY <1>8, <3>2, Zenon
  <2>3. i \in 1 .. n \/ i = n + 1
    BY <1>3
  <2>. QED
    BY <2>1, <2>2, <2>3, Zenon
<1>10. Consumed(e)' = Consumed(e)
  BY <1>1, Zenon DEF Consumed
<1>11. Len(v) = 2 * (n + 1) /\ Len(t) = 2 * (n + 1)
  BY <1>5, <1>7, <1>n
<1>12. bodyLen[e] # None => bodyLen[e] = [len |-> Size[sent'[p][Len(got[e]) + 1]]]
  <2>1. CASE bodyLen[e] = None
    BY <2>1
  <2>2. CASE bodyLen[e] # None
    <3>1. Len(got[e]) \in Nat /\ Consumed(e) = 2 * Len(got[e]) + 1
      BY <2>2, ConsumedType
    <3>2. Consumed(e) <= 2 * n
      BY <1>2 DEF Flow, Receiver
    <3>3. Len(got[e]) + 1 \in 1 .. n
      BY <1>3, <3>1, <3>2
    <3>. QED
      BY <1>2, <1>4, <2>2, <3>3
  <2>. QED
    BY <2>1, <2>2
<1>. QED
  BY <1>1, <1>2, <1>4, <1>9, <1>10, <1>11, <1>12 DEF InStep

\* A length or a body read, with nothing failed, leaves the reader in step.
LEMMA ReadInStep ==
  ASSUME TypeOK, NEW e \in End, InStep(e), ReadLength(e) \/ ReadBody(e)
  PROVE  InStep(e)'
<1>. DEFINE p == Peer(e)
            n == Len(sent[p])
            s == stream[e]
            l == Len(got[e])
<1>1. /\ p \in End /\ n \in Nat /\ l \in Nat /\ pos[e] = Consumed(e) /\ Len(s) = 2 * n
      /\ \A i \in 1 .. n : s[2 * i - 1].plain = [len |-> Size[sent[p][i]]]
  <2>1. p \in End
    BY Peers
  <2>2. sent[p] \in Seq(Msgs)
    BY <2>1 DEF TypeOK
  <2>3. n \in Nat
    BY <2>2
  <2>4. /\ pos[e] = Consumed(e) /\ Len(s) = 2 * n
        /\ \A i \in 1 .. n : s[2 * i - 1].plain = [len |-> Size[sent[p][i]]]
    BY DEF InStep
  <2>. QED
    BY <2>1, <2>3, <2>4, ConsumedType
<1>2. /\ used' = used /\ sent' = sent /\ stream' = stream
      /\ open' = open /\ stopped' = stopped /\ pos'[e] = pos[e] + 1
      /\ pos[e] < Len(s) /\ NextUnit(e) = s[pos[e] + 1]
  BY DEF ReadLength, ReadBody, Authentic, Reading, AtConn, NextUnit, TypeOK
<1>3. ASSUME Consumed(e)' = Consumed(e) + 1,
             bodyLen'[e] # None => bodyLen'[e] = [len |-> Size[sent[p][Len(got'[e]) + 1]]]
      PROVE  InStep(e)'
  BY <1>1, <1>2, <1>3 DEF InStep
<1>4. CASE ReadLength(e)
  <2>1. /\ bodyLen[e] = None /\ got' = got
        /\ bodyLen'[e] = [len |-> LengthOf(NextUnit(e).plain)]
    BY <1>4 DEF ReadLength, TypeOK
  <2>2. bodyLen'[e] # None
    BY <2>1 DEF None
  <2>3. Consumed(e) = 2 * l
    BY <2>1, ConsumedType
  <2>4. Consumed(e)' = 2 * l + 1
    BY <2>1, <2>2, Zenon DEF Consumed
  <2>5. l + 1 \in 1 .. n /\ pos[e] + 1 = 2 * (l + 1) - 1
    BY <1>1, <1>2, <2>3
  <2>6. NextUnit(e).plain = [len |-> Size[sent[p][l + 1]]]
    BY <1>1, <1>2, <2>5
  <2>7. LengthOf(NextUnit(e).plain) = Size[sent[p][l + 1]]
    BY <2>6 DEF LengthOf
  <2>. QED
    BY <1>3, <2>1, <2>3, <2>4, <2>7
<1>5. CASE ReadBody(e)
  <2>1. /\ bodyLen[e] # None /\ bodyLen'[e] = None
        /\ got'[e] = Append(got[e], NextUnit(e).plain)
    BY <1>5 DEF ReadBody, TypeOK
  <2>2. Len(got'[e]) = l + 1
    <3>1. got[e] \in Seq(Plain)
      BY DEF TypeOK
    <3>. QED
      BY <2>1, <3>1
  <2>3. Consumed(e) = 2 * l + 1
    BY <2>1, ConsumedType
  <2>4. Consumed(e)' = 2 * (l + 1) + 0
    BY <2>1, <2>2, Zenon DEF Consumed
  <2>. QED
    BY <1>1, <1>3, <2>1, <2>3, <2>4
<1>. QED
  BY <1>4, <1>5

\* LockstepInv is inductive: without faults a Read never fails.
LEMMA StepLockstep == LockstepInv /\ [Next]_vars => LockstepInv'
<1>. SUFFICES ASSUME LockstepInv, [Next]_vars
              PROVE  LockstepInv'
  OBVIOUS
<1>1. DeliveryInv /\ DeliveryInv' /\ TypeOK /\ TypeOK'
  <2>1. DeliveryInv /\ DeliveryInv'
    BY StepDelivery DEF LockstepInv
  <2>. QED
    BY <2>1 DEF DeliveryInv, NonceInv
<1>2. SUFFICES ASSUME faults' = 0, NEW e \in End
               PROVE  InStep(e)'
  BY <1>1 DEF LockstepInv
<1>3. faults = 0
  <2>1. faults \in Nat
    BY <1>1 DEF TypeOK
  <2>2. faults' = faults \/ faults' = faults + 1
    BY DEF Next, vars, WriteMessage, WriteFails, ReadLength, ReadBody, ReadFails,
           ReadTimeout, Alter, CloseWrite, ReadBuffer, ReadEnd
  <2>. QED
    BY <1>2, <2>1, <2>2
<1>4. /\ InStep(e) /\ Lockstep /\ Steady
      /\ \E p \in End : p = Peer(e) /\ e = Peer(p) /\ p # e
  BY <1>3, LockstepImplied, Peers DEF LockstepInv, Steady
<1>5. PICK p \in End : p = Peer(e) /\ e = Peer(p) /\ p # e
  BY <1>4
<1>6. ASSUME open'[e] = open[e], stopped'[e] = stopped[e], stream'[e] = stream[e],
             pos'[e] = pos[e], bodyLen'[e] = bodyLen[e], got'[e] = got[e],
             sent'[p] = sent[p], used'[p] = used[p]
      PROVE  InStep(e)'
  <2>1. Consumed(e)' = Consumed(e)
    BY <1>6, Zenon DEF Consumed
  <2>2. InStep(e) /\ Peer(e) = p
    BY <1>4, <1>5
  <2>3. /\ open'[e] /\ ~stopped'[e]
        /\ Len(used'[p]) = 2 * Len(sent'[p]) /\ Len(stream'[e]) = 2 * Len(sent'[p])
        /\ pos'[e] = Consumed(e)'
    BY <1>6, <2>1, <2>2 DEF InStep
  <2>4. ASSUME NEW i \in 1 .. Len(sent'[p])
        PROVE  /\ Pair(stream'[e][2 * i - 1]) = used'[p][2 * i - 1]
               /\ Pair(stream'[e][2 * i]) = used'[p][2 * i]
               /\ stream'[e][2 * i - 1].size = 2 + macSize
               /\ stream'[e][2 * i - 1].plain = [len |-> Size[sent'[p][i]]]
               /\ stream'[e][2 * i].size = Size[sent'[p][i]] + macSize
    <3>1. /\ Pair(stream[e][2 * i - 1]) = used[p][2 * i - 1]
          /\ Pair(stream[e][2 * i]) = used[p][2 * i]
          /\ stream[e][2 * i - 1].size = 2 + macSize
          /\ stream[e][2 * i - 1].plain = [len |-> Size[sent[p][i]]]
          /\ stream[e][2 * i].size = Size[sent[p][i]] + macSize
      BY <1>6, <2>2 DEF InStep
    <3>. QED
      BY <1>6, <3>1
  <2>5. bodyLen'[e] # None => bodyLen'[e] = [len |-> Size[sent'[p][Len(got'[e]) + 1]]]
    BY <1>6, <2>2 DEF InStep
  <2>. QED
    BY <2>2, <2>3, <2>4, <2>5 DEF InStep, Pair
<1>7. ASSUME NEW x \in End, NEW m \in Msgs, WriteMessage(x, m)
      PROVE  InStep(e)'
  <2>1. CASE x = p
    <3>1. PICK f \in Nat : Flow(p, f)
      BY <1>1 DEF DeliveryInv
    <3>. QED
      BY <1>1, <1>4, <1>5, <1>7, <2>1, <3>1, WriteInStep
  <2>2. CASE x # p
    <3>1. Peer(x) # e
      BY <1>5, <2>2 DEF Peer
    <3>. QED
      BY <1>1, <1>6, <1>7, <2>2, <3>1 DEF WriteMessage, TypeOK
  <2>. QED
    BY <2>1, <2>2
<1>8. ASSUME NEW x \in End, ReadLength(x) \/ ReadBody(x) \/ ReadFails(x)
      PROVE  InStep(e)'
  <2>1. CASE x = e
    <3>1. ~ReadFails(e)
      BY <1>3, <1>4 DEF Lockstep, ReadFails, Authentic, Reading
    <3>. QED
      BY <1>1, <1>4, <1>8, <2>1, <3>1, ReadInStep
  <2>2. CASE x # e
    BY <1>1, <1>6, <1>8, <2>2 DEF ReadLength, ReadBody, ReadFails, TypeOK
  <2>. QED
    BY <2>1, <2>2
<1>9. ASSUME NEW x \in End, NEW m \in Msgs, WriteFails(x, m)
      PROVE  FALSE
  BY <1>2, <1>3, <1>9 DEF WriteFails
<1>10. ASSUME NEW x \in End, ReadTimeout(x) \/ Alter(x)
       PROVE  FALSE
  BY <1>2, <1>3, <1>10 DEF ReadTimeout, Alter
<1>11. CASE UNCHANGED vars
  BY <1>6, <1>11 DEF vars
<1>12. ASSUME NEW x \in End, CloseWrite(x) \/ ReadBuffer(x) \/ ReadEnd(x)
       PROVE  InStep(e)'
  BY <1>6, <1>12 DEF CloseWrite, ReadBuffer, ReadEnd
<1>. QED
  BY <1>7, <1>8, <1>9, <1>10, <1>11, <1>12 DEF Next

\* As long as nothing fails -- whatever the lengths of the messages and the rekey
\* interval -- the next ciphertext on the wire opens, and both ends hold the same
\* key, chaining key and nonce when there is none.
THEOREM RotateTogether == Spec => []Lockstep
<1>1. Init => LockstepInv
  BY InitFlow DEF LockstepInv
<1>. QED
  BY <1>1, StepLockstep, LockstepImplied, PTL DEF Spec

-----------------------------------------------------------------------------
(* Each step is one of a stream of whole messages, or none.                *)

\* What Read returns is the next of the messages sent, and no other.
LEMMA ReadBodyDelivers ==
  ASSUME TypeOK, Delivery', NEW e \in End, ReadBody(e)
  PROVE  Messages!Deliver(e)
<1>1. PICK x : x = NextUnit(e).plain
  OBVIOUS
<1>2. /\ open[e] /\ ~stopped[e] /\ ~eof[e]
      /\ got' = [got EXCEPT ![e] = Append(got[e], x)]
      /\ UNCHANGED <<open, stopped, eof, shut, sent, faults>>
  BY <1>1 DEF ReadBody, Authentic, Reading, AtConn
<1>3. PICK n \in Nat : n = Len(got[e])
  BY DEF TypeOK
<1>4. got'[e] = Append(got[e], x) /\ Len(got'[e]) = n + 1 /\ got'[e][n + 1] = x
  <2>1. got[e] \in Seq(Plain) /\ DOMAIN got = End
    BY DEF TypeOK
  <2>2. got'[e] = Append(got[e], x)
    BY <1>2, <2>1
  <2>. QED
    BY <1>3, <2>1, <2>2
<1>5. n + 1 \in DOMAIN got'[e]
  BY <1>3, <1>4 DEF TypeOK
<1>6. /\ n + 1 <= Len(sent[Peer(e)])
      /\ x = [msg |-> sent[Peer(e)][n + 1]]
  BY <1>2, <1>4, <1>5 DEF Delivery
<1>7. Len(sent[Peer(e)]) \in Nat
  BY Peers DEF TypeOK
<1>8. /\ n < Len(sent[Peer(e)])
      /\ got' = [got EXCEPT ![e] = Append(got[e], [msg |-> sent[Peer(e)][n + 1]])]
  BY <1>2, <1>3, <1>6, <1>7
<1>9. Messages!Peer(e) = Peer(e)
  BY DEF Messages!Peer, Peer
<1>10. [t \in End |-> State(t)][e] = "up"
  BY <1>2 DEF State
<1>11. UNCHANGED [t \in End |-> State(t)] /\ UNCHANGED (faults > 0)
  BY <1>2 DEF State
<1>. QED
  BY <1>2, <1>3, <1>8, <1>9, <1>10, <1>11 DEF Messages!Deliver, Messages!Body

\* Without a fault the stream ends because the peer has ended it, and behind the
\* last of its messages.
LEMMA EndBehindAll ==
  ASSUME LockstepInv, Lockstep, faults = 0, NEW e \in End, ReadEnd(e)
  PROVE  shut[Peer(e)] /\ Len(got[e]) = Len(sent[Peer(e)])
<1>1. TypeOK /\ InStep(e) /\ Peer(e) \in End
  BY Peers DEF LockstepInv, DeliveryInv, NonceInv
<1>2. shut[Peer(e)]
  BY <1>1 DEF ReadEnd, Lockstep
<1>3. pos[e] = Len(stream[e])
  <2>1. ASSUME pos[e] + 1 = Len(stream[e]) PROVE NextUnit(e).size = Needed(e)
    <3>1. pos[e] \in Nat BY <1>1 DEF TypeOK
    <3>2. pos[e] < Len(stream[e]) BY <2>1, <3>1
    <3> QED BY <3>2 DEF Lockstep, Aligned
  <2>2. Needed(e) \in Nat
    <3>1. bodyLen[e] = None \/ bodyLen[e] \in [len : Nat] BY <1>1 DEF TypeOK
    <3> QED BY <3>1 DEF Needed, macSize
  <2>3. ~(NextUnit(e).size < Needed(e)) \/ NextUnit(e).size # Needed(e)
    BY <2>2
  <2> QED BY <2>1, <2>3 DEF ReadEnd
<1>4. Consumed(e) = 2 * Len(sent[Peer(e)])
  BY <1>1, <1>3 DEF InStep
<1>5. /\ Len(got[e]) \in Nat
      /\ Consumed(e) = 2 * Len(got[e]) \/ Consumed(e) = 2 * Len(got[e]) + 1
  BY <1>1, ConsumedType
<1>6. Len(sent[Peer(e)]) \in Nat
  BY <1>1 DEF TypeOK
<1> QED BY <1>2, <1>4, <1>5, <1>6

\* A Read is refused only after a fault: without one both ends are in step.
LEMMA ReadFailsLate ==
  ASSUME TypeOK, Lockstep, NEW e \in End, ReadFails(e)
  PROVE  faults > 0
<1>1. ~Authentic(e) /\ Reading(e)
  BY DEF ReadFails
<1>2. faults # 0
  BY <1>1 DEF Lockstep, Authentic, Reading
<1>. QED
  BY <1>2, BoundsAssumption DEF TypeOK

LEMMA StepIsMessages ==
  ASSUME ~ReadAgain, TypeOK, Delivery', LockstepInv, Lockstep, [Next]_vars
  PROVE  [Messages!Next]_(Messages!vars)
<1>0. faults \in Nat /\ Messages!End = End
  BY BoundsAssumption DEF TypeOK, Messages!End, End
<1>1. ASSUME UNCHANGED <<open, stopped, eof, shut, sent, got, faults>>
      PROVE  UNCHANGED Messages!vars
  BY <1>1 DEF Messages!vars, State
<1>2. ASSUME faults' = faults + 1, UNCHANGED <<open, stopped, eof, shut, sent, got>>
      PROVE  Messages!Disturb
  <2>1. faults' > 0
    BY <1>0, <1>2
  <2>2. UNCHANGED [t \in End |-> State(t)]
    BY <1>2 DEF State
  <2>. QED
    BY <1>2, <2>1, <2>2 DEF Messages!Disturb
<1>3. ASSUME NEW e \in End, NEW v \in {"deaf", "closed"}, State(e) = "up",
             State(e)' = v, \A t \in End \ {e} : State(t)' = State(t),
             faults' > 0, v = "closed" => faults > 0, UNCHANGED <<shut, sent, got>>
      PROVE  Messages!Fail(e)
  <2>1. [t \in End |-> State(t)][e] = "up"
    BY <1>3
  <2>2. [t \in End |-> State(t)]' = [[t \in End |-> State(t)] EXCEPT ![e] = v]
    BY <1>3
  <2>. QED
    BY <1>3, <2>1, <2>2 DEF Messages!Fail
<1>4. ASSUME NEW e \in End, NEW m \in Msgs, WriteMessage(e, m)
      PROVE  Messages!Accept(e)
  <2>1. /\ open[e] /\ ~shut[e] /\ sent' = [sent EXCEPT ![e] = Append(sent[e], m)]
        /\ UNCHANGED <<open, stopped, eof, shut, got, faults>>
    BY <1>4 DEF WriteMessage, ends
  <2>2. [t \in End |-> State(t)][e] # "closed"
    BY <2>1 DEF State
  <2>3. UNCHANGED [t \in End |-> State(t)] /\ UNCHANGED (faults > 0)
    BY <2>1 DEF State
  <2>. QED
    BY <2>1, <2>2, <2>3 DEF Messages!Accept
<1>5. ASSUME NEW e \in End, NEW m \in Msgs, WriteFails(e, m)
      PROVE  Messages!Disturb
  BY <1>2, <1>5 DEF WriteFails, ends
<1>6. ASSUME NEW e \in End, ReadLength(e)
      PROVE  UNCHANGED Messages!vars
  BY <1>1, <1>6 DEF ReadLength, ends
<1>7. ASSUME NEW e \in End, ReadFails(e)
      PROVE  Messages!Fail(e)
  <2>1. /\ open[e] /\ ~stopped[e] /\ ~eof[e] /\ open' = [open EXCEPT ![e] = FALSE]
        /\ UNCHANGED <<stopped, eof, shut, sent, got, faults>>
    BY <1>7 DEF ReadFails, Reading, AtConn, ends
  <2>2. open'[e] = FALSE /\ \A t \in End \ {e} : open'[t] = open[t]
    BY <2>1 DEF TypeOK
  <2>3. State(e) = "up" /\ State(e)' = "closed" /\ \A t \in End \ {e} : State(t)' = State(t)
    BY <2>1, <2>2 DEF State
  <2>4. faults > 0 /\ faults' > 0
    BY <1>7, <2>1, ReadFailsLate
  <2>. QED
    BY <1>3, <2>1, <2>3, <2>4
<1>8. ASSUME NEW e \in End, ReadTimeout(e)
      PROVE  Messages!Fail(e)
  <2>1. /\ open[e] /\ ~stopped[e] /\ ~eof[e] /\ stopped' = [stopped EXCEPT ![e] = TRUE]
        /\ UNCHANGED <<open, eof, shut, sent, got>> /\ faults' = faults + 1
    BY <1>8, BoundsAssumption DEF ReadTimeout, AtConn, ends
  <2>2. stopped'[e] = TRUE /\ \A t \in End \ {e} : stopped'[t] = stopped[t]
    BY <2>1 DEF TypeOK
  <2>3. State(e) = "up" /\ State(e)' = "deaf" /\ \A t \in End \ {e} : State(t)' = State(t)
    BY <2>1, <2>2 DEF State
  <2>4. faults' > 0
    BY <1>0, <2>1
  <2>. QED
    BY <1>3, <2>1, <2>3, <2>4
<1>9. ASSUME NEW e \in End, Alter(e)
      PROVE  Messages!Disturb
  BY <1>2, <1>9 DEF Alter, ends
<1>10. CASE UNCHANGED vars
  BY <1>1, <1>10 DEF vars, ends
<1>11. ASSUME NEW e \in End, CloseWrite(e)
       PROVE  Messages!Finish(e)
  <2>1. /\ ~shut[e] /\ shut' = [shut EXCEPT ![e] = TRUE]
        /\ UNCHANGED <<open, stopped, eof, sent, got, faults>>
    BY <1>11 DEF CloseWrite
  <2>2. UNCHANGED [t \in End |-> State(t)] /\ UNCHANGED (faults > 0)
    BY <2>1 DEF State
  <2>. QED
    BY <2>1, <2>2 DEF Messages!Finish
<1>12. ASSUME NEW e \in End, ReadBuffer(e)
       PROVE  UNCHANGED Messages!vars
  BY <1>1, <1>12 DEF ReadBuffer
<1>13. ASSUME NEW e \in End, ReadEnd(e)
       PROVE  Messages!HearEnd(e) \/ Messages!Fail(e)
  <2>1. /\ open[e] /\ ~stopped[e] /\ ~eof[e] /\ eof' = [eof EXCEPT ![e] = TRUE]
        /\ UNCHANGED <<open, stopped, shut, sent, got, faults>>
    BY <1>13 DEF ReadEnd, AtConn
  <2>2. eof'[e] = TRUE /\ \A t \in End \ {e} : eof'[t] = eof[t]
    BY <2>1 DEF TypeOK
  <2>3. State(e) = "up" /\ State(e)' = "deaf" /\ \A t \in End \ {e} : State(t)' = State(t)
    BY <2>1, <2>2 DEF State
  <2>4. CASE faults > 0
    BY <1>3, <2>1, <2>3, <2>4
  <2>5. CASE faults = 0
    <3>1. shut[Peer(e)] /\ Len(got[e]) = Len(sent[Peer(e)])
      BY <1>13, <2>5, EndBehindAll
    <3>2. Messages!Peer(e) = Peer(e)
      BY DEF Messages!Peer, Peer
    <3>3. [t \in End |-> State(t)][e] = "up"
      BY <2>3
    <3>4. [t \in End |-> State(t)]' = [[t \in End |-> State(t)] EXCEPT ![e] = "deaf"]
      BY <2>3
    <3>5. UNCHANGED (faults > 0)
      BY <2>1
    <3>. QED
      BY <2>1, <3>1, <3>2, <3>3, <3>4, <3>5 DEF Messages!HearEnd
  <2>. QED
    BY <1>0, <2>4, <2>5
<1>. QED
  BY <1>0, <1>4, <1>5, <1>6, <1>7, <1>8, <1>9, <1>10, <1>11, <1>12, <1>13,
     ReadBodyDelivers
     DEF Next, Messages!Next

\* For a caller that does not read on after a Read that timed out, a BOLT-8
\* connection is a stream of whole messages each way, for any messages, rekey
\* interval, failed writes, timeouts and alterations: it refines MessageStream.
THEOREM ImplementsMessageStream ==
  ASSUME ~ReadAgain
  PROVE  Spec => IsMessageStream
<1>1. Init => LockstepInv
  BY InitFlow DEF LockstepInv
<1>2. LockstepInv => TypeOK /\ Delivery /\ Lockstep
  BY DeliveryImplied, LockstepImplied DEF LockstepInv, DeliveryInv, NonceInv, Steady
<1>3. Init => Messages!Init
  <2>1. ASSUME Init PROVE [e \in End |-> State(e)] = [e \in End |-> "up"]
    BY <2>1 DEF Init, State
  <2>2. ASSUME Init PROVE (faults > 0) = FALSE
    BY <2>2 DEF Init
  <2>. QED
    BY <2>1, <2>2 DEF Init, Messages!Init, Messages!End, End
<1>4. /\ LockstepInv /\ TypeOK /\ Delivery /\ Lockstep
      /\ (TypeOK /\ Delivery /\ Lockstep)'
      /\ [Next]_vars
      => [Messages!Next]_(Messages!vars)
  BY StepIsMessages
<1>. QED
  BY <1>1, <1>2, <1>3, <1>4, StepLockstep, PTL DEF Spec, IsMessageStream, Messages!Spec
=============================================================================
