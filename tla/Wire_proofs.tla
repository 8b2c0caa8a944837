---------------------------- MODULE Wire_proofs -----------------------------
(***************************************************************************)
(* Proofs about what the encoders write and the decoders read, for every   *)
(* value of every field: the KNXnet/IP frames of src/core/, the cEMI frame *)
(* with its TPCI and APDU, the notations of an address and the values of   *)
(* src/dpt/ are read as what was written.  A lemma about a structure says  *)
(* how many bytes it has and that it is read back wherever it stands; what *)
(* is read from a body follows from what stands in it.  With the invariant *)
(* of the transports (Io_proofs) this gives the way of a value from the    *)
(* gateway to what the listener, ets and mqtt-publish nodes send.          *)
(***************************************************************************)
EXTENDS Wire, Io_proofs

-----------------------------------------------------------------------------
(* BYTE STRINGS                                                            *)

Byte == 0..255
Word == 0..65535
ByteString(n) == {b \in Seq(Byte) : Len(b) = n}

\* A string of n bytes.
Sized(s, n) == s \in Seq(Byte) /\ Len(s) = n

\* s stands in b, behind its first at bytes.
StandsAt(b, at, s) ==
  /\ at + Len(s) <= Len(b)
  /\ \A i \in 1..Len(s) : b[at + i] = s[i]

LEMMA Whole == ASSUME NEW b \in Seq(Byte) PROVE StandsAt(b, 0, b)
<1>1. Len(b) \in Nat
  OBVIOUS
<1> QED
  BY <1>1 DEF StandsAt

LEMMA Joined ==
  ASSUME NEW s \in Seq(Byte), NEW t \in Seq(Byte)
  PROVE  s \o t \in Seq(Byte) /\ Len(s \o t) = Len(s) + Len(t)
BY ConcatProperties

LEMMA Parted ==
  ASSUME NEW b \in Seq(Byte), NEW at \in Nat, NEW s \in Seq(Byte), NEW t \in Seq(Byte),
         StandsAt(b, at, s \o t)
  PROVE  StandsAt(b, at, s) /\ StandsAt(b, at + Len(s), t)
<1> DEFINE u == s \o t
<1>1. /\ Len(u) = Len(s) + Len(t) /\ Len(s) \in Nat /\ Len(t) \in Nat /\ Len(b) \in Nat
      /\ \A i \in 1..Len(s) + Len(t) : u[i] = IF i <= Len(s) THEN s[i] ELSE t[i - Len(s)]
  BY ConcatProperties
<1>2. at + Len(u) <= Len(b) /\ \A i \in 1..Len(u) : b[at + i] = u[i]
  BY DEF StandsAt
<1> HIDE DEF u
<1>3. StandsAt(b, at, s)
  <2>1. at + Len(s) <= Len(b)
    BY ONLY <1>1, <1>2, at \in Nat
  <2>2. ASSUME NEW i \in 1..Len(s) PROVE b[at + i] = s[i]
    <3>1. i \in 1..Len(u) /\ i \in 1..Len(s) + Len(t) /\ i <= Len(s)
      BY <1>1
    <3> QED
      BY <3>1, <1>1, <1>2
  <2> QED
    BY <2>1, <2>2 DEF StandsAt
<1>4. StandsAt(b, at + Len(s), t)
  <2>1. (at + Len(s)) + Len(t) <= Len(b)
    BY ONLY <1>1, <1>2, at \in Nat
  <2>2. ASSUME NEW i \in 1..Len(t) PROVE b[(at + Len(s)) + i] = t[i]
    <3>1. /\ Len(s) + i \in 1..Len(u) /\ Len(s) + i \in 1..Len(s) + Len(t)
          /\ ~(Len(s) + i <= Len(s)) /\ (Len(s) + i) - Len(s) = i
          /\ at + (Len(s) + i) = (at + Len(s)) + i
      BY <1>1
    <3> QED
      BY <3>1, <1>1, <1>2
  <2> QED
    BY <2>1, <2>2 DEF StandsAt
<1> QED
  BY <1>3, <1>4

\* The same, by the number of bytes.
LEMMA JoinedSized ==
  ASSUME NEW m \in Nat, NEW n \in Nat, NEW s, NEW t, Sized(s, m), Sized(t, n)
  PROVE  Sized(s \o t, m + n)
<1>1. s \o t \in Seq(Byte) /\ Len(s \o t) = Len(s) + Len(t)
  BY Joined DEF Sized
<1> QED
  BY <1>1 DEF Sized

LEMMA PartedSized ==
  ASSUME NEW b \in Seq(Byte), NEW at \in Nat, NEW m \in Nat, NEW n \in Nat, NEW s, NEW t,
         Sized(s, m), Sized(t, n), StandsAt(b, at, s \o t)
  PROVE  StandsAt(b, at, s) /\ StandsAt(b, at + m, t)
BY Parted DEF Sized

LEMMA SliceIs ==
  ASSUME NEW b \in Seq(Byte), NEW at \in Nat, NEW s \in Seq(Byte), StandsAt(b, at, s)
  PROVE  Bytes(b, at, Len(s)) = s
<1>0. Len(s) \in Nat /\ Len(b) \in Nat /\ at + Len(s) <= Len(b)
  BY DEF StandsAt
<1> DEFINE t == SubSeq(b, at + 1, at + Len(s))
<1>1. /\ t \in Seq(Byte)
      /\ Len(t) = IF at + 1 <= at + Len(s) THEN at + Len(s) - (at + 1) + 1 ELSE 0
      /\ \A i \in 1..at + Len(s) - (at + 1) + 1 : t[i] = b[(at + 1) + i - 1]
  <2>1. \A i \in at + 1..at + Len(s) : b[i] \in Byte
    <3>1. \A i \in at + 1..at + Len(s) : i \in 1..Len(b)
      BY <1>0
    <3> QED
      BY <3>1
  <2>2. at + 1 \in Int /\ at + Len(s) \in Int
    BY <1>0
  <2> QED
    BY <2>1, <2>2, SubSeqProperties
<1> HIDE DEF t
<1>2. Len(t) = Len(s)
  BY <1>0, <1>1
<1>3. ASSUME NEW i \in 1..Len(s) PROVE t[i] = s[i]
  <2>1. i \in 1..at + Len(s) - (at + 1) + 1 /\ (at + 1) + i - 1 = at + i
    BY <1>0
  <2> QED
    BY <2>1, <1>1 DEF StandsAt
<1>4. t = s
  BY <1>1, <1>2, <1>3, SeqEqual
<1> QED
  BY <1>4 DEF t, Bytes

LEMMA BytesAre ==
  ASSUME NEW b \in Seq(Byte), NEW at \in Nat, NEW n \in Nat, NEW s, Sized(s, n),
         StandsAt(b, at, s)
  PROVE  Bytes(b, at, n) = s
BY SliceIs DEF Sized

LEMMA RestIs ==
  ASSUME NEW b \in Seq(Byte), NEW at \in Nat, NEW n \in Nat, NEW s, Sized(s, n),
         StandsAt(b, at, s), Len(b) = at + n
  PROVE  Rest(b, at) = s
BY SliceIs DEF Bytes, Rest, Sized

LEMMA Reaches ==
  ASSUME NEW b \in Seq(Byte), NEW at \in Nat, NEW n \in Nat, NEW s, Sized(s, n),
         StandsAt(b, at, s)
  PROVE  at + n <= Len(b) /\ \A i \in 1..n : b[at + i] = s[i]
BY DEF StandsAt, Sized

\* A number is its quotient and its remainder; both are as small as they should be.
LEMMA Digits ==
  ASSUME NEW M \in Nat, M > 0, NEW K \in Nat, NEW n \in 0..M * K - 1
  PROVE  n \div M \in 0..K - 1 /\ n % M \in 0..M - 1 /\ M * (n \div M) + (n % M) = n
<1> DEFINE h == n \div M
           l == n % M
<1>1. n \in Nat /\ n <= M * K - 1
  BY ONLY M \in Nat, K \in Nat, n \in 0..M * K - 1
<1>2. h \in Int /\ l \in Int /\ 0 <= l /\ l < M /\ n = M * h + l
  BY <1>1, DivMod
<1> HIDE DEF h, l
<1>3. M * h < M * K
  BY ONLY <1>1, <1>2, M \in Nat, K \in Nat
<1>4. h < K
  BY ONLY <1>2, <1>3, M \in Nat, M > 0, K \in Nat
<1>5. 0 <= h
  <2>1. M * h > M * (-1)
    BY ONLY <1>1, <1>2, M \in Nat
  <2> QED
    BY ONLY <1>2, <2>1, M \in Nat, M > 0
<1>6. h \in 0..K - 1 /\ l \in 0..M - 1 /\ M * h + l = n
  BY ONLY <1>1, <1>2, <1>4, <1>5, M \in Nat, K \in Nat
<1> QED
  BY <1>6 DEF h, l

LEMMA WordParts ==
  ASSUME NEW n \in Word
  PROVE  n \div 256 \in Byte /\ n % 256 \in Byte /\ 256 * (n \div 256) + (n % 256) = n
<1>1. Word = 0..256 * 256 - 1
  BY SMTT(30) DEF Word
<1> HIDE DEF Word
<1>2. n \in 0..256 * 256 - 1
  BY <1>1
<1>3. /\ n \div 256 \in 0..256 - 1 /\ n % 256 \in 0..256 - 1
      /\ 256 * (n \div 256) + (n % 256) = n
  BY <1>2, Digits, SMTT(30)
<1> QED
  BY <1>3 DEF Byte

LEMMA PairType ==
  ASSUME NEW h \in Byte, NEW l \in Byte
  PROVE  Sized(<<h, l>>, 2)
BY DEF Sized

LEMMA WordType ==
  ASSUME NEW n \in Word PROVE Sized(U16(n), 2)
BY WordParts, PairType DEF U16

LEMMA PairIs ==
  ASSUME NEW b \in Seq(Byte), NEW at \in Nat, NEW h \in Byte, NEW l \in Byte,
         StandsAt(b, at, <<h, l>>)
  PROVE  b[at + 1] = h /\ b[at + 2] = l
BY DEF StandsAt

LEMMA WordIs ==
  ASSUME NEW b \in Seq(Byte), NEW at \in Nat, NEW n \in Word, StandsAt(b, at, U16(n))
  PROVE  U16At(b, at) = n
<1> DEFINE h == n \div 256
           l == n % 256
<1>1. h \in Byte /\ l \in Byte
  BY WordParts
<1>3. 256 * h + l = n
  BY WordParts
<1>4. U16(n) = <<h, l>>
  BY DEF U16
<1> HIDE DEF h, l
<1>2. b[at + 1] = h /\ b[at + 2] = l
  BY <1>1, <1>4, PairIs
<1> QED
  BY <1>2, <1>3 DEF U16At

LEMMA QuadType ==
  ASSUME NEW c \in Byte, NEW d \in Byte, NEW e \in Byte, NEW f \in Byte
  PROVE  Sized(<<c, d, e, f>>, 4)
BY DEF Sized

LEMMA QuadIs ==
  ASSUME NEW b \in Seq(Byte), NEW at \in Nat,
         NEW c \in Byte, NEW d \in Byte, NEW e \in Byte, NEW f \in Byte,
         StandsAt(b, at, <<c, d, e, f>>)
  PROVE  b[at + 1] = c /\ b[at + 2] = d /\ b[at + 3] = e /\ b[at + 4] = f
BY DEF StandsAt

\* Three words, the digits of a number of 48 bits.
Words3 == Word \X Word \X Word

LEMMA LongType ==
  ASSUME NEW n \in Words3 PROVE Sized(U48(n), 6)
<1>1. n[1] \in Word /\ n[2] \in Word /\ n[3] \in Word
  BY DEF Words3
<1>2. Sized(U16(n[1]), 2) /\ Sized(U16(n[2]), 2) /\ Sized(U16(n[3]), 2)
  BY <1>1, WordType
<1>3. Sized(U16(n[1]) \o U16(n[2]), 4)
  BY <1>2, JoinedSized
<1> QED
  BY <1>2, <1>3, JoinedSized DEF U48

LEMMA LongIs ==
  ASSUME NEW b \in Seq(Byte), NEW at \in Nat, NEW n \in Words3, StandsAt(b, at, U48(n))
  PROVE  U48At(b, at) = n
<1>1. n[1] \in Word /\ n[2] \in Word /\ n[3] \in Word /\ n = <<n[1], n[2], n[3]>>
  BY DEF Words3
<1>2. Sized(U16(n[1]), 2) /\ Sized(U16(n[2]), 2) /\ Sized(U16(n[3]), 2)
  BY <1>1, WordType
<1>3. Sized(U16(n[1]) \o U16(n[2]), 4)
  BY <1>2, JoinedSized
<1>4. StandsAt(b, at, U16(n[1]) \o U16(n[2])) /\ StandsAt(b, at + 4, U16(n[3]))
  BY <1>2, <1>3, PartedSized DEF U48
<1>5. StandsAt(b, at, U16(n[1])) /\ StandsAt(b, at + 2, U16(n[2]))
  BY <1>2, <1>4, PartedSized
<1>6. U16At(b, at) = n[1] /\ U16At(b, at + 2) = n[2] /\ U16At(b, at + 4) = n[3]
  <2>1. at + 2 \in Nat /\ at + 4 \in Nat
    OBVIOUS
  <2> QED
    BY <1>1, <1>4, <1>5, <2>1, WordIs
<1> QED
  BY <1>1, <1>6 DEF U48At

-----------------------------------------------------------------------------
(* STRUCTURES OF A FRAME                                                   *)

Hpais == [ip : ByteString(4), port : Word, protocol : {1, 2}]

LEMMA EndpointParts ==
  ASSUME NEW h \in Hpais
  PROVE  /\ Sized(h.ip, 4) /\ h.port \in Word /\ h.protocol \in {1, 2}
         /\ Sized(<<8, h.protocol>>, 2) /\ Sized(U16(h.port), 2)
         /\ h = [ip |-> h.ip, port |-> h.port, protocol |-> h.protocol]
<1>1. Sized(h.ip, 4) /\ h.port \in Word /\ h.protocol \in {1, 2}
  BY DEF Hpais, ByteString, Sized
<1>2. h.protocol \in Byte /\ 8 \in Byte
  BY <1>1 DEF Byte
<1> QED
  BY <1>1, <1>2, PairType, WordType DEF Hpais

LEMMA HpaiType ==
  ASSUME NEW h \in Hpais PROVE Sized(HpaiOut(h), 8)
<1>1. Sized(<<8, h.protocol>>, 2) /\ Sized(h.ip, 4) /\ Sized(U16(h.port), 2)
  BY EndpointParts
<1>2. Sized(<<8, h.protocol>> \o h.ip, 2 + 4)
  BY <1>1, JoinedSized
<1>3. Sized(HpaiOut(h), (2 + 4) + 2)
  BY <1>1, <1>2, JoinedSized DEF HpaiOut
<1> QED
  BY <1>3

LEMMA HpaiIs ==
  ASSUME NEW b \in Seq(Byte), NEW at \in Nat, NEW h \in Hpais, StandsAt(b, at, HpaiOut(h))
  PROVE  HpaiIn(b, at) = {h}
<1>1. /\ Sized(h.ip, 4) /\ h.port \in Word /\ h.protocol \in {1, 2}
      /\ Sized(<<8, h.protocol>>, 2) /\ Sized(U16(h.port), 2)
  BY EndpointParts
<1>2. Sized(<<8, h.protocol>> \o h.ip, 6)
  BY <1>1, JoinedSized
<1>3. StandsAt(b, at, <<8, h.protocol>> \o h.ip) /\ StandsAt(b, at + 6, U16(h.port))
  BY <1>1, <1>2, PartedSized DEF HpaiOut
<1>4. StandsAt(b, at, <<8, h.protocol>>) /\ StandsAt(b, at + 2, h.ip)
  BY <1>1, <1>3, PartedSized
<1>5. b[at + 1] = 8 /\ b[at + 2] = h.protocol
  <2>1. 8 \in Byte /\ h.protocol \in Byte
    BY <1>1 DEF Byte
  <2> QED
    BY <1>4, <2>1, PairIs
<1>6. Bytes(b, at + 2, 4) = h.ip /\ U16At(b, at + 6) = h.port
  <2>1. at + 2 \in Nat /\ at + 6 \in Nat
    OBVIOUS
  <2> QED
    BY <1>1, <1>3, <1>4, <2>1, BytesAre, WordIs
<1>7. Len(b) - at >= 8
  <2>1. Len(b) \in Nat /\ at + 8 <= Len(b)
    BY HpaiType, Reaches
  <2> QED
    BY <2>1
<1> QED
  BY <1>1, <1>5, <1>6, <1>7, EndpointParts DEF HpaiIn

LEMMA NoBytes == Sized(<<>>, 0)
BY DEF Sized

\* What asks for a connection, and what comes back.
Requests == {c \in [type : Byte, layer : Byte, address : Word \cup {Absent}] :
               c.type # TunnelConnection => c.layer = DataLinkLayer /\ c.address = Absent}
Answers == {c \in [type : Byte, address : Word \cup {Absent}] :
               c.address = Absent <=> c.type # TunnelConnection}

\* Behind its length and its type, such a request has none, one or two parts.
CriSplit(c, t, u, m, n) ==
  /\ CriOut(c) = <<CriLength(c), c.type>> \o t \o u
  /\ CriLength(c) = 2 + m + n /\ CriLength(c) \in Byte /\ c.type \in Byte
  /\ Sized(t, m) /\ Sized(u, n)
  /\ m = 2 <=> c.type = TunnelConnection
  /\ n = 2 <=> c.type = TunnelConnection /\ c.address # Absent
  /\ m = 2 => t = <<c.layer, 0>> /\ c.layer \in Byte /\ 0 \in Byte
  /\ n = 2 => m = 2 /\ u = U16(c.address) /\ c.address \in Word

LEMMA CriParts ==
  ASSUME NEW c \in Requests, Absent \notin Word
  PROVE  \E t \in {<<>>, <<c.layer, 0>>}, u \in {<<>>, U16(c.address)}, m \in {0, 2},
           n \in {0, 2} :
           CriSplit(c, t, u, m, n)
<1>0. c.type \in Byte /\ c.layer \in Byte /\ c.address \in Word \cup {Absent}
  BY DEF Requests
<1>1. 0 \in Byte /\ 2 \in Byte /\ 4 \in Byte /\ 6 \in Byte
  BY DEF Byte
<1>2. CASE c.type # TunnelConnection
  <2>1. CriLength(c) = 2
    BY <1>2 DEF CriLength
  <2>2. CriOut(c) = <<CriLength(c), c.type>> \o <<>> \o <<>>
    BY <1>2, <2>1 DEF CriOut
  <2> QED
    BY <1>0, <1>1, <1>2, <2>1, <2>2, NoBytes DEF CriSplit
<1>3. CASE c.type = TunnelConnection /\ c.address = Absent
  <2>1. CriLength(c) = 4
    BY <1>3 DEF CriLength
  <2>2. CriOut(c) = <<CriLength(c), c.type>> \o <<c.layer, 0>> \o <<>>
    BY <1>3, <2>1 DEF CriOut
  <2>3. Sized(<<c.layer, 0>>, 2)
    BY <1>0, <1>1, PairType
  <2> QED
    BY <1>0, <1>1, <1>3, <2>1, <2>2, <2>3, NoBytes DEF CriSplit
<1>4. CASE c.type = TunnelConnection /\ c.address # Absent
  <2>1. CriLength(c) = 6
    BY <1>4 DEF CriLength
  <2>2. CriOut(c) = <<CriLength(c), c.type>> \o <<c.layer, 0>> \o U16(c.address)
    BY <1>4, <2>1 DEF CriOut
  <2>3. Sized(<<c.layer, 0>>, 2) /\ c.address \in Word /\ Sized(U16(c.address), 2)
    BY <1>0, <1>1, <1>4, PairType, WordType
  <2> QED
    BY <1>0, <1>1, <1>4, <2>1, <2>2, <2>3, NoBytes DEF CriSplit
<1> QED
  BY <1>2, <1>3, <1>4

LEMMA CriType ==
  ASSUME NEW c \in Requests, Absent \notin Word
  PROVE  Sized(CriOut(c), CriLength(c)) /\ CriLength(c) \in 2..6
<1>1. PICK t \in {<<>>, <<c.layer, 0>>}, u \in {<<>>, U16(c.address)}, m \in {0, 2},
      n \in {0, 2} :
         CriSplit(c, t, u, m, n)
  BY CriParts
<1>20. /\ CriOut(c) = <<CriLength(c), c.type>> \o t \o u
       /\ CriLength(c) = 2 + m + n /\ CriLength(c) \in Byte /\ c.type \in Byte
       /\ Sized(t, m) /\ Sized(u, n)
  BY <1>1 DEF CriSplit
<1>2. Sized(<<CriLength(c), c.type>>, 2)
  BY <1>20, PairType
<1>3. Sized(<<CriLength(c), c.type>> \o t, 2 + m)
  BY <1>20, <1>2, JoinedSized
<1>4. Sized(<<CriLength(c), c.type>> \o t \o u, 2 + m + n)
  BY <1>20, <1>3, JoinedSized
<1> QED
  BY <1>20, <1>4

LEMMA CriIs ==
  ASSUME NEW b \in Seq(Byte), NEW at \in Nat, NEW c \in Requests, Absent \notin Word,
         StandsAt(b, at, CriOut(c))
  PROVE  CriIn(b, at) = {c}
<1>1. PICK t \in {<<>>, <<c.layer, 0>>}, u \in {<<>>, U16(c.address)}, m \in {0, 2},
      n \in {0, 2} :
         CriSplit(c, t, u, m, n)
  BY CriParts
<1>20. /\ CriOut(c) = <<CriLength(c), c.type>> \o t \o u
       /\ CriLength(c) = 2 + m + n /\ CriLength(c) \in Byte /\ c.type \in Byte
       /\ Sized(t, m) /\ Sized(u, n)
       /\ m = 2 <=> c.type = TunnelConnection
       /\ n = 2 <=> c.type = TunnelConnection /\ c.address # Absent
       /\ m = 2 => t = <<c.layer, 0>> /\ c.layer \in Byte /\ 0 \in Byte
       /\ n = 2 => m = 2 /\ u = U16(c.address) /\ c.address \in Word
  BY <1>1 DEF CriSplit
<1> DEFINE lead == <<CriLength(c), c.type>>
<1>2. Sized(lead, 2)
  BY <1>20, PairType
<1>3. Sized(lead \o t, 2 + m)
  BY <1>20, <1>2, JoinedSized
<1>4. StandsAt(b, at, lead \o t) /\ StandsAt(b, at + (2 + m), u)
  BY <1>20, <1>3, PartedSized
<1>5. StandsAt(b, at, lead) /\ StandsAt(b, at + 2, t)
  BY <1>20, <1>2, <1>4, PartedSized
<1>6. b[at + 1] = CriLength(c) /\ b[at + 2] = c.type
  BY <1>20, <1>5, PairIs
<1>7. m = 2 => b[at + 3] = c.layer
  <2> SUFFICES ASSUME m = 2 PROVE b[at + 3] = c.layer
    OBVIOUS
  <2>1. at + 2 \in Nat /\ (at + 2) + 1 = at + 3
    OBVIOUS
  <2>2. b[(at + 2) + 1] = c.layer
    BY <1>20, <1>5, <2>1, PairIs
  <2> QED
    BY <2>1, <2>2
<1>8. n = 2 => U16At(b, at + 4) = c.address
  <2> SUFFICES ASSUME n = 2 PROVE U16At(b, at + 4) = c.address
    OBVIOUS
  <2>1. at + 4 \in Nat /\ at + (2 + m) = at + 4
    BY <1>20
  <2> QED
    BY <1>20, <1>4, <2>1, WordIs
<1>9. Len(b) - at >= 2 /\ Len(b) - at >= CriLength(c)
  <2>1. Len(b) \in Nat /\ at + CriLength(c) <= Len(b)
    BY CriType, Reaches
  <2> QED
    BY <1>20, <2>1
<1>10. c = [type |-> c.type, layer |-> c.layer, address |-> c.address]
  BY DEF Requests
<1>11. c.type # TunnelConnection => c.layer = DataLinkLayer /\ c.address = Absent
  BY DEF Requests
<1>12. CriLength(c) \in IF c.type = TunnelConnection THEN {4, 6} ELSE {2}
  BY <1>20
<1>13. (IF CriLength(c) = 2 THEN DataLinkLayer ELSE b[at + 3]) = c.layer
  BY <1>20, <1>7, <1>11
<1>14. (IF CriLength(c) = 6 THEN U16At(b, at + 4) ELSE Absent) = c.address
  BY <1>20, <1>8, <1>11
<1> QED
  BY <1>6, <1>9, <1>10, <1>12, <1>13, <1>14 DEF CriIn

LEMMA CrdType ==
  ASSUME NEW c \in Answers
  PROVE  Sized(CrdOut(c), CrdLength(c)) /\ CrdLength(c) \in 2..4
<1>1. c.type \in Byte /\ CrdLength(c) \in Byte /\ Sized(<<CrdLength(c), c.type>>, 2)
  <2>1. c.type \in Byte /\ CrdLength(c) \in Byte
    BY DEF Answers, CrdLength, Byte
  <2> QED
    BY <2>1, PairType
<1>2. CASE c.type # TunnelConnection
  <2>1. CrdOut(c) = <<CrdLength(c), c.type>> \o <<>> /\ CrdLength(c) = 2
    BY <1>2 DEF CrdOut, CrdLength
  <2> QED
    BY <1>1, <2>1, NoBytes, JoinedSized
<1>3. CASE c.type = TunnelConnection
  <2>1. CrdOut(c) = <<CrdLength(c), c.type>> \o U16(c.address) /\ CrdLength(c) = 4
        /\ c.address \in Word
    BY <1>3 DEF CrdOut, CrdLength, Answers
  <2>2. Sized(U16(c.address), 2)
    BY <2>1, WordType
  <2> QED
    BY <1>1, <2>1, <2>2, JoinedSized
<1> QED
  BY <1>2, <1>3

LEMMA CrdIs ==
  ASSUME NEW b \in Seq(Byte), NEW at \in Nat, NEW c \in Answers, StandsAt(b, at, CrdOut(c))
  PROVE  CrdIn(b, at) = {c}
<1>1. c.type \in Byte /\ CrdLength(c) \in Byte /\ Sized(<<CrdLength(c), c.type>>, 2)
  <2>1. c.type \in Byte /\ CrdLength(c) \in Byte
    BY DEF Answers, CrdLength, Byte
  <2> QED
    BY <2>1, PairType
<1>2. Len(b) - at >= 2 /\ Len(b) - at >= CrdLength(c)
  <2>1. Len(b) \in Nat /\ at + CrdLength(c) <= Len(b) /\ CrdLength(c) \in 2..4
    BY CrdType, Reaches
  <2> QED
    BY <2>1
<1>3. c = [type |-> c.type, address |-> c.address]
  BY DEF Answers
<1>4. CASE c.type # TunnelConnection
  <2>1. CrdOut(c) = <<CrdLength(c), c.type>> \o <<>> /\ CrdLength(c) = 2 /\ c.address = Absent
    BY <1>4 DEF CrdOut, CrdLength, Answers
  <2>2. StandsAt(b, at, <<CrdLength(c), c.type>>)
    BY <1>1, <2>1, NoBytes, PartedSized
  <2>3. b[at + 1] = CrdLength(c) /\ b[at + 2] = c.type
    BY <1>1, <2>2, PairIs
  <2> QED
    BY <1>2, <1>3, <1>4, <2>1, <2>3 DEF CrdIn
<1>5. CASE c.type = TunnelConnection
  <2>1. CrdOut(c) = <<CrdLength(c), c.type>> \o U16(c.address) /\ CrdLength(c) = 4
        /\ c.address \in Word
    BY <1>5 DEF CrdOut, CrdLength, Answers
  <2>2. Sized(U16(c.address), 2)
    BY <2>1, WordType
  <2>3. StandsAt(b, at, <<CrdLength(c), c.type>>) /\ StandsAt(b, at + 2, U16(c.address))
    BY <1>1, <2>1, <2>2, PartedSized
  <2>4. b[at + 1] = CrdLength(c) /\ b[at + 2] = c.type
    BY <1>1, <2>3, PairIs
  <2>5. U16At(b, at + 2) = c.address
    <3>1. at + 2 \in Nat
      OBVIOUS
    <3> QED
      BY <2>1, <2>3, <3>1, WordIs
  <2> QED
    BY <1>2, <1>3, <1>5, <2>1, <2>4, <2>5 DEF CrdIn
<1> QED
  BY <1>4, <1>5

\* What ends before its first zero byte is read up to there.
LEMMA UnpaddedIs ==
  ASSUME NEW t \in Seq(Byte), NEW s \in Seq(Byte), Len(s) <= Len(t),
         \A i \in 1..Len(s) : t[i] = s[i] /\ s[i] # 0,
         Len(s) = Len(t) \/ t[Len(s) + 1] = 0
  PROVE  Unpadded(t) = s
<1> DEFINE zeros == {i \in 1..Len(t) : t[i] = 0}
           Cut(n) == /\ \A i \in 1..n : i \notin zeros
                     /\ n = Len(t) \/ n + 1 \in zeros
           n0 == Len(s)
           N == Len(t)
<1>1. n0 \in Nat /\ N \in Nat /\ n0 <= N
  OBVIOUS
<1>2. Cut(n0)
  <2>1. \A i \in 1..n0 : i \notin zeros
    BY <1>1
  <2>2. n0 = N \/ n0 + 1 \in zeros
    BY <1>1
  <2> QED
    BY <2>1, <2>2
<1>3. ASSUME NEW n \in 0..N, Cut(n) PROVE n = n0
  <2>0. zeros \subseteq 1..N
    OBVIOUS
  <2> HIDE DEF zeros, n0, N
  <2>1. n = N \/ n + 1 \in zeros
    BY <1>3 DEF N
  <2>2. n0 = N \/ n0 + 1 \in zeros
    BY <1>2 DEF N
  <2>3. ~(n < n0)
    <3> SUFFICES ASSUME n < n0 PROVE FALSE
      OBVIOUS
    <3>1. n # N /\ n + 1 \in 1..n0
      BY <1>1
    <3> QED
      BY <3>1, <2>1, <1>2
  <2>4. ~(n0 < n)
    <3> SUFFICES ASSUME n0 < n PROVE FALSE
      OBVIOUS
    <3>1. n0 # N /\ n0 + 1 \in 1..n
      BY <1>1
    <3> QED
      BY <3>1, <2>2, <1>3
  <2> QED
    BY <1>1, <2>3, <2>4
<1>4. n0 \in 0..N
  BY <1>1
<1>5. Unpadded(t) = SubSeq(t, 1, CHOOSE n \in 0..N : Cut(n))
  BY DEF Unpadded
<1> HIDE DEF Cut, n0, N
<1>6. (CHOOSE n \in 0..N : Cut(n)) = n0
  BY <1>2, <1>3, <1>4
<1>7. StandsAt(t, 0, s)
  BY DEF StandsAt
<1>8. Sized(s, n0)
  BY DEF Sized, n0
<1>9. Bytes(t, 0, n0) = s
  BY <1>1, <1>7, <1>8, BytesAre
<1>10. SubSeq(t, 1, n0) = s
  BY <1>1, <1>9 DEF Bytes
<1> QED
  BY <1>5, <1>6, <1>10

Names == {s \in Seq(1..255) : Len(s) <= 30}

LEMMA NameIs ==
  ASSUME NEW s \in Names
  PROVE  Sized(Padded(s), 30) /\ Unpadded(Padded(s)) = s
<1> DEFINE t == Padded(s)
           fill == [i \in 1..30 - Len(s) |-> 0]
<1>1. s \in Seq(1..255) /\ Len(s) \in Nat /\ Len(s) <= 30
  BY DEF Names
<1>2. s \in Seq(Byte) /\ \A i \in 1..Len(s) : s[i] # 0
  <2>1. \A i \in 1..Len(s) : s[i] \in 1..255
    BY <1>1, ElementOfSeq
  <2>4. \A x \in 1..255 : x \in Byte /\ x # 0
    BY DEF Byte
  <2>2. \A i \in 1..Len(s) : s[i] \in Byte /\ s[i] # 0
    BY <2>1, <2>4
  <2>3. s \in [1..Len(s) -> Byte]
    BY <1>1, <2>2
  <2> QED
    BY <1>1, <2>2, <2>3
<1>3. fill \in Seq(Byte) /\ Len(fill) = 30 - Len(s) /\ \A i \in 1..30 - Len(s) : fill[i] = 0
  <2>1. 0 \in Byte
    BY DEF Byte
  <2>2. 30 - Len(s) \in Nat
    BY <1>1
  <2> QED
    BY <2>1, <2>2
<1>4. t = s \o fill
  BY DEF Padded
<1> HIDE DEF t, fill
<1>5. /\ t \in Seq(Byte) /\ Len(t) = Len(s) + Len(fill)
      /\ \A i \in 1..Len(s) + Len(fill) : t[i] = IF i <= Len(s) THEN s[i] ELSE fill[i - Len(s)]
  BY <1>2, <1>3, <1>4, ConcatProperties
<1>6. Len(t) = 30
  BY <1>1, <1>3, <1>5
<1>7. \A i \in 1..Len(s) : t[i] = s[i] /\ s[i] # 0
  <2> SUFFICES ASSUME NEW i \in 1..Len(s) PROVE t[i] = s[i] /\ s[i] # 0
    OBVIOUS
  <2>1. i \in 1..Len(s) + Len(fill) /\ i <= Len(s)
    BY <1>1, <1>3
  <2> QED
    BY <2>1, <1>2, <1>5
<1>8. Len(s) = Len(t) \/ t[Len(s) + 1] = 0
  <2>0. SUFFICES ASSUME Len(s) # 30 PROVE t[Len(s) + 1] = 0
    BY <1>6
  <2>1. Len(s) + 1 \in 1..Len(s) + Len(fill) /\ ~(Len(s) + 1 <= Len(s))
        /\ (Len(s) + 1) - Len(s) = 1
        /\ 1 \in 1..30 - Len(s)
    <3> DEFINE m == Len(s)
               k == Len(fill)
    <3>1. m \in Nat /\ m <= 30 /\ m # 30 /\ k = 30 - m
      BY <2>0, <1>1, <1>3
    <3> HIDE DEF m, k
    <3>2. m + 1 \in 1..m + k /\ ~(m + 1 <= m) /\ (m + 1) - m = 1 /\ 1 \in 1..30 - m
      BY ONLY <3>1
    <3> QED
      BY <3>2 DEF m, k
  <2> QED
    BY <2>1, <1>3, <1>5
<1>9. Unpadded(t) = s
  BY <1>1, <1>2, <1>5, <1>6, <1>7, <1>8, UnpaddedIs
<1> QED
  BY <1>5, <1>6, <1>9 DEF t, Sized

Devices == [medium : Byte, status : Byte, address : Word, installation : Word,
            serial : ByteString(6), multicast : ByteString(4), mac : ByteString(6),
            name : Names]

DeviceLead(d) == <<DeviceInfoLength, 1, d.medium, d.status>>

LEMMA DeviceParts ==
  ASSUME NEW d \in Devices
  PROVE  /\ d.medium \in Byte /\ d.status \in Byte /\ d.address \in Word
         /\ d.installation \in Word
         /\ DeviceInfoLength \in Byte /\ 1 \in Byte
         /\ Sized(DeviceLead(d), 4) /\ Sized(U16(d.address), 2) /\ Sized(U16(d.installation), 2)
         /\ Sized(d.serial, 6) /\ Sized(d.multicast, 4) /\ Sized(d.mac, 6)
         /\ Sized(Padded(d.name), 30) /\ Unpadded(Padded(d.name)) = d.name
<1>1. d.medium \in Byte /\ d.status \in Byte /\ d.address \in Word /\ d.installation \in Word
  BY DEF Devices
<1>2. Sized(d.serial, 6) /\ Sized(d.multicast, 4) /\ Sized(d.mac, 6)
  BY DEF Devices, ByteString, Sized
<1>3. d.name \in Names
  BY DEF Devices
<1>4. DeviceInfoLength \in Byte /\ 1 \in Byte
  BY DEF DeviceInfoLength, Byte
<1>5. Sized(DeviceLead(d), 4)
  BY <1>1, <1>4, QuadType DEF DeviceLead
<1> QED
  BY <1>1, <1>2, <1>3, <1>4, <1>5, WordType, NameIs

\* The device info, part by part.
Device1(d) == DeviceLead(d) \o U16(d.address)
Device2(d) == Device1(d) \o U16(d.installation)
Device3(d) == Device2(d) \o d.serial
Device4(d) == Device3(d) \o d.multicast
Device5(d) == Device4(d) \o d.mac

LEMMA DeviceType ==
  ASSUME NEW d \in Devices
  PROVE  /\ Sized(Device1(d), 6) /\ Sized(Device2(d), 8) /\ Sized(Device3(d), 14)
         /\ Sized(Device4(d), 18) /\ Sized(Device5(d), 24)
         /\ DeviceInfoOut(d) = Device5(d) \o Padded(d.name) /\ Sized(DeviceInfoOut(d), 54)
<1>1. Sized(Device1(d), 6)
  BY DeviceParts, JoinedSized DEF Device1
<1>2. Sized(Device2(d), 8)
  BY <1>1, DeviceParts, JoinedSized DEF Device2
<1>3. Sized(Device3(d), 14)
  BY <1>2, DeviceParts, JoinedSized DEF Device3
<1>4. Sized(Device4(d), 18)
  BY <1>3, DeviceParts, JoinedSized DEF Device4
<1>5. Sized(Device5(d), 24)
  BY <1>4, DeviceParts, JoinedSized DEF Device5
<1>6. DeviceInfoOut(d) = Device5(d) \o Padded(d.name)
  BY DEF DeviceInfoOut, DeviceLead, Device1, Device2, Device3, Device4, Device5
<1>7. Sized(DeviceInfoOut(d), 54)
  BY <1>5, <1>6, DeviceParts, JoinedSized
<1> QED
  BY <1>1, <1>2, <1>3, <1>4, <1>5, <1>6, <1>7

LEMMA DeviceInfoIs ==
  ASSUME NEW b \in Seq(Byte), NEW d \in Devices, StandsAt(b, 8, DeviceInfoOut(d))
  PROVE  DeviceInfoIn(b, 8) = {d}
<1>20. /\ Sized(Device1(d), 6) /\ Sized(Device2(d), 8) /\ Sized(Device3(d), 14)
       /\ Sized(Device4(d), 18) /\ Sized(Device5(d), 24)
       /\ DeviceInfoOut(d) = Device5(d) \o Padded(d.name) /\ Sized(DeviceInfoOut(d), 54)
  BY DeviceType
<1>21. /\ d.medium \in Byte /\ d.status \in Byte /\ d.address \in Word
       /\ d.installation \in Word
       /\ DeviceInfoLength \in Byte /\ 1 \in Byte
       /\ Sized(DeviceLead(d), 4) /\ Sized(U16(d.address), 2) /\ Sized(U16(d.installation), 2)
       /\ Sized(d.serial, 6) /\ Sized(d.multicast, 4) /\ Sized(d.mac, 6)
       /\ Sized(Padded(d.name), 30) /\ Unpadded(Padded(d.name)) = d.name
  BY DeviceParts
<1>1. StandsAt(b, 8, Device5(d)) /\ StandsAt(b, 32, Padded(d.name))
  BY <1>20, <1>21, PartedSized
<1>2. StandsAt(b, 8, Device4(d)) /\ StandsAt(b, 26, d.mac)
  BY <1>1, <1>20, <1>21, PartedSized DEF Device5
<1>3. StandsAt(b, 8, Device3(d)) /\ StandsAt(b, 22, d.multicast)
  BY <1>2, <1>20, <1>21, PartedSized DEF Device4
<1>4. StandsAt(b, 8, Device2(d)) /\ StandsAt(b, 16, d.serial)
  BY <1>3, <1>20, <1>21, PartedSized DEF Device3
<1>5. StandsAt(b, 8, Device1(d)) /\ StandsAt(b, 14, U16(d.installation))
  BY <1>4, <1>20, <1>21, PartedSized DEF Device2
<1>6. StandsAt(b, 8, DeviceLead(d)) /\ StandsAt(b, 12, U16(d.address))
  BY <1>5, <1>20, <1>21, PartedSized DEF Device1
<1>7. /\ b[8 + 1] = DeviceInfoLength /\ b[8 + 2] = 1
      /\ b[8 + 3] = d.medium /\ b[8 + 4] = d.status
  BY <1>6, DeviceParts, QuadIs, SMTT(30) DEF DeviceLead
<1>8. Bytes(b, 32, 30) = Padded(d.name) /\ Bytes(b, 26, 6) = d.mac
      /\ Bytes(b, 22, 4) = d.multicast /\ Bytes(b, 16, 6) = d.serial
  BY <1>1, <1>2, <1>3, <1>4, DeviceParts, BytesAre
<1>9. U16At(b, 14) = d.installation /\ U16At(b, 12) = d.address
  BY <1>5, <1>6, DeviceParts, WordIs
<1>10. Len(b) - 8 >= DeviceInfoLength
  <2>1. Len(b) \in Nat /\ 8 + 54 <= Len(b)
    <3> DEFINE s == DeviceInfoOut(d)
               n == 54
    <3>1. StandsAt(b, 8, s) /\ Sized(s, n) /\ n \in Nat /\ Len(b) \in Nat
      BY <1>20
    <3> HIDE DEF s, n
    <3>2. 8 + n <= Len(b)
      BY <3>1, Reaches
    <3> QED
      BY <3>1, <3>2 DEF n
  <2> QED
    BY <2>1 DEF DeviceInfoLength
<1>11. d = [medium |-> d.medium, status |-> d.status, address |-> d.address,
            installation |-> d.installation, serial |-> d.serial,
            multicast |-> d.multicast, mac |-> d.mac, name |-> d.name]
  BY DEF Devices
<1>12. Unpadded(Padded(d.name)) = d.name
  BY DeviceParts
<1>13. /\ U16At(b, 8 + 4) = d.address /\ U16At(b, 8 + 6) = d.installation
       /\ Bytes(b, 8 + 8, 6) = d.serial /\ Bytes(b, 8 + 14, 4) = d.multicast
       /\ Bytes(b, 8 + 18, 6) = d.mac /\ Unpadded(Bytes(b, 8 + 24, 30)) = d.name
  BY <1>8, <1>9, <1>12
<1> QED
  BY <1>7, <1>10, <1>11, <1>13 DEF DeviceInfoIn

-----------------------------------------------------------------------------
(* BODIES OF THE SERVICES                                                  *)

\* The bytes of a body are as many as it says, and are read as the body.
RoundTrips(m) ==
  Sized(BodyOut(m), CalculatedLength(m)) /\ BodyIn(m.service, BodyOut(m)) = {m}

ConnectRequests == [service : {"CONNECT_REQUEST"}, control : Hpais, data : Hpais,
                    cri : Requests]
ConnectResponses == [service : {"CONNECT_RESPONSE"}, channel : Byte, status : {0}, data : Hpais,
                     crd : Answers]
ConnectionStateRequests ==
  [service : {"CONNECTIONSTATE_REQUEST"}, channel : Byte, control : Hpais]
ConnectionStateResponses ==
  [service : {"CONNECTIONSTATE_RESPONSE"}, channel : Byte, status : Byte]
DisconnectRequests == [service : {"DISCONNECT_REQUEST"}, channel : Byte, control : Hpais]
DisconnectResponses == [service : {"DISCONNECT_RESPONSE"}, channel : Byte, status : Byte]
SearchRequests == [service : {"SEARCH_REQUEST"}, control : Hpais]
SecureWrappers == [service : {"SECURE_WRAPPER"}, session : Word, sequence : Words3,
                   serial : Words3, tag : Word, encrypted : Seq(Byte), mac : ByteString(16)]
SessionRequests == [service : {"SESSION_REQUEST"}, control : Hpais, key : ByteString(32)]
SessionResponses == [service : {"SESSION_RESPONSE"}, session : Word, key : ByteString(32),
                     mac : ByteString(16)]
SessionAuthenticates ==
  [service : {"SESSION_AUTHENTICATE"}, user : 1..127, mac : ByteString(16)]
SessionStatuses == [service : {"SESSION_STATUS"}, status : Byte]
TimerNotifications ==
  [service : {"TIMER_NOTIFY"}, timer : Words3, serial : Words3, tag : Word,
   mac : ByteString(16)]
TunnellingRequests ==
  [service : {"TUNNELLING_REQUEST"}, channel : Byte, seq : Byte, cemi : Seq(Byte)]
TunnellingAcks == [service : {"TUNNELLING_ACK"}, channel : Byte, seq : Byte, status : Byte]

LEMMA ConnectionStateResponseReads == ASSUME NEW m \in ConnectionStateResponses
  PROVE RoundTrips(m)
<1>1. BodyOut(m) = ConnectionStateResponseOut(m)
      /\ BodyIn(m.service, BodyOut(m)) = ConnectionStateResponseIn(BodyOut(m))
  BY DEF ConnectionStateResponses, BodyOut, BodyIn
<1>2. m = [service |-> "CONNECTIONSTATE_RESPONSE", channel |-> m.channel, status |-> m.status]
  BY DEF ConnectionStateResponses
<1>3. m.channel \in Byte /\ m.status \in Byte
  BY DEF ConnectionStateResponses
<1> DEFINE b == <<m.channel, m.status>>
<1>4. Sized(b, 2) /\ CalculatedLength(m) = 2
  BY <1>3, PairType DEF CalculatedLength, FixedLength, ConnectionStateResponses
<1>5. BodyOut(m) = b
  BY <1>1 DEF ConnectionStateResponseOut
<1>6. ConnectionStateResponseIn(b) = {m}
  BY <1>2, <1>3, <1>4 DEF ConnectionStateResponseIn, Sized
<1> QED
  BY <1>1, <1>4, <1>5, <1>6 DEF RoundTrips

LEMMA DisconnectResponseReads == ASSUME NEW m \in DisconnectResponses PROVE RoundTrips(m)
<1>1. BodyOut(m) = DisconnectResponseOut(m)
      /\ BodyIn(m.service, BodyOut(m)) = DisconnectResponseIn(BodyOut(m))
  BY DEF DisconnectResponses, BodyOut, BodyIn
<1>2. m = [service |-> "DISCONNECT_RESPONSE", channel |-> m.channel, status |-> m.status]
  BY DEF DisconnectResponses
<1>3. m.channel \in Byte /\ m.status \in Byte
  BY DEF DisconnectResponses
<1> DEFINE b == <<m.channel, m.status>>
<1>4. Sized(b, 2) /\ CalculatedLength(m) = 2
  BY <1>3, PairType DEF CalculatedLength, FixedLength, DisconnectResponses
<1>5. BodyOut(m) = b
  BY <1>1 DEF DisconnectResponseOut
<1>6. DisconnectResponseIn(b) = {m}
  BY <1>2, <1>3, <1>4 DEF DisconnectResponseIn, Sized
<1> QED
  BY <1>1, <1>4, <1>5, <1>6 DEF RoundTrips

LEMMA ConnectionStateRequestReads == ASSUME NEW m \in ConnectionStateRequests
  PROVE RoundTrips(m)
<1>1. BodyOut(m) = ConnectionStateRequestOut(m)
      /\ BodyIn(m.service, BodyOut(m)) = ConnectionStateRequestIn(BodyOut(m))
  BY DEF ConnectionStateRequests, BodyOut, BodyIn
<1>2. m = [service |-> "CONNECTIONSTATE_REQUEST", channel |-> m.channel, control |-> m.control]
  BY DEF ConnectionStateRequests
<1>3. m.channel \in Byte /\ 0 \in Byte /\ m.control \in Hpais
  BY DEF ConnectionStateRequests, Byte
<1> DEFINE b == <<m.channel, 0>> \o HpaiOut(m.control)
<1>4. Sized(<<m.channel, 0>>, 2) /\ Sized(HpaiOut(m.control), 8)
  BY <1>3, PairType, HpaiType
<1>11. CalculatedLength(m) = 10
  BY DEF CalculatedLength, FixedLength, ConnectionStateRequests
<1>5. BodyOut(m) = b
  BY <1>1 DEF ConnectionStateRequestOut
<1>6. Sized(b, 10)
  BY <1>4, JoinedSized
<1>30. b = <<m.channel, 0>> \o HpaiOut(m.control)
  OBVIOUS
<1> HIDE DEF b
<1>7. b \in Seq(Byte) /\ StandsAt(b, 0, <<m.channel, 0>> \o HpaiOut(m.control))
  BY <1>6, <1>30, Whole DEF Sized
<1>8. StandsAt(b, 0, <<m.channel, 0>>) /\ StandsAt(b, 2, HpaiOut(m.control))
  BY <1>4, <1>7, PartedSized
<1>9. b[0 + 1] = m.channel /\ HpaiIn(b, 2) = {m.control}
  BY <1>3, <1>7, <1>8, PairIs, HpaiIs
<1>10. ConnectionStateRequestIn(b) = {m}
  BY <1>2, <1>9 DEF ConnectionStateRequestIn
<1> QED
  BY <1>1, <1>5, <1>6, <1>10, <1>11 DEF RoundTrips

LEMMA DisconnectRequestReads == ASSUME NEW m \in DisconnectRequests PROVE RoundTrips(m)
<1>1. BodyOut(m) = DisconnectRequestOut(m)
      /\ BodyIn(m.service, BodyOut(m)) = DisconnectRequestIn(BodyOut(m))
  BY DEF DisconnectRequests, BodyOut, BodyIn
<1>2. m = [service |-> "DISCONNECT_REQUEST", channel |-> m.channel, control |-> m.control]
  BY DEF DisconnectRequests
<1>3. m.channel \in Byte /\ 0 \in Byte /\ m.control \in Hpais
  BY DEF DisconnectRequests, Byte
<1> DEFINE b == <<m.channel, 0>> \o HpaiOut(m.control)
<1>4. Sized(<<m.channel, 0>>, 2) /\ Sized(HpaiOut(m.control), 8)
  BY <1>3, PairType, HpaiType
<1>11. CalculatedLength(m) = 10
  BY DEF CalculatedLength, FixedLength, DisconnectRequests
<1>5. BodyOut(m) = b
  BY <1>1 DEF DisconnectRequestOut
<1>6. Sized(b, 10)
  BY <1>4, JoinedSized
<1>30. b = <<m.channel, 0>> \o HpaiOut(m.control)
  OBVIOUS
<1> HIDE DEF b
<1>7. b \in Seq(Byte) /\ StandsAt(b, 0, <<m.channel, 0>> \o HpaiOut(m.control))
  BY <1>6, <1>30, Whole DEF Sized
<1>8. StandsAt(b, 0, <<m.channel, 0>>) /\ StandsAt(b, 2, HpaiOut(m.control))
  BY <1>4, <1>7, PartedSized
<1>9. b[0 + 1] = m.channel /\ HpaiIn(b, 2) = {m.control}
  BY <1>3, <1>7, <1>8, PairIs, HpaiIs
<1>10. DisconnectRequestIn(b) = {m}
  BY <1>2, <1>9 DEF DisconnectRequestIn
<1> QED
  BY <1>1, <1>5, <1>6, <1>10, <1>11 DEF RoundTrips

LEMMA SearchRequestReads == ASSUME NEW m \in SearchRequests PROVE RoundTrips(m)
<1>1. BodyOut(m) = SearchRequestOut(m)
      /\ BodyIn(m.service, BodyOut(m)) = SearchRequestIn(BodyOut(m))
  BY DEF SearchRequests, BodyOut, BodyIn
<1>2. m = [service |-> "SEARCH_REQUEST", control |-> m.control]
  BY DEF SearchRequests
<1>3. m.control \in Hpais
  BY DEF SearchRequests
<1> DEFINE b == HpaiOut(m.control)
<1>4. Sized(b, 8) /\ CalculatedLength(m) = 8
  BY <1>3, HpaiType DEF CalculatedLength, FixedLength, SearchRequests
<1>5. BodyOut(m) = b
  BY <1>1 DEF SearchRequestOut
<1>30. b = HpaiOut(m.control)
  OBVIOUS
<1> HIDE DEF b
<1>6. b \in Seq(Byte) /\ StandsAt(b, 0, HpaiOut(m.control))
  BY <1>4, <1>30, Whole DEF Sized
<1>7. HpaiIn(b, 0) = {m.control}
  BY <1>3, <1>6, HpaiIs
<1>8. SearchRequestIn(b) = {m}
  BY <1>2, <1>7 DEF SearchRequestIn
<1> QED
  BY <1>1, <1>4, <1>5, <1>8 DEF RoundTrips

LEMMA SessionStatusReads == ASSUME NEW m \in SessionStatuses PROVE RoundTrips(m)
<1>1. BodyOut(m) = SessionStatusOut(m)
      /\ BodyIn(m.service, BodyOut(m)) = SessionStatusIn(BodyOut(m))
  BY DEF SessionStatuses, BodyOut, BodyIn
<1>2. m = [service |-> "SESSION_STATUS", status |-> m.status]
  BY DEF SessionStatuses
<1>3. m.status \in Byte
  BY DEF SessionStatuses
<1> DEFINE b == <<m.status>>
<1>4. Sized(b, 1) /\ CalculatedLength(m) = 1
  BY <1>3 DEF CalculatedLength, FixedLength, SessionStatuses, Sized
<1>5. BodyOut(m) = b
  BY <1>1 DEF SessionStatusOut
<1>6. SessionStatusIn(b) = {m}
  BY <1>2, <1>3, <1>4 DEF SessionStatusIn, Sized
<1> QED
  BY <1>1, <1>4, <1>5, <1>6 DEF RoundTrips

LEMMA TunnellingAckReads == ASSUME NEW m \in TunnellingAcks PROVE RoundTrips(m)
<1>1. BodyOut(m) = TunnellingAckOut(m)
      /\ BodyIn(m.service, BodyOut(m)) = TunnellingAckIn(BodyOut(m))
  BY DEF TunnellingAcks, BodyOut, BodyIn
<1>2. m = [service |-> "TUNNELLING_ACK", channel |-> m.channel, seq |-> m.seq,
           status |-> m.status]
  BY DEF TunnellingAcks
<1>3. m.channel \in Byte /\ m.seq \in Byte /\ m.status \in Byte /\ 4 \in Byte
  BY DEF TunnellingAcks, Byte
<1> DEFINE b == <<4, m.channel, m.seq, m.status>>
<1>4. Sized(b, 4) /\ CalculatedLength(m) = 4
  BY <1>3, QuadType DEF CalculatedLength, FixedLength, TunnellingAcks
<1>5. BodyOut(m) = b
  BY <1>1 DEF TunnellingAckOut
<1>7. Len(b) = 4 /\ b[1] = 4 /\ b[2] = m.channel /\ b[3] = m.seq /\ b[4] = m.status
  BY <1>3
<1>30. b = <<4, m.channel, m.seq, m.status>>
  OBVIOUS
<1> HIDE DEF b
<1>6. TunnellingAckIn(b) = {m}
  BY <1>2, <1>7 DEF TunnellingAckIn
<1> QED
  BY <1>1, <1>4, <1>5, <1>6 DEF RoundTrips

LEMMA TunnellingRequestReads == ASSUME NEW m \in TunnellingRequests PROVE RoundTrips(m)
<1>1. BodyOut(m) = TunnellingRequestOut(m)
      /\ BodyIn(m.service, BodyOut(m)) = TunnellingRequestIn(BodyOut(m))
  BY DEF TunnellingRequests, BodyOut, BodyIn
<1>2. m = [service |-> "TUNNELLING_REQUEST", channel |-> m.channel, seq |-> m.seq,
           cemi |-> m.cemi]
  BY DEF TunnellingRequests
<1>3. m.channel \in Byte /\ m.seq \in Byte /\ 4 \in Byte /\ 0 \in Byte /\ m.cemi \in Seq(Byte)
  BY DEF TunnellingRequests, Byte
<1> DEFINE l == <<4, m.channel, m.seq, 0>>
           n == Len(m.cemi)
           b == l \o m.cemi
<1>4. Sized(l, 4) /\ Sized(m.cemi, n) /\ n \in Nat
  BY <1>3, QuadType DEF Sized
<1>11. CalculatedLength(m) = 4 + n
  BY DEF CalculatedLength, TunnellingRequests
<1>5. BodyOut(m) = b
  BY <1>1 DEF TunnellingRequestOut
<1> HIDE DEF l, n
<1>6. Sized(b, 4 + n)
  BY <1>4, JoinedSized
<1>30. b = l \o m.cemi
  OBVIOUS
<1> HIDE DEF b
<1>7. b \in Seq(Byte) /\ StandsAt(b, 0, l \o m.cemi) /\ Len(b) = 4 + n
  BY <1>6, <1>30, Whole DEF Sized
<1>8. StandsAt(b, 0, l) /\ StandsAt(b, 4, m.cemi)
  BY <1>4, <1>7, PartedSized
<1>9. b[0 + 1] = 4 /\ b[0 + 2] = m.channel /\ b[0 + 3] = m.seq /\ Rest(b, 4) = m.cemi
  <2>1. Rest(b, 4) = m.cemi
    BY <1>4, <1>7, <1>8, RestIs
  <2>2. b[0 + 1] = 4 /\ b[0 + 2] = m.channel /\ b[0 + 3] = m.seq
    BY <1>3, <1>7, <1>8, QuadIs DEF l
  <2> QED
    BY <2>1, <2>2
<1>10. TunnellingRequestIn(b) = {m}
  <2>1. ~(Len(b) < 4) /\ b[1] = 4 /\ b[2] = m.channel /\ b[3] = m.seq
    BY <1>4, <1>7, <1>9
  <2> QED
    BY <1>2, <1>9, <2>1 DEF TunnellingRequestIn
<1> QED
  BY <1>1, <1>11, <1>5, <1>6, <1>10 DEF RoundTrips

LEMMA SessionRequestReads == ASSUME NEW m \in SessionRequests PROVE RoundTrips(m)
<1>1. BodyOut(m) = SessionRequestOut(m)
      /\ BodyIn(m.service, BodyOut(m)) = SessionRequestIn(BodyOut(m))
  BY DEF SessionRequests, BodyOut, BodyIn
<1>2. m = [service |-> "SESSION_REQUEST", control |-> m.control, key |-> m.key]
  BY DEF SessionRequests
<1>3. m.control \in Hpais /\ Sized(m.key, 32)
  BY DEF SessionRequests, ByteString, Sized
<1> DEFINE b == HpaiOut(m.control) \o m.key
<1>4. Sized(HpaiOut(m.control), 8) /\ CalculatedLength(m) = 40
  BY <1>3, HpaiType DEF CalculatedLength, FixedLength, SessionRequests
<1>5. BodyOut(m) = b
  BY <1>1 DEF SessionRequestOut
<1>6. Sized(b, 40)
  BY <1>3, <1>4, JoinedSized
<1>30. b = HpaiOut(m.control) \o m.key
  OBVIOUS
<1> HIDE DEF b
<1>7. b \in Seq(Byte) /\ StandsAt(b, 0, HpaiOut(m.control) \o m.key) /\ Len(b) = 40
  BY <1>6, <1>30, Whole DEF Sized
<1>8. StandsAt(b, 0, HpaiOut(m.control)) /\ StandsAt(b, 8, m.key)
  BY <1>3, <1>4, <1>7, PartedSized
<1>9. HpaiIn(b, 0) = {m.control} /\ Bytes(b, 8, 32) = m.key
  BY <1>3, <1>7, <1>8, HpaiIs, BytesAre
<1>10. SessionRequestIn(b) = {m}
  BY <1>2, <1>7, <1>9 DEF SessionRequestIn
<1> QED
  BY <1>1, <1>4, <1>5, <1>6, <1>10 DEF RoundTrips

LEMMA SessionResponseReads == ASSUME NEW m \in SessionResponses PROVE RoundTrips(m)
<1>1. BodyOut(m) = SessionResponseOut(m)
      /\ BodyIn(m.service, BodyOut(m)) = SessionResponseIn(BodyOut(m))
  BY DEF SessionResponses, BodyOut, BodyIn
<1>2. m = [service |-> "SESSION_RESPONSE", session |-> m.session, key |-> m.key, mac |-> m.mac]
  BY DEF SessionResponses
<1>3. m.session \in Word /\ Sized(m.key, 32) /\ Sized(m.mac, 16) /\ Sized(U16(m.session), 2)
  BY WordType DEF SessionResponses, ByteString, Sized
<1> DEFINE b == U16(m.session) \o m.key \o m.mac
<1>4. Sized(U16(m.session) \o m.key, 34)
  BY <1>3, JoinedSized
<1>5. CalculatedLength(m) = 50
  BY DEF CalculatedLength, FixedLength, SessionResponses
<1>6. BodyOut(m) = b
  BY <1>1 DEF SessionResponseOut
<1>7. Sized(b, 50)
  BY <1>3, <1>4, JoinedSized
<1>8. b = U16(m.session) \o m.key \o m.mac
  OBVIOUS
<1> HIDE DEF b
<1>9. b \in Seq(Byte) /\ StandsAt(b, 0, U16(m.session) \o m.key \o m.mac) /\ Len(b) = 50
  BY <1>7, <1>8, Whole DEF Sized
<1>10. StandsAt(b, 0, U16(m.session) \o m.key) /\ StandsAt(b, 34, m.mac)
  BY <1>3, <1>4, <1>9, PartedSized
<1>11. StandsAt(b, 0, U16(m.session)) /\ StandsAt(b, 2, m.key)
  BY <1>3, <1>9, <1>10, PartedSized
<1>12. b \in Seq(Byte) /\ m.session \in Word /\ Sized(m.key, 32) /\ Sized(m.mac, 16)
  BY <1>3, <1>9
<1>13. U16At(b, 0) = m.session
  BY ONLY <1>12, <1>11, WordIs
<1>14. Bytes(b, 2, 32) = m.key
  BY ONLY <1>12, <1>11, BytesAre
<1>15. Bytes(b, 34, 16) = m.mac
  BY ONLY <1>12, <1>10, BytesAre
<1>16. U16At(b, 0) = m.session /\ Bytes(b, 2, 32) = m.key /\ Bytes(b, 34, 16) = m.mac
  BY ONLY <1>13, <1>14, <1>15
<1>17. SessionResponseIn(b) = {m}
  BY <1>2, <1>9, <1>16 DEF SessionResponseIn
<1> QED
  BY <1>1, <1>5, <1>6, <1>7, <1>17 DEF RoundTrips

LEMMA SessionAuthenticateReads == ASSUME NEW m \in SessionAuthenticates PROVE RoundTrips(m)
<1>1. BodyOut(m) = SessionAuthenticateOut(m)
      /\ BodyIn(m.service, BodyOut(m)) = SessionAuthenticateIn(BodyOut(m))
  BY DEF SessionAuthenticates, BodyOut, BodyIn
<1>2. m = [service |-> "SESSION_AUTHENTICATE", user |-> m.user, mac |-> m.mac]
  BY DEF SessionAuthenticates
<1>3. m.user \in Byte /\ 0 \in Byte /\ Sized(m.mac, 16)
  BY DEF SessionAuthenticates, ByteString, Sized, Byte
<1> DEFINE b == <<0, m.user>> \o m.mac
<1>4. Sized(<<0, m.user>>, 2) /\ CalculatedLength(m) = 18
  BY <1>3, PairType DEF CalculatedLength, FixedLength, SessionAuthenticates
<1>5. BodyOut(m) = b
  BY <1>1 DEF SessionAuthenticateOut
<1>6. Sized(b, 18)
  BY <1>3, <1>4, JoinedSized
<1>30. b = <<0, m.user>> \o m.mac
  OBVIOUS
<1> HIDE DEF b
<1>7. b \in Seq(Byte) /\ StandsAt(b, 0, <<0, m.user>> \o m.mac) /\ Len(b) = 18
  BY <1>6, <1>30, Whole DEF Sized
<1>8. StandsAt(b, 0, <<0, m.user>>) /\ StandsAt(b, 2, m.mac)
  BY <1>3, <1>4, <1>7, PartedSized
<1>9. b[0 + 2] = m.user /\ Bytes(b, 2, 16) = m.mac
  BY <1>3, <1>7, <1>8, PairIs, BytesAre
<1>10. SessionAuthenticateIn(b) = {m}
  <2>1. b[2] = m.user
    BY <1>9
  <2> QED
    BY <1>2, <1>7, <1>9, <2>1 DEF SessionAuthenticateIn
<1> QED
  BY <1>1, <1>4, <1>5, <1>6, <1>10 DEF RoundTrips

LEMMA TimerNotifyReads == ASSUME NEW m \in TimerNotifications PROVE RoundTrips(m)
<1>1. BodyOut(m) = TimerNotifyOut(m)
      /\ BodyIn(m.service, BodyOut(m)) = TimerNotifyIn(BodyOut(m))
  BY DEF TimerNotifications, BodyOut, BodyIn
<1>2. m = [service |-> "TIMER_NOTIFY", timer |-> m.timer, serial |-> m.serial, tag |-> m.tag,
           mac |-> m.mac]
  BY DEF TimerNotifications
<1> DEFINE t == U48(m.timer)
           s == U48(m.serial)
           g == U16(m.tag)
           b == t \o s \o g \o m.mac
<1>3. m.timer \in Words3 /\ m.serial \in Words3 /\ m.tag \in Word /\ Sized(m.mac, 16)
  BY DEF TimerNotifications, ByteString, Sized
<1>11. Sized(t, 6) /\ Sized(s, 6) /\ Sized(g, 2)
  BY <1>3, WordType, LongType
<1>5. BodyOut(m) = b /\ CalculatedLength(m) = 30
  BY <1>1 DEF TimerNotifyOut, CalculatedLength, FixedLength, TimerNotifications
<1> HIDE DEF t, s, g
<1>4. Sized(t \o s, 12)
  BY <1>11, JoinedSized
<1>12. Sized(t \o s \o g, 14)
  BY <1>11, <1>4, JoinedSized
<1>6. Sized(b, 30)
  BY <1>3, <1>12, JoinedSized
<1>30. b = t \o s \o g \o m.mac
  OBVIOUS
<1> HIDE DEF b
<1>7. b \in Seq(Byte) /\ StandsAt(b, 0, t \o s \o g \o m.mac) /\ Len(b) = 30
  BY <1>6, <1>30, Whole DEF Sized
<1>8. StandsAt(b, 0, t \o s \o g) /\ StandsAt(b, 14, m.mac)
  BY <1>3, <1>12, <1>7, PartedSized
<1>13. StandsAt(b, 0, t \o s) /\ StandsAt(b, 12, g)
  BY <1>11, <1>4, <1>7, <1>8, PartedSized
<1>14. StandsAt(b, 0, t) /\ StandsAt(b, 6, s)
  BY <1>11, <1>7, <1>13, PartedSized
<1>9. U48At(b, 0) = m.timer /\ U48At(b, 6) = m.serial
  BY <1>3, <1>7, <1>14, LongIs DEF t, s
<1>15. U16At(b, 12) = m.tag /\ Bytes(b, 14, 16) = m.mac
  BY <1>3, <1>7, <1>8, <1>13, WordIs, BytesAre DEF g
<1>10. TimerNotifyIn(b) = {m}
  BY <1>2, <1>7, <1>9, <1>15 DEF TimerNotifyIn
<1> QED
  BY <1>1, <1>5, <1>6, <1>10 DEF RoundTrips

LEMMA SecureWrapperReads == ASSUME NEW m \in SecureWrappers PROVE RoundTrips(m)
<1>1. BodyOut(m) = SecureWrapperOut(m)
      /\ BodyIn(m.service, BodyOut(m)) = SecureWrapperIn(BodyOut(m))
  BY DEF SecureWrappers, BodyOut, BodyIn
<1>2. m = [service |-> "SECURE_WRAPPER", session |-> m.session, sequence |-> m.sequence,
           serial |-> m.serial, tag |-> m.tag, encrypted |-> m.encrypted, mac |-> m.mac]
  BY DEF SecureWrappers
<1> DEFINE i == U16(m.session)
           t == U48(m.sequence)
           s == U48(m.serial)
           g == U16(m.tag)
           n == Len(m.encrypted)
           b == i \o t \o s \o g \o m.encrypted \o m.mac
<1>3. /\ m.session \in Word /\ m.sequence \in Words3 /\ m.serial \in Words3 /\ m.tag \in Word
      /\ Sized(m.mac, 16) /\ m.encrypted \in Seq(Byte)
  BY DEF SecureWrappers, ByteString, Sized
<1>11. Sized(i, 2) /\ Sized(t, 6) /\ Sized(s, 6) /\ Sized(g, 2) /\ Sized(m.encrypted, n)
       /\ n \in Nat
  BY <1>3, WordType, LongType DEF Sized
<1>5. BodyOut(m) = b /\ CalculatedLength(m) = 32 + n
  BY <1>1 DEF SecureWrapperOut, CalculatedLength, SecureWrappers
<1> HIDE DEF i, t, s, g, n
<1>4. Sized(i \o t, 8)
  BY <1>11, JoinedSized
<1>12. Sized(i \o t \o s, 14)
  BY <1>11, <1>4, JoinedSized
<1>16. Sized(i \o t \o s \o g, 16)
  BY <1>11, <1>12, JoinedSized
<1>17. Sized(i \o t \o s \o g \o m.encrypted, 16 + n)
  BY <1>11, <1>16, JoinedSized
<1>6. Sized(b, (16 + n) + 16)
  <2>1. 16 + n \in Nat
    BY <1>11
  <2> QED
    BY <1>3, <1>17, <2>1, JoinedSized
<1>30. b = i \o t \o s \o g \o m.encrypted \o m.mac
  OBVIOUS
<1> HIDE DEF b
<1>18. (16 + n) + 16 = 32 + n /\ 16 + n \in Nat
  BY <1>11
<1>7. b \in Seq(Byte) /\ StandsAt(b, 0, i \o t \o s \o g \o m.encrypted \o m.mac)
      /\ Len(b) = 32 + n
  BY <1>6, <1>18, <1>30, Whole DEF Sized
<1>8. StandsAt(b, 0, i \o t \o s \o g \o m.encrypted) /\ StandsAt(b, 16 + n, m.mac)
  BY <1>3, <1>17, <1>18, <1>7, PartedSized
<1>19. StandsAt(b, 0, i \o t \o s \o g) /\ StandsAt(b, 16, m.encrypted)
  BY <1>11, <1>16, <1>7, <1>8, PartedSized
<1>20. StandsAt(b, 0, i \o t \o s) /\ StandsAt(b, 14, g)
  BY <1>11, <1>12, <1>7, <1>19, PartedSized
<1>13. StandsAt(b, 0, i \o t) /\ StandsAt(b, 8, s)
  BY <1>11, <1>4, <1>7, <1>20, PartedSized
<1>14. StandsAt(b, 0, i) /\ StandsAt(b, 2, t)
  BY <1>11, <1>7, <1>13, PartedSized
<1>9. U48At(b, 2) = m.sequence /\ U48At(b, 8) = m.serial
  BY <1>3, <1>7, <1>13, <1>14, LongIs DEF t, s
<1>15. U16At(b, 0) = m.session /\ U16At(b, 14) = m.tag
  BY <1>3, <1>7, <1>14, <1>20, WordIs DEF i, g
<1>21. ~(Len(b) < 32) /\ Len(b) - 32 = n /\ Len(b) - 16 = 16 + n /\ Len(b) = (16 + n) + 16
  BY <1>7, <1>11
<1>22. Bytes(b, 16, n) = m.encrypted /\ Rest(b, 16 + n) = m.mac
  BY <1>3, <1>7, <1>8, <1>11, <1>18, <1>19, <1>21, BytesAre, RestIs
<1>10. SecureWrapperIn(b) = {m}
  BY <1>2, <1>9, <1>15, <1>21, <1>22 DEF SecureWrapperIn
<1> QED
  BY <1>1, <1>5, <1>6, <1>18, <1>10 DEF RoundTrips

LEMMA ConnectRequestReads == ASSUME NEW m \in ConnectRequests, Absent \notin Word
  PROVE RoundTrips(m)
<1>1. BodyOut(m) = ConnectRequestOut(m)
      /\ BodyIn(m.service, BodyOut(m)) = ConnectRequestIn(BodyOut(m))
  BY DEF ConnectRequests, BodyOut, BodyIn
<1>2. m = [service |-> "CONNECT_REQUEST", control |-> m.control, data |-> m.data, cri |-> m.cri]
  BY DEF ConnectRequests
<1> DEFINE c == HpaiOut(m.control)
           d == HpaiOut(m.data)
           r == CriOut(m.cri)
           n == CriLength(m.cri)
           b == c \o d \o r
<1>3. m.control \in Hpais /\ m.data \in Hpais /\ m.cri \in Requests
  BY DEF ConnectRequests
<1>4. Sized(c, 8) /\ Sized(d, 8) /\ Sized(r, n) /\ n \in Nat
  BY <1>3, HpaiType, CriType
<1>5. BodyOut(m) = b /\ CalculatedLength(m) = 16 + n
  BY <1>1 DEF ConnectRequestOut, CalculatedLength, ConnectRequests
<1> HIDE DEF c, d, r, n
<1>6. Sized(c \o d, 16)
  BY <1>4, JoinedSized
<1>7. Sized(b, 16 + n)
  BY <1>4, <1>6, JoinedSized
<1>30. b = c \o d \o r
  OBVIOUS
<1> HIDE DEF b
<1>8. b \in Seq(Byte) /\ StandsAt(b, 0, c \o d \o r)
  BY <1>7, <1>30, Whole DEF Sized
<1>9. StandsAt(b, 0, c \o d) /\ StandsAt(b, 16, r)
  BY <1>4, <1>6, <1>8, PartedSized
<1>10. StandsAt(b, 0, c) /\ StandsAt(b, 8, d)
  BY <1>4, <1>8, <1>9, PartedSized
<1>11. HpaiIn(b, 0) = {m.control} /\ HpaiIn(b, 8) = {m.data}
  BY <1>3, <1>8, <1>10, HpaiIs DEF c, d
<1>12. CriIn(b, 16) = {m.cri}
  BY <1>3, <1>8, <1>9, CriIs DEF r
<1>13. ConnectRequestIn(b) = {m}
  BY <1>2, <1>11, <1>12 DEF ConnectRequestIn
<1> QED
  BY <1>1, <1>5, <1>7, <1>13 DEF RoundTrips

LEMMA ConnectResponseReads == ASSUME NEW m \in ConnectResponses PROVE RoundTrips(m)
<1>1. BodyOut(m) = ConnectResponseOut(m)
      /\ BodyIn(m.service, BodyOut(m)) = ConnectResponseIn(BodyOut(m))
  BY DEF ConnectResponses, BodyOut, BodyIn
<1>2. m = [service |-> "CONNECT_RESPONSE", channel |-> m.channel, status |-> m.status,
           data |-> m.data, crd |-> m.crd]
  BY DEF ConnectResponses
<1> DEFINE l == <<m.channel, m.status>>
           d == HpaiOut(m.data)
           r == CrdOut(m.crd)
           n == CrdLength(m.crd)
           b == l \o (d \o r)
<1>3. m.channel \in Byte /\ m.status = 0 /\ 0 \in Byte /\ m.data \in Hpais /\ m.crd \in Answers
  BY DEF ConnectResponses, Byte
<1>4. Sized(l, 2) /\ Sized(d, 8) /\ Sized(r, n) /\ n \in Nat
  <2>1. Sized(l, 2)
    BY <1>3, PairType
  <2> QED
    BY <1>3, <2>1, HpaiType, CrdType
<1>5. BodyOut(m) = b /\ CalculatedLength(m) = 10 + n
  BY <1>1, <1>3 DEF ConnectResponseOut, CalculatedLength, ConnectResponses
<1> HIDE DEF l, d, r, n
<1>6. Sized(d \o r, 8 + n)
  BY <1>4, JoinedSized
<1>14. 8 + n \in Nat /\ 2 + (8 + n) = 10 + n
  BY <1>4
<1>7. Sized(b, 2 + (8 + n))
  BY <1>4, <1>6, <1>14, JoinedSized
<1>30. b = l \o (d \o r)
  OBVIOUS
<1> HIDE DEF b
<1>8. b \in Seq(Byte) /\ StandsAt(b, 0, l \o (d \o r)) /\ Len(b) = 10 + n
  BY <1>7, <1>14, <1>30, Whole DEF Sized
<1>9. StandsAt(b, 0, l) /\ StandsAt(b, 2, d \o r)
  BY <1>4, <1>6, <1>14, <1>8, PartedSized
<1>10. StandsAt(b, 2, d) /\ StandsAt(b, 10, r)
  BY <1>4, <1>8, <1>9, PartedSized
<1>11. HpaiIn(b, 2) = {m.data} /\ CrdIn(b, 10) = {m.crd}
  BY <1>3, <1>8, <1>10, HpaiIs, CrdIs DEF d, r
<1>12. b[1] = m.channel /\ b[2] = 0
  <2>1. b[0 + 1] = m.channel /\ b[0 + 2] = 0
    BY <1>3, <1>8, <1>9, PairIs DEF l
  <2> QED
    BY <2>1
<1>13. ConnectResponseIn(b) = {m}
  <2>1. ~(Len(b) < 2)
    BY <1>4, <1>8
  <2> QED
    BY <1>2, <1>3, <1>11, <1>12, <2>1 DEF ConnectResponseIn
<1> QED
  BY <1>1, <1>5, <1>7, <1>14, <1>13 DEF RoundTrips

\* Without device info the blocks behind the endpoint do not begin with one.
SearchResponses ==
  {m \in [service : {"SEARCH_RESPONSE"}, control : Hpais, device : Devices \cup {Absent},
          trailing : Seq(Byte)] : m.device = Absent => DeviceInfoIn(m.trailing, 0) = {}}

LEMMA SearchResponseReads == ASSUME NEW m \in SearchResponses PROVE RoundTrips(m)
<1>1. BodyOut(m) = SearchResponseOut(m)
      /\ BodyIn(m.service, BodyOut(m)) = SearchResponseIn(BodyOut(m))
  BY DEF SearchResponses, BodyOut, BodyIn
<1>2. m = [service |-> "SEARCH_RESPONSE", control |-> m.control, device |-> m.device,
           trailing |-> m.trailing]
  BY DEF SearchResponses
<1> DEFINE c == HpaiOut(m.control)
           d == IF m.device = Absent THEN <<>> ELSE DeviceInfoOut(m.device)
           k == IF m.device = Absent THEN 0 ELSE 54
           n == Len(m.trailing)
           b == c \o d \o m.trailing
<1>3. m.control \in Hpais /\ m.device \in Devices \cup {Absent} /\ m.trailing \in Seq(Byte)
  BY DEF SearchResponses
<1>4. Sized(c, 8) /\ Sized(d, k) /\ Sized(m.trailing, n) /\ n \in Nat /\ k \in Nat
  <2>1. Sized(d, k)
    BY <1>3, NoBytes, DeviceType
  <2> QED
    BY <1>3, <2>1, HpaiType DEF Sized
<1>5. BodyOut(m) = b
  BY <1>1 DEF SearchResponseOut
<1>6. CalculatedLength(m) = (8 + k) + n
  BY DEF CalculatedLength, SearchResponses, DeviceInfoLength
<1>30. b = c \o d \o m.trailing
  OBVIOUS
<1>31. /\ m.device = Absent => d = <<>> /\ k = 0
       /\ m.device # Absent => d = DeviceInfoOut(m.device) /\ k = 54
  OBVIOUS
<1>32. c = HpaiOut(m.control)
  OBVIOUS
<1> HIDE DEF b, c, d, k, n
<1>7. Sized(c \o d, 8 + k)
  BY <1>4, JoinedSized
<1>8. 8 + k \in Nat
  BY <1>4
<1>9. Sized(b, (8 + k) + n)
  BY <1>4, <1>7, <1>8, <1>30, JoinedSized
<1>10. b \in Seq(Byte) /\ Len(b) = (8 + k) + n /\ StandsAt(b, 0, c \o d \o m.trailing)
  BY <1>9, <1>30, Whole DEF Sized
<1>11. StandsAt(b, 0, c \o d) /\ StandsAt(b, 8 + k, m.trailing)
  BY <1>4, <1>7, <1>8, <1>10, PartedSized
<1>12. StandsAt(b, 0, c) /\ StandsAt(b, 8, d)
  BY <1>4, <1>10, <1>11, PartedSized
<1>13. HpaiIn(b, 0) = {m.control}
  BY <1>3, <1>10, <1>12, <1>32, HpaiIs
<1>14. Rest(b, 8 + k) = m.trailing
  BY <1>4, <1>8, <1>10, <1>11, RestIs
<1>15. CASE m.device # Absent
  <2>1. DeviceInfoIn(b, 8) = {m.device}
    BY <1>3, <1>10, <1>12, <1>15, <1>31, DeviceInfoIs
  <2>2. (CHOOSE x \in {m.device} : TRUE) = m.device /\ {m.device} # {}
    OBVIOUS
  <2>3. Rest(b, 8 + DeviceInfoLength) = m.trailing
    BY <1>14, <1>15, <1>31 DEF DeviceInfoLength
  <2>4. SearchResponseIn(b) = {m}
    BY <1>2, <1>13, <2>1, <2>2, <2>3 DEF SearchResponseIn
  <2> QED
    BY <1>1, <1>5, <1>6, <1>9, <2>4 DEF RoundTrips
<1>16. CASE m.device = Absent
  <2>1. DeviceInfoIn(m.trailing, 0) = {}
    BY <1>16 DEF SearchResponses
  <2>2. k = 0 /\ Len(b) = 8 + n /\ Len(m.trailing) = n
    BY <1>16, <1>31, <1>10, <1>4 DEF Sized
  <2>3. DeviceInfoIn(b, 8) = {}
    <3> SUFFICES ASSUME DeviceInfoIn(b, 8) # {} PROVE FALSE
      OBVIOUS
    <3>1. Len(b) - 8 >= 54 /\ b[8 + 1] = 54 /\ b[8 + 2] = 1
      BY DEF DeviceInfoIn, DeviceInfoLength
    <3>2. n >= 54 /\ 1 \in 1..n /\ 2 \in 1..n
      BY <3>1, <2>2, <1>4
    <3>3. StandsAt(b, 8, m.trailing)
      BY <1>11, <2>2
    <3>4. m.trailing[1] = 54 /\ m.trailing[2] = 1
      BY <3>1, <3>2, <3>3, <2>2 DEF StandsAt
    <3>5. Len(m.trailing) - 0 >= 54 /\ m.trailing[0 + 1] = 54 /\ m.trailing[0 + 2] = 1
      BY <3>2, <3>4, <2>2, <1>4
    <3> QED
      BY <3>5, <2>1 DEF DeviceInfoIn, DeviceInfoLength
  <2>4. Rest(b, 8) = m.trailing
    BY <1>14, <2>2
  <2>5. SearchResponseIn(b) = {m}
    BY <1>2, <1>13, <1>16, <2>3, <2>4 DEF SearchResponseIn
  <2> QED
    BY <1>1, <1>5, <1>6, <1>9, <2>5 DEF RoundTrips
<1> QED
  BY <1>15, <1>16

-----------------------------------------------------------------------------
\* The messages of every service, as frames.

Messages ==
  UNION {ConnectRequests, ConnectResponses, ConnectionStateRequests, ConnectionStateResponses,
         DisconnectRequests, DisconnectResponses, SearchRequests, SearchResponses,
         SecureWrappers, SessionRequests, SessionResponses, SessionAuthenticates,
         SessionStatuses, TimerNotifications, TunnellingRequests, TunnellingAcks}

LEMMA BodyReads == ASSUME NEW m \in Messages, Absent \notin Word PROVE RoundTrips(m)
BY ConnectRequestReads, ConnectResponseReads, ConnectionStateRequestReads,
   ConnectionStateResponseReads, DisconnectRequestReads, DisconnectResponseReads,
   SearchRequestReads, SearchResponseReads, SecureWrapperReads, SessionRequestReads,
   SessionResponseReads, SessionAuthenticateReads, SessionStatusReads, TimerNotifyReads,
   TunnellingRequestReads, TunnellingAckReads DEF Messages

LEMMA ServiceKnown ==
  ASSUME NEW m \in Messages
  PROVE  /\ m.service \in Services /\ ServiceType[m.service] \in Word
         /\ m.service = "SESSION_AUTHENTICATE" => m \in SessionAuthenticates
<1>1. m.service \in Services
      /\ (m.service = "SESSION_AUTHENTICATE" => m \in SessionAuthenticates)
  BY DEF Messages, Services, ServiceType,
         ConnectRequests, ConnectResponses, ConnectionStateRequests, ConnectionStateResponses,
         DisconnectRequests, DisconnectResponses, SearchRequests, SearchResponses,
         SecureWrappers, SessionRequests, SessionResponses, SessionAuthenticates,
         SessionStatuses, TimerNotifications, TunnellingRequests, TunnellingAcks
<1>2. \A s \in Services : ServiceType[s] \in Word
  <2>1. {513, 514, 517, 518, 519, 520, 521, 522, 1056, 1057, 2384, 2385, 2386, 2387, 2388, 2389}
          \subseteq Word
    BY SMTT(30) DEF Word
  <2>2. ASSUME NEW s \in Services
        PROVE  ServiceType[s] \in
                 {513, 514, 517, 518, 519, 520, 521, 522, 1056, 1057, 2384, 2385, 2386, 2387,
                  2388, 2389}
    BY SMT DEF Services, ServiceType
  <2> QED
    BY <2>1, <2>2
<1> QED
  BY <1>1, <1>2

LEMMA OneService ==
  \A s, t \in Services : ServiceType[s] = ServiceType[t] => s = t
BY DEF Services, ServiceType

LEMMA HeaderIs ==
  ASSUME NEW code \in Word, NEW total \in Word
  PROVE  /\ Sized(HeaderOut(code, total), 6)
         /\ \A b \in Seq(Byte) : StandsAt(b, 0, HeaderOut(code, total)) =>
              b[1] = HeaderLength /\ b[2] = 16 /\ U16At(b, 2) = code /\ TotalLength(b) = total
<1> DEFINE l == <<HeaderLength, 16>>
           c == U16(code)
           t == U16(total)
<1>1. HeaderLength \in Byte /\ 16 \in Byte
  BY DEF HeaderLength, Byte
<1>2. Sized(l, 2) /\ Sized(c, 2) /\ Sized(t, 2)
  BY <1>1, PairType, WordType
<1>3. HeaderOut(code, total) = l \o c \o t
  BY DEF HeaderOut
<1>4. Sized(l \o c, 4)
  BY <1>2, JoinedSized
<1>5. Sized(l \o c \o t, 6)
  BY <1>2, <1>4, JoinedSized
<1>6. ASSUME NEW b \in Seq(Byte), StandsAt(b, 0, l \o c \o t)
      PROVE  b[1] = HeaderLength /\ b[2] = 16 /\ U16At(b, 2) = code /\ TotalLength(b) = total
  <2> HIDE DEF l, c, t
  <2>1. StandsAt(b, 0, l \o c) /\ StandsAt(b, 4, t)
    BY <1>2, <1>4, <1>6, PartedSized
  <2>2. StandsAt(b, 0, l) /\ StandsAt(b, 2, c)
    BY <1>2, <2>1, PartedSized
  <2>3. b[0 + 1] = HeaderLength /\ b[0 + 2] = 16
    BY <1>1, <2>2, PairIs DEF l
  <2>4. U16At(b, 2) = code /\ U16At(b, 4) = total
    BY <2>1, <2>2, WordIs DEF c, t
  <2> QED
    BY <2>3, <2>4 DEF TotalLength
<1> HIDE DEF l, c, t
<1> QED
  BY <1>3, <1>5, <1>6

-----------------------------------------------------------------------------
(* FRAMES                                                                  *)

\* The length field of a frame is a word.
Fits(m) == HeaderLength + CalculatedLength(m) \in Word

LEMMA FrameParts ==
  ASSUME NEW m \in Messages, Absent \notin Word, Fits(m)
  PROVE  LET b == FrameOut(m)
             n == CalculatedLength(m)
         IN  /\ b \in Seq(Byte) /\ n \in Nat /\ Len(b) = 6 + n
             /\ b[1] = HeaderLength /\ b[2] = 16
             /\ U16At(b, 2) = ServiceType[m.service] /\ TotalLength(b) = 6 + n
             /\ Rest(b, 6) = BodyOut(m)
<1> DEFINE n == CalculatedLength(m)
           total == HeaderLength + n
           code == ServiceType[m.service]
           h == HeaderOut(code, total)
           o == BodyOut(m)
           b == FrameOut(m)
<1>1. Sized(o, n)
  BY BodyReads DEF RoundTrips
<1>2. n \in Nat /\ total \in Word /\ total = 6 + n
  BY <1>1 DEF Fits, HeaderLength, Sized
<1>3. code \in Word
  BY ServiceKnown
<1>4. b = h \o o
  BY DEF FrameOut
<1>5. /\ Sized(h, 6)
      /\ \A d \in Seq(Byte) : StandsAt(d, 0, h) =>
           d[1] = HeaderLength /\ d[2] = 16 /\ U16At(d, 2) = code /\ TotalLength(d) = total
  BY <1>2, <1>3, HeaderIs
<1> HIDE DEF n, total, code, h, o, b
<1>6. Sized(b, 6 + n)
  BY <1>1, <1>2, <1>4, <1>5, JoinedSized
<1>7. b \in Seq(Byte) /\ Len(b) = 6 + n /\ StandsAt(b, 0, h \o o)
  BY <1>6, <1>4, Whole DEF Sized
<1>8. StandsAt(b, 0, h) /\ StandsAt(b, 6, o)
  BY <1>1, <1>2, <1>5, <1>7, PartedSized
<1>9. Rest(b, 6) = o
  BY <1>1, <1>2, <1>7, <1>8, RestIs
<1>10. /\ b \in Seq(Byte) /\ n \in Nat /\ Len(b) = 6 + n
       /\ b[1] = HeaderLength /\ b[2] = 16 /\ U16At(b, 2) = code /\ TotalLength(b) = 6 + n
       /\ Rest(b, 6) = o
  BY <1>2, <1>5, <1>7, <1>8, <1>9
<1> QED
  BY <1>10 DEF n, code, o, b

\* What fromKnx() of knxipFrame.ts and of the body's class reads of the bytes that
\* toKnx() wrote is the message itself, for every message of every service: no
\* field of a body reaches into the next, and the length in the header is that
\* of the bytes, so that a stream of frames is cut where they end.
THEOREM FramesRoundTrip ==
  ASSUME NEW m \in Messages, Fits(m)
  PROVE  /\ FrameIn(FrameOut(m)) = Emitted("message", m)
         /\ Framed(FrameOut(m))
         /\ m # Absent => IsUnit([bytes |-> FrameOut(m), body |-> m])
<1> DEFINE b == FrameOut(m)
           n == CalculatedLength(m)
           o == BodyOut(m)
<1>0. Absent \notin Word
  <2>1. \A x \in Word : x \in Int
    BY SMTT(30) DEF Word
  <2> QED
    BY <2>1, AbsentAssumption DEF AbsentAssumption
<1>1. /\ b \in Seq(Byte) /\ n \in Nat /\ Len(b) = 6 + n
      /\ b[1] = HeaderLength /\ b[2] = 16
      /\ U16At(b, 2) = ServiceType[m.service] /\ TotalLength(b) = 6 + n
      /\ Rest(b, 6) = o
  BY <1>0, FrameParts
<1>2. BodyIn(m.service, o) = {m}
  BY <1>0, BodyReads DEF RoundTrips
<1>3. m.service \in Services
  BY ServiceKnown
<1>4. m.service = "SESSION_AUTHENTICATE" => UserInRange(o)
  <2> SUFFICES ASSUME m.service = "SESSION_AUTHENTICATE" PROVE UserInRange(o)
    OBVIOUS
  <2>1. m \in SessionAuthenticates
    BY ServiceKnown
  <2>2. o = <<0, m.user>> \o m.mac /\ m.user \in 1..127 /\ m.mac \in Seq(Byte)
    BY <2>1 DEF BodyOut, SessionAuthenticates, SessionAuthenticateOut, ByteString
  <2>3. o[2] = m.user
    <3>1. <<0, m.user>> \in Seq(Byte) /\ Len(<<0, m.user>>) = 2 /\ <<0, m.user>>[2] = m.user
      BY <2>2 DEF Byte
    <3>2. Len(m.mac) \in Nat
      BY <2>2
    <3>3. 2 \in 1..Len(<<0, m.user>>) + Len(m.mac) /\ 2 <= Len(<<0, m.user>>)
      BY <3>1, <3>2
    <3> QED
      BY <2>2, <3>1, <3>3, ConcatProperties
  <2> QED
    BY <2>2, <2>3 DEF UserInRange
<1> HIDE DEF b, n, o
<1>5. Framed(b)
  BY <1>1 DEF Framed, HeaderFails, HeaderLength
<1>6. FrameIn(b) = Emitted("message", m)
  <2>1. {s \in Services : ServiceType[s] = U16At(b, 2)} = {m.service}
    BY <1>1, <1>3, OneService
  <2>2. UNION {BodyIn(s, o) : s \in {m.service}} = {m}
    BY <1>2
  <2>3. Rest(b, HeaderLength) = o
    BY <1>1 DEF HeaderLength
  <2>4. ~(Len(b) < HeaderLength) /\ ~HeaderFails(b) /\ ~(TotalLength(b) > Len(b))
    BY <1>1 DEF HeaderFails, HeaderLength
  <2>5. {m} # {} /\ (CHOOSE x \in {m} : TRUE) = m
    OBVIOUS
  <2>6. ~({m.service} = {"SESSION_AUTHENTICATE"} /\ ~UserInRange(o))
    BY <1>4
  <2> QED
    BY <2>1, <2>2, <2>3, <2>4, <2>5, <2>6 DEF FrameIn
<1>7. ASSUME m # Absent PROVE IsUnit([bytes |-> b, body |-> m])
  <2>1. b \in Seq(0..255) /\ b # <<>> /\ b[1] # 16
    BY <1>1 DEF Byte, HeaderLength
  <2> QED
    BY <1>5, <1>6, <1>7, <2>1 DEF IsUnit, ReadsAsSent
<1> QED
  BY <1>5, <1>6, <1>7 DEF b

-----------------------------------------------------------------------------
(* TPCI, APDU, CEMI                                                        *)

\* The bits of a byte: two, four, two.
Packed(y, k, s, c) == y = 64 * k + (4 * s + c)

LEMMA BitsOfByte ==
  ASSUME NEW k \in 0..3, NEW s \in 0..15, NEW c \in 0..3, NEW y, Packed(y, k, s, c)
  PROVE  /\ y \in Byte /\ y \div 64 = k /\ (y \div 4) % 16 = s /\ y % 4 = c
         /\ y >= 128 <=> k \in {2, 3}
<1>0. y = 64 * k + (4 * s + c)
  BY DEF Packed
<1>1. y \in Byte
  BY <1>0 DEF Byte
<1>2. y \div 64 = k
  BY <1>0
<1>3. y \div 4 = 16 * k + s
  BY <1>0
<1>4. (16 * k + s) % 16 = s
  OBVIOUS
<1>5. y % 4 = c
  BY <1>0
<1> QED
  BY <1>0, <1>1, <1>2, <1>3, <1>4, <1>5
\* What a TPCI can be in a telegram to a group, and in one to a device.
TpciFits(t, toGroup, dst) ==
  IF toGroup THEN t \in {Tpci(IF dst = 0 THEN "TDataBroadcast" ELSE "TDataGroup"),
                         Tpci("TDataTagGroup")}
  ELSE \/ t \in {Tpci(kind) : kind \in {"TDataIndividual", "TConnect", "TDisconnect"}}
       \/ t \in [kind : {"TDataConnected", "TAck", "TNak"}, seq : 0..15]

\* c stands in the two bits that the TPCI leaves.
WithTpci(y, c, t) == y = c + TpciOut(t)

ReadsAsTpci(y, toGroup, dst, t, c) ==
  y \in Byte /\ TpciIn(y, toGroup, dst = 0) = {t} /\ (~IsControl(t) => y % 4 = c)

LEMMA TpciReads ==
  ASSUME NEW t, NEW toGroup \in BOOLEAN, NEW dst \in Word, TpciFits(t, toGroup, dst),
         NEW c \in 0..3, IsControl(t) => c = 0,
         NEW y, WithTpci(y, c, t)
  PROVE  ReadsAsTpci(y, toGroup, dst, t, c)
<1> DEFINE Bits(k, s, d) ==
             /\ y \in Byte /\ y \div 64 = k /\ (y \div 4) % 16 = s /\ y % 4 = d
             /\ y >= 128 <=> k \in {2, 3}
<1>0. y = c + TpciOut(t)
  BY DEF WithTpci
<1> SUFFICES y \in Byte /\ TpciIn(y, toGroup, dst = 0) = {t} /\ (~IsControl(t) => y % 4 = c)
  BY DEF ReadsAsTpci
<1> HIDE DEF Word
<1>1. CASE toGroup
  <2>1. CASE t = Tpci(IF dst = 0 THEN "TDataBroadcast" ELSE "TDataGroup")
    <3>1. Packed(y, 0, 0, c) /\ ~IsControl(t)
      BY <1>0, <2>1 DEF Packed, TpciOut, Tpci, IsControl
    <3>2. Bits(0, 0, c)
      BY <3>1, BitsOfByte
    <3> QED
      BY <1>1, <2>1, <3>1, <3>2 DEF TpciIn, Tpci
  <2>2. CASE t = Tpci("TDataTagGroup")
    <3>1. Packed(y, 0, 1, c) /\ ~IsControl(t)
      BY <1>0, <2>2 DEF Packed, TpciOut, Tpci, IsControl
    <3>2. Bits(0, 1, c)
      BY <3>1, BitsOfByte
    <3> QED
      BY <1>1, <2>2, <3>1, <3>2 DEF TpciIn, Tpci
  <2> QED
    BY <1>1, <2>1, <2>2 DEF TpciFits
<1>2. CASE ~toGroup
  <2>1. CASE t = Tpci("TDataIndividual")
    <3>1. Packed(y, 0, 0, c) /\ ~IsControl(t)
      BY <1>0, <2>1 DEF Packed, TpciOut, Tpci, IsControl
    <3>2. Bits(0, 0, c)
      BY <3>1, BitsOfByte
    <3> QED
      BY <1>2, <2>1, <3>1, <3>2 DEF TpciIn, UnicastTpci
  <2>2. CASE t = Tpci("TConnect")
    <3>1. Packed(y, 2, 0, 0) /\ IsControl(t)
      BY <1>0, <2>2 DEF Packed, TpciOut, Tpci, IsControl
    <3>2. Bits(2, 0, 0)
      BY <3>1, BitsOfByte
    <3> QED
      BY <1>2, <2>2, <3>1, <3>2 DEF TpciIn, UnicastTpci
  <2>3. CASE t = Tpci("TDisconnect")
    <3>1. Packed(y, 2, 0, 1) /\ IsControl(t)
      BY <1>0, <2>3 DEF Packed, TpciOut, Tpci, IsControl
    <3>2. Bits(2, 0, 1)
      BY <3>1, BitsOfByte
    <3> QED
      BY <1>2, <2>3, <3>1, <3>2 DEF TpciIn, UnicastTpci
  <2>4. CASE t \in [kind : {"TDataConnected", "TAck", "TNak"}, seq : 0..15]
    <3> DEFINE s == t.seq
    <3>0. s \in 0..15 /\ t = Numbered(t.kind, s)
      BY <2>4 DEF Numbered
    <3>1. CASE t.kind = "TDataConnected"
      <4>1. Packed(y, 1, s, c) /\ ~IsControl(t)
        BY <1>0, <3>0, <3>1 DEF Packed, TpciOut, IsControl
      <4> HIDE DEF s
      <4>2. Bits(1, s, c)
        BY <3>0, <4>1, BitsOfByte
      <4> QED
        BY <1>2, <3>0, <3>1, <4>1, <4>2 DEF TpciIn, UnicastTpci
    <3>2. CASE t.kind = "TAck"
      <4>1. Packed(y, 3, s, 2) /\ IsControl(t)
        BY <1>0, <3>0, <3>2 DEF Packed, TpciOut, IsControl
      <4> HIDE DEF s
      <4>2. Bits(3, s, 2)
        BY <3>0, <4>1, BitsOfByte
      <4> QED
        BY <1>2, <3>0, <3>2, <4>1, <4>2 DEF TpciIn, UnicastTpci
    <3>3. CASE t.kind = "TNak"
      <4>1. Packed(y, 3, s, 3) /\ IsControl(t)
        BY <1>0, <3>0, <3>3 DEF Packed, TpciOut, IsControl
      <4> HIDE DEF s
      <4>2. Bits(3, s, 3)
        BY <3>0, <4>1, BitsOfByte
      <4> QED
        BY <1>2, <3>0, <3>3, <4>1, <4>2 DEF TpciIn, UnicastTpci
    <3> QED
      BY <2>4, <3>1, <3>2, <3>3
  <2> QED
    BY <1>2, <2>1, <2>2, <2>3, <2>4 DEF TpciFits
<1> QED
  BY <1>1, <1>2

-----------------------------------------------------------------------------
\* The APDU.

ApduValues ==
  {a \in [small : BOOLEAN, value : Seq(Byte)] :
     IF a.small THEN Len(a.value) = 1 /\ a.value[1] \in 0..63 ELSE Len(a.value) \in 1..254}

\* An unknown service keeps its bytes.
UnknownPayloads ==
  {p \in [kind : {"Unknown"}, service : 192..1023, raw : Seq(Byte)] :
     Len(p.raw) \in 2..255 /\ p.raw[1] \in 0..3 /\ p.service = U16At(p.raw, 0)}

Payloads ==
  {GroupValueRead} \cup UnknownPayloads
    \cup [kind : {"GroupValueResponse", "GroupValueWrite"}, data : ApduValues]

ApduReads(p) ==
  /\ Sized(ApciOut(p), NpduLength(p) + 1) /\ NpduLength(p) \in 1..254 \cup {255}
  /\ ApciOut(p)[1] \in 0..3 /\ ApciIn(ApciOut(p)) = {p}

LEMMA ReadReads == ApduReads(GroupValueRead)
<1>1. ApciOut(GroupValueRead) = <<0, 0>> /\ NpduLength(GroupValueRead) = 1
  BY DEF ApciOut, NpduLength, GroupValueRead
<1>2. Sized(<<0, 0>>, 2)
  <2>1. 0 \in Byte
    BY DEF Byte
  <2> QED
    BY <2>1, PairType
<1>3. ApciIn(<<0, 0>>) = {GroupValueRead}
  <2>1. U16At(<<0, 0>>, 0) = 0 /\ 0 % 1024 = 0 /\ 0 \div 64 = 0
    BY DEF U16At
  <2> QED
    BY <2>1 DEF ApciIn
<1> QED
  BY <1>1, <1>2, <1>3 DEF ApduReads

LEMMA UnknownReads == ASSUME NEW p \in UnknownPayloads PROVE ApduReads(p)
<1> DEFINE b == p.raw
           s == p.service
           n == Len(b)
<1>0. /\ p.kind = "Unknown" /\ s \in 192..1023 /\ b \in Seq(Byte)
      /\ n \in 2..255 /\ b[1] \in 0..3 /\ s = U16At(b, 0)
      /\ p = [kind |-> "Unknown", service |-> s, raw |-> b]
  BY SMTT(30) DEF UnknownPayloads
<1>1. ApciOut(p) = b
  BY <1>0 DEF ApciOut
<1>2. NpduLength(p) = IF n > 2 THEN n - 1 ELSE 1
  BY <1>0 DEF NpduLength
<1>20. n = Len(b)
  OBVIOUS
<1> HIDE DEF b, s, n
<1>3. ApciIn(b) = {p}
  <2>0. s \in 192..1023
    BY <1>0
  <2>1. s % 1024 = s
    BY ONLY <2>0
  <2>2. s \div 64 \notin {0, 1, 2}
    BY ONLY <2>0
  <2>30. n \in 2..255
    BY <1>0
  <2>31. ~(n < 2)
    BY ONLY <2>30
  <2>3. ~(Len(b) < 2)
    BY <1>20, <2>31, Zenon
  <2>4. U16At(b, 0) % 1024 = s /\ s \div 64 # 0 /\ s \div 64 # 1 /\ s \div 64 # 2
    BY <1>0, <2>1, <2>2
  <2>5. p = [kind |-> "Unknown", service |-> s, raw |-> b]
    BY <1>0
  <2> QED
    BY <2>3, <2>4, <2>5 DEF ApciIn
<1>4. NpduLength(p) \in 1..254 \cup {255} /\ NpduLength(p) + 1 = n
  <2>1. n \in 2..255
    BY <1>0
  <2>2. (IF n > 2 THEN n - 1 ELSE 1) \in 1..254 \cup {255}
        /\ (IF n > 2 THEN n - 1 ELSE 1) + 1 = n
    BY ONLY <2>1
  <2> QED
    BY <1>2, <2>2
<1> QED
  BY <1>0, <1>1, <1>20, <1>3, <1>4, SMTT(30) DEF ApduReads, Sized

LEMMA ValueReads ==
  ASSUME NEW p \in [kind : {"GroupValueResponse", "GroupValueWrite"}, data : ApduValues]
  PROVE  ApduReads(p)
<1> DEFINE a == p.data
           c == ApciService[p.kind]
           v == a.value
<1>0. /\ a \in [small : BOOLEAN, value : Seq(Byte)] /\ v \in Seq(Byte)
      /\ IF a.small THEN Len(v) = 1 /\ v[1] \in 0..63 ELSE Len(v) \in 1..254
      /\ p = GroupValue(p.kind, a) /\ p.kind \in {"GroupValueResponse", "GroupValueWrite"}
  BY DEF ApduValues, GroupValue
<1>1. /\ c \in {64, 128}
      /\ p.kind = "GroupValueResponse" <=> c = 64
      /\ p.kind = "GroupValueWrite" <=> c = 128
  BY <1>0, SMTT(30) DEF ApciService
<1>10. ApciService[p.kind] = c /\ a.value = v
  OBVIOUS
<1> HIDE DEF c, v
<1>2. CASE a.small
  <2> DEFINE b == <<0, c + v[1]>>
  <2>0. v[1] \in 0..63 /\ Len(v) = 1
    BY <1>0, <1>2
  <2>1. v[1] % 64 = v[1] /\ v = <<v[1]>>
    <3>1. v[1] % 64 = v[1]
      BY ONLY <2>0
    <3>2. v = <<v[1]>>
      BY <1>0, <2>0
    <3> QED
      BY <3>1, <3>2
  <2>2. ApciOut(p) = b /\ NpduLength(p) = 1
    BY <1>0, <1>10, <1>2, <2>1 DEF ApciOut, NpduLength
  <2>3. c + v[1] \in Byte /\ 0 \in Byte
    BY <1>1, <2>0 DEF Byte
  <2>4. Sized(b, 2) /\ b[1] = 0 /\ b[2] = c + v[1] /\ Len(b) = 2
    BY <2>3, PairType
  <2>5. U16At(b, 0) % 1024 = c + v[1]
    <3>1. U16At(b, 0) = c + v[1]
      BY <2>4, <2>3 DEF U16At, Byte
    <3> QED
      BY <3>1, <2>3 DEF Byte
  <2>6. (c + v[1]) % 64 = v[1] /\ (c + v[1]) \div 64 = (IF c = 64 THEN 1 ELSE 2)
    BY <1>1, <2>0
  <2> HIDE DEF b
  <2>7. SmallValue(b[2] % 64) = a
    BY <1>0, <1>10, <1>2, <2>1, <2>4, <2>6 DEF SmallValue
  <2>8. ApciIn(b) = {p}
    BY <1>0, <1>1, <2>4, <2>5, <2>6, <2>7 DEF ApciIn
  <2> QED
    BY <2>2, <2>4, <2>8 DEF ApduReads
<1>3. CASE ~a.small
  <2> DEFINE l == <<0, c>>
             n == Len(v)
             b == l \o v
  <2>1. ApciOut(p) = b /\ NpduLength(p) = 1 + n
    BY <1>0, <1>10, <1>3 DEF ApciOut, NpduLength
  <2>20. 0 \in Byte /\ c \in Byte
    BY <1>1 DEF Byte
  <2>2. Sized(l, 2) /\ Sized(v, n) /\ n \in 1..254 /\ n \in Nat
    BY <1>0, <1>3, <2>20, PairType DEF Sized
  <2>30. b = l \o v /\ l = <<0, c>>
    OBVIOUS
  <2> HIDE DEF n, b, l
  <2>3. Sized(b, 2 + n)
    BY <2>2, <2>30, JoinedSized
  <2>4. b \in Seq(Byte) /\ Len(b) = 2 + n /\ StandsAt(b, 0, l \o v)
    BY <2>3, <2>30, Whole DEF Sized
  <2>5. StandsAt(b, 0, l) /\ StandsAt(b, 2, v)
    BY <2>2, <2>4, PartedSized
  <2>6. b[0 + 1] = 0 /\ b[0 + 2] = c
    BY <2>20, <2>30, <2>4, <2>5, PairIs
  <2>7. Rest(b, 2) = v
    BY <2>2, <2>4, <2>5, RestIs
  <2>8. U16At(b, 0) % 1024 = c /\ c \div 64 = (IF c = 64 THEN 1 ELSE 2)
    BY <1>1, <2>6 DEF U16At
  <2>9. ApciIn(b) = {p}
    <3>1. BytesValue(v) = a
      BY <1>0, <1>10, <1>3 DEF BytesValue
    <3>2. ~(Len(b) < 2) /\ Len(b) # 2
      BY <2>2, <2>4
    <3> QED
      BY <1>0, <1>1, <2>7, <2>8, <3>1, <3>2 DEF ApciIn
  <2>10. 1 + n \in 1..254 \cup {255} /\ (1 + n) + 1 = 2 + n
    BY <2>2
  <2> QED
    BY <2>1, <2>3, <2>6, <2>9, <2>10 DEF ApduReads
<1> QED
  BY <1>2, <1>3

LEMMA PayloadReads == ASSUME NEW p \in Payloads PROVE ApduReads(p)
BY ReadReads, UnknownReads, ValueReads DEF Payloads

\* The link data of a telegram: its TPCI fits its address, its payload its TPCI.
LinkData ==
  {d \in [flags : Word, src : Word, dst : Word, tpci : [kind : STRING, seq : 0..15],
          payload : Payloads \cup {Absent}] :
     /\ TpciFits(d.tpci, ToGroup(d.flags), d.dst)
     /\ IF IsControl(d.tpci) THEN d.payload = Absent ELSE d.payload \in Payloads}

LEMMA SliceParts ==
  ASSUME NEW b \in Seq(Byte), NEW lo \in Int, NEW hi \in Int, 1 <= lo, lo <= hi + 1,
         hi <= Len(b), NEW k, k = hi - lo + 1
  PROVE  /\ Sized(SubSeq(b, lo, hi), k)
         /\ \A i \in 1..k : SubSeq(b, lo, hi)[i] = b[lo + i - 1]
<1>1. \A i \in lo..hi : b[i] \in Byte
  <2>1. \A i \in lo..hi : i \in 1..Len(b)
    OBVIOUS
  <2> QED
    BY <2>1, ElementOfSeq
<1> DEFINE t == SubSeq(b, lo, hi)
<1>2. /\ t \in Seq(Byte) /\ Len(t) = (IF lo <= hi THEN hi - lo + 1 ELSE 0)
      /\ \A i \in 1..hi - lo + 1 : t[i] = b[lo + i - 1]
  BY <1>1, SubSeqProperties
<1> HIDE DEF t
<1>3. Len(t) = k
  BY <1>2
<1>4. t \in Seq(Byte) /\ \A i \in 1..k : t[i] = b[lo + i - 1]
  BY <1>2
<1> QED
  BY <1>3, <1>4 DEF Sized, t

\* The bytes behind the first of an APDU, as TpduOut takes them.
IsTail(t, a, n) == t = SubSeq(a \o <<0, 0>>, 2, n + 1)

LEMMA HeadAndTail ==
  ASSUME NEW a, NEW n \in Nat, Sized(a, n + 1), NEW t, IsTail(t, a, n)
  PROVE  Sized(t, n) /\ <<a[1]>> \o t = a /\ a[1] \in Byte
<1>0. a \in Seq(Byte) /\ Len(a) = n + 1
  BY DEF Sized
<1>1. 0 \in Byte
  BY DEF Byte
<1> DEFINE z == <<0, 0>>
           c == a \o z
<1>2. Sized(z, 2)
  BY <1>1, PairType
<1>3. Sized(c, (n + 1) + 2)
  BY <1>2, JoinedSized, n + 1 \in Nat
<1>4. \A i \in 1..n + 1 : c[i] = a[i]
  <2>1. StandsAt(c, 0, a)
    BY <1>2, <1>3, n + 1 \in Nat, Whole, PartedSized DEF Sized
  <2> QED
    BY <1>0, <2>1 DEF StandsAt
<1>5. c \in Seq(Byte) /\ Len(c) = n + 3
  BY <1>3 DEF Sized
<1>6. t = SubSeq(c, 2, n + 1)
  BY DEF IsTail
<1> HIDE DEF z, c
<1>7. /\ t \in Seq(Byte) /\ Len(t) = n
      /\ \A i \in 1..n : t[i] = a[i + 1]
  <2> DEFINE l == 2
             m == n + 1
  <2>1. l \in Int /\ 1 <= l /\ m \in Int /\ l <= m + 1 /\ m <= Len(c) /\ n = m - l + 1
    BY <1>5
  <2>2. t = SubSeq(c, l, m)
    BY <1>6
  <2>3. l = 2 /\ m = n + 1
    OBVIOUS
  <2> HIDE DEF l, m
  <2>4. Sized(t, n) /\ \A i \in 1..n : t[i] = c[l + i - 1]
    <3>1. c \in Seq(Byte)
      BY <1>5
    <3>2. /\ Sized(SubSeq(c, l, m), n)
          /\ \A i \in 1..n : SubSeq(c, l, m)[i] = c[l + i - 1]
      BY <2>1, <3>1, SliceParts
    <3> QED
      BY <2>2, <3>2
  <2>5. \A i \in 1..n : l + i - 1 = i + 1 /\ i + 1 \in 1..n + 1
    BY <2>3
  <2>6. \A i \in 1..n : t[i] = a[i + 1]
    BY <2>4, <2>5, <1>4
  <2> QED
    BY <2>4, <2>6 DEF Sized
<1>8. a[1] \in Byte
  <2>1. 1 \in 1..Len(a)
    BY <1>0
  <2> QED
    BY <1>0, <2>1, ElementOfSeq
<1> DEFINE h == <<a[1]>>
           u == h \o t
<1>9. Sized(h, 1) /\ h[1] = a[1]
  BY <1>8 DEF Sized
<1>11. h \o t = u /\ <<a[1]>> = h
  OBVIOUS
<1> HIDE DEF h, u
<1>10. u \in Seq(Byte) /\ Len(u) = 1 + n /\ StandsAt(u, 0, h) /\ StandsAt(u, 1, t)
  <2>1. Sized(h, 1) /\ Sized(t, n)
    BY <1>7, <1>9 DEF Sized
  <2>2. Sized(u, 1 + n)
    BY <2>1, <1>11, JoinedSized
  <2>3. u \in Seq(Byte) /\ StandsAt(u, 0, h \o t)
    BY <2>2, <1>11, Whole DEF Sized
  <2>4. StandsAt(u, 0, h) /\ StandsAt(u, 0 + 1, t)
    BY <2>1, <2>3, PartedSized
  <2> QED
    BY <2>2, <2>4 DEF Sized
<1>12. ASSUME NEW i \in 1..n + 1 PROVE u[i] = a[i]
  <2>2. CASE i = 1
    <3>1. u[0 + 1] = h[1]
      BY <1>9, <1>10 DEF StandsAt, Sized
    <3> QED
      BY <2>2, <3>1, <1>9
  <2>3. CASE i # 1
    <3>1. i - 1 \in 1..n /\ (i - 1) + 1 = i /\ 1 + (i - 1) = i
      BY <2>3
    <3>2. u[1 + (i - 1)] = t[i - 1]
      BY <1>7, <1>10, <3>1 DEF StandsAt
    <3> QED
      BY <3>1, <3>2, <1>7
  <2> QED
    BY <2>2, <2>3
<1>13. u = a
  <2>0. Len(u) = n + 1
    BY <1>10
  <2>1. Len(u) = Len(a) /\ \A i \in 1..Len(u) : u[i] = a[i]
    BY <1>0, <2>0, <1>12
  <2> QED
    BY <1>0, <1>10, <2>1, SeqEqual
<1> QED
  BY <1>7, <1>8, <1>11, <1>13 DEF Sized

LEMMA LinkDataParts ==
  ASSUME NEW d \in LinkData
  PROVE  /\ d.flags \in Word /\ d.src \in Word /\ d.dst \in Word
         /\ TpciFits(d.tpci, ToGroup(d.flags), d.dst)
         /\ IsControl(d.tpci) => d.payload = Absent
         /\ ~IsControl(d.tpci) => d.payload \in Payloads
         /\ d = [flags |-> d.flags, src |-> d.src, dst |-> d.dst, tpci |-> d.tpci,
                 payload |-> d.payload]
BY DEF LinkData

\* The bytes of a telegram's end: its length, its TPCI with the first of its
\* APDU, the others of the APDU.
TpduParts(d, c, n) ==
  \E y \in Byte, t \in Seq(Byte) :
    /\ Sized(t, n) /\ c = <<n, y>> \o t /\ n \in Byte
    /\ TpciIn(y, ToGroup(d.flags), d.dst = 0) = {d.tpci}
    /\ IsControl(d.tpci) => n = 0
    /\ ~IsControl(d.tpci) => n \in 1..255 /\ ApciIn(<<y % 4>> \o t) = {d.payload}

LEMMA ControlByte ==
  ASSUME NEW t, NEW toGroup \in BOOLEAN, NEW dst, TpciFits(t, toGroup, dst), IsControl(t)
  PROVE  TpciOut(t) \in Int
<1>1. CASE t \in [kind : {"TDataConnected", "TAck", "TNak"}, seq : 0..15]
  <2>1. t.seq \in 0..15
    BY <1>1
  <2>2. 194 + 4 * t.seq \in Int /\ 195 + 4 * t.seq \in Int
    BY <2>1
  <2>3. t.kind = "TAck" \/ t.kind = "TNak"
    BY <1>1 DEF IsControl
  <2> QED
    BY <2>2, <2>3 DEF TpciOut
<1>2. CASE t.kind = "TConnect" \/ t.kind = "TDisconnect"
  BY <1>2 DEF TpciOut
<1> QED
  BY <1>1, <1>2 DEF TpciFits, IsControl, Tpci

LEMMA FirstOfJoined ==
  ASSUME NEW a, NEW n \in Nat, Sized(a, n + 1)
  PROVE  (a \o <<0, 0>>)[1] = a[1]
<1>1. 0 \in Byte
  BY DEF Byte
<1> DEFINE z == <<0, 0>>
           c == a \o z
<1>2. Sized(z, 2)
  BY <1>1, PairType
<1> HIDE DEF z
<1>3. Sized(c, (n + 1) + 2)
  BY <1>2, JoinedSized, n + 1 \in Nat
<1>4. c \in Seq(Byte) /\ StandsAt(c, 0, a \o z)
  BY <1>3, Whole DEF Sized
<1>5. StandsAt(c, 0, a)
  BY <1>2, <1>4, n + 1 \in Nat, PartedSized
<1>6. 1 \in 1..Len(a)
  BY DEF Sized
<1>7. c[0 + 1] = a[1]
  BY <1>5, <1>6 DEF StandsAt
<1> QED
  BY <1>7 DEF z

LEMMA TpduIs ==
  ASSUME NEW d \in LinkData
  PROVE  \E n \in Nat : TpduParts(d, TpduOut(d), n)
<1> DEFINE g == ToGroup(d.flags)
<1>1. /\ g \in BOOLEAN /\ d.dst \in Word /\ TpciFits(d.tpci, g, d.dst)
      /\ IsControl(d.tpci) => d.payload = Absent
      /\ ~IsControl(d.tpci) => d.payload \in Payloads
  BY LinkDataParts DEF ToGroup
<1> HIDE DEF g
<1>2. CASE IsControl(d.tpci)
  <2> DEFINE y == TpciOut(d.tpci)
  <2>1. TpduOut(d) = <<0, y>>
    BY <1>2 DEF TpduOut
  <2>2. y \in Byte /\ TpciIn(y, g, d.dst = 0) = {d.tpci}
    <3>1. 0 \in 0..3 /\ y = 0 + TpciOut(d.tpci)
      <4>1. TpciOut(d.tpci) \in Int
        BY <1>1, <1>2, ControlByte
      <4> QED
        BY <4>1
    <3> QED
      BY <1>1, <1>2, <3>1, TpciReads DEF WithTpci, ReadsAsTpci
  <2>3. Sized(<<>>, 0) /\ 0 \in Byte
    BY DEF Sized, Byte
  <2>4. <<0, y>> = <<0, y>> \o <<>>
    OBVIOUS
  <2> HIDE DEF y
  <2>41. <<>> \in Seq(Byte)
    OBVIOUS
  <2>5. TpduParts(d, TpduOut(d), 0)
    BY <1>2, <2>41, <2>1, <2>2, <2>3, <2>4 DEF TpduParts, g
  <2> QED
    BY <2>5
<1>3. CASE ~IsControl(d.tpci)
  <2> DEFINE a == ApciOut(d.payload)
             n == NpduLength(d.payload)
             t == SubSeq(a \o <<0, 0>>, 2, n + 1)
             y == a[1] + TpciOut(d.tpci)
  <2>1. Sized(a, n + 1) /\ n \in 1..254 \cup {255} /\ a[1] \in 0..3 /\ ApciIn(a) = {d.payload}
    BY <1>1, <1>3, PayloadReads DEF ApduReads
  <2>2. TpduOut(d) = <<n % 256, (a \o <<0, 0>>)[1] + TpciOut(d.tpci)>> \o t
    BY <1>3 DEF TpduOut
  <2>20. IsTail(t, a, n) /\ WithTpci(y, a[1], d.tpci)
    BY DEF IsTail, WithTpci
  <2>21. a[1] + TpciOut(d.tpci) = y
    OBVIOUS
  <2> HIDE DEF a, n, t, y
  <2>3. n \in Byte /\ n \in Nat /\ n \in 1..255 /\ n % 256 = n
    <3>1. n \in 1..254 \cup {255}
      BY <2>1
    <3> QED
      BY ONLY <3>1 DEF Byte
  <2>4. (a \o <<0, 0>>)[1] = a[1]
    BY <2>1, <2>3, FirstOfJoined
  <2>5. Sized(t, n) /\ <<a[1]>> \o t = a
    BY <2>1, <2>3, <2>20, HeadAndTail
  <2>6. y \in Byte /\ TpciIn(y, g, d.dst = 0) = {d.tpci} /\ y % 4 = a[1]
    <3> DEFINE c == a[1]
    <3>1. c \in 0..3 /\ (IsControl(d.tpci) => c = 0) /\ WithTpci(y, c, d.tpci)
      BY <1>3, <2>1, <2>20
    <3>2. c = a[1]
      OBVIOUS
    <3> HIDE DEF c
    <3>3. g \in BOOLEAN /\ d.dst \in Word /\ TpciFits(d.tpci, g, d.dst)
      BY <1>1
    <3>4. ReadsAsTpci(y, g, d.dst, d.tpci, c)
      BY <3>1, <3>3, TpciReads
    <3> QED
      BY <1>3, <3>2, <3>4 DEF ReadsAsTpci
  <2>7. TpduOut(d) = <<n, y>> \o t
    BY <2>2, <2>21, <2>3, <2>4
  <2>8. ApciIn(<<y % 4>> \o t) = {d.payload}
    BY <2>1, <2>5, <2>6
  <2>81. t \in Seq(Byte)
    BY <2>5 DEF Sized
  <2>9. TpduParts(d, TpduOut(d), n)
    BY <1>3, <2>81, <2>3, <2>5, <2>6, <2>7, <2>8 DEF TpduParts, g
  <2> QED
    BY <2>3, <2>9
<1> QED
  BY <1>2, <1>3

LEMMA LinkDataReads ==
  ASSUME NEW d \in LinkData
  PROVE  LDataOut(d) \in Seq(Byte) /\ LDataIn(LDataOut(d)) = {d}
<1> DEFINE f == U16(d.flags)
           s == U16(d.src)
           e == U16(d.dst)
           g == ToGroup(d.flags)
           b == LDataOut(d)
<1>1. /\ d.flags \in Word /\ d.src \in Word /\ d.dst \in Word
      /\ IsControl(d.tpci) => d.payload = Absent
      /\ d = [flags |-> d.flags, src |-> d.src, dst |-> d.dst, tpci |-> d.tpci,
              payload |-> d.payload]
  BY LinkDataParts
<1>2. PICK n \in Nat : TpduParts(d, TpduOut(d), n)
  BY TpduIs
<1>3. PICK y \in Byte, t \in Seq(Byte) :
        /\ Sized(t, n) /\ TpduOut(d) = <<n, y>> \o t /\ n \in Byte
        /\ TpciIn(y, g, d.dst = 0) = {d.tpci}
        /\ IsControl(d.tpci) => n = 0
        /\ ~IsControl(d.tpci) => n \in 1..255 /\ ApciIn(<<y % 4>> \o t) = {d.payload}
  BY <1>2 DEF TpduParts
<1> DEFINE l == <<n, y>>
<1>4. Sized(f, 2) /\ Sized(s, 2) /\ Sized(e, 2) /\ Sized(l, 2)
  BY <1>1, <1>3, WordType, PairType
<1>5. f = U16(d.flags) /\ s = U16(d.src) /\ e = U16(d.dst) /\ l = <<n, y>>
  OBVIOUS
<1>6. b = f \o s \o e \o (l \o t)
  BY <1>3 DEF LDataOut
<1> HIDE DEF f, s, e, l, b
<1>7. Sized(f \o s, 4) /\ Sized(l \o t, 2 + n) /\ 2 + n \in Nat
  BY <1>3, <1>4, JoinedSized
<1>8. Sized(f \o s \o e, 6)
  BY <1>4, <1>7, JoinedSized
<1>9. Sized(b, 6 + (2 + n))
  BY <1>6, <1>7, <1>8, JoinedSized
<1>90. 6 + (2 + n) = 8 + n
  OBVIOUS
<1>10. b \in Seq(Byte) /\ Len(b) = 8 + n /\ StandsAt(b, 0, f \o s \o e \o (l \o t))
  BY <1>6, <1>9, <1>90, Whole DEF Sized
<1>11. StandsAt(b, 0, f \o s \o e) /\ StandsAt(b, 6, l \o t)
  BY <1>7, <1>8, <1>10, PartedSized
<1>12. StandsAt(b, 0, f \o s) /\ StandsAt(b, 4, e)
  BY <1>4, <1>7, <1>10, <1>11, PartedSized
<1>13. StandsAt(b, 0, f) /\ StandsAt(b, 2, s)
  BY <1>4, <1>10, <1>12, PartedSized
<1>14. StandsAt(b, 6, l) /\ StandsAt(b, 8, t)
  BY <1>3, <1>4, <1>10, <1>11, PartedSized
<1>15. U16At(b, 0) = d.flags /\ U16At(b, 2) = d.src /\ U16At(b, 4) = d.dst
  BY <1>1, <1>5, <1>10, <1>12, <1>13, WordIs
<1>16. b[7] = n /\ b[8] = y
  <2>1. b[6 + 1] = n /\ b[6 + 2] = y
    BY <1>3, <1>5, <1>10, <1>14, PairIs
  <2> QED
    BY <2>1
<1>17. Bytes(b, 8, n) = t
  BY <1>3, <1>10, <1>14, BytesAre
<1>18. TpciIn(b[8], ToGroup(U16At(b, 0)), U16At(b, 4) = 0) = {d.tpci}
  <2>1. TpciIn(y, ToGroup(d.flags), d.dst = 0) = {d.tpci}
    BY <1>3 DEF g
  <2> QED
    BY <2>1, <1>15, <1>16
<1>19. (IF IsControl(d.tpci) THEN IF b[7] = 0 THEN {Absent} ELSE {}
        ELSE IF Len(b) - 7 < b[7] + 1 THEN {} ELSE ApciIn(<<b[8] % 4>> \o Bytes(b, 8, b[7])))
         = {d.payload}
  <2>1. CASE IsControl(d.tpci)
    BY <2>1, <1>1, <1>3, <1>16
  <2>2. CASE ~IsControl(d.tpci)
    <3>1. ~(Len(b) - 7 < b[7] + 1)
      BY <1>10, <1>16
    <3> QED
      BY <2>2, <3>1, <1>3, <1>16, <1>17
  <2> QED
    BY <2>1, <2>2
<1>20. ~(Len(b) < 8)
  BY <1>10
<1>21. LDataIn(b) = {d}
  <2> DEFINE payload(u) ==
               CASE IsControl(u) -> IF b[7] = 0 THEN {Absent} ELSE {}
                 [] OTHER -> IF Len(b) - 7 < b[7] + 1 THEN {}
                             ELSE ApciIn(<<b[8] % 4>> \o Bytes(b, 8, b[7]))
  <2>1. payload(d.tpci) = {d.payload}
    BY <1>19
  <2>2. LDataIn(b) = {[flags |-> U16At(b, 0), src |-> U16At(b, 2), dst |-> U16At(b, 4),
                       tpci |-> pair[1], payload |-> pair[2]] :
                         pair \in UNION {{u} \X payload(u) : u \in {d.tpci}}}
    BY <1>18, <1>20 DEF LDataIn
  <2> HIDE DEF payload
  <2>3. UNION {{u} \X payload(u) : u \in {d.tpci}} = {<<d.tpci, d.payload>>}
    BY <2>1
  <2>4. {[flags |-> d.flags, src |-> d.src, dst |-> d.dst, tpci |-> pair[1],
          payload |-> pair[2]] : pair \in {<<d.tpci, d.payload>>}}
          = {[flags |-> d.flags, src |-> d.src, dst |-> d.dst, tpci |-> d.tpci,
              payload |-> d.payload]}
    OBVIOUS
  <2>5. LDataIn(b) = {[flags |-> d.flags, src |-> d.src, dst |-> d.dst, tpci |-> pair[1],
                       payload |-> pair[2]] : pair \in {<<d.tpci, d.payload>>}}
    BY <2>2, <2>3, <1>15
  <2> QED
    BY <2>4, <2>5, <1>1
<1> QED
  BY <1>10, <1>21 DEF b

-----------------------------------------------------------------------------
\* The cEMI frame.

CemiFrames ==
  {f \in [code : {L_DATA_REQ, L_DATA_IND, L_DATA_CON}, info : Seq(Byte), data : LinkData] :
     Len(f.info) \in Byte}

\* What fromKnx() of cemi.ts reads of the bytes of toKnx() is the telegram itself,
\* for all flags, addresses, kinds of TPCI and APDUs: the bits that the TPCI and
\* the APDU share in a byte are told apart, and a value that fits in six bits
\* stays one.
THEOREM TelegramsRoundTrip ==
  ASSUME NEW f \in CemiFrames
  PROVE  CemiOut(f) \in Seq(Byte) /\ CemiIn(CemiOut(f)) = {f}
<1> DEFINE n == Len(f.info)
           d == LDataOut(f.data)
           h == <<f.code, n>>
           b == CemiOut(f)
           k == Len(d)
<1>1. /\ f.code \in {L_DATA_REQ, L_DATA_IND, L_DATA_CON} /\ f.info \in Seq(Byte) /\ n \in Byte
      /\ f.data \in LinkData /\ f = [code |-> f.code, info |-> f.info, data |-> f.data]
  BY DEF CemiFrames
<1>2. d \in Seq(Byte) /\ LDataIn(d) = {f.data} /\ k \in Nat
  BY <1>1, LinkDataReads
<1>3. n \in Nat /\ f.code \in Byte
  BY <1>1 DEF Byte, L_DATA_REQ, L_DATA_IND, L_DATA_CON
<1>30. n % 256 = n
  <2>1. \A x \in Byte : x % 256 = x
    BY DEF Byte
  <2> QED
    BY <1>1, <2>1
<1>4. b = h \o f.info \o d
  BY <1>30 DEF CemiOut
<1>5. Sized(h, 2) /\ Sized(f.info, n) /\ Sized(d, k)
  BY <1>1, <1>2, <1>3, PairType DEF Sized
<1>6. h = <<f.code, n>>
  OBVIOUS
<1> HIDE DEF n, d, h, b, k
<1>7. Sized(h \o f.info, 2 + n) /\ 2 + n \in Nat
  BY <1>3, <1>5, JoinedSized
<1>8. Sized(b, (2 + n) + k)
  BY <1>2, <1>4, <1>5, <1>7, JoinedSized
<1>9. b \in Seq(Byte) /\ Len(b) = (2 + n) + k /\ StandsAt(b, 0, h \o f.info \o d)
  BY <1>4, <1>8, Whole DEF Sized
<1>10. StandsAt(b, 0, h \o f.info) /\ StandsAt(b, 2 + n, d)
  BY <1>2, <1>5, <1>7, <1>9, PartedSized
<1>11. StandsAt(b, 0, h) /\ StandsAt(b, 2, f.info)
  BY <1>3, <1>5, <1>9, <1>10, PartedSized
<1>12. b[0 + 1] = f.code /\ b[0 + 2] = n
  BY <1>1, <1>3, <1>6, <1>9, <1>11, PairIs
<1>13. Bytes(b, 2, n) = f.info
  BY <1>3, <1>5, <1>9, <1>11, BytesAre
<1>14. Rest(b, 2 + n) = d
  BY <1>2, <1>5, <1>7, <1>9, <1>10, RestIs
<1>15. ~(Len(b) < 2) /\ ~(Len(b) < 2 + n)
  BY <1>2, <1>3, <1>9
<1>16. CemiIn(b) = {[code |-> f.code, info |-> f.info, data |-> e] : e \in {f.data}}
  BY <1>1, <1>2, <1>12, <1>13, <1>14, <1>15 DEF CemiIn
<1>17. CemiIn(b) = {f}
  BY <1>1, <1>16
<1> QED
  BY <1>9, <1>17 DEF b

-----------------------------------------------------------------------------
(* ADDRESSES                                                               *)

\* An address is made of its parts, and they are in their ranges.
MadeOf(raw, main, middle, sub, low, area, line) ==
  /\ main \in 0..31 /\ middle \in 0..7 /\ sub \in 0..255 /\ low \in 0..2047
  /\ area \in 0..15 /\ line \in 0..15
  /\ 2048 * main + 256 * middle + sub = raw /\ 2048 * main + low = raw
  /\ 4096 * area + 256 * line + sub = raw

LEMMA AddressParts ==
  ASSUME NEW raw \in Word
  PROVE  MadeOf(raw, raw \div 2048, (raw \div 256) % 8, raw % 256, raw % 2048,
                raw \div 4096, (raw \div 256) % 16)
<1> DEFINE q == raw \div 256
           r == raw % 256
           a == q \div 8
           b == q % 8
           c == q \div 16
           d == q % 16
<1>1. q \in 0..255 /\ r \in 0..255 /\ 256 * q + r = raw
  BY WordParts DEF Byte
<1> HIDE DEF q, r
<1>2. a \in 0..31 /\ b \in 0..7 /\ 8 * a + b = q
  BY ONLY <1>1
<1>3. c \in 0..15 /\ d \in 0..15 /\ 16 * c + d = q
  BY ONLY <1>1
<1> HIDE DEF a, b, c, d
<1>4. raw = 2048 * a + (256 * b + r) /\ 256 * b + r \in 0..2047
  BY ONLY <1>1, <1>2
<1>5. raw = 4096 * c + (256 * d + r) /\ 256 * d + r \in 0..4095
  BY ONLY <1>1, <1>3
<1>6. raw \div 2048 = a /\ raw % 2048 = 256 * b + r
  <2> DEFINE m == 256 * b + r
  <2>1. raw = 2048 * a + m /\ m \in 0..2047
    BY <1>4
  <2> HIDE DEF m
  <2>2. raw \div 2048 = a /\ raw % 2048 = m
    BY ONLY <1>2, <2>1
  <2> QED
    BY <2>2 DEF m
<1>7. raw \div 4096 = c
  <2> DEFINE m == 256 * d + r
  <2>1. raw = 4096 * c + m /\ m \in 0..4095
    BY <1>5
  <2> HIDE DEF m
  <2> QED
    BY ONLY <1>3, <2>1
<1>8. 2048 * a + 256 * b + r = raw /\ 2048 * a + (256 * b + r) = raw
      /\ 4096 * c + 256 * d + r = raw
  BY ONLY <1>1, <1>2, <1>3
<1>9. (raw \div 256) % 8 = b /\ (raw \div 256) % 16 = d /\ raw % 256 = r
  BY DEF q, r, b, d
<1>10. MadeOf(raw, a, b, r, 256 * b + r, c, d)
  BY <1>1, <1>2, <1>3, <1>4, <1>8 DEF MadeOf
<1> QED
  BY <1>6, <1>7, <1>9, <1>10

\* Which case of GroupAddress and of IndividualAddress an address is.
LEMMA GroupAddressCases ==
  ASSUME NEW t
  PROVE  /\ Len(t) = 1 => GroupAddress(t) = {t[1]} \cap Address
         /\ Len(t) = 2 /\ t[1] \in 0..31 /\ t[2] \in 0..2047 =>
              GroupAddress(t) = {2048 * t[1] + t[2]}
         /\ Len(t) = 3 /\ t[1] \in 0..31 /\ t[2] \in 0..7 /\ t[3] \in 0..255 =>
              GroupAddress(t) = {2048 * t[1] + 256 * t[2] + t[3]}
         /\ Len(t) = 3 /\ t[1] \in 0..15 /\ t[2] \in 0..15 /\ t[3] \in 0..255 =>
              IndividualAddress(t) = {4096 * t[1] + 256 * t[2] + t[3]}
<1> DEFINE A == 0..31  B == 0..2047  C == 0..7  D == 0..255  E == 0..15
           n == Len(t)
           x == t[1]
           y == t[2]
           z == t[3]
           one == {x} \cap Address
           two == {2048 * x + y}
           three == {2048 * x + 256 * y + z}
           place == {4096 * x + 256 * y + z}
<1>1. /\ n = 1 => GroupAddress(t) = one
      /\ n = 2 /\ x \in A /\ y \in B => GroupAddress(t) = two
      /\ n = 3 /\ x \in A /\ y \in C /\ z \in D => GroupAddress(t) = three
  <2>1. GroupAddress(t) = CASE n = 1 -> one
                            [] n = 2 /\ x \in A /\ y \in B -> two
                            [] n = 3 /\ x \in A /\ y \in C /\ z \in D -> three
                            [] OTHER -> {}
    BY DEF GroupAddress
  <2> HIDE DEF A, B, C, D, n, x, y, z, one, two, three
  <2> QED
    BY ONLY <2>1
<1>2. n = 3 /\ x \in E /\ y \in E /\ z \in D => IndividualAddress(t) = place
  <2>1. IndividualAddress(t) = CASE n = 1 -> one
                                 [] n = 3 /\ x \in E /\ y \in E /\ z \in D -> place
                                 [] OTHER -> {}
    BY DEF IndividualAddress
  <2> HIDE DEF D, E, n, x, y, z, one, place
  <2> QED
    BY ONLY <2>1
<1> QED
  BY ONLY <1>1, <1>2

\* An address is one in each of its notations.
LEMMA GroupAddressIs ==
  ASSUME NEW raw \in Word
  PROVE  /\ \A style \in {"long", "short", "free"} : GroupAddress(GroupText(raw, style)) = {raw}
         /\ IndividualAddress(IndividualText(raw)) = {raw}
<1> DEFINE a == raw \div 2048
           b == (raw \div 256) % 8
           c == raw % 256
           s == raw % 2048
           i == raw \div 4096
           d == (raw \div 256) % 16
<1>0. MadeOf(raw, a, b, c, s, i, d)
  BY AddressParts
<1>1. /\ a \in 0..31 /\ b \in 0..7 /\ i \in 0..15 /\ d \in 0..15 /\ c \in 0..255
      /\ s \in 0..2047
      /\ 2048 * a + 256 * b + c = raw /\ 2048 * a + s = raw /\ 4096 * i + 256 * d + c = raw
  <2> HIDE DEF a, b, c, s, i, d
  <2> QED
    BY <1>0 DEF MadeOf
<1>2. /\ GroupText(raw, "long") = <<a, b, c>> /\ GroupText(raw, "short") = <<a, s>>
      /\ GroupText(raw, "free") = <<raw>> /\ IndividualText(raw) = <<i, d, c>>
  BY DEF GroupText, IndividualText
<1> HIDE DEF a, b, c, s, i, d
<1>3. GroupAddress(<<a, b, c>>) = {raw}
  <2> DEFINE t == <<a, b, c>>
  <2>1. Len(t) = 3 /\ t[1] = a /\ t[2] = b /\ t[3] = c
    BY ONLY SMTT(30) DEF t
  <2> HIDE DEF t
  <2>2. Len(t) = 3 /\ t[1] \in 0..31 /\ t[2] \in 0..7 /\ t[3] \in 0..255
    BY ONLY <1>1, <2>1
  <2>3. GroupAddress(t) = {2048 * t[1] + 256 * t[2] + t[3]}
    BY ONLY <2>2, GroupAddressCases
  <2>4. 2048 * t[1] + 256 * t[2] + t[3] = raw
    BY ONLY <1>1, <2>1
  <2>5. GroupAddress(t) = {raw}
    BY ONLY <2>3, <2>4
  <2> QED
    BY <2>5 DEF t
<1>4. GroupAddress(<<a, s>>) = {raw}
  <2> DEFINE t == <<a, s>>
  <2>1. Len(t) = 2 /\ t[1] = a /\ t[2] = s
    BY ONLY SMTT(30) DEF t
  <2> HIDE DEF t
  <2>2. Len(t) = 2 /\ t[1] \in 0..31 /\ t[2] \in 0..2047
    BY ONLY <1>1, <2>1
  <2>3. GroupAddress(t) = {2048 * t[1] + t[2]}
    BY ONLY <2>2, GroupAddressCases
  <2>4. 2048 * t[1] + t[2] = raw
    BY ONLY <1>1, <2>1
  <2>5. GroupAddress(t) = {raw}
    BY ONLY <2>3, <2>4
  <2> QED
    BY <2>5 DEF t
<1>5. GroupAddress(<<raw>>) = {raw}
  <2> DEFINE t == <<raw>>
  <2>1. Len(t) = 1 /\ t[1] = raw
    BY ONLY SMTT(30) DEF t
  <2>2. Word = Address
    BY ONLY SMTT(30) DEF Address, Word
  <2> HIDE DEF t
  <2>3. raw \in Address
    BY <2>2, Zenon
  <2>4. GroupAddress(t) = {t[1]} \cap Address
    BY ONLY <2>1, GroupAddressCases
  <2>5. GroupAddress(t) = {raw}
    BY ONLY <2>1, <2>3, <2>4
  <2> QED
    BY <2>5 DEF t
<1>6. IndividualAddress(<<i, d, c>>) = {raw}
  <2> DEFINE t == <<i, d, c>>
  <2>1. Len(t) = 3 /\ t[1] = i /\ t[2] = d /\ t[3] = c
    BY ONLY SMTT(30) DEF t
  <2> HIDE DEF t
  <2>2. Len(t) = 3 /\ t[1] \in 0..15 /\ t[2] \in 0..15 /\ t[3] \in 0..255
    BY ONLY <1>1, <2>1
  <2>3. IndividualAddress(t) = {4096 * t[1] + 256 * t[2] + t[3]}
    BY ONLY <2>2, GroupAddressCases
  <2>4. 4096 * t[1] + 256 * t[2] + t[3] = raw
    BY ONLY <1>1, <2>1
  <2>5. IndividualAddress(t) = {raw}
    BY ONLY <2>3, <2>4
  <2> QED
    BY <2>5 DEF t
<1> QED
  BY <1>2, <1>3, <1>4, <1>5, <1>6

LEMMA PatternFinds ==
  ASSUME NEW raw \in Word
  PROVE  LET pattern == [GroupText(raw, "long") EXCEPT ![2] = Star]
         IN  Compiles(pattern) /\ Matches(pattern, raw) /\ ~Matches(pattern, (raw + 1) % 65536)
<1> DEFINE a == raw \div 2048
           b == (raw \div 256) % 8
           c == raw % 256
           n == (raw + 1) % 65536
           p == <<a, Star, c>>
<1>1. a \in 0..31 /\ b \in 0..7 /\ c \in 0..255
  BY AddressParts DEF MadeOf
<1>2. GroupText(raw, "long") = <<a, b, c>>
  BY DEF GroupText
<1>3. [GroupText(raw, "long") EXCEPT ![2] = Star] = p
  BY <1>2
<1>4. n % 256 # c
  <2> DEFINE q == raw \div 256
  <2>1. q \in 0..255 /\ c \in 0..255 /\ 256 * q + c = raw
    BY WordParts DEF Byte
  <2>2. n = (raw + 1) % 65536
    OBVIOUS
  <2> HIDE DEF q, c, n
  <2> QED
    BY ONLY <2>1, <2>2
<1>5. GroupText(n, "long") = <<n \div 2048, (n \div 256) % 8, n % 256>>
  BY DEF GroupText
<1> HIDE DEF a, b, c, n
<1>6. Len(p) = 3 /\ p[1] = a /\ p[2] = Star /\ p[3] = c /\ HasStar(p)
  BY DEF HasStar
<1>7. Compiles(p)
  BY <1>1, <1>6 DEF Compiles, SegmentLimits
<1>8. Matches(p, raw)
  BY <1>2, <1>6 DEF Matches
<1>9. ~Matches(p, n)
  <2>1. c # Star
    BY <1>1 DEF Star
  <2>2. GroupText(n, "long")[3] = n % 256
    BY <1>5
  <2> QED
    BY <1>4, <1>6, <2>1, <2>2 DEF Matches
<1> QED
  BY <1>3, <1>7, <1>8, <1>9 DEF n

\* Every address, in each notation in which address.ts writes it, is parsed as
\* itself, and gaMatcher.ts finds it by a pattern that leaves its middle part
\* open, but not its neighbour.
THEOREM AddressesRoundTrip == \A raw \in Word : SameAddress(raw)
BY GroupAddressIs, PatternFinds DEF SameAddress

-----------------------------------------------------------------------------
(* DATAPOINTS: BITS, BYTES, DATES                                          *)

\* An encoded value is decoded as one that is near, and that is encoded again so
\* that it is decoded as it was.
ComesBack(dpt, v) ==
  \E a \in ApduValues : \E w :
    /\ DptOut(dpt, v) = {a} /\ DptIn(dpt, a) = {w} /\ Faithful(dpt, v, w)
    /\ \E c \in ApduValues : DptOut(dpt, w) = {c} /\ DptIn(dpt, c) = {w}

\* Where nothing is rounded the value itself comes back.
LEMMA ExactReads ==
  ASSUME NEW dpt, NEW v, NEW a \in ApduValues, DptOut(dpt, v) = {a}, DptIn(dpt, a) = {v},
         dpt \notin {<<5, 1>>, <<5, 3>>}, dpt[1] # 9
  PROVE  ComesBack(dpt, v)
BY DEF ComesBack, Faithful

LEMMA SmallIs ==
  ASSUME NEW n \in 0..63
  PROVE  /\ SmallValue(n) \in ApduValues /\ SmallOrFirst(SmallValue(n)) = {n}
<1>1. <<n>> \in Seq(Byte) /\ Len(<<n>>) = 1 /\ <<n>>[1] = n
  BY DEF Byte
<1>2. SmallValue(n) \in ApduValues
  BY <1>1 DEF SmallValue, ApduValues
<1> QED
  BY <1>2 DEF SmallOrFirst, SmallValue

LEMMA BytesValueIs ==
  ASSUME NEW n \in 1..254, NEW b, Sized(b, n)
  PROVE  BytesValue(b) \in ApduValues /\ IsBytes(BytesValue(b), n) /\ BytesValue(b).value = b
BY DEF BytesValue, ApduValues, IsBytes, Sized

\* A flag above what is below it.
Beside(y, bit, x, s) == y = Flag(bit, x) + s

LEMMA FlagBeside ==
  ASSUME NEW bit \in {1, 2, 4, 8, 32, 64, 128}, NEW x \in BOOLEAN, NEW s \in 0..bit - 1, NEW y,
         Beside(y, bit, x, s)
  PROVE  FlagOf(y, bit) = x /\ y % bit = s /\ y \in 0..2 * bit - 1
<1> SUFFICES (FlagOf(y, bit) <=> x) /\ y % bit = s /\ y \in 0..2 * bit - 1
  BY DEF FlagOf
<1>0. y = Flag(bit, x) + s /\ s \in Int /\ 0 <= s /\ s < bit
  BY DEF Beside
<1>1. CASE x
  <2>1. y = bit + s
    BY <1>0, <1>1 DEF Flag
  <2>2. y \div bit = 1 /\ y % bit = s /\ y \in 0..2 * bit - 1
    <3>1. CASE bit = 1
      BY ONLY <3>1, <2>1, <1>0
    <3>2. CASE bit = 2
      BY ONLY <3>2, <2>1, <1>0
    <3>3. CASE bit = 4
      BY ONLY <3>3, <2>1, <1>0
    <3>4. CASE bit = 8
      BY ONLY <3>4, <2>1, <1>0
    <3>5. CASE bit = 32
      BY ONLY <3>5, <2>1, <1>0
    <3>6. CASE bit = 64
      BY ONLY <3>6, <2>1, <1>0
    <3>7. CASE bit = 128
      BY ONLY <3>7, <2>1, <1>0
    <3> QED
      BY <3>1, <3>2, <3>3, <3>4, <3>5, <3>6, <3>7
  <2> QED
    BY <1>1, <2>2 DEF FlagOf
<1>2. CASE ~x
  <2>1. y = s
    BY <1>0, <1>2 DEF Flag
  <2>2. y \div bit = 0 /\ y % bit = s /\ y \in 0..2 * bit - 1
    <3>1. CASE bit = 1
      BY ONLY <3>1, <2>1, <1>0
    <3>2. CASE bit = 2
      BY ONLY <3>2, <2>1, <1>0
    <3>3. CASE bit = 4
      BY ONLY <3>3, <2>1, <1>0
    <3>4. CASE bit = 8
      BY ONLY <3>4, <2>1, <1>0
    <3>5. CASE bit = 32
      BY ONLY <3>5, <2>1, <1>0
    <3>6. CASE bit = 64
      BY ONLY <3>6, <2>1, <1>0
    <3>7. CASE bit = 128
      BY ONLY <3>7, <2>1, <1>0
    <3> QED
      BY <3>1, <3>2, <3>3, <3>4, <3>5, <3>6, <3>7
  <2> QED
    BY <1>2, <2>2 DEF FlagOf
<1> QED
  BY <1>1, <1>2

\* DPT 1, 2 and 3.
LEMMA BitReads ==
  ASSUME NEW dpt, dpt[1] = 1, NEW v \in BOOLEAN PROVE ComesBack(dpt, v)
<1> DEFINE n == Flag(1, v)
<1>1. n \in 0..63 /\ FlagOf(n, 1) = v
  <2>1. Beside(n, 1, v, 0) /\ 1 \in {1, 2, 4, 8, 32, 64, 128} /\ 0 \in 0..1 - 1
    BY DEF Beside, Flag
  <2>2. FlagOf(n, 1) = v /\ n \in 0..2 * 1 - 1
    BY <2>1, FlagBeside, SMTT(30)
  <2> QED
    BY <2>2
<1>2. DptOut(dpt, v) = {SmallValue(n)}
  BY DEF DptOut, BitOut
<1> HIDE DEF n
<1>3. SmallValue(n) \in ApduValues /\ SmallOrFirst(SmallValue(n)) = {n}
  BY <1>1, SmallIs
<1>4. DptIn(dpt, SmallValue(n)) = {v}
  BY <1>1, <1>3 DEF DptIn, BitIn
<1>5. dpt \notin {<<5, 1>>, <<5, 3>>} /\ dpt[1] # 9
  OBVIOUS
<1> QED
  BY <1>2, <1>3, <1>4, <1>5, ExactReads

\* The codec of a DPT is that of its main type, but for two of DPT 5.
ScaledIds == {<<5, 1>>, <<5, 3>>}

LEMMA CodecIs ==
  ASSUME NEW dpt, dpt \notin ScaledIds, NEW v, NEW a
  PROVE  /\ dpt[1] = 2 => /\ DptOut(dpt, v) = ControlledBitOut(v)
                          /\ DptIn(dpt, a) = ControlledBitIn(a)
         /\ dpt[1] = 3 => DptOut(dpt, v) = StepOut(v) /\ DptIn(dpt, a) = StepIn(a)
         /\ dpt[1] = 4 => /\ DptOut(dpt, v) = CharOut(IsAscii(dpt), v)
                          /\ DptIn(dpt, a) = CharIn(IsAscii(dpt), a)
         /\ dpt[1] = 9 => DptOut(dpt, v) = FloatOut(v) /\ DptIn(dpt, a) = FloatIn(a)
         /\ dpt[1] = 10 => DptOut(dpt, v) = TimeOut(v) /\ DptIn(dpt, a) = TimeIn(a)
         /\ dpt[1] = 11 => DptOut(dpt, v) = DateOut(v) /\ DptIn(dpt, a) = DateIn(a)
         /\ dpt[1] = 14 => DptOut(dpt, v) = SingleOut(v) /\ DptIn(dpt, a) = SingleIn(a)
         /\ dpt[1] = 16 => /\ DptOut(dpt, v) = StringOut(v)
                           /\ DptIn(dpt, a) = StringIn(IsAscii(dpt), a)
         /\ dpt[1] \in {18, 26} => /\ DptOut(dpt, v) = SceneOut(dpt[1], v)
                                   /\ DptIn(dpt, a) = SceneIn(dpt[1], a)
         /\ dpt[1] = 19 => DptOut(dpt, v) = MomentOut(v) /\ DptIn(dpt, a) = MomentIn(a)
         /\ dpt[1] = 28 => DptOut(dpt, v) = Utf8Out(v) /\ DptIn(dpt, a) = Utf8In(a)
         /\ dpt[1] = 232 => DptOut(dpt, v) = RgbOut(v) /\ DptIn(dpt, a) = RgbIn(a)
         /\ dpt[1] = 235 => DptOut(dpt, v) = TariffOut(v) /\ DptIn(dpt, a) = TariffIn(a)
         /\ dpt[1] = 251 => DptOut(dpt, v) = RgbwOut(v) /\ DptIn(dpt, a) = RgbwIn(a)
         /\ dpt[1] \in {5, 6, 7, 8, 12, 13, 17, 20, 29} =>
              /\ DptOut(dpt, v) = IntegerOut(IntegerType(dpt[1]), v)
              /\ DptIn(dpt, a) = IntegerIn(IntegerType(dpt[1]), a)
<1> DEFINE Of(main, out, in) == dpt[1] = main => DptOut(dpt, v) = out /\ DptIn(dpt, a) = in
<1>10. Of(2, ControlledBitOut(v), ControlledBitIn(a))
  BY DEF DptOut, DptIn, ScaledIds
<1>11. Of(3, StepOut(v), StepIn(a))
  BY DEF DptOut, DptIn, ScaledIds
<1>12. Of(4, CharOut(IsAscii(dpt), v), CharIn(IsAscii(dpt), a))
  BY DEF DptOut, DptIn, ScaledIds
<1>13. Of(9, FloatOut(v), FloatIn(a))
  BY DEF DptOut, DptIn, ScaledIds
<1>14. Of(10, TimeOut(v), TimeIn(a))
  BY DEF DptOut, DptIn, ScaledIds
<1>15. Of(11, DateOut(v), DateIn(a))
  BY DEF DptOut, DptIn, ScaledIds
<1>16. Of(14, SingleOut(v), SingleIn(a))
  BY DEF DptOut, DptIn, ScaledIds
<1>17. Of(16, StringOut(v), StringIn(IsAscii(dpt), a))
  BY DEF DptOut, DptIn, ScaledIds
<1>18. Of(18, SceneOut(18, v), SceneIn(18, a))
  BY DEF DptOut, DptIn, ScaledIds
<1>19. Of(26, SceneOut(26, v), SceneIn(26, a))
  BY DEF DptOut, DptIn, ScaledIds
<1>20. Of(19, MomentOut(v), MomentIn(a))
  BY DEF DptOut, DptIn, ScaledIds
<1>21. Of(28, Utf8Out(v), Utf8In(a))
  BY DEF DptOut, DptIn, ScaledIds
<1>22. Of(232, RgbOut(v), RgbIn(a))
  BY DEF DptOut, DptIn, ScaledIds
<1>23. Of(235, TariffOut(v), TariffIn(a))
  BY DEF DptOut, DptIn, ScaledIds
<1>24. Of(251, RgbwOut(v), RgbwIn(a))
  BY DEF DptOut, DptIn, ScaledIds
<1>9. dpt[1] \in {5, 6, 7, 8, 12, 13, 17, 20, 29} =>
        /\ DptOut(dpt, v) = IntegerOut(IntegerType(dpt[1]), v)
        /\ DptIn(dpt, a) = IntegerIn(IntegerType(dpt[1]), a)
  BY DEF DptOut, DptIn, ScaledIds
<1> QED
  BY <1>9, <1>10, <1>11, <1>12, <1>13, <1>14, <1>15, <1>16, <1>17, <1>18, <1>19, <1>20, <1>21,
     <1>22, <1>23, <1>24

\* A value of so many bytes that comes back.
LEMMA BytesRead ==
  ASSUME NEW dpt, dpt \notin ScaledIds, dpt[1] # 9, NEW v, NEW n \in 1..254, NEW b, Sized(b, n),
         DptOut(dpt, v) = {BytesValue(b)}, DptIn(dpt, BytesValue(b)) = {v}
  PROVE  ComesBack(dpt, v)
<1>1. BytesValue(b) \in ApduValues
  BY BytesValueIs
<1> QED
  BY <1>1, ExactReads DEF ScaledIds

ControlledBits == [control : BOOLEAN, value : BOOLEAN]
Steps == [control : BOOLEAN, stepCode : 0..7]
Scenes == [scene : 0..63, flag : BOOLEAN]

LEMMA SmallRead ==
  ASSUME NEW dpt, dpt \notin ScaledIds, dpt[1] # 9, NEW v, NEW n \in 0..63,
         DptOut(dpt, v) = {SmallValue(n)},
         SmallOrFirst(SmallValue(n)) = {n} => DptIn(dpt, SmallValue(n)) = {v}
  PROVE  ComesBack(dpt, v)
<1>1. SmallValue(n) \in ApduValues /\ SmallOrFirst(SmallValue(n)) = {n}
  BY SmallIs
<1> QED
  BY <1>1, ExactReads DEF ScaledIds

LEMMA ControlledBitReads ==
  ASSUME NEW dpt, dpt[1] = 2, NEW v \in ControlledBits PROVE ComesBack(dpt, v)
<1>1. v.control \in BOOLEAN /\ v.value \in BOOLEAN
      /\ v = [control |-> v.control, value |-> v.value]
  BY DEF ControlledBits
<1> DEFINE x == v.control
           y == v.value
           n == Flag(2, x) + Flag(1, y)
<1>2. FlagOf(n, 2) = x /\ FlagOf(n, 1) = y /\ n \in 0..63
  <2>1. CASE x /\ y
    <3>1. n = 3
      BY <2>1 DEF Flag
    <3>2. FlagOf(n, 2) /\ FlagOf(n, 1) /\ n \in 0..63
      BY <3>1 DEF FlagOf
    <3> QED
      BY <3>2, <2>1, <1>1 DEF FlagOf
  <2>2. CASE x /\ ~y
    <3>1. n = 2
      BY <2>2 DEF Flag
    <3>2. FlagOf(n, 2) /\ ~FlagOf(n, 1) /\ n \in 0..63
      BY <3>1 DEF FlagOf
    <3> QED
      BY <3>2, <2>2, <1>1 DEF FlagOf
  <2>3. CASE ~x /\ y
    <3>1. n = 1
      BY <2>3 DEF Flag
    <3>2. ~FlagOf(n, 2) /\ FlagOf(n, 1) /\ n \in 0..63
      BY <3>1 DEF FlagOf
    <3> QED
      BY <3>2, <2>3, <1>1 DEF FlagOf
  <2>4. CASE ~x /\ ~y
    <3>1. n = 0
      BY <2>4 DEF Flag
    <3>2. ~FlagOf(n, 2) /\ ~FlagOf(n, 1) /\ n \in 0..63
      BY <3>1 DEF FlagOf
    <3> QED
      BY <3>2, <2>4, <1>1 DEF FlagOf
  <2> QED
    BY <2>1, <2>2, <2>3, <2>4
<1>3. dpt \notin ScaledIds
  BY DEF ScaledIds
<1>4. DptOut(dpt, v) = {SmallValue(n)}
  BY <1>3, CodecIs DEF ControlledBitOut
<1> HIDE DEF n, x, y
<1>5. ASSUME SmallOrFirst(SmallValue(n)) = {n} PROVE DptIn(dpt, SmallValue(n)) = {v}
  <2>1. DptIn(dpt, SmallValue(n)) =
          {[control |-> FlagOf(raw, 2), value |-> FlagOf(raw, 1)] : raw \in {n}}
    BY <1>3, <1>5, CodecIs DEF ControlledBitIn
  <2>2. DptIn(dpt, SmallValue(n)) = {[control |-> FlagOf(n, 2), value |-> FlagOf(n, 1)]}
    BY <2>1
  <2> QED
    BY <2>2, <1>1, <1>2 DEF x, y
<1> QED
  BY <1>2, <1>3, <1>4, <1>5, SmallRead

LEMMA StepReads ==
  ASSUME NEW dpt, dpt[1] = 3, NEW v \in Steps PROVE ComesBack(dpt, v)
<1>1. /\ v.control \in BOOLEAN /\ v.stepCode \in 0..7
      /\ v = [control |-> v.control, stepCode |-> v.stepCode]
  BY DEF Steps
<1> DEFINE x == v.control
           s == v.stepCode
           n == Flag(8, x) + s
<1>2. FlagOf(n, 8) = x /\ n % 8 = s /\ n \in 0..63
  <2>1. 8 \in {1, 2, 4, 8, 32, 64, 128} /\ s \in 0..8 - 1 /\ x \in BOOLEAN /\ Beside(n, 8, x, s)
    BY <1>1 DEF Beside
  <2> HIDE DEF n, x, s
  <2>2. FlagOf(n, 8) = x /\ n % 8 = s /\ n \in 0..2 * 8 - 1
    BY <2>1, FlagBeside, SMTT(30)
  <2> QED
    BY <2>2
<1>3. dpt \notin ScaledIds
  BY DEF ScaledIds
<1>4. DptOut(dpt, v) = {SmallValue(n)}
  BY <1>1, <1>3, CodecIs DEF StepOut
<1> HIDE DEF n, x, s
<1>5. ASSUME SmallOrFirst(SmallValue(n)) = {n} PROVE DptIn(dpt, SmallValue(n)) = {v}
  <2>1. DptIn(dpt, SmallValue(n)) =
          {[control |-> FlagOf(raw, 8), stepCode |-> raw % 8] : raw \in {n}}
    BY <1>3, <1>5, CodecIs DEF StepIn
  <2>2. DptIn(dpt, SmallValue(n)) = {[control |-> FlagOf(n, 8), stepCode |-> n % 8]}
    BY <2>1
  <2> QED
    BY <2>2, <1>1, <1>2 DEF x, s
<1> QED
  BY <1>2, <1>3, <1>4, <1>5, SmallRead

\* A string of one byte and what is read of it.
LEMMA OneByte ==
  ASSUME NEW y \in Byte
  PROVE  /\ Sized(<<y>>, 1) /\ IsBytes(BytesValue(<<y>>), 1) /\ BytesValue(<<y>>).value[1] = y
         /\ 1 \in 1..254
<1>1. Sized(<<y>>, 1) /\ <<y>>[1] = y
  BY DEF Sized
<1> QED
  BY <1>1, BytesValueIs

LEMMA SceneReads ==
  ASSUME NEW dpt, dpt[1] \in {18, 26}, NEW v \in Scenes PROVE ComesBack(dpt, v)
<1>1. v.flag \in BOOLEAN /\ v.scene \in 0..63 /\ v = [flag |-> v.flag, scene |-> v.scene]
  BY DEF Scenes
<1> DEFINE x == v.flag
           s == v.scene
           f == SceneFlag(dpt[1])
           n == Flag(f, x) + s
           a == BytesValue(<<n>>)
<1>2. FlagOf(n, f) = x /\ n % 64 = s /\ n \in Byte
  <2>1. CASE f = 64
    <3>1. 64 \in {1, 2, 4, 8, 32, 64, 128} /\ s \in 0..64 - 1 /\ x \in BOOLEAN
          /\ Beside(n, 64, x, s)
      BY <1>1, <2>1 DEF Beside
    <3> HIDE DEF n, x, s
    <3>2. FlagOf(n, 64) = x /\ n % 64 = s /\ n \in 0..2 * 64 - 1
      BY <3>1, FlagBeside, SMTT(30)
    <3> QED
      BY <3>2, <2>1 DEF Byte
  <2>2. CASE f = 128
    <3>1. 128 \in {1, 2, 4, 8, 32, 64, 128} /\ s \in 0..128 - 1 /\ x \in BOOLEAN
      BY <1>1
    <3>2. Beside(n, 128, x, s) /\ s \in 0..63
      BY <1>1, <2>2 DEF Beside
    <3> HIDE DEF n, x, s
    <3>3. FlagOf(n, 128) = x /\ n % 128 = s /\ n \in 0..2 * 128 - 1
      BY <3>1, <3>2, FlagBeside, SMTT(30)
    <3>4. n % 64 = s
      BY ONLY <3>2, <3>3
    <3> QED
      BY <3>3, <3>4, <2>2 DEF Byte
  <2> QED
    BY <2>1, <2>2 DEF SceneFlag
<1>3. dpt \notin ScaledIds
  BY DEF ScaledIds
<1>4. DptOut(dpt, v) = {a}
  BY <1>1, <1>3, CodecIs DEF SceneOut
<1> HIDE DEF n, x, s, f
<1>5. Sized(<<n>>, 1) /\ IsBytes(a, 1) /\ a.value[1] = n /\ 1 \in 1..254
  BY <1>2, OneByte
<1>6. DptIn(dpt, a) = {[flag |-> FlagOf(n, f), scene |-> n % 64]}
  BY <1>3, <1>5, CodecIs, SMTT(30) DEF SceneIn, f
<1>7. DptIn(dpt, a) = {v}
  BY <1>1, <1>2, <1>6 DEF x, s
<1> QED
  BY <1>3, <1>4, <1>5, <1>7, BytesRead, SMTT(30)

Times == [day : 0..7, hour : 0..23, minutes : 0..59, seconds : 0..59]
Dates == [day : 1..31, month : 1..12, year : 1990..2089]
DateTimes ==
  [year : 1900..2155, month : 1..12, day : 1..31, hour : 0..24, dayOfWeek : 0..7,
   minutes : 0..59, seconds : 0..59, fault : BOOLEAN, workingDay : BOOLEAN,
   workingDayValid : BOOLEAN, summerTime : BOOLEAN, unsynchronised : BOOLEAN]

\* A field that is there is stored as it is.
LEMMA StoredIs == ASSUME NEW x \in Int PROVE Stored(x) = x
BY AbsentAssumption DEF AbsentAssumption, Stored

LEMMA TripleType ==
  ASSUME NEW c \in Byte, NEW d \in Byte, NEW e \in Byte
  PROVE  Sized(<<c, d, e>>, 3)
BY DEF Sized

\* The bits of a byte: three and five.
Split(y, h, l) == y = 32 * h + l

LEMMA SplitIs ==
  ASSUME NEW h \in 0..7, NEW l \in 0..31, NEW y, Split(y, h, l)
  PROVE  y \in Byte /\ y \div 32 = h /\ y % 32 = l
<1>1. y = 32 * h + l
  BY DEF Split
<1> QED
  BY <1>1 DEF Byte

LEMMA TimeReads ==
  ASSUME NEW dpt, dpt[1] = 10, NEW v \in Times PROVE ComesBack(dpt, v)
<1> DEFINE d == v.day
           h == v.hour
           m == v.minutes
           s == v.seconds
           y == 32 * d + h
           a == BytesValue(<<y, m, s>>)
<1>1. /\ d \in 0..7 /\ h \in 0..23 /\ m \in 0..59 /\ s \in 0..59
      /\ v = [day |-> d, hour |-> h, minutes |-> m, seconds |-> s]
  BY DEF Times
<1>2. dpt \notin ScaledIds
  BY DEF ScaledIds
<1>3. DptOut(dpt, v) = {a}
  <2>1. /\ Between(v.hour, 0, 23) /\ Between(v.minutes, 0, 59) /\ Between(v.seconds, 0, 59)
        /\ Stored(v.hour) = h /\ Stored(v.minutes) = m /\ Stored(v.seconds) = s
    <3>1. h \in Int /\ m \in Int /\ s \in Int
      BY <1>1
    <3>2. Stored(v.hour) = h /\ Stored(v.minutes) = m /\ Stored(v.seconds) = s
      BY <3>1, StoredIs
    <3> QED
      BY <1>1, <3>2 DEF Between
  <2> QED
    BY <1>2, <2>1, CodecIs DEF TimeOut
<1>4. Split(y, d, h)
  BY DEF Split
<1>5. y \in Byte /\ y \div 32 = d /\ y % 32 = h
  <2> HIDE DEF d, h, y
  <2>1. h \in 0..31
    BY <1>1
  <2> QED
    BY <1>1, <1>4, <2>1, SplitIs
<1>6. m \in Byte /\ m % 64 = m /\ s \in Byte /\ s % 64 = s
  <2> HIDE DEF m, s
  <2> QED
    BY <1>1 DEF Byte
<1>7. Sized(<<y, m, s>>, 3)
  BY <1>5, <1>6, TripleType
<1> HIDE DEF d, h, m, s, y
<1>8. IsBytes(a, 3) /\ a.value = <<y, m, s>>
  BY <1>7, BytesValueIs
<1>9. a.value[1] = y /\ a.value[2] = m /\ a.value[3] = s
  BY <1>8
<1>10. DptIn(dpt, a) = {[day |-> d, hour |-> h, minutes |-> m, seconds |-> s]}
  BY <1>2, <1>5, <1>6, <1>8, <1>9, CodecIs DEF TimeIn
<1> QED
  BY <1>1, <1>2, <1>3, <1>7, <1>10, BytesRead

LEMMA DateReads ==
  ASSUME NEW dpt, dpt[1] = 11, NEW v \in Dates PROVE ComesBack(dpt, v)
<1> DEFINE d == v.day
           m == v.month
           y == v.year
           c == y % 100
           a == BytesValue(<<d, m, c>>)
<1>1. /\ d \in 1..31 /\ m \in 1..12 /\ y \in 1990..2089
      /\ v = [day |-> d, month |-> m, year |-> y]
  BY DEF Dates
<1>2. dpt \notin ScaledIds
  BY DEF ScaledIds
<1>3. DptOut(dpt, v) = {a}
  <2>1. /\ Between(v.day, 1, 31) /\ Between(v.month, 1, 12)
        /\ Stored(v.day) = d /\ Stored(v.month) = m
    <3>1. d \in Int /\ m \in Int
      BY <1>1
    <3>2. Stored(v.day) = d /\ Stored(v.month) = m
      BY <3>1, StoredIs
    <3> QED
      BY <1>1, <3>2 DEF Between
  <2> QED
    BY <1>1, <1>2, <2>1, CodecIs DEF DateOut
<1>5. /\ c \in Byte /\ c % 128 = c
      /\ c + (IF c >= 90 THEN 1900 ELSE 2000) = y
  <2> HIDE DEF y
  <2>1. y \in 1990..1999 \/ y \in 2000..2089
    BY <1>1
  <2>2. CASE y \in 1990..1999
    BY <2>2 DEF Byte
  <2>3. CASE y \in 2000..2089
    BY <2>3 DEF Byte
  <2> QED
    BY <2>1, <2>2, <2>3
<1>6. d \in Byte /\ d % 32 = d /\ m \in Byte /\ m % 16 = m
  <2> HIDE DEF m, d
  <2> QED
    BY <1>1 DEF Byte
<1> HIDE DEF d, m, y, c
<1>7. Sized(<<d, m, c>>, 3)
  BY <1>5, <1>6, TripleType
<1>8. IsBytes(a, 3) /\ a.value = <<d, m, c>>
  BY <1>7, BytesValueIs
<1>9. a.value[1] = d /\ a.value[2] = m /\ a.value[3] = c
  BY <1>8
<1> HIDE DEF a
<1>10. DptIn(dpt, a) = {[year |-> c + (IF c >= 90 THEN 1900 ELSE 2000), month |-> m, day |-> d]}
  <2>1. DptIn(dpt, a) = DateIn(a)
    BY <1>2, CodecIs
  <2>2. a.value[1] % 32 = d /\ a.value[2] % 16 = m /\ a.value[3] % 128 = c
    BY <1>5, <1>6, <1>9
  <2> QED
    BY <1>1, <1>8, <2>1, <2>2 DEF DateIn
<1>11. DptIn(dpt, a) = {v}
  BY <1>1, <1>5, <1>10
<1> QED
  BY <1>2, <1>3, <1>7, <1>11, BytesRead DEF a

LEMMA RgbReads ==
  ASSUME NEW dpt, dpt[1] = 232, NEW v \in ByteString(3) PROVE ComesBack(dpt, v)
<1>1. Sized(v, 3) /\ \A i \in 1..3 : v[i] \in 0..255
  <2>1. v \in Seq(Byte) /\ Len(v) = 3
    BY DEF ByteString
  <2>2. \A i \in 1..3 : v[i] \in Byte
    BY <2>1, SMTT(30)
  <2> QED
    BY <2>1, <2>2 DEF Sized, Byte
<1>2. dpt \notin ScaledIds
  BY DEF ScaledIds
<1>3. DptOut(dpt, v) = {BytesValue(v)}
  BY <1>1, <1>2, CodecIs DEF RgbOut
<1>4. IsBytes(BytesValue(v), 3) /\ BytesValue(v).value = v
  BY <1>1, BytesValueIs
<1>5. DptIn(dpt, BytesValue(v)) = {v}
  BY <1>2, <1>4, CodecIs DEF RgbIn
<1> QED
  BY <1>1, <1>2, <1>3, <1>5, BytesRead

\* Bytes without their top bit are read as they are.
LEMMA Read8Is ==
  ASSUME NEW ascii \in BOOLEAN, NEW b \in Seq(Byte),
         ascii => \A i \in 1..Len(b) : b[i] \in 0..127
  PROVE  Read8(ascii, b) = b
<1>1. \A i \in 1..Len(b) : (IF ascii THEN b[i] % 128 ELSE b[i]) = b[i]
  <2>1. \A x \in 0..127 : x % 128 = x
    OBVIOUS
  <2> QED
    BY <2>1
<1>2. b \in [1..Len(b) -> Byte]
  OBVIOUS
<1>3. b = [i \in 1..Len(b) |-> b[i]]
  BY <1>2
<1>4. Read8(ascii, b) = [i \in 1..Len(b) |-> b[i]]
  BY <1>1 DEF Read8
<1> QED
  BY <1>3, <1>4

LEMMA CharReads ==
  ASSUME NEW dpt, dpt[1] = 4, NEW c \in 0..IF dpt = <<4, 1>> THEN 127 ELSE 255
  PROVE  ComesBack(dpt, <<c>>)
<1> DEFINE v == <<c>>
           a == BytesValue(v)
<1>0. IsAscii(dpt) <=> dpt = <<4, 1>>
  BY DEF IsAscii
<1>1. c \in Byte /\ (IsAscii(dpt) => c % 128 = c) /\ c \in 0..IF IsAscii(dpt) THEN 127 ELSE 255
  BY <1>0 DEF Byte
<1>2. dpt \notin ScaledIds
  BY DEF ScaledIds
<1>3. Len(v) = 1 /\ v[1] = c
  OBVIOUS
<1>4. DptOut(dpt, v) = {a}
  BY <1>1, <1>2, <1>3, CodecIs DEF CharOut
<1>5. Sized(v, 1) /\ IsBytes(a, 1) /\ 1 \in 1..254 /\ a.value = v
  BY <1>1, OneByte, BytesValueIs
<1>6. Read8(IsAscii(dpt), v) = v
  <2>1. v \in Seq(Byte) /\ IsAscii(dpt) \in BOOLEAN
    BY <1>5 DEF Sized, IsAscii
  <2>2. IsAscii(dpt) => \A i \in 1..Len(v) : v[i] \in 0..127
    BY <1>1, <1>3
  <2> HIDE DEF v
  <2> QED
    BY <2>1, <2>2, Read8Is
<1> HIDE DEF v, a
<1>7. DptIn(dpt, a) = {v}
  BY <1>2, <1>5, <1>6, CodecIs DEF CharIn
<1>8. ComesBack(dpt, v)
  BY <1>2, <1>4, <1>5, <1>7, BytesRead DEF a
<1> QED
  BY <1>8 DEF v

-----------------------------------------------------------------------------
(* DATAPOINTS: INTEGERS AND STRINGS                                        *)

IntegerMains == {5, 6, 7, 8, 12, 13, 17, 20, 29}

\* The digits of an integer: only the first may be negative.
IntegerValues(t) ==
  {v \in Seq(Int) : /\ Len(v) = t.n
                    /\ v[1] \in (IF t.signed THEN -128 ELSE 0)..t.top
                    /\ \A i \in 2..t.n : v[i] \in Byte}

IntegerForm(t) ==
  /\ t.n \in 1..8 /\ t.signed \in BOOLEAN
  /\ IF t.signed THEN t.top = 127 ELSE t.top \in {63, 255}

LEMMA IntegerForms == ASSUME NEW m \in IntegerMains PROVE IntegerForm(IntegerType(m))
<1> DEFINE t == IntegerType(m)
<1>1. CASE m = 5
  <2>1. IntegerType(m) = Dpt5
    BY <1>1 DEF IntegerType
  <2>2. IntegerForm(Dpt5)
    BY DEF IntegerForm, Integer, Dpt5
  <2> QED
    BY <2>1, <2>2
<1>2. CASE m = 6
  <2>1. IntegerType(m) = Dpt6
    BY <1>2 DEF IntegerType
  <2>2. IntegerForm(Dpt6)
    BY DEF IntegerForm, Integer, Dpt6
  <2> QED
    BY <2>1, <2>2
<1>3. CASE m = 7
  <2>1. IntegerType(m) = Dpt7
    BY <1>3 DEF IntegerType
  <2>2. IntegerForm(Dpt7)
    BY DEF IntegerForm, Integer, Dpt7
  <2> QED
    BY <2>1, <2>2
<1>4. CASE m = 8
  <2>1. IntegerType(m) = Dpt8
    BY <1>4 DEF IntegerType
  <2>2. IntegerForm(Dpt8)
    BY DEF IntegerForm, Integer, Dpt8
  <2> QED
    BY <2>1, <2>2
<1>5. CASE m = 12
  <2>1. IntegerType(m) = Dpt12
    BY <1>5 DEF IntegerType
  <2>2. IntegerForm(Dpt12)
    BY DEF IntegerForm, Integer, Dpt12
  <2> QED
    BY <2>1, <2>2
<1>6. CASE m = 13
  <2>1. IntegerType(m) = Dpt13
    BY <1>6 DEF IntegerType
  <2>2. IntegerForm(Dpt13)
    BY DEF IntegerForm, Integer, Dpt13
  <2> QED
    BY <2>1, <2>2
<1>7. CASE m = 17
  <2>1. IntegerType(m) = Dpt17
    BY <1>7 DEF IntegerType
  <2>2. IntegerForm(Dpt17)
    BY DEF IntegerForm, Integer, Dpt17
  <2> QED
    BY <2>1, <2>2
<1>8. CASE m = 20
  <2>1. IntegerType(m) = Dpt20
    BY <1>8 DEF IntegerType
  <2>2. IntegerForm(Dpt20)
    BY DEF IntegerForm, Integer, Dpt20
  <2> QED
    BY <2>1, <2>2
<1>9. CASE m = 29
  <2>1. IntegerType(m) = Dpt29
    BY <1>9 DEF IntegerType
  <2>2. IntegerForm(Dpt29)
    BY DEF IntegerForm, Integer, Dpt29
  <2> QED
    BY <2>1, <2>2
<1> QED
  BY <1>1, <1>2, <1>3, <1>4, <1>5, <1>6, <1>7, <1>8, <1>9 DEF IntegerMains

\* What the encoder makes of an integer is one that the decoder takes back.
LEMMA IntegerIs ==
  ASSUME NEW t, IntegerForm(t), NEW v \in IntegerValues(t)
  PROVE  \E b : /\ Sized(b, t.n) /\ IntegerOut(t, v) = {BytesValue(b)}
                /\ IntegerIn(t, BytesValue(b)) = {v}
<1> DEFINE n == t.n
           x == v[1]
           y == x % 256
           b == [v EXCEPT ![1] = @ % 256]
           F(z) == CASE t.signed /\ z > 127 -> z - 256
                     [] t.top = 63 -> z % 64
                     [] OTHER -> z
<1>1. /\ n \in 1..8 /\ t.signed \in BOOLEAN /\ (t.signed => t.top = 127)
      /\ (~t.signed => t.top \in {63, 255})
  BY DEF IntegerForm
<1>2. /\ v \in Seq(Int) /\ Len(v) = n /\ x \in (IF t.signed THEN -128 ELSE 0)..t.top
      /\ \A i \in 2..n : v[i] \in Byte
  BY DEF IntegerValues
<1>3. y \in Byte /\ F(y) = x
  <2>0. y = x % 256
    OBVIOUS
  <2> HIDE DEF x, y
  <2>1. CASE t.signed
    <3>1. x \in -128..-1 \/ x \in 0..127
      BY <2>1, <1>1, <1>2
    <3>2. CASE x \in -128..-1
      <4>1. y = x + 256
        BY <2>0, <3>2
      <4>2. y > 127 /\ y \in Byte /\ y - 256 = x
        BY <3>2, <4>1 DEF Byte
      <4> QED
        BY <1>1, <2>1, <4>2
    <3>3. CASE x \in 0..127
      <4>1. y = x
        BY <2>0, <3>3
      <4> QED
        BY <1>1, <2>1, <3>3, <4>1 DEF Byte
    <3> QED
      BY <3>1, <3>2, <3>3
  <2>2. CASE ~t.signed /\ t.top = 63
    <3>1. x \in 0..63
      BY <2>2, <1>2
    <3>2. y = x
      BY <2>0, <3>1
    <3> QED
      BY <2>2, <3>1, <3>2 DEF Byte
  <2>3. CASE ~t.signed /\ t.top = 255
    <3>1. x \in 0..255
      BY <2>3, <1>2
    <3>2. y = x
      BY <2>0, <3>1
    <3> QED
      BY <2>3, <3>1, <3>2 DEF Byte
  <2> QED
    BY <1>1, <2>1, <2>2, <2>3
<1>4. v \in [1..n -> Int] /\ 1 \in 1..n /\ n \in Nat /\ n \in 1..254
  <2>1. v \in [1..Len(v) -> Int]
    BY <1>2
  <2>2. 1 \in 1..n /\ n \in Nat /\ n \in 1..254
    <3> HIDE DEF n
    <3> QED
      BY <1>1
  <2> QED
    BY <1>2, <2>1, <2>2
<1>5. b = [i \in 1..n |-> IF i = 1 THEN y ELSE v[i]]
  BY <1>4
<1>6. \A i \in 1..n : (IF i = 1 THEN y ELSE v[i]) \in Byte
  <2> SUFFICES ASSUME NEW i \in 1..n, i # 1 PROVE v[i] \in Byte
    BY <1>3
  <2>1. i \in 2..n
    <3> HIDE DEF n
    <3> QED
      BY <1>4
  <2> QED
    BY <2>1, <1>2
<1>7. IntegerOut(t, v) = {BytesValue(b)}
  BY <1>2 DEF IntegerOut
<1> HIDE DEF b, n, y, x
<1>8. Sized(b, n) /\ b[1] = y /\ DOMAIN b = 1..n
  <2>1. b \in [1..n -> Byte]
    BY <1>5, <1>6
  <2>2. b \in Seq(Byte) /\ Len(b) = n
    BY <1>4, <2>1
  <2> QED
    BY <1>4, <1>5, <2>1, <2>2 DEF Sized
<1>9. IsBytes(BytesValue(b), n) /\ BytesValue(b).value = b
  BY <1>4, <1>8, BytesValueIs
<1>10. IntegerIn(t, BytesValue(b)) = {[b EXCEPT ![1] = F(b[1])]}
  BY <1>9 DEF IntegerIn, n
<1> HIDE DEF F
<1>11. [b EXCEPT ![1] = F(b[1])] = v
  <2>1. F(b[1]) = v[1]
    BY <1>3, <1>8 DEF x
  <2>2. [b EXCEPT ![1] = F(b[1])] = [i \in 1..n |-> IF i = 1 THEN v[1] ELSE b[i]]
    BY <1>8, <2>1
  <2>3. \A i \in 1..n : (IF i = 1 THEN v[1] ELSE b[i]) = v[i]
    BY <1>5
  <2>4. v = [i \in 1..n |-> v[i]]
    BY <1>4
  <2> QED
    BY <2>2, <2>3, <2>4
<1> QED
  BY <1>7, <1>8, <1>10, <1>11 DEF n

LEMMA IntegerReads ==
  ASSUME NEW dpt, dpt \notin ScaledIds, dpt[1] \in IntegerMains,
         NEW v \in IntegerValues(IntegerType(dpt[1]))
  PROVE  ComesBack(dpt, v)
<1> DEFINE t == IntegerType(dpt[1])
<1>1. IntegerForm(t)
  BY IntegerForms
<1>2. dpt[1] # 9 /\ dpt[1] \in {5, 6, 7, 8, 12, 13, 17, 20, 29}
  BY DEF IntegerMains
<1>3. \A a : DptOut(dpt, v) = IntegerOut(t, v) /\ DptIn(dpt, a) = IntegerIn(t, a)
  BY <1>2, CodecIs
<1>4. v \in IntegerValues(t)
  OBVIOUS
<1> HIDE DEF t
<1>5. PICK b : /\ Sized(b, t.n) /\ IntegerOut(t, v) = {BytesValue(b)}
               /\ IntegerIn(t, BytesValue(b)) = {v}
  BY <1>1, <1>4, IntegerIs
<1>6. t.n \in 1..254
  <2> DEFINE n == t.n
  <2>1. n \in 1..8
    BY <1>1 DEF IntegerForm
  <2> HIDE DEF n
  <2>2. n \in 1..254
    BY <2>1
  <2> QED
    BY <2>2 DEF n
<1> QED
  BY <1>2, <1>3, <1>5, <1>6, BytesRead

\* DPT 28: the byte behind the last is the first that is zero.
LEMMA Utf8Reads ==
  ASSUME NEW dpt, dpt[1] = 28, NEW v \in Seq(1..255), Len(v) <= 253
  PROVE  ComesBack(dpt, v)
<1> DEFINE t == Append(v, 0)
           n == Len(v)
<1>1. v \in Seq(Byte) /\ \A i \in 1..Len(v) : v[i] # 0
  <2>1. 1..255 \subseteq Byte /\ \A x \in 1..255 : x # 0
    BY DEF Byte
  <2> QED
    BY <2>1, SeqMonotonic, ElementOfSeq
<1>2. n \in Nat /\ n + 1 \in 1..254 /\ n <= n + 1
  <2>1. n \in Nat /\ n <= 253
    OBVIOUS
  <2> HIDE DEF n
  <2> QED
    BY <2>1
<1>3. Sized(t, n + 1) /\ t[n + 1] = 0 /\ \A i \in 1..n : t[i] = v[i]
  <2>1. 0 \in Byte
    BY DEF Byte
  <2> QED
    BY <1>1, <2>1 DEF Sized
<1>4. dpt \notin ScaledIds
  BY DEF ScaledIds
<1>5. DptOut(dpt, v) = {BytesValue(t)}
  BY <1>1, <1>4, CodecIs DEF Utf8Out
<1> HIDE DEF t
<1>6. Unpadded(t) = v
  <2>1. t \in Seq(Byte) /\ Len(t) = n + 1
    BY <1>3 DEF Sized
  <2>2. Len(v) <= Len(t) /\ t[Len(v) + 1] = 0 /\ \A i \in 1..Len(v) : t[i] = v[i] /\ v[i] # 0
    BY <1>1, <1>2, <1>3, <2>1
  <2> QED
    BY <1>1, <2>1, <2>2, UnpaddedIs
<1>7. ~BytesValue(t).small /\ BytesValue(t).value = t
  BY DEF BytesValue
<1>8. DptIn(dpt, BytesValue(t)) = {v}
  BY <1>4, <1>6, <1>7, CodecIs DEF Utf8In
<1> DEFINE k == n + 1
<1>9. k \in 1..254 /\ Sized(t, k) /\ dpt[1] # 9
  BY <1>2, <1>3
<1> HIDE DEF n, k
<1> QED
  BY <1>4, <1>5, <1>8, <1>9, BytesRead

\* The strings of DPT 16: what ends with a zero character comes back without it.
Strings(ascii) ==
  {v \in Seq(Byte) : /\ Len(v) <= StringLength
                     /\ Len(v) = 0 \/ v[Len(v)] # 0
                     /\ ascii => \A i \in 1..Len(v) : v[i] \in 0..127}

LEMMA StringReads ==
  ASSUME NEW dpt, dpt[1] = 16, NEW v \in Strings(IsAscii(dpt))
  PROVE  ComesBack(dpt, v)
<1> DEFINE n == Len(v)
           t == [i \in 1..14 |-> IF i <= n THEN v[i] % 256 ELSE 0]
           a == BytesValue(t)
           Cut(k) == (\A i \in k + 1..14 : t[i] = 0) /\ (k = 0 \/ t[k] # 0)
<1>1. /\ v \in Seq(Byte) /\ n \in Nat /\ n <= 14 /\ (n = 0 \/ v[n] # 0)
      /\ IsAscii(dpt) => \A i \in 1..n : v[i] \in 0..127
  BY DEF Strings, StringLength
<1>2. \A i \in 1..n : v[i] \in Byte /\ v[i] % 256 = v[i]
  <2>1. \A x \in Byte : x % 256 = x
    BY DEF Byte
  <2> QED
    BY <1>1, <2>1, ElementOfSeq
<1>3. \A i \in 1..14 : t[i] = IF i <= n THEN v[i] ELSE 0
  <2> SUFFICES ASSUME NEW i \in 1..14 PROVE t[i] = IF i <= n THEN v[i] ELSE 0
    OBVIOUS
  <2>1. t[i] = IF i <= n THEN v[i] % 256 ELSE 0
    OBVIOUS
  <2>2. i <= n => i \in 1..n
    BY <1>1
  <2> QED
    BY <1>2, <2>1, <2>2
<1>4. Sized(t, 14)
  <2>1. 0 \in Byte
    BY DEF Byte
  <2>2. \A i \in 1..14 : (IF i <= n THEN v[i] % 256 ELSE 0) \in Byte
    <3> SUFFICES ASSUME NEW i \in 1..14, i <= n PROVE v[i] % 256 \in Byte
      BY <2>1
    <3>1. i \in 1..n
      BY <1>1
    <3> QED
      BY <1>2, <3>1
  <2>3. t \in [1..14 -> Byte]
    BY <2>2
  <2>4. t \in Seq(Byte) /\ Len(t) = 14
    BY <2>3
  <2> QED
    BY <2>4 DEF Sized
<1>5. dpt \notin ScaledIds
  BY DEF ScaledIds
<1>6. DptOut(dpt, v) = {a}
  <2>1. ~(Len(v) > StringLength)
    BY <1>1 DEF StringLength
  <2>2. StringOut(v) = {a}
    BY <2>1 DEF StringOut, StringLength
  <2> HIDE DEF a
  <2> QED
    BY <1>5, <2>2, CodecIs
<1> HIDE DEF t
<1>7. Cut(n) /\ n \in 0..14
  <2> HIDE DEF n
  <2>1. \A i \in n + 1..14 : i \in 1..14 /\ ~(i <= n)
    BY <1>1
  <2>2. \A i \in n + 1..14 : t[i] = 0
    BY <1>3, <2>1
  <2>3. n = 0 \/ t[n] # 0
    <3> SUFFICES ASSUME n # 0 PROVE t[n] # 0
      OBVIOUS
    <3>1. n \in 1..14 /\ n <= n
      BY <1>1
    <3> QED
      BY <1>1, <1>3, <3>1
  <2> QED
    BY <1>1, <2>2, <2>3
<1>8. ASSUME NEW k \in 0..14, Cut(k) PROVE k = n
  <2> HIDE DEF n
  <2>1. ~(k < n)
    <3> SUFFICES ASSUME k < n PROVE FALSE
      OBVIOUS
    <3>1. n \in k + 1..14 /\ n # 0
      BY <1>1
    <3> QED
      BY <3>1, <1>7, <1>8
  <2>2. ~(n < k)
    <3> SUFFICES ASSUME n < k PROVE FALSE
      OBVIOUS
    <3>1. k \in n + 1..14 /\ k # 0
      BY <1>1
    <3> QED
      BY <3>1, <1>7, <1>8
  <2> QED
    BY <1>1, <2>1, <2>2
<1>9. Bytes(t, 0, n) = v
  <2>1. Sized(v, n) /\ t \in Seq(Byte) /\ Len(t) = 14
    BY <1>1, <1>4 DEF Sized
  <2>2. StandsAt(t, 0, v)
    <3>1. \A i \in 1..n : i \in 1..14 /\ i <= n /\ 0 + i = i
      BY <1>1
    <3>2. \A i \in 1..n : t[0 + i] = v[i]
      BY <1>3, <3>1
    <3> QED
      BY <1>1, <2>1, <3>2 DEF StandsAt
  <2> QED
    BY <1>1, <2>1, <2>2, BytesAre
<1>10. IsBytes(a, 14) /\ a.value = t
  BY <1>4, BytesValueIs
<1>11. Read8(IsAscii(dpt), v) = v
  <2>1. IsAscii(dpt) \in BOOLEAN
    BY DEF IsAscii
  <2> QED
    BY <1>1, <2>1, Read8Is
<1>12. DptIn(dpt, a) = {Read8(IsAscii(dpt), SubSeq(t, 1, CHOOSE k \in 0..14 : Cut(k)))}
  BY <1>5, <1>10, CodecIs DEF StringIn, StringLength
<1> HIDE DEF Cut
<1>13. (CHOOSE k \in 0..14 : Cut(k)) = n
  BY <1>7, <1>8
<1>14. SubSeq(t, 1, n) = v
  BY <1>1, <1>9 DEF Bytes
<1>15. DptIn(dpt, a) = {v}
  BY <1>11, <1>12, <1>13, <1>14
<1> QED
  BY <1>4, <1>5, <1>6, <1>15, BytesRead

\* The numbers of DPT 14.
Singles == [negative : BOOLEAN, exponent : 0..254, fraction : (0..127) \X Byte \X Byte]

LEMMA SingleReads ==
  ASSUME NEW dpt, dpt[1] = 14, NEW v \in Singles PROVE ComesBack(dpt, v)
<1> DEFINE x == v.negative
           e == v.exponent
           c == v.fraction[1]
           d == v.fraction[2]
           f == v.fraction[3]
           h == e \div 2
           y == Flag(128, x) + h
           z == 128 * (e % 2) + c
           a == BytesValue(<<y, z, d, f>>)
<1>1. /\ x \in BOOLEAN /\ e \in 0..254 /\ c \in 0..127 /\ d \in Byte /\ f \in Byte
      /\ v = [negative |-> x, exponent |-> e, fraction |-> <<c, d, f>>]
  <2>1. /\ v.fraction \in (0..127) \X Byte \X Byte
        /\ v = [negative |-> x, exponent |-> e, fraction |-> v.fraction]
        /\ x \in BOOLEAN /\ e \in 0..254
    BY DEF Singles
  <2>2. v.fraction = <<c, d, f>> /\ c \in 0..127 /\ d \in Byte /\ f \in Byte
    BY <2>1
  <2> QED
    BY <2>1, <2>2
<1>2. dpt \notin ScaledIds
  BY DEF ScaledIds
<1>3. DptOut(dpt, v) = {a}
  <2>1. e # 255
    BY <1>1
  <2> QED
    BY <1>2, <2>1, CodecIs DEF SingleOut
<1>4. Beside(y, 128, x, h)
  BY DEF Beside
<1>5. h \in 0..127 /\ z \in Byte /\ z \div 128 = e % 2 /\ z % 128 = c /\ 2 * h + (e % 2) = e
  <2>1. h \in 0..127 /\ e % 2 \in {0, 1} /\ 2 * h + (e % 2) = e
    <3> HIDE DEF e
    <3> QED
      BY <1>1
  <2> DEFINE r == e % 2
  <2>2. r \in {0, 1} /\ z = 128 * r + c
    BY <2>1
  <2> HIDE DEF r, z, c
  <2>3. z \in Byte /\ z \div 128 = r /\ z % 128 = c
    <3>1. CASE r = 0
      BY <1>1, <2>2, <3>1 DEF Byte
    <3>2. CASE r = 1
      BY <1>1, <2>2, <3>2 DEF Byte
    <3> QED
      BY <2>2, <3>1, <3>2
  <2> QED
    BY <2>1, <2>3 DEF r
<1>6. FlagOf(y, 128) = x /\ y % 128 = h /\ y \in Byte
  <2>1. 128 \in {1, 2, 4, 8, 32, 64, 128} /\ h \in 0..128 - 1
    <3> HIDE DEF h
    <3> QED
      BY <1>5
  <2> HIDE DEF y, x, h
  <2>2. FlagOf(y, 128) = x /\ y % 128 = h /\ y \in 0..2 * 128 - 1
    BY <1>1, <1>4, <2>1, FlagBeside, SMTT(30)
  <2> QED
    BY <2>2 DEF Byte
<1> HIDE DEF y, z, x, h, c, d, f, e
<1>7. Sized(<<y, z, d, f>>, 4)
  BY <1>1, <1>5, <1>6, QuadType
<1>8. IsBytes(a, 4) /\ a.value = <<y, z, d, f>>
  BY <1>7, BytesValueIs
<1>9. a.value[1] = y /\ a.value[2] = z /\ a.value[3] = d /\ a.value[4] = f
  BY <1>8
<1> HIDE DEF a
<1>10. DptIn(dpt, a) = {[negative |-> FlagOf(y, 128),
                         exponent |-> 2 * (y % 128) + z \div 128,
                         fraction |-> <<z % 128, d, f>>]}
  BY <1>2, <1>8, <1>9, CodecIs DEF SingleIn
<1>11. DptIn(dpt, a) = {v}
  BY <1>1, <1>5, <1>6, <1>10
<1> QED
  BY <1>2, <1>3, <1>7, <1>11, BytesRead DEF a

-----------------------------------------------------------------------------
(* DATAPOINTS: FLAGS, COLOURS, TARIFFS, SCALED BYTES                       *)

\* Four flags of a byte.
FourBits(y, i, j, k, p, q, r, s) == y = i * p + j * q + k * r + s

LEMMA FourBitsAre ==
  ASSUME NEW p \in {0, 1}, NEW q \in {0, 1}, NEW r \in {0, 1}, NEW s \in {0, 1}, NEW y
  PROVE  /\ FourBits(y, 128, 64, 32, p, q, r, s) =>
              /\ y \in Byte /\ (y \div 128) % 2 = p /\ (y \div 64) % 2 = q
              /\ (y \div 32) % 2 = r /\ (y \div 1) % 2 = s
         /\ FourBits(y, 8, 4, 2, p, q, r, s) =>
              /\ y \in Byte /\ (y \div 8) % 2 = p /\ (y \div 4) % 2 = q
              /\ (y \div 2) % 2 = r /\ (y \div 1) % 2 = s
<1>1. ASSUME FourBits(y, 128, 64, 32, p, q, r, s)
      PROVE  /\ y \in Byte /\ (y \div 128) % 2 = p /\ (y \div 64) % 2 = q
             /\ (y \div 32) % 2 = r /\ (y \div 1) % 2 = s
  <2>1. y = 128 * p + 64 * q + 32 * r + s
    BY <1>1 DEF FourBits
  <2>2. CASE p = 0
    <3>1. CASE q = 0
      BY <2>1, <2>2, <3>1 DEF Byte
    <3>2. CASE q = 1
      BY <2>1, <2>2, <3>2 DEF Byte
    <3> QED
      BY <3>1, <3>2
  <2>3. CASE p = 1
    <3>1. CASE q = 0
      BY <2>1, <2>3, <3>1 DEF Byte
    <3>2. CASE q = 1
      BY <2>1, <2>3, <3>2 DEF Byte
    <3> QED
      BY <3>1, <3>2
  <2> QED
    BY <2>2, <2>3
<1>2. ASSUME FourBits(y, 8, 4, 2, p, q, r, s)
      PROVE  /\ y \in Byte /\ (y \div 8) % 2 = p /\ (y \div 4) % 2 = q
             /\ (y \div 2) % 2 = r /\ (y \div 1) % 2 = s
  <2>1. y = 8 * p + 4 * q + 2 * r + s
    BY <1>2 DEF FourBits
  <2>2. CASE p = 0
    <3>1. CASE q = 0
      BY <2>1, <2>2, <3>1 DEF Byte
    <3>2. CASE q = 1
      BY <2>1, <2>2, <3>2 DEF Byte
    <3> QED
      BY <3>1, <3>2
  <2>3. CASE p = 1
    <3>1. CASE q = 0
      BY <2>1, <2>3, <3>1 DEF Byte
    <3>2. CASE q = 1
      BY <2>1, <2>3, <3>2 DEF Byte
    <3> QED
      BY <3>1, <3>2
  <2> QED
    BY <2>2, <2>3
<1> QED
  BY <1>1, <1>2

\* A flag is its bit, once or not at all.
Bit(x) == IF x THEN 1 ELSE 0

LEMMA FlagBits ==
  ASSUME NEW x \in BOOLEAN
  PROVE  /\ Bit(x) \in {0, 1} /\ (Bit(x) = 1 <=> x) /\ Flag(1, x) = Bit(x)
         /\ \A bit \in Nat : Flag(bit, x) = bit * Bit(x)
<1>1. CASE x
  BY <1>1 DEF Bit, Flag
<1>2. CASE ~x
  BY <1>2 DEF Bit, Flag
<1> QED
  BY <1>1, <1>2

\* The flags of a byte are read as they were written.
HasFlags(y, i, j, k, p, q, r, s) ==
  FlagOf(y, i) = p /\ FlagOf(y, j) = q /\ FlagOf(y, k) = r /\ FlagOf(y, 1) = s

LEMMA FourFlags ==
  ASSUME NEW p \in BOOLEAN, NEW q \in BOOLEAN, NEW r \in BOOLEAN, NEW s \in BOOLEAN, NEW y
  PROVE  /\ y = Flag(128, p) + Flag(64, q) + Flag(32, r) + Flag(1, s) =>
              y \in Byte /\ HasFlags(y, 128, 64, 32, p, q, r, s)
         /\ y = Flag(8, p) + Flag(4, q) + Flag(2, r) + Flag(1, s) =>
              y \in Byte /\ HasFlags(y, 8, 4, 2, p, q, r, s)
<1> DEFINE a == Bit(p)
           b == Bit(q)
           c == Bit(r)
           d == Bit(s)
<1>1. /\ a \in {0, 1} /\ (a = 1 <=> p) /\ b \in {0, 1} /\ (b = 1 <=> q)
      /\ c \in {0, 1} /\ (c = 1 <=> r) /\ d \in {0, 1} /\ (d = 1 <=> s)
  BY FlagBits
<1>2. /\ Flag(128, p) = 128 * a /\ Flag(64, q) = 64 * b /\ Flag(32, r) = 32 * c
      /\ Flag(1, s) = d
      /\ Flag(8, p) = 8 * a /\ Flag(4, q) = 4 * b /\ Flag(2, r) = 2 * c
  BY FlagBits
<1> HIDE DEF a, b, c, d
<1>3. ASSUME y = Flag(128, p) + Flag(64, q) + Flag(32, r) + Flag(1, s)
      PROVE  y \in Byte /\ HasFlags(y, 128, 64, 32, p, q, r, s)
  <2>1. FourBits(y, 128, 64, 32, a, b, c, d)
    BY <1>2, <1>3 DEF FourBits
  <2>2. /\ y \in Byte /\ (y \div 128) % 2 = a /\ (y \div 64) % 2 = b
        /\ (y \div 32) % 2 = c /\ (y \div 1) % 2 = d
    BY <1>1, <2>1, FourBitsAre
  <2>3. /\ FlagOf(y, 128) <=> p
        /\ FlagOf(y, 64) <=> q
        /\ FlagOf(y, 32) <=> r
        /\ FlagOf(y, 1) <=> s
    BY <1>1, <2>2 DEF FlagOf
  <2>4. FlagOf(y, 128) = p /\ FlagOf(y, 64) = q /\ FlagOf(y, 32) = r /\ FlagOf(y, 1) = s
    BY <2>3 DEF FlagOf
  <2> QED
    BY <2>2, <2>4 DEF HasFlags
<1>4. ASSUME y = Flag(8, p) + Flag(4, q) + Flag(2, r) + Flag(1, s)
      PROVE  y \in Byte /\ HasFlags(y, 8, 4, 2, p, q, r, s)
  <2>1. FourBits(y, 8, 4, 2, a, b, c, d)
    BY <1>2, <1>4 DEF FourBits
  <2>2. /\ y \in Byte /\ (y \div 8) % 2 = a /\ (y \div 4) % 2 = b
        /\ (y \div 2) % 2 = c /\ (y \div 1) % 2 = d
    BY <1>1, <2>1, FourBitsAre
  <2>3. /\ FlagOf(y, 8) <=> p
        /\ FlagOf(y, 4) <=> q
        /\ FlagOf(y, 2) <=> r
        /\ FlagOf(y, 1) <=> s
    BY <1>1, <2>2 DEF FlagOf
  <2>4. FlagOf(y, 8) = p /\ FlagOf(y, 4) = q /\ FlagOf(y, 2) = r /\ FlagOf(y, 1) = s
    BY <2>3 DEF FlagOf
  <2> QED
    BY <2>2, <2>4 DEF HasFlags
<1> QED
  BY <1>3, <1>4

LEMMA OctetType ==
  ASSUME NEW b1 \in Byte, NEW b2 \in Byte, NEW b3 \in Byte, NEW b4 \in Byte,
         NEW b5 \in Byte, NEW b6 \in Byte, NEW b7 \in Byte, NEW b8 \in Byte
  PROVE  Sized(<<b1, b2, b3, b4, b5, b6, b7, b8>>, 8)
BY DEF Sized

LEMMA MomentReads ==
  ASSUME NEW dpt, dpt[1] = 19, NEW v \in DateTimes PROVE ComesBack(dpt, v)
<1> DEFINE y == v.year
           m == v.month
           d == v.day
           h == v.hour
           w == v.dayOfWeek
           n == v.minutes
           s == v.seconds
           p == v.fault
           q == v.workingDay
           r == v.workingDayValid
           t == v.summerTime
           u == v.unsynchronised
           b1 == y - 1900
           b4 == 32 * w + h
           b7 == Flag(128, p) + Flag(64, q) + Flag(32, r) + Flag(1, t)
           b8 == Flag(128, u)
           a == BytesValue(<<b1, m, d, b4, n, s, b7, b8>>)
<1>1. /\ y \in 1900..2155 /\ m \in 1..12 /\ d \in 1..31 /\ h \in 0..24 /\ w \in 0..7
      /\ n \in 0..59 /\ s \in 0..59 /\ p \in BOOLEAN /\ q \in BOOLEAN /\ r \in BOOLEAN
      /\ t \in BOOLEAN /\ u \in BOOLEAN
      /\ v = [year |-> y, month |-> m, day |-> d, hour |-> h, dayOfWeek |-> w, minutes |-> n,
              seconds |-> s, fault |-> p, workingDay |-> q, workingDayValid |-> r,
              summerTime |-> t, unsynchronised |-> u]
  BY DEF DateTimes
<1>2. dpt \notin ScaledIds
  BY DEF ScaledIds
<1>3. DptOut(dpt, v) = {a}
  <2>1. /\ y \in Int /\ m \in Int /\ d \in Int /\ h \in Int /\ n \in Int /\ s \in Int
    BY <1>1
  <2>2. /\ Stored(m) = m /\ Stored(d) = d /\ Stored(h) = h /\ Stored(n) = n /\ Stored(s) = s
        /\ y # Absent
    BY <2>1, StoredIs, AbsentAssumption DEF AbsentAssumption
  <2>3. /\ Between(y, 1900, 2155) /\ Between(m, 1, 12) /\ Between(d, 1, 31)
        /\ Between(h, 0, 24) /\ Between(n, 0, 59) /\ Between(s, 0, 59)
    BY <1>1 DEF Between
  <2>4. MomentOut(v) = {a}
    BY <2>2, <2>3 DEF MomentOut
  <2> QED
    BY <1>2, <2>4, CodecIs
<1>4. Split(b4, w, h) /\ b7 = Flag(128, p) + Flag(64, q) + Flag(32, r) + Flag(1, t)
      /\ Beside(b8, 128, u, 0) /\ b1 = y - 1900
  BY DEF Split, Beside, Flag
<1> HIDE DEF y, m, d, h, w, n, s, p, q, r, t, u, b1, b4, b7, b8
<1>5. b4 \in Byte /\ b4 \div 32 = w /\ b4 % 32 = h
  <2>1. h \in 0..31
    BY <1>1
  <2> QED
    BY <1>1, <1>4, <2>1, SplitIs
<1>6. b7 \in Byte /\ HasFlags(b7, 128, 64, 32, p, q, r, t)
  BY <1>1, <1>4, FourFlags
<1>7. b8 \in Byte /\ FlagOf(b8, 128) = u
  <2> DEFINE z == 0
  <2>1. /\ 128 \in {1, 2, 4, 8, 32, 64, 128} /\ z \in 0..128 - 1 /\ Beside(b8, 128, u, z)
        /\ u \in BOOLEAN
    BY <1>1, <1>4
  <2> HIDE DEF z
  <2>2. FlagOf(b8, 128) = u /\ b8 % 128 = z /\ b8 \in 0..2 * 128 - 1
    BY <2>1, FlagBeside, SMTT(30)
  <2> QED
    BY <2>2 DEF Byte
<1>8. /\ b1 \in Byte /\ 1900 + b1 = y /\ m \in Byte /\ m % 16 = m /\ d \in Byte /\ d % 32 = d
      /\ n \in Byte /\ n % 64 = n /\ s \in Byte /\ s % 64 = s
  BY <1>1, <1>4 DEF Byte
<1> DEFINE b == <<b1, m, d, b4, n, s, b7, b8>>
<1>9. Sized(b, 8)
  BY <1>5, <1>6, <1>7, <1>8, OctetType
<1>10. /\ b[1] = b1 /\ b[2] = m /\ b[3] = d /\ b[4] = b4 /\ b[5] = n /\ b[6] = s
       /\ b[7] = b7 /\ b[8] = b8
  OBVIOUS
<1> HIDE DEF b
<1>11. IsBytes(a, 8) /\ a.value = b
  BY <1>9, BytesValueIs DEF b
<1> HIDE DEF a
<1>12. DptIn(dpt, a) =
         {[year |-> 1900 + b[1], month |-> b[2] % 16, day |-> b[3] % 32, hour |-> b[4] % 32,
           dayOfWeek |-> b[4] \div 32, minutes |-> b[5] % 64, seconds |-> b[6] % 64,
           fault |-> FlagOf(b[7], 128), workingDay |-> FlagOf(b[7], 64),
           workingDayValid |-> FlagOf(b[7], 32), summerTime |-> FlagOf(b[7], 1),
           unsynchronised |-> FlagOf(b[8], 128)]}
  BY <1>2, <1>11, CodecIs DEF MomentIn
<1>13. DptIn(dpt, a) =
         {[year |-> y, month |-> m, day |-> d, hour |-> h, dayOfWeek |-> w, minutes |-> n,
           seconds |-> s, fault |-> p, workingDay |-> q, workingDayValid |-> r,
           summerTime |-> t, unsynchronised |-> u]}
  BY <1>5, <1>6, <1>7, <1>8, <1>10, <1>12 DEF HasFlags
<1>14. DptIn(dpt, a) = {v}
  BY <1>1, <1>13
<1> QED
  BY <1>2, <1>3, <1>9, <1>14, BytesRead DEF a, b

Rgbws == [channels : ByteString(4), valid : [1..4 -> BOOLEAN]]

LEMMA RgbwReads ==
  ASSUME NEW dpt, dpt[1] = 251, NEW v \in Rgbws PROVE ComesBack(dpt, v)
<1> DEFINE c == v.channels
           e == v.valid
           y == Flag(8, e[1]) + Flag(4, e[2]) + Flag(2, e[3]) + Flag(1, e[4])
           b == c \o <<0, y>>
           a == BytesValue(b)
<1>1. /\ c \in ByteString(4) /\ e \in [1..4 -> BOOLEAN] /\ v = [channels |-> c, valid |-> e]
  BY DEF Rgbws
<1>2. Sized(c, 4) /\ \A i \in 1..4 : c[i] \in 0..255
  <2>1. c \in Seq(Byte) /\ Len(c) = 4
    BY <1>1 DEF ByteString
  <2>2. \A i \in 1..4 : c[i] \in Byte
    BY <2>1
  <2> QED
    BY <2>1, <2>2 DEF Sized, Byte
<1>3. dpt \notin ScaledIds
  BY DEF ScaledIds
<1>4. DptOut(dpt, v) = {a}
  BY <1>2, <1>3, CodecIs, SMTT(30) DEF RgbwOut
<1>5. e[1] \in BOOLEAN /\ e[2] \in BOOLEAN /\ e[3] \in BOOLEAN /\ e[4] \in BOOLEAN
  BY <1>1
<1>6. y \in Byte /\ HasFlags(y, 8, 4, 2, e[1], e[2], e[3], e[4])
  BY <1>5, FourFlags
<1> HIDE DEF y, c, e
<1>7. Sized(<<0, y>>, 2)
  <2>1. 0 \in Byte
    BY DEF Byte
  <2> QED
    BY <1>6, <2>1, PairType
<1>8. Sized(b, 6)
  <2>1. Sized(b, 4 + 2)
    BY <1>2, <1>7, JoinedSized
  <2> QED
    BY <2>1
<1>9. b \in Seq(Byte) /\ Len(b) = 6
  BY <1>8 DEF Sized
<1>10. StandsAt(b, 0, c) /\ StandsAt(b, 0 + 4, <<0, y>>)
  <2>1. StandsAt(b, 0, b)
    BY <1>9, Whole
  <2> HIDE DEF b
  <2>2. StandsAt(b, 0, c \o <<0, y>>)
    BY <2>1 DEF b
  <2> QED
    BY <1>2, <1>7, <1>9, <2>2, PartedSized
<1> HIDE DEF b
<1>11. SubSeq(b, 1, 4) = c
  <2>1. Bytes(b, 0, 4) = c
    BY <1>2, <1>9, <1>10, BytesAre
  <2> QED
    BY <2>1 DEF Bytes
<1>12. b[6] = y
  <2>1. <<0, y>>[2] = y /\ Len(<<0, y>>) = 2
    OBVIOUS
  <2>2. b[(0 + 4) + 2] = y
    BY <1>10, <2>1 DEF StandsAt
  <2> QED
    BY <2>2
<1>13. IsBytes(a, 6) /\ a.value = b
  BY <1>8, BytesValueIs
<1> HIDE DEF a
<1>14. DptIn(dpt, a) =
         {[channels |-> c, valid |-> [i \in 1..4 |-> FlagOf(y, <<8, 4, 2, 1>>[i])]]}
  BY <1>3, <1>11, <1>12, <1>13, CodecIs DEF RgbwIn
<1>15. [i \in 1..4 |-> FlagOf(y, <<8, 4, 2, 1>>[i])] = e
  <2>1. /\ <<8, 4, 2, 1>>[1] = 8 /\ <<8, 4, 2, 1>>[2] = 4
        /\ <<8, 4, 2, 1>>[3] = 2 /\ <<8, 4, 2, 1>>[4] = 1
    OBVIOUS
  <2>2. ASSUME NEW i \in 1..4 PROVE FlagOf(y, <<8, 4, 2, 1>>[i]) = e[i]
    <3>1. i = 1 \/ i = 2 \/ i = 3 \/ i = 4
      OBVIOUS
    <3> QED
      BY <1>6, <2>1, <3>1 DEF HasFlags
  <2>3. e = [i \in 1..4 |-> e[i]]
    BY <1>1
  <2> QED
    BY <2>2, <2>3
<1>16. DptIn(dpt, a) = {v}
  BY <1>1, <1>14, <1>15
<1> QED
  BY <1>3, <1>4, <1>8, <1>16, BytesRead DEF a

Tariffs ==
  [energy : IntegerValues(Dpt13), tariff : 0..254, energyValid : BOOLEAN, tariffValid : BOOLEAN]

LEMMA TariffReads ==
  ASSUME NEW dpt, dpt[1] = 235, NEW v \in Tariffs PROVE ComesBack(dpt, v)
<1> DEFINE g == v.energy
           k == v.tariff
           p == v.energyValid
           q == v.tariffValid
           y == Flag(1, p) + Flag(2, q)
           f == <<k, y>>
<1>1. /\ g \in IntegerValues(Dpt13) /\ k \in 0..254 /\ p \in BOOLEAN /\ q \in BOOLEAN
      /\ v = [energy |-> g, tariff |-> k, energyValid |-> p, tariffValid |-> q]
  BY DEF Tariffs
<1>2. dpt \notin ScaledIds
  BY DEF ScaledIds
<1>3. IntegerForm(Dpt13) /\ Dpt13.n = 4
  <2>1. 13 \in IntegerMains /\ IntegerType(13) = Dpt13
    BY DEF IntegerMains, IntegerType
  <2>2. IntegerForm(Dpt13)
    BY <2>1, IntegerForms
  <2> QED
    BY <2>2 DEF Dpt13, Integer
<1>4. PICK e : /\ Sized(e, 4) /\ IntegerOut(Dpt13, g) = {BytesValue(e)}
               /\ IntegerIn(Dpt13, BytesValue(e)) = {g}
  BY <1>1, <1>3, IntegerIs
<1> DEFINE b == e \o f
           a == BytesValue(b)
<1>5. DptOut(dpt, v) = {a}
  <2>1. DptOut(dpt, v) = {BytesValue(energy.value \o f) : energy \in {BytesValue(e)}}
    BY <1>1, <1>2, <1>4, CodecIs DEF TariffOut
  <2>2. BytesValue(e).value = e
    BY DEF BytesValue
  <2> HIDE DEF f
  <2>3. DptOut(dpt, v) = {BytesValue(BytesValue(e).value \o f)}
    BY <2>1
  <2> QED
    BY <2>2, <2>3
<1>6. y \in Byte /\ FlagOf(y, 1) = p /\ FlagOf(y, 2) = q
  <2> DEFINE z == Bit(p)
             w == Bit(q)
  <2>1. z \in {0, 1} /\ (z = 1 <=> p) /\ w \in {0, 1} /\ (w = 1 <=> q) /\ y = z + 2 * w
    BY <1>1, FlagBits
  <2> HIDE DEF z, w, y
  <2>2. y \in Byte /\ (y \div 1) % 2 = z /\ (y \div 2) % 2 = w
    BY <2>1 DEF Byte
  <2> HIDE DEF p, q
  <2>3. (FlagOf(y, 1) <=> p) /\ (FlagOf(y, 2) <=> q)
    BY <2>1, <2>2 DEF FlagOf
  <2>4. FlagOf(y, 1) = p /\ FlagOf(y, 2) = q
    BY <1>1, <2>3 DEF FlagOf
  <2> QED
    BY <2>2, <2>4
<1> HIDE DEF g, k, p, q, y
<1>7. Sized(f, 2) /\ f[1] = k /\ f[2] = y
  <2>1. k \in Byte
    BY <1>1 DEF Byte
  <2> QED
    BY <1>6, <2>1, PairType
<1> HIDE DEF f
<1>8. Sized(b, 6)
  <2>1. Sized(b, 4 + 2)
    BY <1>4, <1>7, JoinedSized
  <2> QED
    BY <2>1
<1>9. b \in Seq(Byte) /\ Len(b) = 6
  BY <1>8 DEF Sized
<1>10. StandsAt(b, 0, e) /\ StandsAt(b, 0 + 4, f)
  <2>1. StandsAt(b, 0, b)
    BY <1>9, Whole
  <2> HIDE DEF b
  <2>2. StandsAt(b, 0, e \o f)
    BY <2>1 DEF b
  <2> QED
    BY <1>4, <1>7, <1>9, <2>2, PartedSized
<1> HIDE DEF b
<1>11. SubSeq(b, 1, 4) = e
  <2>1. Bytes(b, 0, 4) = e
    BY <1>4, <1>9, <1>10, BytesAre
  <2> QED
    BY <2>1 DEF Bytes
<1>12. b[5] = k /\ b[6] = y
  <2>1. Len(f) = 2
    BY <1>7 DEF Sized
  <2>2. b[(0 + 4) + 1] = f[1] /\ b[(0 + 4) + 2] = f[2]
    BY <1>10, <2>1 DEF StandsAt
  <2> QED
    BY <1>7, <2>2
<1>13. IsBytes(a, 6) /\ a.value = b
  BY <1>8, BytesValueIs
<1> HIDE DEF a
<1>14. DptIn(dpt, a) =
         {[energy |-> x, tariff |-> k, energyValid |-> FlagOf(y, 1),
           tariffValid |-> FlagOf(y, 2)] : x \in IntegerIn(Dpt13, BytesValue(e))}
  <2>1. DptIn(dpt, a) = TariffIn(a)
    BY <1>2, CodecIs
  <2> QED
    BY <2>1, <1>11, <1>12, <1>13 DEF TariffIn
<1>15. DptIn(dpt, a) =
         {[energy |-> x, tariff |-> k, energyValid |-> p, tariffValid |-> q] : x \in {g}}
  BY <1>4, <1>6, <1>14
<1>16. DptIn(dpt, a) = {v}
  BY <1>1, <1>15
<1> QED
  BY <1>2, <1>5, <1>8, <1>16, BytesRead DEF a

\* A scaled byte is within half of its step, and is the same byte again.
Rounded(raw, max, v) == raw = (2 * v + max) \div (2 * max)

LEMMA ScaledIs ==
  ASSUME NEW max \in {100, 360}, NEW v \in 0..255 * max, NEW raw, Rounded(raw, max, v)
  PROVE  /\ raw \in Byte /\ Rounded(raw, max, raw * max)
         /\ 2 * Near(v, raw * max) <= max
<1>1. CASE max = 100
  <2>1. v \in 0..255 * 100 /\ Rounded(raw, 100, v)
    BY <1>1, Zenon
  <2>2. v \in 0..255 * 100 /\ raw = (2 * v + 100) \div (2 * 100)
    BY ONLY <2>1, Zenon DEF Rounded
  <2>3. /\ 0 <= raw /\ raw <= 255 /\ raw \in Int
        /\ 2 * v + 100 >= 200 * raw /\ 2 * v + 100 < 200 * raw + 200
    <3> DEFINE w == 2 * v + 100
    <3>1. w \in Int /\ 100 <= w /\ w < 200 * 256
      BY ONLY <2>2, SMTT(30)
    <3>2. raw = w \div 200
      BY ONLY <2>2, SMTT(30)
    <3>3. v \in Int
      BY ONLY <2>2
    <3>4. w = 2 * v + 100
      OBVIOUS
    <3> HIDE DEF w
    <3>5. raw \in Int /\ w >= 200 * raw /\ w < 200 * raw + 200
      BY ONLY <3>1, <3>2, SMTT(30)
    <3> QED
      BY ONLY <3>1, <3>5, <3>3, <3>4, SMTT(30)
  <2>4. (2 * (raw * 100) + 100) \div (2 * 100) = raw
    BY ONLY <2>3, SMTT(30)
  <2>5. v \in Int
    BY ONLY <2>2
  <2>6. 2 * (v - raw * 100) <= 100 /\ 2 * (raw * 100 - v) <= 100
    BY ONLY <2>5, <2>3, SMTT(30)
  <2>7. raw \in Byte
    BY ONLY <2>3 DEF Byte
  <2>8. Rounded(raw, 100, raw * 100)
    BY ONLY <2>4, Zenon DEF Rounded
  <2>9. 2 * Near(v, raw * 100) <= 100
    <3>1. Near(v, raw * 100) = v - raw * 100 \/ Near(v, raw * 100) = raw * 100 - v
      BY ONLY Zenon DEF Near
    <3> QED
      BY ONLY <3>1, <2>6, Zenon
  <2> QED
    BY ONLY <1>1, <2>7, <2>8, <2>9, Zenon
<1>2. CASE max = 360
  <2>1. v \in 0..255 * 360 /\ Rounded(raw, 360, v)
    BY <1>2, Zenon
  <2>2. v \in 0..255 * 360 /\ raw = (2 * v + 360) \div (2 * 360)
    BY ONLY <2>1, Zenon DEF Rounded
  <2>3. /\ 0 <= raw /\ raw <= 255 /\ raw \in Int
        /\ 2 * v + 360 >= 720 * raw /\ 2 * v + 360 < 720 * raw + 720
    <3> DEFINE w == 2 * v + 360
    <3>1. w \in Int /\ 360 <= w /\ w < 720 * 256
      BY ONLY <2>2, SMTT(30)
    <3>2. raw = w \div 720
      BY ONLY <2>2, SMTT(30)
    <3>3. v \in Int
      BY ONLY <2>2
    <3>4. w = 2 * v + 360
      OBVIOUS
    <3> HIDE DEF w
    <3>5. raw \in Int /\ w >= 720 * raw /\ w < 720 * raw + 720
      BY ONLY <3>1, <3>2, SMTT(30)
    <3> QED
      BY ONLY <3>1, <3>5, <3>3, <3>4, SMTT(30)
  <2>4. (2 * (raw * 360) + 360) \div (2 * 360) = raw
    BY ONLY <2>3, SMTT(30)
  <2>5. v \in Int
    BY ONLY <2>2
  <2>6. 2 * (v - raw * 360) <= 360 /\ 2 * (raw * 360 - v) <= 360
    BY ONLY <2>5, <2>3, SMTT(30)
  <2>7. raw \in Byte
    BY ONLY <2>3 DEF Byte
  <2>8. Rounded(raw, 360, raw * 360)
    BY ONLY <2>4, Zenon DEF Rounded
  <2>9. 2 * Near(v, raw * 360) <= 360
    <3>1. Near(v, raw * 360) = v - raw * 360 \/ Near(v, raw * 360) = raw * 360 - v
      BY ONLY Zenon DEF Near
    <3> QED
      BY ONLY <3>1, <2>6, Zenon
  <2> QED
    BY ONLY <1>2, <2>7, <2>8, <2>9, Zenon
<1> QED
  BY <1>1, <1>2

\* DPT 5.001 and 5.003.
LEMMA ScaledReads ==
  ASSUME NEW dpt \in ScaledIds, NEW v \in 0..255 * ScaledMax(dpt[2])
  PROVE  ComesBack(dpt, v)
<1> DEFINE max == ScaledMax(dpt[2])
           raw == (2 * v + max) \div (2 * max)
           a == BytesValue(<<raw>>)
           w == raw * max
<1>1. max \in {100, 360}
  BY DEF ScaledMax
<1>2. \A x, c : DptOut(dpt, x) = ScaledOut(max, x) /\ DptIn(dpt, c) = ScaledIn(max, c)
  BY DEF DptOut, DptIn, ScaledIds
<1>3. Rounded(raw, max, v) /\ v \in 0..255 * max
  BY DEF Rounded
<1> HIDE DEF max, raw
<1>4. raw \in Byte /\ Rounded(raw, max, w) /\ 2 * Near(v, w) <= max
  BY <1>1, <1>3, ScaledIs
<1>5. Sized(<<raw>>, 1) /\ IsBytes(a, 1) /\ a.value[1] = raw /\ 1 \in 1..254
  BY <1>4, OneByte
<1>6. a \in ApduValues
  BY <1>5, BytesValueIs
<1>7. DptOut(dpt, v) = {a} /\ DptOut(dpt, w) = {a}
  <2>1. \A x : Rounded(raw, max, x) => ScaledOut(max, x) = {a}
    <3>1. raw \in 0..255
      BY <1>4 DEF Byte
    <3> QED
      BY <3>1 DEF ScaledOut, Rounded
  <2> QED
    BY <1>2, <1>3, <1>4, <2>1
<1>8. DptIn(dpt, a) = {w}
  BY <1>2, <1>5 DEF ScaledIn
<1>9. Faithful(dpt, v, w)
  BY <1>4 DEF Faithful, ScaledIds, max
<1> QED
  BY <1>6, <1>7, <1>8, <1>9 DEF ComesBack

-----------------------------------------------------------------------------
(* THE TWO-BYTE FLOAT                                                      *)

\* What one count of a mantissa is worth.
UnitOf(e) == 4 * 2^e

LEMMA UnitEnds == UnitOf(0) = 4 /\ UnitOf(15) = 131072 /\ \A e \in 0..15 : 2^e \in Int
<1>1. UnitOf(0) = 4 /\ UnitOf(15) = 131072
  BY SMT DEF UnitOf
<1>2. ASSUME NEW e \in 0..15 PROVE 2^e \in Int
  <2>1. CASE e = 0
    BY <2>1
  <2>2. CASE e = 1
    BY <2>2
  <2>3. CASE e = 2
    BY <2>3
  <2>4. CASE e = 3
    BY <2>4
  <2>5. CASE e = 4
    BY <2>5
  <2>6. CASE e = 5
    BY <2>6
  <2>7. CASE e = 6
    BY <2>7
  <2>8. CASE e = 7
    BY <2>8
  <2>9. CASE e = 8
    BY <2>9
  <2>10. CASE e = 9
    BY <2>10
  <2>11. CASE e = 10
    BY <2>11
  <2>12. CASE e = 11
    BY <2>12
  <2>13. CASE e = 12
    BY <2>13
  <2>14. CASE e = 13
    BY <2>14
  <2>15. CASE e = 14
    BY <2>15
  <2>16. CASE e = 15
    BY <2>16
  <2> QED
    BY <2>1, <2>2, <2>3, <2>4, <2>5, <2>6, <2>7, <2>8, <2>9, <2>10, <2>11, <2>12, <2>13, <2>14,
       <2>15, <2>16
<1> QED
  BY <1>1, <1>2

LEMMA UnitDoubles == ASSUME NEW e \in 1..15 PROVE UnitOf(e) = 2 * UnitOf(e - 1)
<1>1. CASE e = 1
  <2>1. UnitOf(1) = 2 * UnitOf(0) /\ 1 - 1 = 0
    BY DEF UnitOf
  <2> QED
    BY <1>1, <2>1
<1>2. CASE e = 2
  <2>1. UnitOf(2) = 2 * UnitOf(1) /\ 2 - 1 = 1
    BY DEF UnitOf
  <2> QED
    BY <1>2, <2>1
<1>3. CASE e = 3
  <2>1. UnitOf(3) = 2 * UnitOf(2) /\ 3 - 1 = 2
    BY DEF UnitOf
  <2> QED
    BY <1>3, <2>1
<1>4. CASE e = 4
  <2>1. UnitOf(4) = 2 * UnitOf(3) /\ 4 - 1 = 3
    BY DEF UnitOf
  <2> QED
    BY <1>4, <2>1
<1>5. CASE e = 5
  <2>1. UnitOf(5) = 2 * UnitOf(4) /\ 5 - 1 = 4
    BY DEF UnitOf
  <2> QED
    BY <1>5, <2>1
<1>6. CASE e = 6
  <2>1. UnitOf(6) = 2 * UnitOf(5) /\ 6 - 1 = 5
    BY DEF UnitOf
  <2> QED
    BY <1>6, <2>1
<1>7. CASE e = 7
  <2>1. UnitOf(7) = 2 * UnitOf(6) /\ 7 - 1 = 6
    BY DEF UnitOf
  <2> QED
    BY <1>7, <2>1
<1>8. CASE e = 8
  <2>1. UnitOf(8) = 2 * UnitOf(7) /\ 8 - 1 = 7
    BY DEF UnitOf
  <2> QED
    BY <1>8, <2>1
<1>9. CASE e = 9
  <2>1. UnitOf(9) = 2 * UnitOf(8) /\ 9 - 1 = 8
    BY DEF UnitOf
  <2> QED
    BY <1>9, <2>1
<1>10. CASE e = 10
  <2>1. UnitOf(10) = 2 * UnitOf(9) /\ 10 - 1 = 9
    BY DEF UnitOf
  <2> QED
    BY <1>10, <2>1
<1>11. CASE e = 11
  <2>1. UnitOf(11) = 2 * UnitOf(10) /\ 11 - 1 = 10
    BY DEF UnitOf
  <2> QED
    BY <1>11, <2>1
<1>12. CASE e = 12
  <2>1. UnitOf(12) = 2 * UnitOf(11) /\ 12 - 1 = 11
    BY DEF UnitOf
  <2> QED
    BY <1>12, <2>1
<1>13. CASE e = 13
  <2>1. UnitOf(13) = 2 * UnitOf(12) /\ 13 - 1 = 12
    BY DEF UnitOf
  <2> QED
    BY <1>13, <2>1
<1>14. CASE e = 14
  <2>1. UnitOf(14) = 2 * UnitOf(13) /\ 14 - 1 = 13
    BY DEF UnitOf
  <2> QED
    BY <1>14, <2>1
<1>15. CASE e = 15
  <2>1. UnitOf(15) = 2 * UnitOf(14) /\ 15 - 1 = 14
    BY DEF UnitOf
  <2> QED
    BY <1>15, <2>1
<1> QED
  BY <1>1, <1>2, <1>3, <1>4, <1>5, <1>6, <1>7, <1>8, <1>9, <1>10, <1>11, <1>12, <1>13, <1>14,
     <1>15

\* A greater exponent has a greater unit.
LEMMA UnitGrows ==
  /\ \A e \in 0..15 : UnitOf(e) \in Nat /\ 4 <= UnitOf(e)
  /\ \A i, j \in 0..15 : i <= j => UnitOf(i) <= UnitOf(j)
<1> DEFINE T == {j \in 0..15 : UnitOf(j) \in Nat /\ \A i \in 0..j : UnitOf(i) <= UnitOf(j)}
<1>1. 0 \in T
  <2>1. UnitOf(0) \in Nat /\ \A i \in 0..0 : i = 0
    BY UnitEnds
  <2> QED
    BY <2>1
<1>2. ASSUME NEW j \in 0..15 - 1, j \in T PROVE j + 1 \in T
  <2>1. j + 1 \in 1..15 /\ (j + 1) - 1 = j /\ j + 1 \in 0..15
    OBVIOUS
  <2>2. UnitOf(j + 1) = 2 * UnitOf(j)
    BY <2>1, UnitDoubles
  <2>3. UnitOf(j) \in Nat /\ \A i \in 0..j : UnitOf(i) <= UnitOf(j)
    BY <1>2
  <2>4. UnitOf(j + 1) \in Nat /\ UnitOf(j) <= UnitOf(j + 1)
    BY <2>2, <2>3
  <2>5. ASSUME NEW i \in 0..j + 1 PROVE UnitOf(i) <= UnitOf(j + 1)
    <3>1. CASE i = j + 1
      BY <2>4, <3>1
    <3>2. CASE i \in 0..j
      <4>1. UnitOf(i) <= UnitOf(j) /\ i \in 0..15
        BY <2>3, <3>2
      <4>2. UnitOf(i) \in Int
        BY <4>1, UnitEnds DEF UnitOf
      <4> QED
        BY <2>3, <2>4, <4>1, <4>2
    <3> QED
      BY <3>1, <3>2
  <2> QED
    BY <2>1, <2>4, <2>5
<1> HIDE DEF T
<1>3. 0..15 \subseteq T
  <2>1. 15 \in Nat /\ \A k \in 0..15 - 1 : k \in T => k + 1 \in T
    BY <1>2
  <2> QED
    BY <1>1, <2>1, CountingUp
<1>4. \A i, j \in 0..15 : i <= j => UnitOf(i) <= UnitOf(j)
  <2> SUFFICES ASSUME NEW i \in 0..15, NEW j \in 0..15, i <= j PROVE UnitOf(i) <= UnitOf(j)
    OBVIOUS
  <2>1. i \in 0..j /\ j \in T
    BY <1>3
  <2> QED
    BY <2>1 DEF T
<1>5. ASSUME NEW e \in 0..15 PROVE UnitOf(e) \in Nat /\ 4 <= UnitOf(e)
  <2>1. UnitOf(0) <= UnitOf(e) /\ e \in T
    BY <1>3, <1>4
  <2>2. UnitOf(e) \in Nat
    BY <2>1 DEF T
  <2> QED
    BY <2>1, <2>2, UnitEnds
<1> QED
  BY <1>4, <1>5

LEMMA FloatEnds == FloatMin = -2048 * UnitOf(15) /\ FloatMax = 2047 * UnitOf(15)
<1> DEFINE b == UnitOf(15)
<1>1. b = 131072
  BY UnitEnds, SMT
<1> HIDE DEF b
<1>2. FloatMin = -2048 * b /\ FloatMax = 2047 * b
  BY <1>1, SMT DEF FloatMin, FloatMax
<1> QED
  BY <1>2 DEF b

\* The exponent of a value: the least with which its mantissa has twelve bits.
InReach(v, e) == v \in -2048 * UnitOf(e)..2047 * UnitOf(e)
LeastFor(v, e) == InReach(v, e) /\ (e = 0 \/ ~InReach(v, e - 1))

LEMMA ReachGrows ==
  ASSUME NEW v \in Int, NEW i \in 0..15, NEW j \in 0..15, i <= j, InReach(v, i)
  PROVE  InReach(v, j)
<1> DEFINE a == UnitOf(i)
           b == UnitOf(j)
<1>1. a \in Nat /\ b \in Nat /\ a <= b
  BY UnitGrows
<1>2. v \in -2048 * a..2047 * a
  BY DEF InReach
<1> HIDE DEF a, b
<1>3. v \in -2048 * b..2047 * b
  BY <1>1, <1>2
<1> QED
  BY <1>3 DEF InReach, b

LEMMA ExponentIs ==
  ASSUME NEW v \in FloatMin..FloatMax
  PROVE  LET e == CHOOSE k \in 0..15 : LeastFor(v, k) IN e \in 0..15 /\ LeastFor(v, e)
<1> DEFINE T == {k \in 0..15 : InReach(v, k)}
<1>1. 15 \in T
  <2>1. v \in -2048 * UnitOf(15)..2047 * UnitOf(15)
    BY FloatEnds
  <2>2. 15 \in 0..15
    OBVIOUS
  <2> QED
    BY <2>1, <2>2 DEF InReach
<1>2. T \in SUBSET Nat /\ T # {}
  BY <1>1
<1>3. PICK n \in T : \A m \in T : n <= m
  BY <1>2, LeastExists
<1>4. n \in 0..15 /\ LeastFor(v, n)
  <2>1. n \in 0..15 /\ InReach(v, n)
    BY <1>3
  <2>2. n = 0 \/ ~InReach(v, n - 1)
    <3> SUFFICES ASSUME n # 0, InReach(v, n - 1) PROVE FALSE
      OBVIOUS
    <3>1. n - 1 \in T /\ ~(n <= n - 1)
      BY <2>1
    <3> QED
      BY <3>1, <1>3
  <2> QED
    BY <2>1, <2>2 DEF LeastFor
<1> QED
  BY <1>4

\* There is only one.
LEMMA ExponentIsOne ==
  ASSUME NEW v \in Int, NEW i \in 0..15, NEW j \in 0..15, LeastFor(v, i), InReach(v, j)
  PROVE  i <= j
<1> SUFFICES ASSUME j < i PROVE FALSE
  OBVIOUS
<1>1. i # 0 /\ j <= i - 1 /\ i - 1 \in 0..15
  OBVIOUS
<1>2. InReach(v, i - 1)
  BY <1>1, ReachGrows
<1> QED
  BY <1>1, <1>2 DEF LeastFor

Mantissas == -2048..2047
Significands == 0..2047

\* A value that a unit reaches.
Within(v, u) == v \in -2048 * u..2047 * u

LEMMA FloatRange == \A v \in FloatMin..FloatMax : v \in Int
<1>1. FloatMin \in Int /\ FloatMax \in Int
  BY SMT DEF FloatMin, FloatMax
<1> QED
  BY <1>1

\* A value as a number of units, rounded.
RoundedTo(m, v, u) == m = (2 * v + u) \div (2 * u)

LEMMA RoundedIs ==
  ASSUME NEW u \in Nat, 0 < u, NEW v \in Int, NEW m, RoundedTo(m, v, u)
  PROVE  m \in Int /\ 2 * (u * m) <= 2 * v + u /\ 2 * v + u < 2 * (u * m) + 2 * u
<1> DEFINE M == 2 * u
           a == 2 * v + u
           r == a % M
<1>1. M \in Nat /\ M > 0 /\ a \in Int
  OBVIOUS
<1>2. m = a \div M
  BY DEF RoundedTo
<1> HIDE DEF M, a
<1>3. m \in Int /\ 0 <= r /\ r < M /\ r \in Int /\ a = M * m + r
  BY <1>1, <1>2, DivMod
<1> HIDE DEF r
<1>4. m \in Int /\ M * m <= a /\ a < M * m + M
  BY <1>1, <1>3
<1>5. M * m = 2 * (u * m)
  BY <1>4 DEF M
<1> QED
  BY <1>4, <1>5 DEF M, a

\* A whole number of units is that number.
LEMMA WholeIs ==
  ASSUME NEW u \in Nat, 0 < u, NEW k \in Int, NEW m, RoundedTo(m, k * u, u)
  PROVE  m = k
<1>1. m \in Int /\ 2 * (u * m) <= 2 * (k * u) + u /\ 2 * (k * u) + u < 2 * (u * m) + 2 * u
  BY RoundedIs
<1>2. ~(m >= k + 1)
  <2> SUFFICES ASSUME m >= k + 1 PROVE FALSE
    OBVIOUS
  <2>1. u * m >= u * (k + 1)
    BY <1>1
  <2>2. u * (k + 1) = k * u + u
    OBVIOUS
  <2> DEFINE p == u * m
             q == k * u
  <2>3. p \in Int /\ q \in Int /\ p >= q + u /\ 2 * p <= 2 * q + u
    BY <1>1, <2>1, <2>2
  <2> HIDE DEF p, q
  <2> QED
    BY <2>3
<1>3. ~(m <= k - 1)
  <2> SUFFICES ASSUME m <= k - 1 PROVE FALSE
    OBVIOUS
  <2>1. u * m <= u * (k - 1)
    BY <1>1
  <2>2. u * (k - 1) = k * u - u
    OBVIOUS
  <2> DEFINE p == u * m
             q == k * u
  <2>3. p \in Int /\ q \in Int /\ p <= q - u /\ 2 * q + u < 2 * p + 2 * u
    BY <1>1, <2>1, <2>2
  <2> HIDE DEF p, q
  <2> QED
    BY <2>3
<1> QED
  BY <1>1, <1>2, <1>3

LEMMA MantissaFits ==
  ASSUME NEW u \in Nat, 0 < u, NEW v \in Int, Within(v, u), NEW m, RoundedTo(m, v, u)
  PROVE  m \in Mantissas
<1>0. v \in Int /\ -2048 * u <= v /\ v <= 2047 * u
  BY DEF Within
<1>1. m \in Int /\ 2 * (u * m) <= 2 * v + u /\ 2 * v + u < 2 * (u * m) + 2 * u
  BY <1>0, RoundedIs
<1> DEFINE p == u * m
<1>2. ~(m >= 2048)
  <2> SUFFICES ASSUME m >= 2048 PROVE FALSE
    OBVIOUS
  <2>1. p >= u * 2048 /\ p \in Int
    BY <1>1
  <2> HIDE DEF p
  <2> QED
    BY <1>0, <1>1, <2>1 DEF p
<1>3. ~(m <= -2049)
  <2> SUFFICES ASSUME m <= -2049 PROVE FALSE
    OBVIOUS
  <2>1. p <= u * (-2049) /\ p \in Int
    BY <1>1
  <2> HIDE DEF p
  <2> QED
    BY <1>0, <1>1, <2>1 DEF p
<1> QED
  BY <1>1, <1>2, <1>3 DEF Mantissas

\* Where a smaller unit does not do, the mantissa is large.
LEMMA MantissaIsLarge ==
  ASSUME NEW h \in Nat, 0 < h, NEW v \in Int, ~Within(v, h),
         NEW m, RoundedTo(m, v, 2 * h)
  PROVE  m \in Int /\ (v < 0 => m <= -1024) /\ (v >= 0 => m >= 1024)
<1> DEFINE u == 2 * h
           p == h * m
<1>1. u \in Nat /\ 0 < u
  OBVIOUS
<1>2. m \in Int /\ 2 * (u * m) <= 2 * v + u /\ 2 * v + u < 2 * (u * m) + 2 * u
  BY <1>1, RoundedIs
<1>3. u * m = 2 * p /\ p \in Int
  BY <1>2
<1>4. 4 * p <= 2 * v + 2 * h /\ 2 * v + 2 * h < 4 * p + 4 * h
  BY <1>2, <1>3
<1>5. v < -2048 * h \/ v > 2047 * h
  BY DEF Within
<1>6. v < 0 => m <= -1024
  <2> SUFFICES ASSUME v < 0, m >= -1023 PROVE FALSE
    BY <1>2
  <2>1. p >= h * (-1023)
    BY <1>2
  <2>2. v < -2048 * h
    BY <1>5
  <2> HIDE DEF p
  <2> QED
    BY <1>3, <1>4, <2>1, <2>2
<1>7. v >= 0 => m >= 1024
  <2> SUFFICES ASSUME v >= 0, m <= 1023 PROVE FALSE
    BY <1>2
  <2>1. p <= h * 1023
    BY <1>2
  <2>2. v > 2047 * h
    BY <1>5
  <2> HIDE DEF p
  <2> QED
    BY <1>3, <1>4, <2>1, <2>2
<1> QED
  BY <1>2, <1>6, <1>7

\* A sign, four bits of exponent, eleven of mantissa.
FloatBytes(y, z, d, s, e, k) ==
  y = 128 * s + 8 * e + k \div 256 /\ z = k % 256 /\ d = 256 * y + z

ReadsAsFloat(y, z, d, s, e, k) ==
  /\ y \in Byte /\ z \in Byte /\ d % 2048 = k /\ (d \div 2048) % 16 = e
  /\ d >= 32768 <=> s = 1

LEMMA FloatBits ==
  ASSUME NEW s \in {0, 1}, NEW e \in 0..15, NEW k \in Significands, NEW y, NEW z, NEW d,
         FloatBytes(y, z, d, s, e, k)
  PROVE  ReadsAsFloat(y, z, d, s, e, k)
<1> SUFFICES /\ y \in Byte /\ z \in Byte /\ d % 2048 = k /\ (d \div 2048) % 16 = e
             /\ d >= 32768 <=> s = 1
  BY DEF ReadsAsFloat
<1>0. y = 128 * s + 8 * e + k \div 256 /\ z = k % 256 /\ d = 256 * y + z
  BY DEF FloatBytes
<1>01. k \in 0..2047
  BY DEF Significands
<1> DEFINE h == k \div 256
<1>1. h \in 0..7 /\ z \in 0..255 /\ k = 256 * h + z
  BY ONLY <1>0, <1>01
<1>2. y = 128 * s + 8 * e + h
  BY <1>0
<1> HIDE DEF h
<1>3. CASE s = 0
  <2>1. d = 2048 * e + k /\ y = 8 * e + h
    BY ONLY <1>0, <1>1, <1>2, <1>3, e \in 0..15, <1>01
  <2>2. /\ y \in 0..255 /\ z \in 0..255 /\ d % 2048 = k /\ d \div 2048 = e /\ e % 16 = e
        /\ d < 32768
        /\ d \in Int
    BY ONLY <2>1, <1>1, e \in 0..15, <1>01, SMT
  <2> QED
    BY <1>3, <2>2, SMT DEF Byte
<1>4. CASE s = 1
  <2>1. d = 2048 * (16 + e) + k /\ y = 128 + 8 * e + h
    BY ONLY <1>0, <1>1, <1>2, <1>4, e \in 0..15, <1>01
  <2>2. /\ y \in 0..255 /\ z \in 0..255 /\ d % 2048 = k /\ d \div 2048 = 16 + e
        /\ (16 + e) % 16 = e /\ d >= 32768 /\ d \in Int
    BY ONLY <2>1, <1>1, e \in 0..15, <1>01, SMT
  <2> QED
    BY <1>4, <2>2, SMT DEF Byte
<1> QED
  BY <1>3, <1>4

\* What decode() makes of the bytes: the mantissa with its sign, in its units.
IsFloat(w, s, e, k) == w = (k - 2048 * s) * UnitOf(e) /\ w \in FloatMin..FloatMax

LEMMA FloatInIs ==
  ASSUME NEW s \in {0, 1}, NEW e \in 0..15, NEW k \in Significands, NEW y, NEW z, NEW d,
         FloatBytes(y, z, d, s, e, k), NEW w, IsFloat(w, s, e, k)
  PROVE  Sized(<<y, z>>, 2) /\ FloatIn(BytesValue(<<y, z>>)) = {w}
<1> DEFINE b == <<y, z>>
           a == BytesValue(b)
           g == (d % 2048) - Flag(2048, d >= 32768)
           p == 2^e
<1>1. ReadsAsFloat(y, z, d, s, e, k)
  BY FloatBits
<1>02. k \in 0..2047
  BY DEF Significands
<1>2. /\ y \in Byte /\ z \in Byte /\ d % 2048 = k /\ (d \div 2048) % 16 = e
      /\ d >= 32768 <=> s = 1
  BY <1>1 DEF ReadsAsFloat
<1>3. Sized(b, 2)
  BY <1>2, PairType
<1>4. IsBytes(a, 2) /\ a.value = b
  BY <1>3, BytesValueIs
<1>5. U16At(b, 0) = d
  BY DEF U16At, FloatBytes
<1> HIDE DEF a, b
<1>6. g = k - 2048 * s
  <2>1. CASE s = 0
    BY <1>02, <1>2, <2>1 DEF Flag
  <2>2. CASE s = 1
    BY <1>02, <1>2, <2>2 DEF Flag
  <2> QED
    BY <2>1, <2>2
<1>7. FloatIn(a) = {g * 4 * 2^((d \div 2048) % 16)} \cap FloatMin..FloatMax
  BY <1>4, <1>5 DEF FloatIn
<1> HIDE DEF g
<1>8. FloatIn(a) = {g * 4 * p} \cap FloatMin..FloatMax
  BY <1>2, <1>7
<1>9. g * 4 * p = (k - 2048 * s) * UnitOf(e)
  <2>1. p \in Int /\ g \in Int
    BY <1>02, <1>6, UnitEnds
  <2>2. UnitOf(e) = 4 * p
    BY DEF UnitOf
  <2> HIDE DEF p
  <2>3. g * 4 * p = g * (4 * p)
    BY <2>1
  <2> QED
    BY <1>6, <2>2, <2>3
<1>10. FloatIn(a) = {w}
  BY <1>8, <1>9 DEF IsFloat
<1> QED
  BY <1>3, <1>10 DEF a, b

\* What encode() writes: the least exponent, the mantissa rounded to its units.
FloatForm(v, e) ==
  LET mantissa == ((2 * v + UnitOf(e)) \div (2 * UnitOf(e))) % 2048
  IN  CASE v \notin FloatMin..FloatMax -> {}
        [] (2 * v + 4) \div 8 = 0 -> {BytesValue(<<0, 0>>)}
        [] OTHER -> {BytesValue(<<Flag(128, v < 0) + 8 * e + mantissa \div 256,
                                  mantissa % 256>>)}

LEMMA FloatOutIs == ASSUME NEW v
  PROVE FloatOut(v) = FloatForm(v, CHOOSE e \in 0..15 : LeastFor(v, e))
BY DEF FloatOut, FloatForm, LeastFor, InReach, UnitOf

LEMMA FloatIs ==
  ASSUME NEW v \in FloatMin..FloatMax
  PROVE  \E e \in 0..15, m \in Mantissas : \E b :
           /\ LeastFor(v, e) /\ RoundedTo(m, v, UnitOf(e)) /\ Sized(b, 2)
           /\ FloatOut(v) = {BytesValue(b)}
           /\ FloatIn(BytesValue(b)) = {m * UnitOf(e)}
           /\ m * UnitOf(e) \in FloatMin..FloatMax
<1> DEFINE e == CHOOSE x \in 0..15 : LeastFor(v, x)
           u == UnitOf(e)
           m == (2 * v + u) \div (2 * u)
           k == m % 2048
           s == Bit(v < 0)
           y == Flag(128, v < 0) + 8 * e + k \div 256
           z == k % 256
<1>1. v \in Int /\ e \in 0..15 /\ LeastFor(v, e)
  BY FloatRange, ExponentIs
<1>2. FloatOut(v) = FloatForm(v, e)
  BY FloatOutIs
<1> HIDE DEF e
<1>3. u \in Nat /\ 0 < u /\ Within(v, u) /\ u <= UnitOf(15) /\ 4 <= u
  <2>1. u \in Nat /\ 4 <= u /\ u <= UnitOf(15)
    BY <1>1, UnitGrows
  <2>2. Within(v, u)
    BY <1>1 DEF LeastFor, InReach, Within
  <2> HIDE DEF u
  <2> QED
    BY <2>1, <2>2
<1>4. RoundedTo(m, v, u)
  BY DEF RoundedTo
<1>40. FloatForm(v, e) =
         CASE v \notin FloatMin..FloatMax -> {}
           [] (2 * v + 4) \div 8 = 0 -> {BytesValue(<<0, 0>>)}
           [] OTHER -> {BytesValue(<<y, z>>)}
  BY DEF FloatForm
<1> HIDE DEF u, m
<1>5. m \in Mantissas /\ m \in -2048..2047 /\ m \in Int
  <2>1. m \in Mantissas
    BY <1>1, <1>3, <1>4, MantissaFits
  <2> QED
    BY <2>1 DEF Mantissas
<1>6. m * u \in FloatMin..FloatMax
  <2> DEFINE t == UnitOf(15)
  <2>1. t \in Nat /\ FloatMin = -2048 * t /\ FloatMax = 2047 * t
    BY FloatEnds, UnitGrows
  <2> HIDE DEF t
  <2>2. u <= t
    BY <1>3 DEF t
  <2>3. m * u <= 2047 * u /\ m * u >= -2048 * u /\ m * u \in Int
    BY <1>3, <1>5
  <2>4. 2047 * u <= 2047 * t /\ -2048 * u >= -2048 * t
    BY <1>3, <2>1, <2>2
  <2> DEFINE w == m * u
  <2> HIDE DEF w
  <2>5. w \in -2048 * t..2047 * t
    BY <1>3, <2>1, <2>3, <2>4 DEF w
  <2> QED
    BY <2>1, <2>5 DEF w
<1>7. CASE (2 * v + 4) \div 8 = 0
  <2>1. v >= -2 /\ v <= 1
    BY <1>1, <1>7
  <2>2. e = 0
    <3>1. UnitOf(0) = 4 /\ 0 \in 0..15
      BY UnitEnds
    <3>2. InReach(v, 0)
      BY <1>1, <2>1, <3>1 DEF InReach
    <3>3. e <= 0
      BY <1>1, <3>1, <3>2, ExponentIsOne
    <3> QED
      BY <1>1, <3>3
  <2>3. u = 4
    BY <2>2, UnitEnds DEF u
  <2>4. m = 0
    <3>1. m = (2 * v + 4) \div 8
      BY <2>3 DEF m
    <3> QED
      BY <3>1, <1>7
  <2>5. FloatOut(v) = {BytesValue(<<0, 0>>)}
    BY <1>2, <1>7, <1>40
  <2>6. Sized(<<0, 0>>, 2) /\ FloatIn(BytesValue(<<0, 0>>)) = {m * u}
    <3> DEFINE o == 0
               w == m * u
    <3>1. FloatBytes(o, o, o, o, o, o) /\ o \in {0, 1} /\ o \in 0..15 /\ o \in Significands
      BY DEF FloatBytes, Significands
    <3>2. IsFloat(w, o, o, o)
      BY <1>6, <2>2, <2>4 DEF IsFloat, u
    <3>3. <<o, o>> = <<0, 0>>
      OBVIOUS
    <3> HIDE DEF o, w
    <3>4. Sized(<<o, o>>, 2) /\ FloatIn(BytesValue(<<o, o>>)) = {w}
      BY <3>1, <3>2, FloatInIs
    <3> QED
      BY <3>3, <3>4 DEF w
  <2> QED
    BY <1>1, <1>4, <1>5, <1>6, <2>5, <2>6 DEF u
<1>8. CASE (2 * v + 4) \div 8 # 0
  <2>1. FloatOut(v) = {BytesValue(<<y, z>>)}
    BY <1>2, <1>8, <1>40
  <2>2. s \in {0, 1} /\ (s = 1 <=> v < 0) /\ Flag(128, v < 0) = 128 * s
    <3>1. CASE v < 0
      BY <3>1 DEF Bit, Flag
    <3>2. CASE ~(v < 0)
      BY <3>2 DEF Bit, Flag
    <3> QED
      BY <3>1, <3>2
  <2>3. FloatBytes(y, z, 256 * y + z, s, e, k)
    BY <2>2 DEF FloatBytes
  <2>4. v < 0 <=> m < 0
    <3>1. CASE e = 0
      <4>1. u = 4
        BY <3>1, UnitEnds DEF u
      <4>2. m = (2 * v + 4) \div 8
        BY <4>1 DEF m
      <4> QED
        BY ONLY <1>1, <1>8, <4>2
    <3>2. CASE e # 0
      <4> DEFINE h == UnitOf(e - 1)
      <4>1. e \in 1..15 /\ e - 1 \in 0..15
        BY <1>1, <3>2
      <4>2. u = 2 * h /\ h \in Nat /\ 4 <= h
        BY <4>1, UnitDoubles, UnitGrows DEF u
      <4>3. ~Within(v, h)
        BY <1>1, <3>2 DEF LeastFor, InReach, Within
      <4> HIDE DEF h
      <4>4. 0 < h /\ RoundedTo(m, v, 2 * h)
        BY <1>4, <4>2
      <4>5. (v < 0 => m <= -1024) /\ (v >= 0 => m >= 1024)
        BY <1>1, <4>2, <4>3, <4>4, MantissaIsLarge
      <4> QED
        BY <1>1, <1>5, <4>5
    <3> QED
      BY <3>1, <3>2
  <2> HIDE DEF y, z, s
  <2>5. k \in 0..2047 /\ k - 2048 * s = m
    <3>1. k = m % 2048
      OBVIOUS
    <3> HIDE DEF k
    <3>2. CASE m < 0
      BY <1>5, <2>2, <2>4, <3>1, <3>2
    <3>3. CASE ~(m < 0)
      BY <1>5, <2>2, <2>4, <3>1, <3>3
    <3> QED
      BY <3>2, <3>3
  <2>51. k \in Significands
    BY <2>5 DEF Significands
  <2> HIDE DEF k
  <2> DEFINE w == m * u
             d == 256 * y + z
  <2>6. IsFloat(w, s, e, k)
    BY <1>6, <2>5 DEF u, IsFloat
  <2>60. FloatBytes(y, z, d, s, e, k)
    BY <2>3
  <2> HIDE DEF w, d
  <2>7. Sized(<<y, z>>, 2) /\ FloatIn(BytesValue(<<y, z>>)) = {w}
    BY <1>1, <2>2, <2>60, <2>51, <2>6, FloatInIs
  <2> QED
    BY <1>1, <1>4, <1>5, <1>6, <2>1, <2>7 DEF u, w
<1> QED
  BY <1>7, <1>8

LEMMA HalfUnit ==
  ASSUME NEW u \in Nat, 0 < u, NEW v \in Int, NEW m, RoundedTo(m, v, u)
  PROVE  m * u \in Int /\ 2 * (m * u - v) <= u /\ 2 * (v - m * u) <= u
<1> DEFINE p == u * m
<1>1. m \in Int /\ 2 * p <= 2 * v + u /\ 2 * v + u < 2 * p + 2 * u
  BY RoundedIs
<1>2. m * u = p /\ p \in Int
  BY <1>1
<1> HIDE DEF p
<1> QED
  BY <1>1, <1>2

\* With a unit greater than the least, the mantissa has its leading bit.
LEMMA LargeMantissa ==
  ASSUME NEW v \in Int, NEW e \in 1..15, LeastFor(v, e), NEW m, RoundedTo(m, v, UnitOf(e))
  PROVE  m \in Int /\ (v < 0 => m <= -1024) /\ (v >= 0 => m >= 1024)
<1> DEFINE h == UnitOf(e - 1)
           u == UnitOf(e)
<1>1. e # 0 /\ e - 1 \in 0..15
  OBVIOUS
<1>2. u = 2 * h /\ h \in Nat /\ 4 <= h
  BY <1>1, UnitDoubles, UnitGrows
<1>3. ~Within(v, h)
  BY <1>1 DEF LeastFor, InReach, Within
<1>4. RoundedTo(m, v, 2 * h)
  BY <1>2
<1> HIDE DEF h, u
<1>5. 0 < h
  BY <1>2
<1> QED
  BY <1>2, <1>3, <1>4, <1>5, MantissaIsLarge

\* A float is within half a hundredth, or half of its last mantissa bit.
LEMMA FloatIsNear ==
  ASSUME NEW v \in Int, NEW e \in 0..15, LeastFor(v, e), NEW m, RoundedTo(m, v, UnitOf(e))
  PROVE  LET w == m * UnitOf(e) IN Near(v, w) <= 2 \/ 2047 * Near(v, w) <= Near(w, 0)
<1> DEFINE u == UnitOf(e)
           w == m * u
<1>1. u \in Nat /\ 4 <= u /\ RoundedTo(m, v, u)
  BY UnitGrows
<1>2. CASE e = 0
  <2>1. u = 4
    BY <1>2, UnitEnds
  <2> HIDE DEF u
  <2>2. w \in Int /\ 2 * (w - v) <= 4 /\ 2 * (v - w) <= 4
    BY <1>1, <2>1, HalfUnit
  <2> HIDE DEF w
  <2>3. Near(v, w) <= 2
    BY <2>2 DEF Near
  <2> QED
    BY <2>3 DEF u, w
<1>3. CASE e # 0
  <2>1. e \in 1..15
    BY <1>3
  <2>2. m \in Int /\ (v < 0 => m <= -1024) /\ (v >= 0 => m >= 1024)
    BY <2>1, LargeMantissa
  <2> HIDE DEF u
  <2>3. w \in Int /\ 2 * (w - v) <= u /\ 2 * (v - w) <= u
    <3>1. 0 < u
      BY <1>1
    <3> QED
      BY <1>1, <3>1, HalfUnit
  <2>4. CASE v < 0
    <3>1. w <= -1024 * u
      <4>1. m * u <= -1024 * u
        BY <1>1, <2>2, <2>4
      <4> QED
        BY <4>1
    <3> HIDE DEF w
    <3>2. 2047 * Near(v, w) <= Near(w, 0)
      BY <1>1, <2>3, <3>1 DEF Near
    <3> QED
      BY <3>2 DEF u, w
  <2>5. CASE v >= 0
    <3>1. w >= 1024 * u
      <4>1. m * u >= 1024 * u
        BY <1>1, <2>2, <2>5
      <4> QED
        BY <4>1
    <3> HIDE DEF w
    <3>2. 2047 * Near(v, w) <= Near(w, 0)
      BY <1>1, <2>3, <3>1 DEF Near
    <3> QED
      BY <3>2 DEF u, w
  <2> QED
    BY <2>4, <2>5
<1> QED
  BY <1>2, <1>3

\* What was decoded is encoded without rounding.
LEMMA FloatAgain ==
  ASSUME NEW v \in Int, NEW e \in 0..15, LeastFor(v, e),
         NEW m \in Mantissas, RoundedTo(m, v, UnitOf(e)), NEW w, w = m * UnitOf(e),
         NEW i \in 0..15, LeastFor(w, i), NEW k, RoundedTo(k, w, UnitOf(i))
  PROVE  k * UnitOf(i) = w
<1> DEFINE u == UnitOf(e)
           t == UnitOf(i)
<1>0. m \in Int /\ -2048 <= m /\ m <= 2047
  BY DEF Mantissas
<1>1. u \in Nat /\ 4 <= u /\ t \in Nat /\ 4 <= t
  BY UnitGrows
<1>2. w \in Int /\ InReach(w, e)
  <2>0. w = m * u
    OBVIOUS
  <2> DEFINE lo == -2048 * u
             hi == 2047 * u
             p == m * u
  <2>1. lo <= p /\ p <= hi /\ p \in Int /\ lo \in Int /\ hi \in Int
    <3> HIDE DEF u
    <3> QED
      BY <1>0, <1>1
  <2> HIDE DEF lo, hi, p
  <2>2. p \in lo..hi
    BY <2>1
  <2> QED
    BY <2>0, <2>1, <2>2 DEF InReach, lo, hi, p
<1>3. i <= e
  BY <1>2, ExponentIsOne
<1>4. CASE i = e
  <2>1. RoundedTo(k, m * u, u)
    BY <1>4
  <2> HIDE DEF u
  <2>2. k = m
    BY <1>0, <1>1, <2>1, WholeIs
  <2> QED
    BY <1>4, <2>2
<1>5. CASE i # e
  <2>1. e \in 1..15 /\ i \in 0..e - 1
    BY <1>3, <1>5
  <2>2. (v < 0 => m <= -1024) /\ (v >= 0 => m >= 1024)
    BY <2>1, LargeMantissa
  <2>3. i = e - 1
    <3> SUFFICES ASSUME i # e - 1 PROVE FALSE
      OBVIOUS
    <3>1. e - 2 \in 0..15 /\ i <= e - 2 /\ e - 1 \in 1..15 /\ (e - 1) - 1 = e - 2
      BY <2>1
    <3> DEFINE h == UnitOf(e - 2)
    <3>2. u = 4 * h /\ h \in Nat /\ 4 <= h
      <4>1. UnitOf(e) = 2 * UnitOf(e - 1)
        BY <2>1, UnitDoubles
      <4>2. UnitOf(e - 1) = 2 * h
        BY <3>1, UnitDoubles
      <4>3. h \in Nat /\ 4 <= h
        BY <3>1, UnitGrows
      <4> QED
        BY <4>1, <4>2, <4>3
    <3>3. InReach(w, i)
      BY DEF LeastFor
    <3>4. InReach(w, e - 2)
      BY <1>2, <3>1, <3>3, ReachGrows
    <3>5. w \in -2048 * h..2047 * h /\ w = m * u
      BY <3>4 DEF InReach
    <3> HIDE DEF h, u
    <3> DEFINE p == m * h
    <3>6. w = 4 * p /\ p \in Int
      BY <1>0, <3>2, <3>5
    <3>7. m <= -1024 \/ m >= 1024
      BY <2>2
    <3>8. p <= -1024 * h \/ p >= 1024 * h
      BY <1>0, <3>2, <3>7
    <3> HIDE DEF p
    <3> QED
      BY <3>2, <3>5, <3>6, <3>8
  <2>4. u = 2 * t
    BY <2>1, <2>3, UnitDoubles
  <2> DEFINE n == 2 * m
  <2>5. n \in Int /\ w = n * t
    <3>1. w = m * u
      OBVIOUS
    <3> HIDE DEF u, t
    <3> QED
      BY <1>0, <1>1, <2>4, <3>1
  <2>6. RoundedTo(k, n * t, t)
    BY <2>5
  <2> HIDE DEF n, t
  <2>7. k = n
    BY <1>1, <2>5, <2>6, WholeIs
  <2> QED
    BY <2>5, <2>7 DEF t
<1> QED
  BY <1>4, <1>5

\* DPT 9.
LEMMA FloatReads ==
  ASSUME NEW dpt, dpt[1] = 9, NEW v \in FloatMin..FloatMax PROVE ComesBack(dpt, v)
<1>1. dpt \notin ScaledIds
  BY DEF ScaledIds
<1>2. \A x, c : DptOut(dpt, x) = FloatOut(x) /\ DptIn(dpt, c) = FloatIn(c)
  BY <1>1, CodecIs
<1>3. v \in Int
  BY FloatRange
<1>4. PICK e \in 0..15, m \in Mantissas : \E b :
        /\ LeastFor(v, e) /\ RoundedTo(m, v, UnitOf(e)) /\ Sized(b, 2)
        /\ FloatOut(v) = {BytesValue(b)}
        /\ FloatIn(BytesValue(b)) = {m * UnitOf(e)}
        /\ m * UnitOf(e) \in FloatMin..FloatMax
  BY FloatIs
<1>5. PICK b :
        /\ LeastFor(v, e) /\ RoundedTo(m, v, UnitOf(e)) /\ Sized(b, 2)
        /\ FloatOut(v) = {BytesValue(b)}
        /\ FloatIn(BytesValue(b)) = {m * UnitOf(e)}
        /\ m * UnitOf(e) \in FloatMin..FloatMax
  BY <1>4
<1> DEFINE w == m * UnitOf(e)
<1>6. w \in FloatMin..FloatMax
  BY <1>5
<1>7. Near(v, w) <= 2 \/ 2047 * Near(v, w) <= Near(w, 0)
  BY <1>3, <1>5, FloatIsNear
<1>8. w = m * UnitOf(e)
  OBVIOUS
<1>9. FloatIn(BytesValue(b)) = {w}
  BY <1>5
<1> HIDE DEF w
<1>10. PICK i \in 0..15, k \in Mantissas : \E c :
        /\ LeastFor(w, i) /\ RoundedTo(k, w, UnitOf(i)) /\ Sized(c, 2)
        /\ FloatOut(w) = {BytesValue(c)}
        /\ FloatIn(BytesValue(c)) = {k * UnitOf(i)}
        /\ k * UnitOf(i) \in FloatMin..FloatMax
  BY <1>6, FloatIs
<1>11. PICK c :
        /\ LeastFor(w, i) /\ RoundedTo(k, w, UnitOf(i)) /\ Sized(c, 2)
        /\ FloatOut(w) = {BytesValue(c)}
        /\ FloatIn(BytesValue(c)) = {k * UnitOf(i)}
        /\ k * UnitOf(i) \in FloatMin..FloatMax
  BY <1>10
<1>12. k * UnitOf(i) = w
  BY <1>3, <1>5, <1>8, <1>11, FloatAgain
<1>13. BytesValue(b) \in ApduValues /\ BytesValue(c) \in ApduValues
  BY <1>5, <1>11, BytesValueIs
<1>14. Faithful(dpt, v, w)
  <2>1. dpt \notin {<<5, 1>>, <<5, 3>>}
    BY <1>1 DEF ScaledIds
  <2> QED
    BY <1>7, <2>1 DEF Faithful
<1>15. DptOut(dpt, v) = {BytesValue(b)} /\ DptIn(dpt, BytesValue(b)) = {w}
  BY <1>2, <1>5, <1>9
<1>16. DptOut(dpt, w) = {BytesValue(c)} /\ DptIn(dpt, BytesValue(c)) = {w}
  BY <1>2, <1>11, <1>12
<1> QED
  BY <1>13, <1>14, <1>15, <1>16 DEF ComesBack

-----------------------------------------------------------------------------
(* EVERY DATAPOINT TYPE                                                    *)

\* The values that encode() takes as they are meant: integers in their range,
\* the fields all there, characters that fit and no zeros behind a string.
DptValues(dpt) ==
  LET main == dpt[1]
  IN  CASE main = 1 -> BOOLEAN
        [] main = 2 -> ControlledBits
        [] main = 3 -> Steps
        [] main = 4 -> {<<c>> : c \in 0..IF dpt = <<4, 1>> THEN 127 ELSE 255}
        [] dpt \in ScaledIds -> 0..255 * ScaledMax(dpt[2])
        [] main = 9 -> FloatMin..FloatMax
        [] main = 10 -> Times
        [] main = 11 -> Dates
        [] main = 14 -> Singles
        [] main = 16 -> Strings(IsAscii(dpt))
        [] main \in {18, 26} -> Scenes
        [] main = 19 -> DateTimes
        [] main = 28 -> {v \in Seq(1..255) : Len(v) <= 253}
        [] main = 232 -> ByteString(3)
        [] main = 235 -> Tariffs
        [] main = 251 -> Rgbws
        [] OTHER -> IntegerValues(IntegerType(main))

\* Each registered type is of a main type with a codec.
LEMMA MainsAre ==
  ASSUME NEW dpt \in RegisteredDpts
  PROVE  \/ dpt \in ScaledIds
         \/ dpt[1] \in IntegerMains /\ dpt \notin ScaledIds
         \/ dpt[1] \in {1, 2, 3, 4, 9, 10, 11, 14, 16, 18, 19, 26, 28, 232, 235, 251}
<1>1. CASE dpt \in IntegerIds
  <2>1. PICK m \in IntegerMains : dpt \in Subs(m, IntegerType(m).subs)
    BY <1>1 DEF IntegerIds, IntegerMains
  <2>2. dpt[1] = m
    BY <2>1 DEF Subs
  <2> QED
    BY <2>2
<1>2. CASE dpt \in BitIds
  BY <1>2 DEF BitIds, Subs
<1>3. CASE dpt \in ControlledBitIds
  BY <1>3 DEF ControlledBitIds, Subs
<1>4. CASE dpt \in StepIds
  BY <1>4 DEF StepIds, Subs
<1>5. CASE dpt \in FloatIds
  BY <1>5 DEF FloatIds, Subs
<1>6. CASE dpt \in SingleIds
  BY <1>6 DEF SingleIds, Subs
<1>7. CASE dpt \in Subs(5, {1, 3})
  BY <1>7 DEF Subs, ScaledIds
<1>8. CASE \E m \in {4, 10, 11, 16, 18, 19, 26, 28, 232, 235, 251} : \E s : dpt \in Subs(m, s)
  BY <1>8 DEF Subs
<1> QED
  BY <1>1, <1>2, <1>3, <1>4, <1>5, <1>6, <1>7, <1>8 DEF RegisteredDpts

\* For every datapoint type that src/dpt/ registers and every value of it: encode()
\* writes it, decode() reads that as a value that is as near as the type allows,
\* the value itself but for scaled bytes and floats, and that one is stable: it
\* is encoded, and decoded as itself.  A node that passes on what it received
\* changes nothing more.
THEOREM ValuesRoundTrip ==
  \A dpt \in RegisteredDpts : \A v \in DptValues(dpt) : ComesBack(dpt, v)
<1> SUFFICES ASSUME NEW dpt \in RegisteredDpts, NEW v \in DptValues(dpt) PROVE ComesBack(dpt, v)
  OBVIOUS
<1>0. dpt[1] # 5 => dpt \notin ScaledIds
  BY DEF ScaledIds
<1>1. CASE dpt \in ScaledIds
  <2>1. DptValues(dpt) = 0..255 * ScaledMax(dpt[2])
    BY <1>1 DEF DptValues, ScaledIds
  <2> QED
    BY <1>1, <2>1, ScaledReads
<1>2. CASE dpt[1] \in IntegerMains /\ dpt \notin ScaledIds
  <2>0. /\ dpt[1] # 1 /\ dpt[1] # 2 /\ dpt[1] # 3 /\ dpt[1] # 4 /\ dpt[1] # 9 /\ dpt[1] # 10
        /\ dpt[1] # 11 /\ dpt[1] # 14 /\ dpt[1] # 16 /\ dpt[1] \notin {18, 26} /\ dpt[1] # 19
        /\ dpt[1] # 28 /\ dpt[1] # 232 /\ dpt[1] # 235 /\ dpt[1] # 251
    BY <1>2 DEF IntegerMains
  <2>1. DptValues(dpt) = IntegerValues(IntegerType(dpt[1]))
    BY <1>2, <2>0, Zenon DEF DptValues
  <2> QED
    BY <1>2, <2>1, IntegerReads
<1>3. CASE dpt[1] = 1
  <2>1. DptValues(dpt) = BOOLEAN
    BY <1>3, <1>0 DEF DptValues
  <2> QED
    BY <1>3, <2>1, BitReads
<1>4. CASE dpt[1] = 2
  <2>1. DptValues(dpt) = ControlledBits
    BY <1>4, <1>0 DEF DptValues
  <2> QED
    BY <1>4, <2>1, ControlledBitReads
<1>5. CASE dpt[1] = 3
  <2>1. DptValues(dpt) = Steps
    BY <1>5, <1>0 DEF DptValues
  <2> QED
    BY <1>5, <2>1, StepReads
<1>6. CASE dpt[1] = 4
  <2>0. DptValues(dpt) = {<<c>> : c \in 0..IF dpt = <<4, 1>> THEN 127 ELSE 255}
    BY <1>6, <1>0 DEF DptValues
  <2>1. PICK c \in 0..IF dpt = <<4, 1>> THEN 127 ELSE 255 : v = <<c>>
    BY <2>0
  <2> QED
    BY <1>6, <2>1, CharReads
<1> DEFINE Of(main, values) == dpt[1] = main => v \in values
<1>7. ASSUME dpt \notin ScaledIds
      PROVE  /\ Of(9, FloatMin..FloatMax) /\ Of(10, Times) /\ Of(11, Dates) /\ Of(14, Singles)
             /\ Of(16, Strings(IsAscii(dpt))) /\ Of(18, Scenes) /\ Of(26, Scenes)
             /\ Of(19, DateTimes) /\ Of(28, {x \in Seq(1..255) : Len(x) <= 253})
             /\ Of(232, ByteString(3)) /\ Of(235, Tariffs) /\ Of(251, Rgbws)
  <2>1. CASE dpt[1] = 9
    BY <1>7, <2>1 DEF DptValues
  <2>2. CASE dpt[1] = 10
    BY <1>7, <2>2 DEF DptValues
  <2>3. CASE dpt[1] = 11
    BY <1>7, <2>3 DEF DptValues
  <2>4. CASE dpt[1] = 14
    BY <1>7, <2>4 DEF DptValues
  <2>5. CASE dpt[1] = 16
    BY <1>7, <2>5 DEF DptValues
  <2>6. CASE dpt[1] = 18
    BY <1>7, <2>6 DEF DptValues
  <2>7. CASE dpt[1] = 26
    BY <1>7, <2>7 DEF DptValues
  <2>8. CASE dpt[1] = 19
    BY <1>7, <2>8 DEF DptValues
  <2>9. CASE dpt[1] = 28
    BY <1>7, <2>9 DEF DptValues
  <2>10. CASE dpt[1] = 232
    BY <1>7, <2>10 DEF DptValues
  <2>11. CASE dpt[1] = 235
    BY <1>7, <2>11 DEF DptValues
  <2>12. CASE dpt[1] = 251
    BY <1>7, <2>12 DEF DptValues
  <2> QED
    BY <2>1, <2>2, <2>3, <2>4, <2>5, <2>6, <2>7, <2>8, <2>9, <2>10, <2>11, <2>12
<1>8. CASE dpt \notin ScaledIds /\ dpt[1] \in {9, 10, 11, 14}
  BY <1>7, <1>8, FloatReads, TimeReads, DateReads, SingleReads
<1>9. CASE dpt \notin ScaledIds /\ dpt[1] \in {16, 18, 19, 26}
  BY <1>7, <1>9, StringReads, SceneReads, MomentReads
<1>10. CASE dpt \notin ScaledIds /\ dpt[1] \in {28, 232, 235, 251}
  BY <1>7, <1>10, Utf8Reads, RgbReads, TariffReads, RgbwReads
<1> QED
  BY <1>1, <1>2, <1>3, <1>4, <1>5, <1>6, <1>8, <1>9, <1>10, MainsAre

-----------------------------------------------------------------------------
(* WHAT THE NODES SHOW                                                     *)

\* What a listener sends for a telegram, with the payload p.
Heard(f, p) ==
  [topic |-> GroupText(f.data.dst, "long"), payload |-> p,
   source |-> IndividualText(f.data.src), raw |-> f.data.payload.data,
   isResponse |-> f.data.payload.kind = "GroupValueResponse",
   priority |-> Priority(f.data.flags)]

ValueKinds == {"GroupValueResponse", "GroupValueWrite"}

LEMMA NoDptIsAbsent == ~HasDpt(Absent)
BY NothingAssumption DEF HasDpt

LEMMA PayloadIsThere ==
  ASSUME NEW kind \in ValueKinds, NEW a \in ApduValues
  PROVE  GroupValue(kind, a) # Absent
<1> DEFINE P == [kind : {"GroupValueResponse", "GroupValueWrite"},
                 data : [small : BOOLEAN, value : Seq(0..255)]]
<1>1. a \in [small : BOOLEAN, value : Seq(0..255)]
  BY DEF ApduValues, Byte
<1>2. GroupValue(kind, a) \in P
  BY <1>1 DEF GroupValue, ValueKinds
<1>3. Absent \notin P
  BY NothingAssumption
<1> QED
  BY <1>2, <1>3

\* A telegram with the value a, to a group.
Brings(f, a) ==
  /\ f.code = L_DATA_IND /\ ToGroup(f.data.flags)
  /\ \E kind \in ValueKinds : f.data.payload = GroupValue(kind, a)

LEMMA ListenerHears ==
  ASSUME NEW f \in CemiFrames, NEW a \in ApduValues, Brings(f, a)
  PROVE  /\ f.data.payload.data = a
         /\ ListenerOut({}, Absent, f) = {Heard(f, AnApdu(a))}
         /\ \A dpt, w : HasDpt(dpt) /\ DptIn(dpt, a) = {w} =>
              ListenerOut({f.data.dst}, dpt, f) = {Heard(f, AValue(w))}
<1> DEFINE d == f.data
           p == d.payload
<1>1. f.code = L_DATA_IND /\ ToGroup(d.flags)
  BY DEF Brings
<1>2. PICK kind \in ValueKinds : p = GroupValue(kind, a)
  BY DEF Brings
<1>3. p.data = a /\ p # Absent /\ p.kind \in {"GroupValueWrite", "GroupValueResponse"}
  BY <1>2, PayloadIsThere DEF GroupValue, ValueKinds
<1> HIDE DEF p
<1> DEFINE Sent(q) ==
             [topic |-> GroupText(d.dst, "long"), payload |-> q,
              source |-> IndividualText(d.src), raw |-> a,
              isResponse |-> p.kind = "GroupValueResponse",
              priority |-> Priority(d.flags)]
<1>4. \A q : Sent(q) = Heard(f, q)
  BY <1>3 DEF Heard, p
<1>5. ASSUME NEW filter, filter = {} \/ d.dst \in filter, NEW dpt
      PROVE  ListenerOut(filter, dpt, f) =
               {Sent(q) : q \in OrElse(IF HasDpt(dpt) THEN ValuePayloads(DptIn(dpt, a)) ELSE {},
                                       {AnApdu(a)})}
  BY <1>1, <1>3, <1>5 DEF ListenerOut, d, p
<1>6. ListenerOut({}, Absent, f) = {Sent(AnApdu(a))}
  <2>1. OrElse({}, {AnApdu(a)}) = {AnApdu(a)}
    BY DEF OrElse
  <2>2. ListenerOut({}, Absent, f) = {Sent(q) : q \in {AnApdu(a)}}
    BY <1>5, <2>1, NoDptIsAbsent
  <2> HIDE DEF Sent
  <2> QED
    BY <2>2
<1>7. ASSUME NEW dpt, NEW w, HasDpt(dpt), DptIn(dpt, a) = {w}
      PROVE  ListenerOut({d.dst}, dpt, f) = {Sent(AValue(w))}
  <2>1. ValuePayloads({w}) = {AValue(w)}
    BY DEF ValuePayloads
  <2>2. OrElse({AValue(w)}, {AnApdu(a)}) = {AValue(w)}
    BY DEF OrElse
  <2>3. ListenerOut({d.dst}, dpt, f) = {Sent(q) : q \in {AValue(w)}}
    BY <1>5, <1>7, <2>1, <2>2
  <2> HIDE DEF Sent
  <2> QED
    BY <2>3
<1> HIDE DEF Sent
<1>8. f.data.payload.data = a
  BY <1>3 DEF p
<1> QED
  BY <1>4, <1>6, <1>7, <1>8 DEF d

\* A message with another payload.
WithPayload(m, p) == [m EXCEPT !.payload = p]

\* What a project has for a topic: one entry, or none.
KnowsAs(map, topic, dpt) == EntriesAt(map, topic) = {[dpt |-> dpt]}
KnowsNot(map, topic) == EntriesAt(map, topic) = {}

LEMMA ProjectKnows ==
  ASSUME NEW dst \in Word, NEW dpt, NEW topic, topic = GroupText(dst, "long")
  PROVE  KnowsAs([raw \in {dst} |-> [dpt |-> dpt]], topic, dpt) /\ KnowsNot(<<>>, topic)
<1>1. GroupAddress(topic) = {dst}
  <2>1. "long" \in {"long", "short", "free"}
    OBVIOUS
  <2>2. SameAddress(dst)
    BY AddressesRoundTrip
  <2>3. \A style \in {"long", "short", "free"} : GroupAddress(GroupText(dst, style)) = {dst}
    BY <2>2 DEF SameAddress
  <2> QED
    BY <2>1, <2>3
<1>2. DOMAIN <<>> = {}
  OBVIOUS
<1> QED
  BY <1>1, <1>2 DEF EntriesAt, KnowsAs, KnowsNot

LEMMA EtsTranslates ==
  ASSUME NEW map, NEW dpt, HasDpt(dpt), NEW m, KnowsAs(map, m.topic, dpt), NEW p,
         Translated("auto", dpt, m.payload) = {p}
  PROVE  EtsOut(map, "auto", m) = [first |-> {WithPayload(m, p)}, second |-> {}]
<1> DEFINE e == [dpt |-> dpt]
           T == UNION {{[m EXCEPT !.payload = q] : q \in Translated("auto", x.dpt, m.payload)} :
                         x \in {known \in EntriesAt(map, m.topic) : HasDpt(known.dpt)}}
<1>1. {known \in EntriesAt(map, m.topic) : HasDpt(known.dpt)} = {e}
  BY DEF KnowsAs
<1>2. T = {[m EXCEPT !.payload = q] : q \in Translated("auto", e.dpt, m.payload)}
  BY <1>1
<1>3. T = {[m EXCEPT !.payload = q] : q \in {p}}
  BY <1>2
<1>4. T = {[m EXCEPT !.payload = p]}
  BY <1>3
<1> QED
  BY <1>4 DEF EtsOut, WithPayload

LEMMA EtsPassesOn ==
  ASSUME NEW map, NEW m, KnowsNot(map, m.topic)
  PROVE  EtsOut(map, "auto", m) = [first |-> {}, second |-> {m}]
<1> DEFINE T == UNION {{[m EXCEPT !.payload = q] : q \in Translated("auto", x.dpt, m.payload)} :
                         x \in {known \in EntriesAt(map, m.topic) : HasDpt(known.dpt)}}
<1>1. T = {}
  BY DEF KnowsNot
<1> QED
  BY <1>1 DEF EtsOut

\* A message carries the APDU value that is decoded as w.
CarriesFor(m, a, dpt, w) == m.payload = AnApdu(a) /\ DptIn(dpt, a) = {w}

LEMMA MqttDecodes ==
  ASSUME NEW map, NEW m, NEW dpt, HasDpt(dpt), KnowsAs(map, m.topic, dpt),
         NEW a, NEW w, CarriesFor(m, a, dpt, w)
  PROVE  MqttOut(map, FALSE, m) = {AValue(w)}
<1> DEFINE D == UNION {ValuePayloads(DptIn(e.dpt, m.payload.value)) :
                         e \in {d \in EntriesAt(map, m.topic) : HasDpt(d.dpt)}}
           k == [dpt |-> dpt]
<1>1. m.payload.kind = "apdu" /\ m.payload.value = a /\ DptIn(dpt, a) = {w}
  BY DEF AnApdu, CarriesFor
<1>2. {d \in EntriesAt(map, m.topic) : HasDpt(d.dpt)} = {k} /\ EntriesAt(map, m.topic) # {}
  BY DEF KnowsAs
<1>3. D = ValuePayloads(DptIn(k.dpt, m.payload.value))
  BY <1>2
<1>4. D = ValuePayloads({w})
  BY <1>1, <1>3
<1>5. D = {AValue(w)}
  BY <1>4 DEF ValuePayloads
<1>6. MqttOut(map, FALSE, m) = OrElse(D, {m.payload})
  BY <1>1, <1>2 DEF MqttOut
<1> HIDE DEF D
<1> QED
  BY <1>5, <1>6 DEF OrElse

LEMMA MqttPassesOn ==
  ASSUME NEW map, NEW m, KnowsNot(map, m.topic), NEW a, m.payload = AnApdu(a)
  PROVE  MqttOut(map, FALSE, m) = {} /\ MqttOut(map, TRUE, m) = {m.payload}
<1> DEFINE D == UNION {ValuePayloads(DptIn(e.dpt, m.payload.value)) :
                         e \in {d \in EntriesAt(map, m.topic) : HasDpt(d.dpt)}}
<1>1. m.payload.kind = "apdu"
  BY DEF AnApdu
<1>2. D = {}
  BY DEF KnowsNot
<1>3. MqttOut(map, TRUE, m) = OrElse(D, {m.payload})
  BY <1>1 DEF MqttOut
<1>4. OrElse(D, {m.payload}) = {m.payload}
  BY <1>2 DEF OrElse
<1> QED
  BY <1>3, <1>4 DEF MqttOut, KnowsNot

\* Who hears a telegram with a value hears the value.
LEMMA ValueIsShown ==
  ASSUME NEW dpt \in RegisteredDpts, NEW v \in DptValues(dpt), NEW f \in CemiFrames,
         NEW d \in DptOut(dpt, v), Brings(f, d),
         NEW u, u.telegram = f, u.carries[1] = dpt, u.carries[2] = v
  PROVE  Means(u)
<1>1. PICK a \in ApduValues : \E w : 
        /\ DptOut(dpt, v) = {a} /\ DptIn(dpt, a) = {w} /\ Faithful(dpt, v, w)
        /\ \E c \in ApduValues : DptOut(dpt, w) = {c} /\ DptIn(dpt, c) = {w}
  BY ValuesRoundTrip DEF ComesBack
<1>2. PICK w :
        /\ DptOut(dpt, v) = {a} /\ DptIn(dpt, a) = {w} /\ Faithful(dpt, v, w)
        /\ \E c \in ApduValues : DptOut(dpt, w) = {c} /\ DptIn(dpt, c) = {w}
  BY <1>1
<1>3. PICK c \in ApduValues : DptOut(dpt, w) = {c} /\ DptIn(dpt, c) = {w}
  BY <1>2
<1> DEFINE dst == f.data.dst
           m == Heard(f, AnApdu(a))
           out == WithPayload(m, AValue(w))
           map == [raw \in {dst} |-> [dpt |-> dpt]]
           none == <<>>
<1>4. Brings(f, a)
  BY <1>2
<1>5. dst \in Word
  BY DEF CemiFrames, LinkData
<1>6. HasDpt(dpt) /\ dpt # Absent
  BY NothingAssumption DEF HasDpt
<1>7. /\ f.data.payload.data = a /\ ListenerOut({}, Absent, f) = {m}
      /\ ListenerOut({dst}, dpt, f) = {Heard(f, AValue(w))}
  BY <1>2, <1>4, <1>6, ListenerHears
<1>8. Heard(f, AValue(w)) = out
  BY DEF Heard, WithPayload
<1>9. /\ m.topic = GroupText(dst, "long") /\ m.payload = AnApdu(a)
      /\ out.topic = GroupText(dst, "long") /\ out.payload = AValue(w)
  BY DEF Heard, WithPayload
<1>10. KnowsAs(map, m.topic, dpt) /\ KnowsNot(none, m.topic) /\ KnowsAs(map, out.topic, dpt)
  BY <1>5, <1>9, ProjectKnows
<1>11. Translated("auto", dpt, AnApdu(a)) = {AValue(w)}
  <2>1. AnApdu(a).kind = "apdu" /\ AnApdu(a).value = a
    BY DEF AnApdu
  <2>2. Translated("auto", dpt, AnApdu(a)) = ValuePayloads(DptIn(dpt, a))
    BY <2>1 DEF Translated
  <2> QED
    BY <1>2, <2>2 DEF ValuePayloads
<1>12. Translated("auto", dpt, AValue(w)) = {AnApdu(c)}
  <2>1. AValue(w).kind = "value" /\ AValue(w).value = w
    BY DEF AValue
  <2>2. Translated("auto", dpt, AValue(w)) = ApduPayloads(DptOut(dpt, w))
    BY <2>1 DEF Translated
  <2> QED
    BY <1>3, <2>2 DEF ApduPayloads
<1> HIDE DEF map, none
<1>13. EtsOut(map, "auto", m) = [first |-> {out}, second |-> {}]
  <2>1. Translated("auto", dpt, m.payload) = {AValue(w)}
    BY <1>9, <1>11
  <2> HIDE DEF m
  <2> QED
    BY <1>6, <1>10, <2>1, EtsTranslates
<1>14. \E back \in EtsOut(map, "auto", out).first : DptIn(dpt, back.payload.value) = {w}
  <2> DEFINE back == WithPayload(out, AnApdu(c))
  <2>1. Translated("auto", dpt, out.payload) = {AnApdu(c)}
    BY <1>9, <1>12
  <2>2. back.payload = AnApdu(c)
    BY DEF Heard, WithPayload
  <2> HIDE DEF out
  <2>3. EtsOut(map, "auto", out) = [first |-> {back}, second |-> {}]
    BY <1>6, <1>10, <2>1, EtsTranslates
  <2>4. back \in EtsOut(map, "auto", out).first
    BY <2>3
  <2>5. DptIn(dpt, back.payload.value) = {w}
    BY <1>3, <2>2 DEF AnApdu
  <2> HIDE DEF back
  <2> QED
    BY <2>4, <2>5
<1> HIDE DEF m
<1>15. MqttOut(map, FALSE, m) = {AValue(w)}
  <2>1. CarriesFor(m, a, dpt, w)
    BY <1>2, <1>9 DEF CarriesFor
  <2>2. HasDpt(dpt) /\ KnowsAs(map, m.topic, dpt)
    BY <1>6, <1>10
  <2> QED
    BY ONLY <2>1, <2>2, MqttDecodes
<1>18. EtsOut(none, "auto", m) = [first |-> {}, second |-> {m}]
  BY <1>10, EtsPassesOn
<1>19. MqttOut(none, FALSE, m) = {} /\ MqttOut(none, TRUE, m) = {m.payload}
  BY <1>9, <1>10, MqttPassesOn
<1>16. ShownAs(u, f)
  <2>1. map = [raw \in {f.data.dst} |-> [dpt |-> dpt]]
    BY DEF map
  <2> HIDE DEF out
  <2>2. \E x \in DptIn(dpt, f.data.payload.data) :
          LET o == WithPayload(m, AValue(x))
          IN  /\ Faithful(dpt, v, x)
              /\ ListenerOut({f.data.dst}, dpt, f) = {o}
              /\ EtsOut(map, "auto", m) = [first |-> {o}, second |-> {}]
              /\ \E back \in EtsOut(map, "auto", o).first : DptIn(dpt, back.payload.value) = {x}
              /\ MqttOut(map, FALSE, m) = {AValue(x)}
              /\ EtsOut(none, "auto", m) = [first |-> {}, second |-> {m}]
              /\ MqttOut(none, FALSE, m) = {} /\ MqttOut(none, TRUE, m) = {m.payload}
    <3>1. w \in DptIn(dpt, f.data.payload.data)
      BY <1>2, <1>7
    <3>2. out = WithPayload(m, AValue(w))
      BY DEF out
    <3>3. Faithful(dpt, v, w) /\ ListenerOut({f.data.dst}, dpt, f) = {out}
      BY <1>2, <1>7, <1>8
    <3> QED
      BY <1>13, <1>14, <1>15, <1>18, <1>19, <3>1, <3>2, <3>3
  <2>3. ListenerOut({}, Absent, f) = {m}
    BY <1>7
  <2> HIDE DEF map
  <2> QED
    <3> SUFFICES ASSUME NEW y \in ListenerOut({}, Absent, f)
                 PROVE  LET g == u.carries[1]
                            known == [raw \in {f.data.dst} |-> [dpt |-> g]]
                        IN  \E x \in DptIn(g, f.data.payload.data) :
                              LET o == [y EXCEPT !.payload = AValue(x)]
                              IN  /\ Faithful(g, u.carries[2], x)
                                  /\ ListenerOut({f.data.dst}, g, f) = {o}
                                  /\ EtsOut(known, "auto", y) = [first |-> {o}, second |-> {}]
                                  /\ \E back \in EtsOut(known, "auto", o).first :
                                       DptIn(g, back.payload.value) = {x}
                                  /\ MqttOut(known, FALSE, y) = {AValue(x)}
                                  /\ EtsOut(<<>>, "auto", y) = [first |-> {}, second |-> {y}]
                                  /\ MqttOut(<<>>, FALSE, y) = {}
                                  /\ MqttOut(<<>>, TRUE, y) = {y.payload}
      BY DEF ShownAs
    <3> DEFINE Shows(g, known, y0, x, o) ==
                 /\ Faithful(g, v, x)
                 /\ ListenerOut({f.data.dst}, g, f) = {o}
                 /\ EtsOut(known, "auto", y0) = [first |-> {o}, second |-> {}]
                 /\ \E back \in EtsOut(known, "auto", o).first :
                          DptIn(g, back.payload.value) = {x}
                 /\ MqttOut(known, FALSE, y0) = {AValue(x)}
                 /\ EtsOut(<<>>, "auto", y0) = [first |-> {}, second |-> {y0}]
                 /\ MqttOut(<<>>, FALSE, y0) = {} /\ MqttOut(<<>>, TRUE, y0) = {y0.payload}
    <3>1. y = m
      BY <2>3
    <3>2. u.carries[1] = dpt /\ u.carries[2] = v
      OBVIOUS
    <3>3. none = <<>> /\ \A x : WithPayload(m, AValue(x)) = [m EXCEPT !.payload = AValue(x)]
      BY DEF WithPayload, none
    <3>4. \E x \in DptIn(dpt, f.data.payload.data) :
            Shows(dpt, map, m, x, [m EXCEPT !.payload = AValue(x)])
      BY ONLY <2>2, <3>3, Zenon
    <3>5. map = [raw \in {f.data.dst} |-> [dpt |-> u.carries[1]]]
      BY <2>1, <3>2
    <3>6. \E x \in DptIn(u.carries[1], f.data.payload.data) :
            Shows(u.carries[1], map, y, x, [y EXCEPT !.payload = AValue(x)])
      BY ONLY <3>1, <3>2, <3>4
    <3> QED
      BY ONLY <3>2, <3>5, <3>6
<1>17. SameAddress(u.telegram.data.dst)
  BY <1>5, AddressesRoundTrip
<1> QED
  BY <1>6, <1>7, <1>16, <1>17 DEF Means

-----------------------------------------------------------------------------
(* WHAT ARRIVES                                                            *)

\* What agrees goes on to agree when the same is made of each element, and
\* nothing of nothing.
LEMMA AgreeMapped ==
  ASSUME NEW got, NEW sent, NEW g, NEW s, Agree(got, sent),
         Len(g) = Len(got), Len(s) = Len(sent),
         \A i \in 1..Len(got) : got[i] = Absent => g[i] = Absent,
         \A k \in 1..Len(sent) : sent[k] = Absent => s[k] = Absent,
         \A i \in 1..Len(got), k \in 1..Len(sent) : got[i] = sent[k] => g[i] = s[k]
  PROVE  Agree(g, s)
<1>1. PICK from \in [Present(got) -> Present(sent)] :
        /\ \A k \in Present(sent) : \E i \in Present(got) : from[i] = k
        /\ \A i, j \in Present(got) : i < j => from[i] < from[j]
        /\ \A i \in Present(got) : got[i] = sent[from[i]]
  BY DEF Agree
<1>2. Present(g) \subseteq Present(got) /\ Present(s) \subseteq Present(sent)
  BY DEF Present
<1>3. ASSUME NEW i \in Present(got) PROVE g[i] = s[from[i]] /\ from[i] \in Present(sent)
  <2>1. i \in 1..Len(got) /\ from[i] \in Present(sent) /\ from[i] \in 1..Len(sent)
    BY DEF Present
  <2> QED
    BY <1>1, <2>1
<1>4. ASSUME NEW i \in Present(got) PROVE i \in Present(g) <=> from[i] \in Present(s)
  <2>1. i \in 1..Len(g) /\ from[i] \in 1..Len(s)
    BY <1>3 DEF Present
  <2> QED
    BY <1>3, <2>1 DEF Present
<1> DEFINE new == [i \in Present(g) |-> from[i]]
<1>5. \A i \in Present(g) : new[i] = from[i] /\ i \in Present(got)
  BY <1>2
<1>6. new \in [Present(g) -> Present(s)]
  BY <1>4, <1>5
<1> HIDE DEF new
<1>7. \A k \in Present(s) : \E i \in Present(g) : new[i] = k
  BY <1>1, <1>2, <1>4, <1>5
<1>8. \A i, j \in Present(g) : i < j => new[i] < new[j]
  BY <1>1, <1>5
<1>9. \A i \in Present(g) : g[i] = s[new[i]]
  BY <1>3, <1>5
<1> QED
  BY <1>6, <1>7, <1>8, <1>9 DEF Agree

\* A telegram for which a listener sends nothing.
Valueless(f) ==
  \/ f.code # L_DATA_IND
  \/ ~ToGroup(f.data.flags)
  \/ f.data.payload = Absent
  \/ f.data.payload.kind \notin ValueKinds

\* A unit with a telegram has the bytes of its cEMI frame in a TUNNELLING_REQUEST.
RequestOf(f) ==
  [service : {"TUNNELLING_REQUEST"}, channel : Byte, seq : Byte, cemi : {CemiOut(f)}]

Bears(u, f) ==
  \/ Valueless(f) /\ u.carries[1] = Absent
  \/ \E dpt \in RegisteredDpts : \E v \in DptValues(dpt) : \E d \in DptOut(dpt, v) :
       Brings(f, d) /\ u.carries[1] = dpt /\ u.carries[2] = v

\* What a gateway sends: messages of which no telegram is read, and telegrams with
\* or without a value.
Carried(u) ==
  \/ u.telegram = Absent /\ TelegramsOf(u.body) = {}
  \/ \E f \in CemiFrames : u.telegram = f /\ u.body \in RequestOf(f) /\ Bears(u, f)

LEMMA TelegramIsRead ==
  ASSUME NEW u, Carried(u)
  PROVE  TelegramOf(u.body) = u.telegram
<1>1. CASE u.telegram = Absent /\ TelegramsOf(u.body) = {}
  BY <1>1 DEF TelegramOf
<1>2. ASSUME NEW f \in CemiFrames, u.telegram = f, u.body \in RequestOf(f)
      PROVE  TelegramOf(u.body) = u.telegram
  <2>1. CemiOut(f) \in Seq(Byte) /\ CemiIn(CemiOut(f)) = {f}
    BY TelegramsRoundTrip
  <2>2. u.body.service = "TUNNELLING_REQUEST" /\ u.body.cemi = CemiOut(f)
    BY <1>2 DEF RequestOf
  <2>3. u.body # Absent
    <3>1. u.body \in [service : {"TUNNELLING_REQUEST"}, channel : 0..255, seq : 0..255,
                      cemi : Seq(0..255)]
      BY <1>2, <2>1 DEF RequestOf, Byte
    <3> QED
      BY <3>1, NothingAssumption
  <2>4. TelegramsOf(u.body) = {f}
    BY <2>1, <2>2, <2>3 DEF TelegramsOf
  <2> QED
    BY <1>2, <2>4 DEF TelegramOf
<1> QED
  BY <1>1, <1>2 DEF Carried

LEMMA NothingIsHeard ==
  ASSUME NEW f \in CemiFrames, Valueless(f), NEW u, u.telegram = f, u.carries[1] = Absent
  PROVE  Means(u)
<1>1. ListenerOut({}, Absent, f) = {}
  BY DEF Valueless, ValueKinds, ListenerOut
<1>2. f.data.dst \in Word
  BY DEF CemiFrames, LinkData
<1>3. SameAddress(u.telegram.data.dst)
  BY <1>2, AddressesRoundTrip
<1> QED
  BY <1>1, <1>3 DEF Means

LEMMA CarriedMeans ==
  ASSUME NEW u, Carried(u), u.telegram # Absent
  PROVE  Means(u)
<1>1. PICK f \in CemiFrames : u.telegram = f /\ u.body \in RequestOf(f) /\ Bears(u, f)
  BY DEF Carried
<1>2. CASE Valueless(f) /\ u.carries[1] = Absent
  BY <1>1, <1>2, NothingIsHeard
<1>3. ASSUME NEW dpt \in RegisteredDpts, NEW v \in DptValues(dpt), NEW d \in DptOut(dpt, v),
             Brings(f, d), u.carries[1] = dpt, u.carries[2] = v
      PROVE  Means(u)
  BY <1>1, <1>3, ValueIsShown
<1> QED
  BY <1>1, <1>2, <1>3 DEF Bears

-----------------------------------------------------------------------------
\* The units of a transport are those of the stream it was given.
AreSent == \E s \in Streams : link.units = s.units

LEMMA UnitsStay == LinkInv /\ [LinkNext]_link => link'.units = link.units
<1> SUFFICES ASSUME LinkInv, [LinkNext]_link PROVE link'.units = link.units
  OBVIOUS
<1>0. link = [kind |-> link.kind, units |-> link.units, sock |-> link.sock,
              ended |-> link.ended, closed |-> link.closed, bind |-> link.bind,
              close |-> link.close, stream |-> link.stream, rx |-> link.rx,
              out |-> link.out, arrived |-> link.arrived]
  BY DEF LinkInv, IsLink
<1>1. CASE BindLink
  BY <1>0, <1>1 DEF BindLink
<1>2. CASE LinkOpens
  BY <1>0, <1>2 DEF LinkOpens
<1>3. CASE BindLinkFails
  BY <1>0, <1>3 DEF BindLinkFails
<1>4. CASE ConnectTimeout
  BY <1>0, <1>4 DEF ConnectTimeout
<1>5. CASE PeerEnds
  BY <1>0, <1>5 DEF PeerEnds
<1>6. CASE CloseLink
  BY <1>0, <1>6 DEF CloseLink
<1>7. CASE LinkFlushed
  BY <1>0, <1>7 DEF LinkFlushed
<1>8. CASE LinkCloses
  BY <1>0, <1>8 DEF LinkCloses
<1>9. CASE OnData
  <2> DEFINE n(size) == IF size < Len(link.stream) THEN size ELSE Len(link.stream)
             drained(size) == Drain(link.rx \o SubSeq(link.stream, 1, n(size)), link.out)
             arrived(size) ==
               [i \in 1..Complete(link.units, Len(StreamBytes(link.units))
                                               - (Len(link.stream) - n(size))) |-> i]
  <2>1. PICK size \in ChunkSizes :
          link' = [link EXCEPT !.stream = Rest(@, n(size)), !.rx = drained(size).rx,
                               !.out = drained(size).out, !.arrived = arrived(size)]
    BY <1>9 DEF OnData
  <2> HIDE DEF n, drained, arrived
  <2> QED
    BY <1>0, <2>1
<1>10. CASE OnDatagram
  <2>1. \E o, a : link' = Answered(link, o, a)
    BY <1>10 DEF OnDatagram, Answered
  <2> QED
    BY <1>0, <2>1 DEF Answered
<1>11. CASE UNCHANGED link
  BY <1>11
<1> QED
  BY <1>1, <1>2, <1>3, <1>4, <1>5, <1>6, <1>7, <1>8, <1>9, <1>10, <1>11 DEF LinkNext

LEMMA ArrivedAgree ==
  ASSUME LinkInv, \A k \in 1..Len(link.units) : Carried(link.units[k])
  PROVE  ValuesArrive
<1> DEFINE out == link.out
           arrived == link.arrived
           got == Received(out)
           sent == Delivered(link.units, arrived)
           g == [i \in 1..Len(out) |-> TelegramOf(Received(out)[i])]
           s == [k \in 1..Len(ArrivedUnits) |-> ArrivedUnits[k].telegram]
           unit(k) == link.units[arrived[k]]
<1>1. out \in Seq(Outputs) /\ arrived \in Seq(1..Len(link.units)) /\ Agree(got, sent)
  BY DEF LinkInv, LinkReads
<1>2. Len(out) \in Nat /\ Len(arrived) \in Nat /\ \A k \in 1..Len(arrived) : Carried(unit(k))
  <2>1. \A k \in 1..Len(arrived) : arrived[k] \in 1..Len(link.units)
    BY <1>1
  <2>2. Len(out) \in Nat /\ Len(arrived) \in Nat
    BY <1>1
  <2> QED
    BY <2>1, <2>2
<1>3. /\ Len(ArrivedUnits) = Len(arrived)
      /\ \A k \in 1..Len(arrived) : ArrivedUnits[k] = unit(k)
  BY <1>2 DEF ArrivedUnits
<1>4. Len(got) = Len(out) /\ Len(sent) = Len(arrived) /\ Len(g) = Len(out)
      /\ Len(s) = Len(arrived)
  BY <1>2, <1>3 DEF Received, Delivered
<1>5. \A k \in 1..Len(arrived) : sent[k] = unit(k).body /\ s[k] = unit(k).telegram
  BY <1>3 DEF Delivered
<1>6. \A i \in 1..Len(out) : g[i] = TelegramOf(got[i])
  OBVIOUS
<1> HIDE DEF got, sent, g, s, unit
<1>7. TelegramOf(Absent) = Absent
  BY DEF TelegramOf, TelegramsOf
<1>8. \A k \in 1..Len(arrived) : TelegramOf(sent[k]) = s[k]
  BY <1>2, <1>5, TelegramIsRead
<1>9. Agree(g, s)
  <2>1. \A i \in 1..Len(got) : got[i] = Absent => g[i] = Absent
    BY <1>4, <1>6, <1>7
  <2>2. \A k \in 1..Len(sent) : sent[k] = Absent => s[k] = Absent
    BY <1>4, <1>7, <1>8
  <2>3. \A i \in 1..Len(got), k \in 1..Len(sent) : got[i] = sent[k] => g[i] = s[k]
    BY <1>4, <1>6, <1>8
  <2> QED
    BY <1>1, <1>4, <2>1, <2>2, <2>3, AgreeMapped
<1>10. \A k \in 1..Len(ArrivedUnits) :
       ArrivedUnits[k].telegram # Absent => Means(ArrivedUnits[k])
  BY <1>2, <1>3, CarriedMeans
<1> QED
  BY <1>9, <1>10 DEF ValuesArrive, g, s

\* Whatever telegrams the gateway sends, to any addresses, with any values of any
\* registered datapoint types or with none, among any other messages and stray
\* bytes, in chunks or datagrams: _handleInboundTunnelling makes of what arrives
\* the telegrams that were sent, in their order, and what listener.ts, ets.ts and
\* mqttPublish.ts send for one means the value it was sent with.
THEOREM ValuesAreHeard ==
  ASSUME \A s \in Streams : \A k \in DOMAIN s.units : Carried(s.units[k])
  PROVE  LinkSpec => []ValuesArrive
<1> DEFINE Inv == LinkInv /\ AreSent
<1>1. LinkInit => Inv
  <2>1. LinkInit => AreSent
    BY DEF LinkInit, LinkOf, AreSent
  <2> QED
    BY <2>1, LinkBegins
<1>2. Inv /\ [LinkNext]_link => Inv'
  <2>1. Inv /\ [LinkNext]_link => AreSent'
    BY UnitsStay DEF AreSent
  <2> QED
    BY <2>1, LinkSteps
<1>3. Inv => ValuesArrive
  <2> SUFFICES ASSUME Inv PROVE ValuesArrive
    OBVIOUS
  <2>1. PICK s \in Streams : link.units = s.units
    BY DEF AreSent
  <2>2. DOMAIN s.units = 1..Len(s.units)
    BY <2>1 DEF LinkInv, LinkSent
  <2> QED
    BY <2>1, <2>2, ArrivedAgree
<1> QED
  BY <1>1, <1>2, <1>3, PTL DEF LinkSpec

-----------------------------------------------------------------------------
(* WHAT THE SCENE AND COLOR NODES SEND                                     *)

\* Of the types that are not rounded: the value is encoded as one APDU value, and
\* that is decoded as the value.
LEMMA ValueIsExact ==
  ASSUME NEW dpt \in RegisteredDpts, dpt \notin {<<5, 1>>, <<5, 3>>}, dpt[1] # 9,
         NEW v \in DptValues(dpt)
  PROVE  \E a \in ApduValues : DptOut(dpt, v) = {a} /\ DptIn(dpt, a) = {v}
<1>1. ComesBack(dpt, v)
  BY ValuesRoundTrip
<1>2. PICK a \in ApduValues : \E w :
        DptOut(dpt, v) = {a} /\ DptIn(dpt, a) = {w} /\ Faithful(dpt, v, w)
  BY <1>1 DEF ComesBack
<1>3. PICK w : DptOut(dpt, v) = {a} /\ DptIn(dpt, a) = {w} /\ Faithful(dpt, v, w)
  BY <1>2
<1>4. v = w
  BY <1>3 DEF Faithful
<1> QED
  BY <1>3, <1>4

\* What a node sends is one APDU value of the type dpt, which means v.
SendsValue(outs, dpt, v) ==
  \E a \in ApduValues : outs = {[dpt |-> dpt, apdu |-> a]} /\ DptIn(dpt, a) = {v}

LEMMA OneIsSent ==
  ASSUME NEW dpt \in RegisteredDpts, dpt \notin {<<5, 1>>, <<5, 3>>}, dpt[1] # 9,
         NEW v \in DptValues(dpt), NEW outs,
         outs = {[dpt |-> dpt, apdu |-> a] : a \in DptOut(dpt, v)}
  PROVE  SendsValue(outs, dpt, v)
<1>1. PICK a \in ApduValues : DptOut(dpt, v) = {a} /\ DptIn(dpt, a) = {v}
  BY ValueIsExact
<1>2. outs = {[dpt |-> dpt, apdu |-> x] : x \in {a}}
  BY <1>1
<1>3. outs = {[dpt |-> dpt, apdu |-> a]}
  BY <1>2
<1> QED
  BY <1>1, <1>3 DEF SendsValue

SceneMeant(dpt, scene, control) ==
  IF dpt = <<17, 1>> THEN <<scene>> ELSE [scene |-> scene, flag |-> control = "learn"]

ColorDpt(mode) == IF mode = "rgb" THEN <<232, 600>> ELSE <<251, 600>>

ColorMeant(mode, rgb, white) ==
  IF mode = "rgb" THEN rgb
  ELSE [channels |-> Append(rgb, IF white = Absent THEN 0 ELSE white),
        valid |-> [i \in 1..4 |-> TRUE]]

LEMMA SeventeenIs ==
  /\ IntegerType(17) = Dpt17
  /\ Dpt17.n = 1 /\ Dpt17.signed = FALSE /\ Dpt17.top = 63 /\ 1 \in Dpt17.subs
<1>1. IntegerType(17) = Dpt17
  BY DEF IntegerType
<1> QED
  BY <1>1 DEF Dpt17, Integer

\* In each mode the scene node sends one telegram for a scene number in its range,
\* and the color node one for bytes, and whoever decodes it with the node's type
\* has the number and whether it is to be learned, or the channels; for other
\* numbers they send none.
THEOREM ScenesAndColorsAreSent ==
  /\ \A mode \in {"auto", <<17, 1>>, <<18, 1>>}, control \in {"activate", "learn", Absent} :
       \A scene \in Int :
         LET outs == SceneOutOf(mode, scene, control)
             dpt == SceneDpt(mode, control)
         IN  IF scene \in 0..63 THEN SendsValue(outs, dpt, SceneMeant(dpt, scene, control))
             ELSE outs = {}
  /\ \A mode \in {"rgb", "rgbw"}, white \in Int \cup {Absent} :
       \A rgb \in Seq(Int) :
         LET outs == ColorOutOf(mode, rgb, white)
         IN  Len(rgb) = 3 =>
               IF rgb \in Seq(Byte) /\ white \in Byte \cup {Absent}
               THEN SendsValue(outs, ColorDpt(mode), ColorMeant(mode, rgb, white))
               ELSE outs = {}
<1>1. ASSUME NEW mode \in {"auto", <<17, 1>>, <<18, 1>>}, NEW scene \in 0..63,
             NEW control \in {"activate", "learn", Absent}
      PROVE  SendsValue(SceneOutOf(mode, scene, control), SceneDpt(mode, control),
                        SceneMeant(SceneDpt(mode, control), scene, control))
  <2> DEFINE dpt == SceneDpt(mode, control)
             v == SceneMeant(dpt, scene, control)
  <2>1. dpt \in {<<17, 1>>, <<18, 1>>}
    BY DEF SceneDpt
  <2>2. SceneOutOf(mode, scene, control) = {[dpt |-> dpt, apdu |-> a] : a \in DptOut(dpt, v)}
    BY DEF SceneOutOf, SceneMeant
  <2> HIDE DEF dpt
  <2>3. dpt \in RegisteredDpts /\ dpt \notin {<<5, 1>>, <<5, 3>>} /\ dpt[1] # 9
    <3>1. <<17, 1>> \in IntegerIds
      <4>1. IntegerType(17) = Dpt17 /\ 1 \in Dpt17.subs
        BY SeventeenIs
      <4>2. <<17, 1>> \in Subs(17, IntegerType(17).subs)
        BY <4>1 DEF Subs
      <4> QED
        BY <4>2 DEF IntegerIds
    <3>2. <<18, 1>> \in Subs(18, {1})
      BY DEF Subs
    <3> QED
      BY <2>1, <3>1, <3>2 DEF RegisteredDpts
  <2>4. v \in DptValues(dpt)
    <3>1. CASE dpt = <<17, 1>>
      <4>1. v = <<scene>>
        BY <3>1 DEF SceneMeant
      <4>2. DptValues(dpt) = IntegerValues(IntegerType(17))
        BY <3>1 DEF DptValues, ScaledIds
      <4>3. IntegerType(17) = Dpt17 /\ Dpt17.n = 1 /\ Dpt17.signed = FALSE /\ Dpt17.top = 63
        BY SeventeenIs
      <4>4. <<scene>> \in Seq(Int) /\ Len(<<scene>>) = 1 /\ <<scene>>[1] = scene
        OBVIOUS
      <4> QED
        BY <4>1, <4>2, <4>3, <4>4 DEF IntegerValues
    <3>2. CASE dpt = <<18, 1>>
      <4>1. v = [scene |-> scene, flag |-> control = "learn"]
        BY <3>2 DEF SceneMeant
      <4>2. DptValues(dpt) = Scenes
        BY <3>2 DEF DptValues, ScaledIds
      <4> QED
        BY <4>1, <4>2 DEF Scenes
    <3> QED
      BY <2>1, <3>1, <3>2
  <2> HIDE DEF v
  <2>5. SendsValue(SceneOutOf(mode, scene, control), dpt, v)
    BY <2>2, <2>3, <2>4, OneIsSent
  <2> QED
    BY <2>5 DEF dpt, v
<1>2. ASSUME NEW mode, NEW control, NEW scene \in Int, scene \notin 0..63
      PROVE  SceneOutOf(mode, scene, control) = {}
  BY <1>2 DEF SceneOutOf
<1> DEFINE Last(white) == IF white = Absent THEN 0 ELSE white
           Channels(rgb, white) == Append(rgb, Last(white))
<1>3. ASSUME NEW rgb \in Seq(Int), Len(rgb) = 3, NEW white \in Int \cup {Absent}
      PROVE  /\ (\A i \in 1..4 : Channels(rgb, white)[i] \in 0..255) <=>
                  rgb \in Seq(Byte) /\ white \in Byte \cup {Absent}
             /\ rgb \in Seq(Byte) /\ white \in Byte \cup {Absent} =>
                  rgb \in ByteString(3) /\ Channels(rgb, white) \in ByteString(4)
  <2>1. Last(white) \in Int
    OBVIOUS
  <2>2. Last(white) \in 0..255 <=> white \in Byte \cup {Absent}
    BY AbsentAssumption DEF Byte
  <2> DEFINE last == Last(white)
             c == Append(rgb, last)
  <2> HIDE DEF last
  <2>3. c[1] = rgb[1] /\ c[2] = rgb[2] /\ c[3] = rgb[3] /\ c[4] = last /\ Len(c) = 4
    <3>1. last \in Int
      BY <2>1 DEF last
    <3>2. Len(c) = Len(rgb) + 1 /\ c[Len(rgb) + 1] = last
          /\ \A i \in 1..Len(rgb) : c[i] = rgb[i]
      BY ONLY <3>1, rgb \in Seq(Int) DEF c
    <3> QED
      BY <1>3, <3>2
  <2>4. rgb = <<rgb[1], rgb[2], rgb[3]>>
    BY <1>3
  <2>5. rgb \in Seq(Byte) <=> rgb[1] \in Byte /\ rgb[2] \in Byte /\ rgb[3] \in Byte
    <3>1. rgb \in Seq(Byte) => rgb[1] \in Byte /\ rgb[2] \in Byte /\ rgb[3] \in Byte
      BY <1>3
    <3>2. rgb[1] \in Byte /\ rgb[2] \in Byte /\ rgb[3] \in Byte =>
            <<rgb[1], rgb[2], rgb[3]>> \in Seq(Byte)
      OBVIOUS
    <3> QED
      BY <2>4, <3>1, <3>2
  <2>6. (\A i \in 1..4 : c[i] \in 0..255) <=>
          c[1] \in 0..255 /\ c[2] \in 0..255 /\ c[3] \in 0..255 /\ c[4] \in 0..255
    <3>1. 1..4 = {1, 2, 3, 4}
      OBVIOUS
    <3> QED
      BY <3>1
  <2>7. rgb \in Seq(Byte) /\ last \in Byte => c \in Seq(Byte)
    OBVIOUS
  <2> HIDE DEF c
  <2>8. (\A i \in 1..4 : c[i] \in 0..255) <=> rgb \in Seq(Byte) /\ white \in Byte \cup {Absent}
    BY <2>2, <2>3, <2>5, <2>6 DEF Byte, last
  <2>9. rgb \in Seq(Byte) /\ white \in Byte \cup {Absent} =>
          rgb \in ByteString(3) /\ c \in ByteString(4)
    BY <1>3, <2>2, <2>3, <2>7 DEF ByteString, Byte, last
  <2> QED
    BY <2>8, <2>9 DEF c, last
<1> HIDE DEF Channels
<1>4. ASSUME NEW mode \in {"rgb", "rgbw"}, NEW white \in Int \cup {Absent},
             NEW rgb \in Seq(Int), Len(rgb) = 3
      PROVE  IF rgb \in Seq(Byte) /\ white \in Byte \cup {Absent}
             THEN SendsValue(ColorOutOf(mode, rgb, white), ColorDpt(mode),
                             ColorMeant(mode, rgb, white))
             ELSE ColorOutOf(mode, rgb, white) = {}
  <2> DEFINE ch == Channels(rgb, white)
             dpt == ColorDpt(mode)
             v == ColorMeant(mode, rgb, white)
  <2>1. ASSUME ~(rgb \in Seq(Byte) /\ white \in Byte \cup {Absent})
        PROVE  ColorOutOf(mode, rgb, white) = {}
    <3>1. \E i \in 1..4 : ch[i] \notin 0..255
      BY <1>3, <1>4, <2>1
    <3> QED
      BY <3>1 DEF ColorOutOf, Channels
  <2>2. ASSUME rgb \in Seq(Byte) /\ white \in Byte \cup {Absent}
        PROVE  SendsValue(ColorOutOf(mode, rgb, white), dpt, v)
    <3>1. rgb \in ByteString(3) /\ ch \in ByteString(4) /\ \A i \in 1..4 : ch[i] \in 0..255
      BY <1>3, <1>4, <2>2
    <3>2. ColorOutOf(mode, rgb, white) = {[dpt |-> dpt, apdu |-> a] : a \in DptOut(dpt, v)}
      <4>1. ColorOutOf(mode, rgb, white) =
              {[dpt |-> dpt, apdu |-> a] :
                 a \in IF \E i \in 1..4 : ch[i] \notin 0..255 THEN {}
                       ELSE IF mode = "rgb" THEN DptOut(dpt, rgb)
                       ELSE DptOut(dpt, [channels |-> ch, valid |-> [i \in 1..4 |-> TRUE]])}
        BY DEF ColorOutOf, Channels, ColorDpt
      <4>2. v = IF mode = "rgb" THEN rgb
                ELSE [channels |-> ch, valid |-> [i \in 1..4 |-> TRUE]]
        BY DEF ColorMeant, Channels
      <4> HIDE DEF dpt, v
      <4>3. ~(\E i \in 1..4 : ch[i] \notin 0..255)
        BY <3>1
      <4>4. CASE mode = "rgb"
        BY <4>1, <4>2, <4>3, <4>4
      <4>5. CASE mode # "rgb"
        BY <4>1, <4>2, <4>3, <4>5
      <4> QED
        BY <4>4, <4>5
    <3>3. dpt \in {<<232, 600>>, <<251, 600>>}
      BY DEF ColorDpt
    <3>4. dpt \in RegisteredDpts /\ dpt \notin {<<5, 1>>, <<5, 3>>} /\ dpt[1] # 9
      <4>1. dpt \in Subs(232, {600}) \/ dpt \in Subs(251, {600})
        BY <3>3 DEF Subs
      <4>2. dpt \in RegisteredDpts
        BY <4>1 DEF RegisteredDpts
      <4>3. dpt[1] \in {232, 251}
        BY <3>3
      <4> QED
        BY <4>2, <4>3
    <3>5. v \in DptValues(dpt)
      <4>1. CASE mode = "rgb"
        <5>1. v = rgb /\ dpt = <<232, 600>>
          BY <4>1 DEF ColorMeant, ColorDpt
        <5>2. DptValues(dpt) = ByteString(3)
          BY <5>1 DEF DptValues, ScaledIds
        <5> QED
          BY <3>1, <5>1, <5>2
      <4>2. CASE mode # "rgb"
        <5>1. v = [channels |-> ch, valid |-> [i \in 1..4 |-> TRUE]] /\ dpt = <<251, 600>>
          BY <4>2 DEF ColorMeant, ColorDpt, Channels
        <5>2. DptValues(dpt) = Rgbws
          BY <5>1 DEF DptValues, ScaledIds
        <5> QED
          BY <3>1, <5>1, <5>2 DEF Rgbws
      <4> QED
        BY <4>1, <4>2
    <3> HIDE DEF dpt, v
    <3> QED
      BY <3>2, <3>4, <3>5, OneIsSent
  <2> QED
    BY <2>1, <2>2
<1> QED
  BY <1>1, <1>2, <1>4
=============================================================================
