------------------------ MODULE TunnelReceive_proofs ------------------------
(***************************************************************************)
(* Theorems about TunnelReceive, for every modulus, lifetime and bound     *)
(* that satisfy its assumptions.  The counter keeps its width.  Unless a   *)
(* request overtakes the CONNECT_RESPONSE, the telegrams of a channel are  *)
(* emitted in order, each once, and only those are acknowledged.           *)
(*                                                                         *)
(* The argument: the client is where the gateway is or one telegram ahead  *)
(* (GatewayInv), so that the counter of a datagram that is still alive     *)
(* tells its position (RequestIsNext, RequestIsLast).                      *)
(***************************************************************************)
EXTENDS TunnelReceive, CounterArithmetic, SequenceTheorems, TLAPS

-----------------------------------------------------------------------------
(* The inductive invariant.                                                 *)

ClientInv ==
  /\ link # "down" => gchan # 0
  /\ link = "up" => seqIn = Len(emitted[gchan]) % SeqMod
  /\ link = "opening" => \A r \in inRequests : r.chan # gchan
  /\ link = "opening" => gpos = 0 /\ emitted[gchan] = <<>>
  /\ \A c \in Channel : c > gchan => emitted[c] = <<>>

GatewayInv ==
  gchan # 0 => gpos <= Len(emitted[gchan]) /\ Len(emitted[gchan]) <= gpos + 1

RequestInv ==
  \A r \in inRequests :
    /\ r.chan <= gchan
    /\ r.seq = r.pos % SeqMod
    /\ r.chan = gchan => r.pos <= gpos

AckInv == \A a \in inAcks : a.pos < Len(emitted[a.chan])

IInv ==
  /\ ReceiveTypeOK
  /\ ClientInv
  /\ GatewayInv
  /\ RequestInv
  /\ AckInv
  /\ EmittedInOrder

-----------------------------------------------------------------------------
(* Type correctness.                                                        *)

LEMMA Sizes ==
  /\ SeqMod \in Nat /\ Lifetime \in Nat /\ MaxTelegrams \in Nat
  /\ MaxChannels \in Nat /\ SeqMod > 1
  BY SizesAssumption, LifetimeAssumption

LEMMA NextType == ReceiveTypeOK /\ [ReceiveNext]_receiveVars => ReceiveTypeOK'
<1> SUFFICES ASSUME ReceiveTypeOK, [ReceiveNext]_receiveVars PROVE ReceiveTypeOK'
  OBVIOUS
<1>1. CASE Open
  BY <1>1, Sizes DEF Open, ReceiveTypeOK, network
<1>2. CASE Connected
  BY <1>2, Sizes DEF Connected, ReceiveTypeOK, sender, network
<1>3. CASE ConnectFails
  BY <1>3 DEF ConnectFails, ReceiveTypeOK, sender, network
<1>4. CASE LinkLost
  BY <1>4 DEF LinkLost, ReceiveTypeOK, sender, network
<1>5. CASE InvalidSeqTimeout
  BY <1>5 DEF InvalidSeqTimeout, ReceiveTypeOK, sender, network
<1>6. ASSUME NEW r \in inRequests, Accept(r) PROVE ReceiveTypeOK'
  <2>1. seqIn' \in 0..SeqMod - 1
    <3>1. seqIn + 1 \in Int
      BY DEF ReceiveTypeOK
    <3> QED
      BY <1>6, <3>1, Sizes, DivMod DEF Accept
  <2>2. emitted' \in [Channel -> Seq(Nat)]
    <3>1. r.chan \in Channel /\ r.pos \in Nat
      BY DEF ReceiveTypeOK, InRequest
    <3>2. Append(emitted[r.chan], r.pos) \in Seq(Nat)
      BY <3>1 DEF ReceiveTypeOK
    <3> QED
      BY <1>6, <3>1, <3>2 DEF Accept, ReceiveTypeOK
  <2> QED
    BY <1>6, <2>1, <2>2 DEF Accept, SendAck, ReceiveTypeOK, sender
<1>7. ASSUME NEW r \in inRequests, Duplicate(r) PROVE ReceiveTypeOK'
  BY <1>7 DEF Duplicate, SendAck, ReceiveTypeOK, receiver, sender
<1>8. ASSUME NEW r \in inRequests, OutOfOrder(r) PROVE ReceiveTypeOK'
  BY <1>8 DEF OutOfOrder, ReceiveTypeOK, sender, network
<1>9. CASE GatewayRequests
  <2>1. gpos % SeqMod \in 0..SeqMod - 1
    BY Sizes, DivMod DEF ReceiveTypeOK
  <2>2. [chan |-> gchan, seq |-> gpos % SeqMod, pos |-> gpos] \in InRequest
    BY <1>9, <2>1, Sizes DEF GatewayRequests, ReceiveTypeOK, InRequest, Channel
  <2> QED
    BY <1>9, <2>2 DEF GatewayRequests, ReceiveTypeOK, receiver, sender
<1>10. ASSUME NEW a \in inAcks, GatewayGoesOn(a) PROVE ReceiveTypeOK'
  BY <1>10 DEF GatewayGoesOn, ReceiveTypeOK, receiver, network
<1>11. CASE UNCHANGED receiveVars
  BY <1>11 DEF receiveVars, ReceiveTypeOK, receiver, sender, network
<1> QED
  BY <1>1, <1>2, <1>3, <1>4, <1>5, <1>6, <1>7, <1>8, <1>9, <1>10, <1>11 DEF ReceiveNext

LEMMA InitType == ReceiveInit => ReceiveTypeOK
<1> SUFFICES ASSUME ReceiveInit PROVE ReceiveTypeOK
  OBVIOUS
<1>1. 0 \in 0..SeqMod - 1 /\ 0 \in 0..MaxChannels /\ <<>> \in Seq(Nat)
  BY Sizes
<1>2. emitted \in [Channel -> Seq(Nat)]
  BY <1>1 DEF ReceiveInit
<1> QED
  BY <1>1, <1>2 DEF ReceiveInit, ReceiveTypeOK

\* _seqIn stays within its width and every datagram keeps its format, whatever
\* overtakes what.
THEOREM TypeCorrect == ReceiveSpec => []ReceiveTypeOK
  BY InitType, NextType, PTL DEF ReceiveSpec

-----------------------------------------------------------------------------
(* What the counter of a live datagram tells.                               *)

LEMMA Ranges ==
  ASSUME IInv, NEW r \in inRequests, r.chan = gchan
  PROVE  /\ gchan \in Channel /\ r.pos \in Nat /\ gpos \in Nat
         /\ Len(emitted[gchan]) \in Nat
         /\ gpos <= Len(emitted[gchan]) /\ Len(emitted[gchan]) <= gpos + 1
         /\ r.pos <= gpos /\ r.seq = r.pos % SeqMod
<1>1. gchan \in Channel /\ gchan # 0 /\ r.pos \in Nat
  BY Sizes DEF IInv, ReceiveTypeOK, InRequest, Channel
<1> QED
  BY <1>1 DEF IInv, ReceiveTypeOK, GatewayInv, RequestInv

LEMMA HandledUp ==
  ASSUME IInv, NEW r \in inRequests, Handles(r)
  PROVE  link = "up" /\ r.chan = gchan /\ seqIn = Len(emitted[gchan]) % SeqMod
  BY DEF IInv, ClientInv, ReceiveTypeOK, Handles, InNetwork

LEMMA RequestIsNext ==
  ASSUME IInv, NEW r \in inRequests, Handles(r), r.seq = seqIn
  PROVE  r.pos = Len(emitted[gchan])
<1> DEFINE n == Len(emitted[gchan])
<1>1. r.chan = gchan /\ seqIn = n % SeqMod
  BY HandledUp
<1>2. /\ r.pos \in Nat /\ gpos \in Nat /\ n \in Nat /\ gpos <= n /\ n <= gpos + 1
      /\ r.pos <= gpos /\ r.seq = r.pos % SeqMod
  BY <1>1, Ranges
<1>3. n - r.pos < SeqMod /\ r.pos - n < SeqMod
  BY <1>2, Sizes, LifetimeAssumption DEF Handles, InNetwork
<1>4. SeqMod \in Nat /\ SeqMod > 0 /\ r.pos \in Int /\ n \in Int
  BY <1>2, Sizes
<1>5. r.pos % SeqMod = n % SeqMod
  BY <1>1, <1>2
<1> HIDE DEF n
<1>6. r.pos = n
  BY <1>3, <1>4, <1>5, ModInjective, Zenon
<1> QED
  BY <1>6 DEF n

LEMMA RequestIsLast ==
  ASSUME IInv, NEW r \in inRequests, Handles(r), r.seq = Previous
  PROVE  r.pos < Len(emitted[gchan])
<1> DEFINE n == Len(emitted[gchan])
           m == n - 1
<1>1. r.chan = gchan /\ seqIn = n % SeqMod
  BY HandledUp
<1>2. /\ r.pos \in Nat /\ gpos \in Nat /\ n \in Nat /\ gpos <= n /\ n <= gpos + 1
      /\ r.pos <= gpos /\ r.seq = r.pos % SeqMod
  BY <1>1, Ranges
<1>3. m - r.pos < SeqMod /\ r.pos - m < SeqMod
  BY <1>2, Sizes, LifetimeAssumption DEF Handles, InNetwork
<1>4. SeqMod \in Nat /\ SeqMod > 0 /\ r.pos \in Int /\ m \in Int
  BY <1>2, Sizes
<1>5. r.pos % SeqMod = m % SeqMod
  <2> HIDE DEF n
  <2>1. ((n % SeqMod) - 1) % SeqMod = (n - 1) % SeqMod
    BY <1>2, Sizes, ModDecrement
  <2> QED
    BY <1>1, <1>2, <2>1 DEF Previous
<1> HIDE DEF m
<1>6. r.pos = m
  BY <1>3, <1>4, <1>5, ModInjective, Zenon
<1> QED
  BY <1>2, <1>6 DEF m

-----------------------------------------------------------------------------
(* The invariant is inductive.                                              *)

LEMMA InitIInv == ReceiveInit => IInv
<1> SUFFICES ASSUME ReceiveInit PROVE IInv
  OBVIOUS
<1>1. ReceiveTypeOK
  BY InitType
<1>2. ClientInv /\ GatewayInv /\ RequestInv /\ AckInv
  BY DEF ReceiveInit, ClientInv, GatewayInv, RequestInv, AckInv
<1>3. EmittedInOrder
  BY DEF ReceiveInit, EmittedInOrder
<1> QED
  BY <1>1, <1>2, <1>3 DEF IInv

LEMMA OpenStep == IInv /\ Open => IInv'
<1> SUFFICES ASSUME IInv, Open PROVE IInv'
  OBVIOUS
<1>1. ReceiveTypeOK'
  BY NextType DEF IInv, ReceiveNext
<1>2. /\ gchan \in Nat /\ gchan' = gchan + 1 /\ gchan' \in Channel /\ gpos' = 0
      /\ emitted' = emitted /\ inRequests' = inRequests /\ inAcks' = inAcks
      /\ link' = "opening"
  BY Sizes DEF IInv, ReceiveTypeOK, Open, Channel, network
<1>3. emitted[gchan'] = <<>>
  BY <1>2 DEF IInv, ClientInv
<1>4. \A r \in inRequests : r.chan <= gchan /\ r.chan \in Nat
  BY DEF IInv, ReceiveTypeOK, RequestInv, InRequest, Channel
<1>5. ClientInv'
  <2>1. \A c \in Channel : c > gchan' => emitted[c] = <<>>
    BY <1>2 DEF IInv, ClientInv, Channel
  <2>2. \A r \in inRequests : r.chan # gchan'
    BY <1>2, <1>4
  <2> QED
    BY <1>2, <1>3, <2>1, <2>2 DEF ClientInv
<1>6. GatewayInv'
  BY <1>2, <1>3 DEF GatewayInv
<1>7. RequestInv'
  BY <1>2, <1>4 DEF IInv, RequestInv
<1>8. AckInv' /\ EmittedInOrder'
  BY <1>2 DEF IInv, AckInv, EmittedInOrder
<1> QED
  BY <1>1, <1>5, <1>6, <1>7, <1>8 DEF IInv

\* Steps that leave the gateway, the network and what was emitted alone.
LEMMA LinkStep ==
  ASSUME IInv, ReceiveTypeOK', UNCHANGED <<emitted, sender, network>>,
         \/ link' = "down"
         \/ link' = "up" /\ gchan # 0 /\ seqIn' = Len(emitted[gchan]) % SeqMod
         \/ link' = link /\ seqIn' = seqIn
  PROVE  IInv'
<1>1. ClientInv'
  BY DEF IInv, ClientInv, sender, network
<1>2. GatewayInv' /\ RequestInv' /\ AckInv' /\ EmittedInOrder'
  BY DEF IInv, GatewayInv, RequestInv, AckInv, EmittedInOrder, sender, network
<1> QED
  BY <1>1, <1>2 DEF IInv

LEMMA ConnectedStep == IInv /\ Connected => IInv'
<1> SUFFICES ASSUME IInv, Connected PROVE IInv'
  OBVIOUS
<1>1. ReceiveTypeOK'
  BY NextType DEF IInv, ReceiveNext
<1>2. gchan # 0 /\ emitted[gchan] = <<>>
  BY DEF IInv, ClientInv, Connected
<1>3. seqIn' = Len(emitted[gchan]) % SeqMod
  BY <1>2, Sizes, ModZero DEF Connected
<1> QED
  BY <1>1, <1>2, <1>3, LinkStep DEF Connected

LEMMA AcceptStep ==
  ASSUME NEW r \in inRequests PROVE IInv /\ Accept(r) => IInv'
<1> SUFFICES ASSUME IInv, Accept(r) PROVE IInv'
  OBVIOUS
<1> DEFINE n == Len(emitted[gchan])
<1>1. ReceiveTypeOK'
  BY NextType DEF IInv, ReceiveNext
<1>2. link = "up" /\ r.chan = gchan /\ seqIn = n % SeqMod
  BY HandledUp DEF Accept
<1>3. r.pos = n
  BY RequestIsNext DEF Accept
<1>4. /\ gchan \in Channel /\ r.pos \in Nat /\ gpos \in Nat /\ n \in Nat
      /\ gpos <= n /\ n <= gpos
      /\ Channel \subseteq Nat
  BY <1>2, <1>3, Ranges DEF Channel
<1>5. /\ emitted' = [emitted EXCEPT ![gchan] = Append(emitted[gchan], n)]
      /\ inAcks' = inAcks \cup {r} /\ link' = link /\ inRequests' = inRequests
      /\ gchan' = gchan /\ gpos' = gpos
  BY <1>2, <1>3 DEF Accept, SendAck, sender
<1>6. /\ Len(emitted'[gchan]) = n + 1
      /\ \A i \in 1..n : emitted'[gchan][i] = emitted[gchan][i]
      /\ emitted'[gchan][n + 1] = n
      /\ \A c \in Channel : c # gchan => emitted'[c] = emitted[c]
  BY <1>4, <1>5 DEF IInv, ReceiveTypeOK
<1>7. ClientInv'
  <2>1. seqIn' = (n + 1) % SeqMod
    <3> HIDE DEF n
    <3> QED
      BY <1>2, <1>4, Sizes, ModIncrement DEF Accept
  <2>2. \A c \in Channel : c > gchan => emitted'[c] = <<>>
    BY <1>4, <1>6 DEF IInv, ClientInv
  <2> QED
    BY <1>2, <1>5, <1>6, <2>1, <2>2 DEF IInv, ClientInv
<1>8. GatewayInv'
  BY <1>4, <1>5, <1>6 DEF GatewayInv
<1>9. RequestInv'
  BY <1>5 DEF IInv, RequestInv
<1>10. AckInv'
  <2> SUFFICES ASSUME NEW a \in inAcks' PROVE a.pos < Len(emitted'[a.chan])
    BY DEF AckInv
  <2>1. a.chan \in Channel /\ a.pos \in Nat
    BY <1>5 DEF IInv, ReceiveTypeOK, InRequest
  <2>2. CASE a = r
    BY <1>2, <1>3, <1>4, <1>6, <2>2
  <2>3. CASE a \in inAcks
    <3>1. a.pos < Len(emitted[a.chan])
      BY <2>3 DEF IInv, AckInv
    <3>2. CASE a.chan = gchan
      BY <1>4, <1>6, <2>1, <3>1, <3>2
    <3>3. CASE a.chan # gchan
      BY <1>6, <2>1, <3>1, <3>3
    <3> QED
      BY <3>2, <3>3
  <2> QED
    BY <1>5, <2>2, <2>3
<1>11. EmittedInOrder'
  <2> SUFFICES ASSUME NEW c \in Channel, NEW i \in 1..Len(emitted'[c])
               PROVE  emitted'[c][i] = i - 1
    BY DEF EmittedInOrder
  <2>1. CASE c # gchan
    BY <1>6, <2>1 DEF IInv, EmittedInOrder
  <2>2. CASE c = gchan /\ i = n + 1
    BY <1>4, <1>6, <2>2
  <2>3. CASE c = gchan /\ i # n + 1
    <3>1. i \in 1..n
      BY <1>4, <1>6, <2>3
    <3> QED
      BY <1>6, <2>3, <3>1 DEF IInv, EmittedInOrder
  <2> QED
    BY <2>1, <2>2, <2>3
<1> QED
  BY <1>1, <1>7, <1>8, <1>9, <1>10, <1>11 DEF IInv

LEMMA DuplicateStep ==
  ASSUME NEW r \in inRequests PROVE IInv /\ Duplicate(r) => IInv'
<1> SUFFICES ASSUME IInv, Duplicate(r) PROVE IInv'
  OBVIOUS
<1>1. ReceiveTypeOK'
  BY NextType DEF IInv, ReceiveNext
<1>2. r.pos < Len(emitted[r.chan])
  BY HandledUp, RequestIsLast DEF Duplicate
<1>3. AckInv'
  BY <1>2 DEF IInv, AckInv, Duplicate, SendAck, receiver
<1>4. ClientInv' /\ GatewayInv' /\ RequestInv' /\ EmittedInOrder'
  BY DEF IInv, ClientInv, GatewayInv, RequestInv, EmittedInOrder, Duplicate,
         receiver, sender
<1> QED
  BY <1>1, <1>3, <1>4 DEF IInv

LEMMA GatewaySendsStep ==
  ASSUME ~EarlyRequests PROVE IInv /\ GatewayRequests => IInv'
<1> SUFFICES ASSUME IInv, GatewayRequests PROVE IInv'
  OBVIOUS
<1>1. ReceiveTypeOK'
  BY NextType DEF IInv, ReceiveNext
<1> DEFINE new == [chan |-> gchan, seq |-> gpos % SeqMod, pos |-> gpos]
<1>2. /\ new.chan = gchan /\ new.seq = gpos % SeqMod /\ new.pos = gpos
      /\ inRequests' = inRequests \cup {new}
      /\ UNCHANGED <<receiver, sender, inAcks>> /\ link = "up"
  BY DEF GatewayRequests
<1> HIDE DEF new
<1>3. gchan \in Nat /\ gpos \in Nat
  BY DEF IInv, ReceiveTypeOK
<1>4. RequestInv'
  BY <1>2, <1>3 DEF IInv, RequestInv, sender
<1>5. ClientInv' /\ GatewayInv' /\ AckInv' /\ EmittedInOrder'
  BY <1>2 DEF IInv, ClientInv, GatewayInv, AckInv, EmittedInOrder, receiver, sender
<1> QED
  BY <1>1, <1>4, <1>5 DEF IInv

\* The telegram the gateway moves on from has been emitted.
LEMMA GatewayGoesOnStep ==
  ASSUME NEW a \in inAcks PROVE IInv /\ GatewayGoesOn(a) => IInv'
<1> SUFFICES ASSUME IInv, GatewayGoesOn(a) PROVE IInv'
  OBVIOUS
<1>1. ReceiveTypeOK'
  BY NextType DEF IInv, ReceiveNext
<1>2. a \in inRequests /\ a.chan = gchan
  BY DEF IInv, ReceiveTypeOK, GatewayGoesOn, InNetwork
<1>3. /\ a.pos \in Nat /\ gpos \in Nat /\ gchan \in Channel
      /\ a.pos <= gpos /\ a.seq = a.pos % SeqMod
      /\ Len(emitted[gchan]) \in Nat /\ Len(emitted[gchan]) <= gpos + 1
  BY <1>2, Ranges
<1>4. gpos - a.pos < SeqMod /\ a.pos - gpos < SeqMod
  BY <1>3, Sizes, LifetimeAssumption DEF GatewayGoesOn, InNetwork
<1>5. a.pos % SeqMod = gpos % SeqMod
  BY <1>3 DEF GatewayGoesOn
<1>6. SeqMod \in Nat /\ SeqMod > 0 /\ a.pos \in Int /\ gpos \in Int
  BY <1>3, Sizes
<1>7. a.pos = gpos
  BY <1>4, <1>5, <1>6, ModInjective, Zenon
<1>8. gpos < Len(emitted[gchan])
  BY <1>2, <1>7 DEF IInv, AckInv
<1>9. gpos' = gpos + 1 /\ gchan' = gchan /\ UNCHANGED <<receiver, network>>
  BY DEF GatewayGoesOn
<1>10. GatewayInv'
  BY <1>3, <1>8, <1>9 DEF GatewayInv, receiver
<1>11. ClientInv'
  <2>1. link # "opening"
    BY <1>2 DEF IInv, ClientInv
  <2> QED
    BY <1>9, <2>1 DEF IInv, ClientInv, receiver, network
<1>12. RequestInv'
  <2>1. \A r \in inRequests : r.pos \in Nat
    BY DEF IInv, ReceiveTypeOK, InRequest
  <2> QED
    BY <1>3, <1>9, <2>1 DEF IInv, RequestInv, network
<1>13. AckInv' /\ EmittedInOrder'
  BY <1>9 DEF IInv, AckInv, EmittedInOrder, receiver, network
<1> QED
  BY <1>1, <1>10, <1>11, <1>12, <1>13 DEF IInv

LEMMA NextIInv ==
  ASSUME ~EarlyRequests PROVE IInv /\ [ReceiveNext]_receiveVars => IInv'
<1> SUFFICES ASSUME IInv, [ReceiveNext]_receiveVars PROVE IInv'
  OBVIOUS
<1>0. ReceiveTypeOK'
  BY NextType DEF IInv
<1>1. CASE Open
  BY <1>1, OpenStep
<1>2. CASE Connected
  BY <1>2, ConnectedStep
<1>3. CASE ConnectFails
  BY <1>0, <1>3, LinkStep DEF ConnectFails
<1>4. CASE LinkLost
  BY <1>0, <1>4, LinkStep DEF LinkLost
<1>5. CASE InvalidSeqTimeout
  BY <1>0, <1>5, LinkStep DEF InvalidSeqTimeout
<1>6. ASSUME NEW r \in inRequests, Accept(r) PROVE IInv'
  BY <1>6, AcceptStep
<1>7. ASSUME NEW r \in inRequests, Duplicate(r) PROVE IInv'
  BY <1>7, DuplicateStep
<1>8. ASSUME NEW r \in inRequests, OutOfOrder(r) PROVE IInv'
  BY <1>0, <1>8, LinkStep DEF OutOfOrder
<1>9. CASE GatewayRequests
  BY <1>9, GatewaySendsStep
<1>10. ASSUME NEW a \in inAcks, GatewayGoesOn(a) PROVE IInv'
  BY <1>10, GatewayGoesOnStep
<1>11. CASE UNCHANGED receiveVars
  BY <1>0, <1>11, LinkStep DEF receiveVars, receiver
<1> QED
  BY <1>1, <1>2, <1>3, <1>4, <1>5, <1>6, <1>7, <1>8, <1>9, <1>10, <1>11 DEF ReceiveNext

-----------------------------------------------------------------------------
(* The theorems.                                                            *)

\* Duplicate suppression: each telegram of a channel is emitted once, in the
\* gateway's order, unless a request overtakes the CONNECT_RESPONSE.
THEOREM ExactlyOnce == ~EarlyRequests => (ReceiveSpec => []EmittedInOrder)
<1> SUFFICES ASSUME ~EarlyRequests PROVE ReceiveSpec => []EmittedInOrder
  OBVIOUS
<1>1. ReceiveInit => IInv
  BY InitIInv
<1>2. IInv /\ [ReceiveNext]_receiveVars => IInv'
  BY NextIInv
<1>3. IInv => EmittedInOrder
  BY DEF IInv
<1> QED
  BY <1>1, <1>2, <1>3, PTL DEF ReceiveSpec

\* No acknowledged telegram is lost on its way to the 'cemi' event, unless a
\* request overtakes the CONNECT_RESPONSE.
THEOREM NothingLost == ~EarlyRequests => (ReceiveSpec => []AckedIsEmitted)
<1> SUFFICES ASSUME ~EarlyRequests PROVE ReceiveSpec => []AckedIsEmitted
  OBVIOUS
<1>1. ReceiveInit => IInv
  BY InitIInv
<1>2. IInv /\ [ReceiveNext]_receiveVars => IInv'
  BY NextIInv
<1>3. IInv => AckedIsEmitted
  BY DEF IInv, GatewayInv, AckedIsEmitted
<1> QED
  BY <1>1, <1>2, <1>3, PTL DEF ReceiveSpec

=============================================================================
