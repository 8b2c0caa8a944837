-------------------------- MODULE TunnelSend_proofs --------------------------
(***************************************************************************)
(* Theorems about TunnelSend, for every modulus, lifetime and bound that   *)
(* satisfy its assumptions:                                                *)
(*   - the type invariant, so the counter never leaves its width;          *)
(*   - a channel carries telegrams in order and none twice;                *)
(*   - sendCemi() resolves only for a telegram that is on the bus or was   *)
(*     sent with the number of one given up; without autoReconnect there   *)
(*     is none of the second kind;                                         *)
(*   - TunnelSend implements TelegramDelivery.                             *)
(*                                                                         *)
(* The argument: on one channel, positions and telegrams grow together     *)
(* (Spread), so that between a datagram that is still alive and the        *)
(* position it is compared with there is less than one turn of the counter *)
(* (GatewayNear), and an equal residue means an equal position.            *)
(***************************************************************************)
EXTENDS TunnelSend, CounterArithmetic, SequenceTheorems, TLAPS

-----------------------------------------------------------------------------
(* The inductive invariant.                                                 *)

\* The telegram whose attempt is, or will be, the next to take position pos.
NextTelegram == IF phase \in Awaiting THEN cur ELSE cur + 1

ClientInv ==
  /\ seqOut = pos % SeqMod
  /\ phase # "idle" => cur \in Telegram
  /\ phase \in Awaiting => chan # 0
  /\ phase \in {"waiting", "reconnect"} => chan = 0
  /\ \A c \in Channel : c > chans => bus[c] = <<>>
  /\ chan # 0 => pos <= Len(bus[chan]) /\ Len(bus[chan]) <= pos + 1

RequestInv ==
  \A r \in requests :
    /\ r.chan <= chans /\ r.tele <= cur
    /\ r.seq = r.pos % SeqMod
    /\ r.pos <= Len(bus[r.chan])
    /\ r.chan = chan => r.pos <= pos

\* A datagram is behind the gateway by no more positions than telegrams.
GatewayNear ==
  \A r \in requests : Len(bus[r.chan]) <= r.pos + (cur - r.tele) + 1

ClientNear ==
  \A r \in requests :
    r.chan = chan /\ r.pos < pos => pos - r.pos <= NextTelegram - r.tele

Spread ==
  \A r, s \in requests :
    r.chan = s.chan /\ r.pos < s.pos => s.pos - r.pos <= s.tele - r.tele

\* What is on the bus was sent, each telegram at its position.
BusInv ==
  \A c \in Channel : \A i \in 1..Len(bus[c]) :
    \E r \in requests : r.chan = c /\ r.pos = i - 1 /\ r.tele = bus[c][i]

AckInv ==
  \A a \in acks :
    a.req \in requests /\ (a.ok => a.req.pos < Len(bus[a.req.chan]))

IInv ==
  /\ SendTypeOK
  /\ ClientInv
  /\ RequestInv
  /\ GatewayNear
  /\ ClientNear
  /\ Spread
  /\ BusInv
  /\ AckInv

\* A number that no telegram was given up with belongs to one telegram.
Unique ==
  givenUp = 0 => \A r \in requests :
    r.chan = chan /\ r.pos = pos => phase \in Awaiting /\ r.tele = cur

ResolvedInv == Unique /\ ResolvedOnBus

\* Without autoReconnect there is no third attempt.
NoThirdAttempt ==
  /\ phase \in {"idle", "ack1", "ack2"}
  /\ givenUp = 0
  /\ doubtful = {}

-----------------------------------------------------------------------------
(* Consequences of the invariant.                                           *)

LEMMA Sizes ==
  /\ SeqMod \in Nat /\ Lifetime \in Nat /\ MaxTelegrams \in Nat
  /\ MaxChannels \in Nat /\ SeqMod > 1
  BY SizesAssumption, LifetimeAssumption

\* A live request the gateway accepts is the next one of its channel.
LEMMA ForwardsNext ==
  ASSUME IInv, NEW r \in requests, Alive(r), r.seq = Expected(r.chan)
  PROVE  r.pos = Len(bus[r.chan])
<1>1. /\ r.pos \in Nat /\ r.chan \in Channel /\ r.tele \in Nat /\ cur \in Nat
      /\ Len(bus[r.chan]) \in Nat
  BY DEF IInv, SendTypeOK, Request, Telegram
<1>2. Len(bus[r.chan]) - r.pos < SeqMod /\ r.pos - Len(bus[r.chan]) < SeqMod
  <2>1. Len(bus[r.chan]) <= r.pos + (cur - r.tele) + 1 /\ r.pos <= Len(bus[r.chan])
    BY DEF IInv, GatewayNear, RequestInv
  <2>2. cur - r.tele <= Lifetime /\ Lifetime + 1 < SeqMod
    BY LifetimeAssumption DEF Alive
  <2> QED
    BY <1>1, <2>1, <2>2, Sizes
<1>3. r.pos % SeqMod = Len(bus[r.chan]) % SeqMod
  BY DEF IInv, RequestInv, Expected
<1>4. /\ SeqMod \in Nat /\ SeqMod > 0
      /\ r.pos \in Int /\ Len(bus[r.chan]) \in Int
  BY <1>1, Sizes
<1> QED
  BY <1>2, <1>3, <1>4, ModInjective, Zenon

\* A live request the gateway takes for a duplicate has been forwarded.
LEMMA DuplicateForwarded ==
  ASSUME IInv, NEW r \in requests, Alive(r), bus[r.chan] # <<>>,
         r.seq = (Len(bus[r.chan]) - 1) % SeqMod
  PROVE  r.pos < Len(bus[r.chan])
<1>1. /\ r.pos \in Nat /\ r.chan \in Channel /\ r.tele \in Nat /\ cur \in Nat
      /\ Len(bus[r.chan]) \in Nat
  BY DEF IInv, SendTypeOK, Request, Telegram
<1> DEFINE last == Len(bus[r.chan]) - 1
<1>2. last - r.pos < SeqMod /\ r.pos - last < SeqMod
  <2>1. Len(bus[r.chan]) <= r.pos + (cur - r.tele) + 1 /\ r.pos <= Len(bus[r.chan])
    BY DEF IInv, GatewayNear, RequestInv
  <2>2. cur - r.tele <= Lifetime /\ Lifetime + 1 < SeqMod
    BY LifetimeAssumption DEF Alive
  <2>3. Lifetime \in Nat /\ SeqMod \in Nat
    BY Sizes
  <2> QED
    BY <1>1, <2>1, <2>2, <2>3
<1>3. r.pos % SeqMod = last % SeqMod
  BY DEF IInv, RequestInv
<1>4. SeqMod \in Nat /\ SeqMod > 0 /\ r.pos \in Int /\ last \in Int
  BY <1>1, Sizes
<1>5. r.pos = last
  BY <1>2, <1>3, <1>4, ModInjective, Zenon
<1> QED
  BY <1>1, <1>5

\* An ACK the client takes for the one it awaits acknowledges its position.
LEMMA MatchIsCurrent ==
  ASSUME IInv, NEW a \in acks, Matches(a)
  PROVE  /\ a.req \in requests /\ a.req.chan = chan /\ a.req.pos = pos
         /\ a.ok => pos < Len(bus[chan])
<1>1. a.req \in requests /\ a.req.chan = chan
  BY DEF IInv, AckInv, Matches
<1>2. /\ a.req.pos \in Nat /\ pos \in Nat /\ a.req.tele \in Nat /\ cur \in Nat
      /\ a.req.pos <= pos
  BY <1>1 DEF IInv, SendTypeOK, Request, Telegram, RequestInv
<1>3. a.req.pos < pos => pos - a.req.pos <= cur - a.req.tele
  BY <1>1 DEF IInv, ClientNear, NextTelegram, Matches
<1>4. cur - a.req.tele <= Lifetime /\ Lifetime + 1 < SeqMod
  BY LifetimeAssumption DEF Matches, Alive
<1>5. a.req.pos % SeqMod = pos % SeqMod
  BY <1>1 DEF IInv, RequestInv, ClientInv, Matches
<1>6. pos - a.req.pos < SeqMod /\ a.req.pos - pos < SeqMod
  BY <1>2, <1>3, <1>4, Sizes
<1>7. SeqMod \in Nat /\ SeqMod > 0 /\ a.req.pos \in Int /\ pos \in Int
  BY <1>2, Sizes
<1>8. a.req.pos = pos
  BY <1>5, <1>6, <1>7, ModInjective, Zenon
<1> QED
  BY <1>1, <1>8 DEF IInv, AckInv

-----------------------------------------------------------------------------
(* Initial states.                                                          *)

LEMMA InitIInv == SendInit => IInv
<1> SUFFICES ASSUME SendInit PROVE IInv
  OBVIOUS
<1>1. 0 % SeqMod = 0
  <2>1. (SeqMod * 0 + 0) % SeqMod = 0
    BY Sizes, ModUnique
  <2> QED
    BY <2>1, Sizes
<1>2. SendTypeOK
  BY Sizes DEF SendInit, SendTypeOK, Awaiting
<1>3. ClientInv
  BY <1>1, Sizes DEF SendInit, ClientInv, Awaiting
<1>4. RequestInv /\ GatewayNear /\ ClientNear /\ Spread /\ AckInv
  BY DEF SendInit, RequestInv, GatewayNear, ClientNear, Spread, AckInv
<1>5. BusInv
  BY DEF SendInit, BusInv
<1> QED
  BY <1>2, <1>3, <1>4, <1>5 DEF IInv

-----------------------------------------------------------------------------
(* Steps of the client that send nothing.                                   *)

\* The position goes up by one, and the counter with it.
LEMMA BumpStep ==
  ASSUME SendTypeOK, ClientInv, BumpSeqOut
  PROVE  /\ pos' = pos + 1 /\ pos' \in Nat
         /\ seqOut' \in 0..SeqMod - 1 /\ seqOut' = pos' % SeqMod
<1>1. pos \in Nat /\ seqOut = pos % SeqMod /\ pos' = pos + 1
  BY DEF SendTypeOK, ClientInv, BumpSeqOut
<1>2. seqOut' = (pos + 1) % SeqMod
  BY <1>1, Sizes, ModIncrement DEF BumpSeqOut
<1>3. (pos + 1) % SeqMod \in 0..SeqMod - 1
  BY <1>1, Sizes, DivMod
<1> QED
  BY <1>1, <1>2, <1>3

\* The parts that speak of datagrams and the bus only survive every step that
\* leaves these alone and does not take a telegram back.
LEMMA NetworkUnchanged ==
  ASSUME IInv, UNCHANGED <<requests, acks, bus>>, cur' \in Nat, cur <= cur'
  PROVE  GatewayNear' /\ Spread' /\ BusInv' /\ AckInv'
<1>1. GatewayNear'
  <2> SUFFICES ASSUME NEW r \in requests
               PROVE  Len(bus[r.chan]) <= r.pos + (cur' - r.tele) + 1
    BY DEF GatewayNear
  <2>1. /\ r.pos \in Nat /\ r.chan \in Channel /\ r.tele \in Nat /\ cur \in Nat
        /\ Len(bus[r.chan]) \in Nat
    BY DEF IInv, SendTypeOK, Request, Telegram
  <2>2. Len(bus[r.chan]) <= r.pos + (cur - r.tele) + 1
    BY DEF IInv, GatewayNear
  <2> QED
    BY <2>1, <2>2
<1>2. Spread' /\ BusInv' /\ AckInv'
  BY DEF IInv, Spread, BusInv, AckInv
<1> QED
  BY <1>1, <1>2

\* The tunnel is down and no datagram was sent.
LEMMA DownStep ==
  ASSUME IInv, SendTypeOK', ClientInv', UNCHANGED <<requests, acks, bus, chans>>,
         chan' = 0, cur <= cur'
  PROVE  IInv'
<1>1. cur \in Nat /\ cur' \in Nat
  BY Sizes DEF IInv, SendTypeOK
<1>2. GatewayNear' /\ Spread' /\ BusInv' /\ AckInv'
  BY <1>1, NetworkUnchanged
<1>3. \A r \in requests : r.chan # 0 /\ r.tele \in Nat
  BY DEF IInv, SendTypeOK, Request, Channel, Telegram
<1>4. RequestInv' /\ ClientNear'
  BY <1>1, <1>3 DEF IInv, RequestInv, ClientNear
<1> QED
  BY <1>2, <1>4 DEF IInv

LEMMA SendCemiDownStep == IInv /\ SendCemiDown => IInv'
<1> SUFFICES ASSUME IInv, SendCemiDown PROVE IInv'
  OBVIOUS
<1>1. SendTypeOK'
  BY Sizes DEF IInv, SendTypeOK, SendCemiDown, Awaiting, resolution
<1>2. ClientInv'
  BY Sizes DEF IInv, SendTypeOK, ClientInv, SendCemiDown, Awaiting, Telegram
<1> QED
  BY <1>1, <1>2, DownStep, Sizes DEF IInv, SendTypeOK, SendCemiDown

LEMMA ReconnectAbortedStep == IInv /\ ReconnectAborted => IInv'
<1> SUFFICES ASSUME IInv, ReconnectAborted PROVE IInv'
  OBVIOUS
<1>1. SendTypeOK' /\ ClientInv' /\ chan = 0
  BY DEF IInv, SendTypeOK, ClientInv, ReconnectAborted, Awaiting, resolution
<1> QED
  BY <1>1, DownStep, Sizes DEF IInv, SendTypeOK, ReconnectAborted

LEMMA SecondAttemptFailsStep == IInv /\ SecondAttemptFails => IInv'
<1> SUFFICES ASSUME IInv, SecondAttemptFails PROVE IInv'
  OBVIOUS
<1>1. /\ pos' = pos + 1 /\ pos' \in Nat
      /\ seqOut' \in 0..SeqMod - 1 /\ seqOut' = pos' % SeqMod
  BY BumpStep DEF IInv, SecondAttemptFails
<1>2. SendTypeOK'
  BY <1>1 DEF IInv, SendTypeOK, SecondAttemptFails, Awaiting, BumpSeqOut
<1>3. ClientInv'
  BY <1>1 DEF IInv, ClientInv, SecondAttemptFails, Awaiting
<1> QED
  BY <1>2, <1>3, DownStep, Sizes DEF IInv, SendTypeOK, SecondAttemptFails

LEMMA TunnelLostStep == IInv /\ TunnelLost => IInv'
<1> SUFFICES ASSUME IInv, TunnelLost PROVE IInv'
  OBVIOUS
<1>1. /\ pos' \in Nat /\ seqOut' \in 0..SeqMod - 1 /\ seqOut' = pos' % SeqMod
  BY BumpStep DEF IInv, SendTypeOK, ClientInv, TunnelLost
<1>2. SendTypeOK'
  BY <1>1 DEF IInv, SendTypeOK, TunnelLost, Awaiting, BumpSeqOut
<1>3. ClientInv'
  BY <1>1 DEF IInv, ClientInv, TunnelLost, Awaiting
<1> QED
  BY <1>2, <1>3, DownStep, Sizes DEF IInv, SendTypeOK, TunnelLost

LEMMA ThirdAttemptFailsStep == IInv /\ ThirdAttemptFails => IInv'
<1> SUFFICES ASSUME IInv, ThirdAttemptFails PROVE IInv'
  OBVIOUS
<1>1. SendTypeOK' /\ ClientInv'
  BY DEF IInv, SendTypeOK, ClientInv, ThirdAttemptFails, Awaiting
<1>2. GatewayNear' /\ Spread' /\ BusInv' /\ AckInv'
  BY NetworkUnchanged, Sizes DEF IInv, SendTypeOK, ThirdAttemptFails
<1>3. RequestInv'
  BY DEF IInv, RequestInv, ThirdAttemptFails
<1>4. ClientNear'
  <2>0. NextTelegram' = cur + 1
    BY DEF ThirdAttemptFails, NextTelegram, Awaiting
  <2> SUFFICES ASSUME NEW r \in requests', r.chan = chan', r.pos < pos'
               PROVE  pos' - r.pos <= NextTelegram' - r.tele
    BY DEF ClientNear
  <2>a. r \in requests /\ r.chan = chan /\ r.pos < pos /\ pos' = pos
    BY DEF ThirdAttemptFails
  <2>1. r.pos \in Nat /\ pos \in Nat /\ r.tele \in Nat /\ cur \in Nat
    BY <2>a, Sizes DEF IInv, SendTypeOK, Request, Telegram
  <2>2. pos - r.pos <= cur - r.tele
    BY <2>a DEF IInv, ClientNear, NextTelegram, Awaiting, ThirdAttemptFails
  <2> QED
    BY <2>0, <2>a, <2>1, <2>2
<1> QED
  BY <1>1, <1>2, <1>3, <1>4 DEF IInv

LEMMA RxAckStep == ASSUME NEW a \in acks PROVE IInv /\ RxAck(a) => IInv'
<1> SUFFICES ASSUME IInv, RxAck(a) PROVE IInv'
  OBVIOUS
<1>1. /\ pos' = pos + 1 /\ pos' \in Nat
      /\ seqOut' \in 0..SeqMod - 1 /\ seqOut' = pos' % SeqMod
  BY BumpStep DEF IInv, RxAck
<1>2. pos < Len(bus[chan])
  BY MatchIsCurrent DEF RxAck
<1>3. /\ phase \in Awaiting /\ chan # 0 /\ cur \in Telegram /\ cur \in Nat
      /\ pos \in Nat /\ chan \in Channel /\ Len(bus[chan]) \in Nat
  BY Sizes DEF IInv, SendTypeOK, ClientInv, RxAck, Matches, Awaiting, Channel, Telegram
<1>4. SendTypeOK'
  BY <1>1, <1>3 DEF IInv, SendTypeOK, RxAck, Awaiting, BumpSeqOut
<1>5. ClientInv'
  BY <1>1, <1>2, <1>3 DEF IInv, ClientInv, RxAck, Awaiting
<1>6. GatewayNear' /\ Spread' /\ BusInv' /\ AckInv'
  BY <1>3, NetworkUnchanged DEF RxAck
<1>7. \A r \in requests : r.pos \in Nat /\ r.tele \in Nat
  BY DEF IInv, SendTypeOK, Request, Telegram
<1>8. RequestInv'
  BY <1>1, <1>3, <1>7 DEF IInv, RequestInv, RxAck
<1>9. ClientNear'
  <2>0. NextTelegram' = cur + 1
    BY DEF RxAck, NextTelegram, Awaiting
  <2> SUFFICES ASSUME NEW r \in requests', r.chan = chan', r.pos < pos'
               PROVE  pos' - r.pos <= NextTelegram' - r.tele
    BY DEF ClientNear
  <2>a. r \in requests /\ r.chan = chan /\ r.pos < pos + 1
    BY <1>1 DEF RxAck
  <2>1. r.tele <= cur
    BY <2>a DEF IInv, RequestInv
  <2>2. r.pos < pos => pos - r.pos <= cur - r.tele
    BY <1>3, <2>a DEF IInv, ClientNear, NextTelegram
  <2>3. r.pos \in Nat /\ r.tele \in Nat
    BY <1>7, <2>a
  <2> QED
    BY <1>1, <1>3, <2>0, <2>a, <2>1, <2>2, <2>3
<1> QED
  BY <1>4, <1>5, <1>6, <1>8, <1>9 DEF IInv

-----------------------------------------------------------------------------
(* Steps of the client that send a TUNNELLING_REQUEST.                      *)

\* What sendCemi() sends takes its place after the datagrams of its channel.
LEMMA TransmitStep ==
  ASSUME IInv, SendTypeOK', ClientInv', UNCHANGED <<acks, bus>>,
         requests' = requests \cup
           {[chan |-> chan', seq |-> seqOut', tele |-> cur', pos |-> pos']},
         cur <= cur', chans <= chans', chan' # 0, phase' \in Awaiting,
         \A r \in requests : r.chan = chan' =>
           /\ r.pos <= pos'
           /\ r.pos < pos' => pos' - r.pos <= cur' - r.tele
  PROVE  IInv'
<1> DEFINE new == [chan |-> chan', seq |-> seqOut', tele |-> cur', pos |-> pos']
<1>1. /\ new.chan = chan' /\ new.seq = seqOut' /\ new.tele = cur'
      /\ new.pos = pos' /\ requests' = requests \cup {new}
  OBVIOUS
<1> HIDE DEF new
<1>2. /\ cur \in Nat /\ cur' \in Nat /\ pos' \in Nat /\ chans \in Nat
      /\ chans' \in Nat /\ chan' \in Channel /\ chan' <= chans'
      /\ Len(bus[chan']) \in Nat
  BY Sizes DEF IInv, SendTypeOK, Channel
<1>3. \A r \in requests :
        /\ r.pos \in Nat /\ r.chan \in Nat /\ r.tele \in Nat
        /\ Len(bus[r.chan]) \in Nat
  BY DEF IInv, SendTypeOK, Request, Telegram, Channel
<1>4. seqOut' = pos' % SeqMod /\ pos' <= Len(bus[chan']) /\ Len(bus[chan']) <= pos' + 1
  BY DEF ClientInv
<1>5. RequestInv'
  <2> SUFFICES ASSUME NEW r \in requests'
               PROVE  /\ r.chan <= chans' /\ r.tele <= cur'
                      /\ r.seq = r.pos % SeqMod
                      /\ r.pos <= Len(bus[r.chan])
                      /\ r.chan = chan' => r.pos <= pos'
    BY DEF RequestInv
  <2>1. CASE r = new
    BY <1>1, <1>2, <1>4, <2>1
  <2>2. CASE r \in requests
    BY <1>2, <1>3, <2>2 DEF IInv, RequestInv
  <2> QED
    BY <1>1, <2>1, <2>2
<1>6. GatewayNear'
  <2> SUFFICES ASSUME NEW r \in requests'
               PROVE  Len(bus[r.chan]) <= r.pos + (cur' - r.tele) + 1
    BY DEF GatewayNear
  <2>1. CASE r = new
    <3>1. r.chan = chan' /\ r.pos = pos' /\ cur' - r.tele = 0
      BY <1>1, <1>2, <2>1
    <3> QED
      BY <1>2, <1>4, <3>1
  <2>2. CASE r \in requests
    <3>1. Len(bus[r.chan]) <= r.pos + (cur - r.tele) + 1
      BY <2>2 DEF IInv, GatewayNear
    <3>2. r.tele \in Nat /\ r.pos \in Nat /\ Len(bus[r.chan]) \in Nat
      BY <1>3, <2>2
    <3>3. cur \in Nat /\ cur' \in Nat /\ cur <= cur'
      BY <1>2
    <3> QED
      BY <3>1, <3>2, <3>3
  <2> QED
    BY <1>1, <2>1, <2>2
<1>7. ClientNear'
  <2>1. NextTelegram' = cur'
    BY DEF NextTelegram
  <2> SUFFICES ASSUME NEW r \in requests', r.chan = chan', r.pos < pos'
               PROVE  pos' - r.pos <= NextTelegram' - r.tele
    BY DEF ClientNear
  <2>2. r \in requests
    BY <1>1, <1>2
  <2> QED
    BY <2>1, <2>2
<1>8. Spread'
  <2> SUFFICES ASSUME NEW r \in requests', NEW s \in requests',
                      r.chan = s.chan, r.pos < s.pos
               PROVE  s.pos - r.pos <= s.tele - r.tele
    BY DEF Spread
  <2>1. CASE r \in requests /\ s \in requests
    BY <2>1 DEF IInv, Spread
  <2>2. CASE r \in requests /\ s = new
    BY <1>1, <2>2
  <2>3. CASE r = new /\ s \in requests
    BY <1>1, <1>2, <1>3, <2>3
  <2>4. CASE r = new /\ s = new
    BY <1>1, <1>2, <2>4
  <2> QED
    BY <1>1, <2>1, <2>2, <2>3, <2>4
<1>9. BusInv'
  BY <1>1 DEF IInv, BusInv
<1>10. AckInv'
  BY <1>1 DEF IInv, AckInv
<1> QED
  BY <1>5, <1>6, <1>7, <1>8, <1>9, <1>10 DEF IInv

LEMMA SendCemiStep == IInv /\ SendCemi => IInv'
<1> SUFFICES ASSUME IInv, SendCemi PROVE IInv'
  OBVIOUS
<1>1. /\ cur \in Nat /\ cur + 1 \in Telegram /\ chan \in Channel
      /\ pos \in Nat /\ seqOut \in 0..SeqMod - 1
  BY Sizes DEF IInv, SendTypeOK, SendCemi, Channel, Telegram
<1>2. [chan |-> chan, seq |-> seqOut, tele |-> cur + 1, pos |-> pos] \in Request
  BY <1>1 DEF Request
<1>3. SendTypeOK'
  BY <1>1, <1>2, Sizes DEF IInv, SendTypeOK, SendCemi, Transmit, Awaiting, Telegram, resolution
<1>4. ClientInv'
  BY <1>1 DEF IInv, ClientInv, SendCemi, Awaiting
<1>5. \A r \in requests : r.chan = chan =>
        /\ r.pos <= pos
        /\ r.pos < pos => pos - r.pos <= (cur + 1) - r.tele
  <2>1. NextTelegram = cur + 1
    BY DEF SendCemi, NextTelegram, Awaiting
  <2> QED
    BY <2>1 DEF IInv, RequestInv, ClientNear
<1> QED
  BY <1>1, <1>3, <1>4, <1>5, TransmitStep, Sizes
  DEF IInv, SendTypeOK, SendCemi, Transmit, Awaiting

LEMMA FirstAttemptFailsStep == IInv /\ FirstAttemptFails => IInv'
<1> SUFFICES ASSUME IInv, FirstAttemptFails PROVE IInv'
  OBVIOUS
<1>1. /\ cur \in Telegram /\ chan \in Channel /\ chan # 0
      /\ pos \in Nat /\ seqOut \in 0..SeqMod - 1
  BY Sizes DEF IInv, SendTypeOK, ClientInv, FirstAttemptFails, Channel, Awaiting
<1>2. [chan |-> chan, seq |-> seqOut, tele |-> cur, pos |-> pos] \in Request
  BY <1>1 DEF Request
<1>3. SendTypeOK'
  BY <1>1, <1>2, Sizes DEF IInv, SendTypeOK, FirstAttemptFails, Transmit, Awaiting, resolution
<1>4. ClientInv'
  BY <1>1 DEF IInv, ClientInv, FirstAttemptFails, Awaiting
<1>5. \A r \in requests : r.chan = chan =>
        /\ r.pos <= pos
        /\ r.pos < pos => pos - r.pos <= cur - r.tele
  <2>1. NextTelegram = cur
    BY DEF FirstAttemptFails, NextTelegram, Awaiting
  <2> QED
    BY <2>1 DEF IInv, RequestInv, ClientNear
<1>6. cur <= cur /\ chans <= chans
  BY Sizes DEF IInv, SendTypeOK
<1> QED
  BY <1>1, <1>3, <1>4, <1>5, <1>6, TransmitStep
  DEF FirstAttemptFails, Transmit, Awaiting

\* Nothing has travelled on the channel a connection opens.
LEMMA ConnectStep == IInv /\ Connect => IInv'
<1> SUFFICES ASSUME IInv, Connect PROVE IInv'
  OBVIOUS
<1>1. /\ chans \in Nat /\ chan' = chans + 1 /\ chans' = chans + 1
      /\ chan' \in Channel /\ cur \in Nat /\ pos' = 0 /\ seqOut' = 0
      /\ cur' = cur /\ acks' = acks /\ bus' = bus /\ resolved' = resolved
      /\ chan' # 0 /\ givenUp' = 0 /\ doubtful' = doubtful
  BY Sizes DEF IInv, SendTypeOK, Connect, Channel
<1>2. \A r \in requests : r.chan # chan'
  BY <1>1 DEF IInv, RequestInv, SendTypeOK, Request, Channel
<1>3. 0 % SeqMod = 0
  <2>1. (SeqMod * 0 + 0) % SeqMod = 0
    BY Sizes, ModUnique
  <2> QED
    BY <2>1, Sizes
<1>4. \A c \in Channel : c > chans' => bus[c] = <<>>
  BY <1>1 DEF IInv, ClientInv, Channel
<1>5. Len(bus[chan']) = 0
  BY <1>1 DEF IInv, ClientInv
<1>6. CASE phase \in {"reconnect", "waiting"}
  <2>1. /\ cur \in Telegram /\ phase' \in Awaiting
        /\ requests' = requests \cup
             {[chan |-> chan', seq |-> seqOut', tele |-> cur', pos |-> pos']}
    BY <1>1, <1>6 DEF IInv, ClientInv, Connect, Transmit, Awaiting
  <2>2. [chan |-> chan', seq |-> seqOut', tele |-> cur', pos |-> pos'] \in Request
    BY <1>1, <2>1, Sizes DEF Request
  <2>3. SendTypeOK'
    <3> DEFINE new == [chan |-> chan', seq |-> seqOut', tele |-> cur', pos |-> pos']
    <3>1. new \in Request /\ requests' = requests \cup {new}
      BY <2>1, <2>2
    <3> HIDE DEF new
    <3>2. requests' \subseteq Request
      BY <3>1 DEF IInv, SendTypeOK
    <3>3. chans' \in 0..MaxChannels /\ chan' \in 0..chans' /\ seqOut' \in 0..SeqMod - 1
      BY <1>1, Sizes DEF Channel
    <3> QED
      BY <1>1, <2>1, <3>2, <3>3 DEF IInv, SendTypeOK
  <2>4. ClientInv'
    <3>1. seqOut' = pos' % SeqMod
      BY <1>1, <1>3
    <3>2. phase' # "waiting" /\ phase' # "reconnect"
      BY <2>1 DEF Awaiting
    <3> QED
      BY <1>1, <1>4, <1>5, <2>1, <3>1, <3>2 DEF ClientInv
  <2>5. cur <= cur' /\ chans <= chans'
    BY <1>1
  <2> QED
    BY <1>1, <1>2, <2>1, <2>3, <2>4, <2>5, TransmitStep
<1>7. CASE phase \notin {"reconnect", "waiting"}
  <2>1. phase' = phase /\ requests' = requests
    BY <1>7 DEF Connect
  <2>2. SendTypeOK'
    <3>1. chans' \in 0..MaxChannels /\ chan' \in 0..chans' /\ seqOut' \in 0..SeqMod - 1
      BY <1>1, Sizes DEF Channel
    <3> QED
      BY <1>1, <2>1, <3>1 DEF IInv, SendTypeOK
  <2>3. ClientInv'
    <3>1. seqOut' = pos' % SeqMod
      BY <1>1, <1>3
    <3>2. phase' # "idle" => cur' \in Telegram
      BY <1>1, <2>1 DEF IInv, ClientInv
    <3>3. phase' # "waiting" /\ phase' # "reconnect"
      BY <1>7, <2>1
    <3>4. \A c \in Channel : c > chans' => bus'[c] = <<>>
      BY <1>1, <1>4
    <3>5. chan' # 0 /\ pos' <= Len(bus'[chan']) /\ Len(bus'[chan']) <= pos' + 1
      BY <1>1, <1>5
    <3> QED
      BY <3>1, <3>2, <3>3, <3>4, <3>5 DEF ClientInv
  <2>4. GatewayNear' /\ Spread' /\ BusInv' /\ AckInv'
    BY <1>1, <2>1, NetworkUnchanged
  <2>5. RequestInv'
    BY <1>1, <1>2, <2>1 DEF IInv, RequestInv, SendTypeOK, Request, Channel
  <2>6. ClientNear'
    BY <1>2, <2>1 DEF ClientNear
  <2> QED
    BY <2>2, <2>3, <2>4, <2>5, <2>6 DEF IInv
<1> QED
  BY <1>6, <1>7

-----------------------------------------------------------------------------
(* Steps of the gateway.                                                    *)

\* An acknowledgement of a request that the bus has got, or a refusal.
LEMMA AcknowledgeStep ==
  ASSUME IInv, NEW r \in requests, NEW ok \in BOOLEAN,
         ok => r.pos < Len(bus[r.chan]), Acknowledge(r, ok),
         UNCHANGED <<client, requests, bus>>
  PROVE  IInv'
<1> DEFINE a == [req |-> r, ok |-> ok]
<1>1. a \in Ack /\ a.req = r /\ a.ok = ok /\ acks' = acks \cup {a}
  BY DEF IInv, SendTypeOK, Ack, Acknowledge
<1> HIDE DEF a
<1>2. SendTypeOK'
  BY <1>1 DEF IInv, SendTypeOK, client
<1>3. AckInv'
  BY <1>1 DEF IInv, AckInv
<1>4. ClientInv' /\ RequestInv' /\ GatewayNear' /\ Spread' /\ BusInv'
  BY DEF IInv, ClientInv, RequestInv, GatewayNear, Spread, BusInv, client
<1>5. ClientNear'
  BY DEF IInv, ClientNear, NextTelegram, client
<1> QED
  BY <1>2, <1>3, <1>4, <1>5 DEF IInv

LEMMA GatewayRefusesStep ==
  ASSUME NEW r \in requests PROVE IInv /\ GatewayRefuses(r) => IInv'
  BY AcknowledgeStep DEF GatewayRefuses

LEMMA GatewaySeesDuplicateStep ==
  ASSUME NEW r \in requests PROVE IInv /\ GatewaySeesDuplicate(r) => IInv'
  BY AcknowledgeStep, DuplicateForwarded DEF GatewaySeesDuplicate

\* A telegram joins the bus behind those of its channel.
LEMMA GatewayForwardsStep ==
  ASSUME NEW r \in requests PROVE IInv /\ GatewayForwards(r) => IInv'
<1> SUFFICES ASSUME IInv, GatewayForwards(r) PROVE IInv'
  OBVIOUS
<1> DEFINE a == [req |-> r, ok |-> TRUE]
<1>1. /\ a \in Ack /\ a.req = r /\ a.ok = TRUE /\ acks' = acks \cup {a}
      /\ UNCHANGED <<client, requests>>
  BY DEF IInv, SendTypeOK, Ack, Acknowledge, GatewayForwards
<1> HIDE DEF a
<1>2. /\ r.chan \in Channel /\ r.tele \in Telegram /\ r.pos \in Nat
      /\ r.tele \in Nat /\ cur \in Nat /\ bus \in [Channel -> Seq(Telegram)]
      /\ r.chan <= chans /\ r.tele <= cur /\ pos \in Nat /\ chans \in Nat
      /\ Channel \subseteq Nat /\ chan \in 0..chans
  BY Sizes DEF IInv, SendTypeOK, Request, Channel, Telegram, RequestInv
<1>3. r.pos = Len(bus[r.chan])
  BY ForwardsNext DEF GatewayForwards
<1>4. /\ bus' = [bus EXCEPT ![r.chan] = Append(bus[r.chan], r.tele)]
      /\ bus' \in [Channel -> Seq(Telegram)]
  <2>1. bus' = [bus EXCEPT ![r.chan] = Append(bus[r.chan], r.tele)]
    BY DEF GatewayForwards
  <2>2. Append(bus[r.chan], r.tele) \in Seq(Telegram)
    BY <1>2
  <2> QED
    BY <1>2, <2>1, <2>2
<1>5. /\ bus'[r.chan] = Append(bus[r.chan], r.tele)
      /\ Len(bus'[r.chan]) = r.pos + 1
      /\ bus'[r.chan][r.pos + 1] = r.tele
      /\ \A i \in 1..Len(bus[r.chan]) : bus'[r.chan][i] = bus[r.chan][i]
      /\ \A c \in Channel : c # r.chan => bus'[c] = bus[c]
      /\ \A c \in Channel : Len(bus[c]) \in Nat
  BY <1>2, <1>3, <1>4
<1>6. SendTypeOK'
  BY <1>1, <1>4 DEF IInv, SendTypeOK, client
<1>7. ClientInv'
  <2>1. \A c \in Channel : c > chans => bus'[c] = <<>>
    BY <1>2, <1>5 DEF IInv, ClientInv
  <2>2. ASSUME chan # 0
        PROVE  pos <= Len(bus'[chan]) /\ Len(bus'[chan]) <= pos + 1
    <3>1. chan \in Channel
      BY <2>2, Sizes DEF IInv, SendTypeOK, Channel
    <3>2. CASE chan = r.chan
      BY <1>2, <1>3, <1>5, <2>2, <3>2 DEF IInv, ClientInv, RequestInv
    <3>3. CASE chan # r.chan
      BY <1>5, <2>2, <3>1, <3>3 DEF IInv, ClientInv
    <3> QED
      BY <3>2, <3>3
  <2> QED
    BY <1>1, <2>1, <2>2 DEF IInv, ClientInv, client
<1>8. \A s \in requests :
        /\ s.pos \in Nat /\ s.tele \in Nat /\ s.chan \in Channel
        /\ s.tele <= cur /\ s.pos <= Len(bus[s.chan])
  BY Sizes DEF IInv, SendTypeOK, Request, Telegram, RequestInv
<1>a. ASSUME NEW s \in requests
      PROVE  \/ s.chan # r.chan /\ Len(bus'[s.chan]) = Len(bus[s.chan])
             \/ s.chan = r.chan /\ Len(bus'[s.chan]) = r.pos + 1
  BY <1>5, <1>8
<1>9. RequestInv'
  <2>1. ASSUME NEW s \in requests PROVE s.pos <= Len(bus'[s.chan])
    BY <1>2, <1>3, <1>8, <1>a
  <2> QED
    BY <1>1, <2>1 DEF IInv, RequestInv, client
<1>10. GatewayNear'
  <2> SUFFICES ASSUME NEW s \in requests
               PROVE  Len(bus'[s.chan]) <= s.pos + (cur - s.tele) + 1
    BY <1>1 DEF GatewayNear, client
  <2>1. CASE s.chan # r.chan
    BY <1>a, <2>1 DEF IInv, GatewayNear
  <2>2. CASE s.chan = r.chan
    <3>1. s.pos < r.pos => r.pos - s.pos <= r.tele - s.tele
      BY <2>2 DEF IInv, Spread
    <3> QED
      BY <1>2, <1>8, <1>a, <2>2, <3>1
  <2> QED
    BY <2>1, <2>2
<1>11. ClientNear'
  BY <1>1 DEF IInv, ClientNear, NextTelegram, client
<1>12. Spread'
  BY <1>1 DEF IInv, Spread
<1>13. BusInv'
  <2> SUFFICES ASSUME NEW c \in Channel, NEW i \in 1..Len(bus'[c])
               PROVE  \E s \in requests :
                        s.chan = c /\ s.pos = i - 1 /\ s.tele = bus'[c][i]
    BY <1>1 DEF BusInv
  <2>1. CASE c # r.chan
    BY <1>5, <2>1 DEF IInv, BusInv
  <2>2. CASE c = r.chan /\ i = r.pos + 1
    BY <1>2, <1>5, <2>2
  <2>3. CASE c = r.chan /\ i # r.pos + 1
    <3>1. i \in 1..Len(bus[c])
      BY <1>2, <1>3, <1>5, <2>3
    <3> QED
      BY <1>5, <2>3, <3>1 DEF IInv, BusInv
  <2> QED
    BY <2>1, <2>2, <2>3
<1>14. AckInv'
  <2>1. ASSUME NEW s \in requests, s.pos < Len(bus[s.chan])
        PROVE  s.pos < Len(bus'[s.chan])
    BY <1>2, <1>3, <1>8, <1>a, <2>1
  <2>2. r.pos < Len(bus'[r.chan])
    BY <1>2, <1>5
  <2> QED
    BY <1>1, <2>1, <2>2 DEF IInv, AckInv
<1> QED
  BY <1>6, <1>7, <1>9, <1>10, <1>11, <1>12, <1>13, <1>14 DEF IInv

-----------------------------------------------------------------------------
(* The theorems.                                                            *)

LEMMA AttemptFailsStep == IInv /\ AttemptFails => IInv'
  BY FirstAttemptFailsStep, SecondAttemptFailsStep, ThirdAttemptFailsStep
  DEF AttemptFails

LEMMA StutterStep == IInv /\ UNCHANGED sendVars => IInv'
<1> SUFFICES ASSUME IInv, UNCHANGED sendVars PROVE IInv'
  OBVIOUS
<1>1. /\ SendTypeOK' /\ ClientInv' /\ RequestInv' /\ GatewayNear' /\ Spread'
      /\ BusInv' /\ AckInv'
  BY DEF IInv, SendTypeOK, ClientInv, RequestInv, GatewayNear, Spread, BusInv,
         AckInv, sendVars, client
<1>2. ClientNear'
  BY DEF IInv, ClientNear, NextTelegram, sendVars, client
<1> QED
  BY <1>1, <1>2 DEF IInv

LEMMA NextIInv == IInv /\ [SendNext]_sendVars => IInv'
<1> SUFFICES ASSUME IInv, [SendNext]_sendVars PROVE IInv'
  OBVIOUS
<1>1. CASE SendCemi
  BY <1>1, SendCemiStep
<1>2. CASE SendCemiDown
  BY <1>2, SendCemiDownStep
<1>3. CASE ReconnectAborted
  BY <1>3, ReconnectAbortedStep
<1>4. CASE AckTimeout
  BY <1>4, AttemptFailsStep DEF AckTimeout
<1>5. ASSUME NEW a \in acks, RxAck(a) PROVE IInv'
  BY <1>5, RxAckStep
<1>6. ASSUME NEW a \in acks, RxNack(a) PROVE IInv'
  BY <1>6, AttemptFailsStep DEF RxNack
<1>7. CASE TunnelLost
  BY <1>7, TunnelLostStep
<1>8. CASE Connect
  BY <1>8, ConnectStep
<1>9. ASSUME NEW r \in requests, GatewayForwards(r) PROVE IInv'
  BY <1>9, GatewayForwardsStep
<1>10. ASSUME NEW r \in requests, GatewayRefuses(r) PROVE IInv'
  BY <1>10, GatewayRefusesStep
<1>11. ASSUME NEW r \in requests, GatewaySeesDuplicate(r) PROVE IInv'
  BY <1>11, GatewaySeesDuplicateStep
<1>12. CASE UNCHANGED sendVars
  BY <1>12, StutterStep
<1> QED
  BY <1>1, <1>2, <1>3, <1>4, <1>5, <1>6, <1>7, <1>8, <1>9, <1>10, <1>11, <1>12
  DEF SendNext

\* The strengthening of the invariants holds of every reachable state.
THEOREM Invariant == SendSpec => []IInv
<1>1. SendInit => IInv
  BY InitIInv
<1>2. IInv /\ [SendNext]_sendVars => IInv'
  BY NextIInv
<1> QED
  BY <1>1, <1>2, PTL DEF SendSpec

\* Whatever is lost, retried or reordered, _seqOut stays within its width and
\* every datagram keeps its format.
THEOREM TypeCorrect == SendSpec => []SendTypeOK
<1>1. IInv => SendTypeOK
  BY DEF IInv
<1> QED
  BY <1>1, Invariant, PTL

\* A channel carries telegrams in the order of the calls of sendCemi(), none
\* of them twice: the serialised, numbered, retried send path is exactly-once
\* per channel as far as the bus is concerned.
THEOREM InOrder == SendSpec => []BusInOrder
<1>1. IInv => BusInOrder
  <2> SUFFICES ASSUME IInv, NEW c \in Channel,
                      NEW i \in 1..Len(bus[c]), NEW j \in 1..Len(bus[c]), i < j
               PROVE  bus[c][i] < bus[c][j]
    BY DEF BusInOrder
  <2>1. PICK r \in requests : r.chan = c /\ r.pos = i - 1 /\ r.tele = bus[c][i]
    BY DEF IInv, BusInv
  <2>2. PICK s \in requests : s.chan = c /\ s.pos = j - 1 /\ s.tele = bus[c][j]
    BY DEF IInv, BusInv
  <2>3. s.pos - r.pos <= s.tele - r.tele
    BY <2>1, <2>2 DEF IInv, Spread
  <2>4. r.tele \in Nat /\ s.tele \in Nat
    BY DEF IInv, SendTypeOK, Request, Telegram
  <2> QED
    BY <2>1, <2>2, <2>3, <2>4
<1> QED
  BY <1>1, Invariant, PTL

-----------------------------------------------------------------------------
(* What a resolved promise means.                                           *)

LEMMA InitResolved == SendInit => ResolvedInv
  BY DEF SendInit, ResolvedInv, Unique, ResolvedOnBus

\* The telegram an ACK is taken for is on the bus.
LEMMA AckedOnBus ==
  ASSUME IInv, Unique, givenUp = 0, NEW a \in acks, Matches(a), a.ok
  PROVE  OnBus(cur)
<1>1. /\ a.req \in requests /\ a.req.chan = chan /\ a.req.pos = pos
      /\ pos < Len(bus[chan])
  BY MatchIsCurrent
<1>2. chan \in Channel /\ pos \in Nat /\ Len(bus[chan]) \in Nat
  BY <1>1 DEF IInv, SendTypeOK, Request
<1>3. PICK r \in requests :
        r.chan = chan /\ r.pos = (pos + 1) - 1 /\ r.tele = bus[chan][pos + 1]
  BY <1>1, <1>2 DEF IInv, BusInv
<1>4. r.tele = cur
  BY <1>2, <1>3 DEF Unique
<1>5. pos + 1 \in 1..Len(bus[chan]) /\ bus[chan][pos + 1] = cur
  BY <1>1, <1>2, <1>3, <1>4
<1> QED
  BY <1>2, <1>5 DEF OnBus

LEMMA DownUnique ==
  ASSUME IInv, chan' = 0, requests' = requests
  PROVE  Unique'
<1>1. \A r \in requests : r.chan # 0
  BY DEF IInv, SendTypeOK, Request, Channel
<1> QED
  BY <1>1 DEF Unique

LEMMA NextUnique ==
  ASSUME IInv, Unique, [SendNext]_sendVars
  PROVE  Unique'
<1>0. \A r \in requests :
        /\ r.pos \in Nat /\ r.chan \in Channel /\ r.chan <= chans
        /\ r.chan = chan => r.pos <= pos
  BY DEF IInv, SendTypeOK, Request, RequestInv
<1>1. CASE SendCemi
  <2>1. /\ phase = "idle" /\ phase' = "ack1" /\ chan' = chan /\ pos' = pos
        /\ cur' = cur + 1 /\ givenUp' = givenUp
        /\ requests' = requests \cup
             {[chan |-> chan, seq |-> seqOut, tele |-> cur + 1, pos |-> pos]}
    BY <1>1 DEF SendCemi, Transmit, resolution
  <2>2. givenUp = 0 => \A r \in requests : ~(r.chan = chan /\ r.pos = pos)
    BY <2>1 DEF Unique, Awaiting
  <2> QED
    BY <2>1, <2>2 DEF Unique, Awaiting
<1>2. CASE SendCemiDown
  BY <1>2, DownUnique DEF SendCemiDown
<1>3. CASE ReconnectAborted
  <2>1. chan' = 0
    BY <1>3 DEF ReconnectAborted, IInv, ClientInv
  <2> QED
    BY <1>3, <2>1, DownUnique DEF ReconnectAborted
<1>4. CASE FirstAttemptFails
  <2>1. /\ phase = "ack1" /\ phase' = "ack2" /\ chan' = chan /\ pos' = pos
        /\ cur' = cur /\ givenUp' = givenUp
        /\ requests' = requests \cup
             {[chan |-> chan, seq |-> seqOut, tele |-> cur, pos |-> pos]}
    BY <1>4 DEF FirstAttemptFails, Transmit, resolution
  <2> QED
    BY <2>1 DEF Unique, Awaiting
<1>5. CASE SecondAttemptFails
  BY <1>5, DownUnique DEF SecondAttemptFails
<1>6. CASE ThirdAttemptFails
  <2>1. cur # 0
    BY <1>6 DEF ThirdAttemptFails, IInv, ClientInv, Telegram
  <2> QED
    BY <1>6, <2>1 DEF ThirdAttemptFails, Unique
<1>7. ASSUME NEW a \in acks, RxAck(a) PROVE Unique'
  <2>1. pos' = pos + 1 /\ pos \in Nat /\ chan' = chan /\ requests' = requests
    BY <1>7 DEF RxAck, BumpSeqOut, IInv, SendTypeOK
  <2>2. \A r \in requests : ~(r.chan = chan /\ r.pos = pos + 1)
    BY <1>0, <2>1
  <2> QED
    BY <2>1, <2>2 DEF Unique
<1>8. CASE TunnelLost
  BY <1>8, DownUnique DEF TunnelLost
<1>9. CASE Connect
  <2>1. chan' = chans + 1 /\ pos' = 0 /\ cur' = cur
    BY <1>9 DEF Connect
  <2>2. \A r \in requests : r.chan # chans + 1
    BY <1>0 DEF IInv, SendTypeOK, Channel
  <2>3. \/ requests' = requests
        \/ /\ phase' \in Awaiting
           /\ requests' = requests \cup
                {[chan |-> chans + 1, seq |-> 0, tele |-> cur, pos |-> 0]}
    BY <1>9 DEF Connect, Transmit, Awaiting
  <2> QED
    BY <2>1, <2>2, <2>3 DEF Unique
<1>10. ASSUME NEW r \in requests,
              GatewayForwards(r) \/ GatewayRefuses(r) \/ GatewaySeesDuplicate(r)
       PROVE  Unique'
  BY <1>10 DEF GatewayForwards, GatewayRefuses, GatewaySeesDuplicate, client, Unique
<1>11. CASE UNCHANGED sendVars
  BY <1>11 DEF sendVars, client, Unique
<1> QED
  BY <1>1, <1>2, <1>3, <1>4, <1>5, <1>6, <1>7, <1>8, <1>9, <1>10, <1>11
  DEF SendNext, AckTimeout, RxNack, AttemptFails

\* What is on the bus stays there.
LEMMA BusGrows ==
  ASSUME IInv, [SendNext]_sendVars, NEW n, OnBus(n)
  PROVE  OnBus(n)'
<1>0. PICK c \in Channel : \E i \in 1..Len(bus[c]) : bus[c][i] = n
  BY DEF OnBus
<1>1. PICK i \in 1..Len(bus[c]) : bus[c][i] = n
  BY <1>0
<1>2. CASE bus' = bus
  BY <1>1, <1>2 DEF OnBus
<1>3. ASSUME NEW r \in requests, GatewayForwards(r) PROVE OnBus(n)'
  <2>1. r.chan \in Channel /\ r.tele \in Telegram /\ bus \in [Channel -> Seq(Telegram)]
    BY DEF IInv, SendTypeOK, Request
  <2>2. bus' = [bus EXCEPT ![r.chan] = Append(bus[r.chan], r.tele)]
    BY <1>3 DEF GatewayForwards
  <2>3. i \in 1..Len(bus'[c]) /\ bus'[c][i] = n
    <3>1. CASE c = r.chan
      BY <1>1, <2>1, <2>2, <3>1
    <3>2. CASE c # r.chan
      BY <1>1, <2>1, <2>2, <3>2
    <3> QED
      BY <3>1, <3>2
  <2> QED
    BY <2>3 DEF OnBus
<1>4. bus' = bus \/ \E r \in requests : GatewayForwards(r)
  BY DEF SendNext, sendVars, SendCemi, SendCemiDown, ReconnectAborted, AckTimeout,
         AttemptFails, FirstAttemptFails, SecondAttemptFails, ThirdAttemptFails,
         RxAck, RxNack, TunnelLost, Connect, GatewayRefuses, GatewaySeesDuplicate
<1> QED
  BY <1>2, <1>3, <1>4

LEMMA NextResolved == IInv /\ ResolvedInv /\ [SendNext]_sendVars => ResolvedInv'
<1> SUFFICES ASSUME IInv, ResolvedInv, [SendNext]_sendVars
             PROVE  Unique' /\ ResolvedOnBus'
  BY DEF ResolvedInv
<1>1. Unique /\ ResolvedOnBus
  BY DEF ResolvedInv
<1>2. Unique'
  BY <1>1, NextUnique
<1>3. \/ resolved' = resolved /\ doubtful' = doubtful
      \/ \E a \in acks : RxAck(a)
  BY DEF SendNext, sendVars, client, resolution, SendCemi, SendCemiDown, ReconnectAborted,
         AckTimeout, AttemptFails, FirstAttemptFails, SecondAttemptFails,
         ThirdAttemptFails, RxNack, TunnelLost, Connect, GatewayForwards,
         GatewayRefuses, GatewaySeesDuplicate
<1>4. ASSUME NEW n \in resolved' \ doubtful' PROVE OnBus(n)
  <2>1. CASE n \in resolved \ doubtful
    BY <1>1, <2>1 DEF ResolvedOnBus
  <2>2. CASE n \notin resolved \ doubtful
    <3>1. PICK a \in acks : RxAck(a)
      BY <1>3, <2>2
    <3>2. n = cur /\ givenUp = 0
      BY <2>2, <3>1 DEF RxAck
    <3> QED
      BY <1>1, <3>1, <3>2, AckedOnBus DEF RxAck
  <2> QED
    BY <2>1, <2>2
<1>5. ResolvedOnBus'
  BY <1>4, BusGrows DEF ResolvedOnBus
<1> QED
  BY <1>2, <1>5

LEMMA AlwaysResolved == SendSpec => []ResolvedInv
<1>1. SendInit => ResolvedInv
  BY InitResolved
<1>2. IInv /\ ResolvedInv /\ [SendNext]_sendVars => ResolvedInv'
  BY NextResolved
<1> QED
  BY <1>1, <1>2, Invariant, PTL DEF SendSpec

\* The caller of sendCemi() is told of success only for a telegram that is on
\* the bus, or that carried the number of one given up before it.
THEOREM Resolved == SendSpec => []ResolvedOnBus
<1>1. ResolvedInv => ResolvedOnBus
  BY DEF ResolvedInv
<1> QED
  BY <1>1, AlwaysResolved, PTL

LEMMA NextNoThirdAttempt ==
  ASSUME ~AutoReconnect, NoThirdAttempt, [SendNext]_sendVars
  PROVE  NoThirdAttempt'
<1>1. CASE UNCHANGED <<phase, givenUp, doubtful>>
  BY <1>1 DEF NoThirdAttempt
<1>2. CASE SendCemi \/ SendCemiDown \/ ReconnectAborted
  BY <1>2 DEF NoThirdAttempt, SendCemi, SendCemiDown, ReconnectAborted, resolution
<1>3. CASE AttemptFails
  BY <1>3 DEF NoThirdAttempt, AttemptFails, FirstAttemptFails, SecondAttemptFails,
              ThirdAttemptFails, BumpSeqOut, resolution
<1>4. ASSUME NEW a \in acks, RxAck(a) PROVE NoThirdAttempt'
  BY <1>4 DEF NoThirdAttempt, RxAck, BumpSeqOut
<1>5. CASE TunnelLost
  BY <1>5 DEF NoThirdAttempt, TunnelLost, BumpSeqOut
<1>6. CASE Connect
  BY <1>6 DEF NoThirdAttempt, Connect
<1>7. CASE UNCHANGED client
  BY <1>1, <1>7 DEF client
<1> QED
  BY <1>2, <1>3, <1>4, <1>5, <1>6, <1>7
  DEF SendNext, sendVars, AckTimeout, RxNack, GatewayForwards, GatewayRefuses,
      GatewaySeesDuplicate

\* Without automatic reconnection success means that the telegram is on the
\* bus: there is no third attempt, which alone leaves a number in use.
THEOREM Reliable == ~AutoReconnect => (SendSpec => []AckMeansOnBus)
<1> SUFFICES ASSUME ~AutoReconnect PROVE SendSpec => []AckMeansOnBus
  OBVIOUS
<1>1. SendInit => NoThirdAttempt
  BY DEF SendInit, NoThirdAttempt
<1>2. NoThirdAttempt /\ [SendNext]_sendVars => NoThirdAttempt'
  BY NextNoThirdAttempt
<1>3. NoThirdAttempt /\ ResolvedOnBus => AckMeansOnBus
  BY DEF NoThirdAttempt, ResolvedOnBus, AckMeansOnBus
<1> QED
  BY <1>1, <1>2, <1>3, Resolved, PTL DEF SendSpec

-----------------------------------------------------------------------------
(* Refinement.                                                              *)

LEMMA InitRefines == SendInit => Delivery!Init
  BY DEF SendInit, Delivery!Init, Delivery!Channel, Channel

\* A forwarded telegram follows those that are on its channel.
LEMMA ForwardRefines ==
  ASSUME IInv, NEW r \in requests, GatewayForwards(r)
  PROVE  \E c \in Delivery!Channel, n \in Delivery!Telegram : Delivery!Forward(c, n)
<1>1. /\ r.chan \in Channel /\ r.tele \in Telegram /\ r.tele <= cur
      /\ r.tele \in Nat /\ Len(bus[r.chan]) \in Nat
  BY DEF IInv, SendTypeOK, Request, RequestInv, Telegram
<1>2. r.pos = Len(bus[r.chan])
  BY ForwardsNext DEF GatewayForwards
<1>3. ASSUME NEW i \in 1..Len(bus[r.chan]) PROVE bus[r.chan][i] < r.tele
  <2>1. PICK s \in requests :
          s.chan = r.chan /\ s.pos = i - 1 /\ s.tele = bus[r.chan][i]
    BY <1>1 DEF IInv, BusInv
  <2>2. r.pos - s.pos <= r.tele - s.tele
    BY <1>1, <1>2, <2>1 DEF IInv, Spread
  <2>3. s.tele \in Nat
    BY DEF IInv, SendTypeOK, Request, Telegram
  <2> QED
    BY <1>1, <1>2, <2>1, <2>2, <2>3
<1>4. /\ bus' = [bus EXCEPT ![r.chan] = Append(@, r.tele)]
      /\ cur' = cur /\ phase' = phase /\ resolved' = resolved
      /\ givenUp' = givenUp /\ doubtful' = doubtful
  BY DEF GatewayForwards, client
<1>5. Delivery!Forward(r.chan, r.tele)
  BY <1>1, <1>3, <1>4 DEF Delivery!Forward
<1> QED
  BY <1>1, <1>5 DEF Delivery!Channel, Delivery!Telegram, Channel, Telegram

LEMMA AckRefines ==
  ASSUME IInv, Unique, NEW a \in acks, RxAck(a)
  PROVE  Delivery!Resolve
<1>1. givenUp = 0 => OnBus(cur)
  BY AckedOnBus DEF RxAck
<1>2. OnBus(cur) => Delivery!OnBus(cur)
  BY DEF OnBus, Delivery!OnBus, Channel, Delivery!Channel
<1>3. phase # "idle" /\ phase' = "idle"
  BY DEF RxAck, Matches, Awaiting
<1> QED
  BY <1>1, <1>2, <1>3 DEF RxAck, BumpSeqOut, Delivery!Resolve

\* Every step of the send path is a step of TelegramDelivery or leaves its
\* variables alone.
LEMMA StepRefines ==
  ASSUME IInv, Unique, [SendNext]_sendVars
  PROVE  [Delivery!Next]_(Delivery!vars)
<1> DEFINE Kept == /\ cur' = cur /\ bus' = bus
                   /\ resolved' = resolved /\ doubtful' = doubtful
<1>a. Kept /\ givenUp' = givenUp /\ ((phase # "idle") <=> (phase' # "idle"))
        => UNCHANGED Delivery!vars
  BY DEF Delivery!vars
<1>b. Kept /\ givenUp' = 0 /\ ((phase # "idle") <=> (phase' # "idle"))
        => Delivery!Next
  BY DEF Delivery!Forget, Delivery!Next
<1>c. Kept /\ phase # "idle" /\ phase' = "idle"
        => Delivery!Next
  BY DEF Delivery!Reject, Delivery!Next
<1>1. CASE SendCemi \/ SendCemiDown
  BY <1>1 DEF SendCemi, SendCemiDown, resolution, Delivery!Begin, Delivery!Next
<1>2. CASE FirstAttemptFails
  BY <1>a, <1>2 DEF FirstAttemptFails, resolution
<1>3. CASE SecondAttemptFails
  BY <1>b, <1>c, <1>3 DEF SecondAttemptFails, BumpSeqOut
<1>4. CASE ThirdAttemptFails
  BY <1>c, <1>4 DEF ThirdAttemptFails
<1>5. CASE ReconnectAborted
  BY <1>c, <1>5 DEF ReconnectAborted, resolution, IInv, SendTypeOK
<1>6. ASSUME NEW a \in acks, RxAck(a) PROVE Delivery!Next
  BY <1>6, AckRefines DEF Delivery!Next
<1>7. CASE TunnelLost
  <2>1. Kept
    BY <1>7 DEF TunnelLost
  <2>2. CASE phase \in {"ack1", "ack2"}
    BY <1>b, <1>c, <1>7, <2>1, <2>2 DEF TunnelLost, BumpSeqOut
  <2>3. CASE phase \notin {"ack1", "ack2"}
    <3>1. phase' = "idle" /\ givenUp' = givenUp
      BY <1>7, <2>3 DEF TunnelLost, IInv, SendTypeOK
    <3> QED
      BY <1>a, <1>c, <2>1, <3>1
  <2> QED
    BY <2>2, <2>3
<1>8. CASE Connect
  <2>1. Kept /\ givenUp' = 0
    BY <1>8 DEF Connect
  <2>2. (phase # "idle") <=> (phase' # "idle")
    BY <1>8 DEF Connect
  <2> QED
    BY <1>b, <2>1, <2>2
<1>9. ASSUME NEW r \in requests, GatewayForwards(r) PROVE Delivery!Next
  BY <1>9, ForwardRefines DEF Delivery!Next
<1>10. ASSUME NEW r \in requests, GatewayRefuses(r) \/ GatewaySeesDuplicate(r)
       PROVE  UNCHANGED Delivery!vars
  BY <1>a, <1>10 DEF GatewayRefuses, GatewaySeesDuplicate, client
<1>11. CASE UNCHANGED sendVars
  BY <1>a, <1>11 DEF sendVars, client
<1> QED
  BY <1>1, <1>2, <1>3, <1>4, <1>5, <1>6, <1>7, <1>8, <1>9, <1>10, <1>11
  DEF SendNext, AckTimeout, RxNack, AttemptFails

\* The numbered, acknowledged, retried send path keeps the promise of
\* TelegramDelivery.
THEOREM Implements == SendSpec => ImplementsDelivery
<1>1. ResolvedInv => Unique
  BY DEF ResolvedInv
<1>2. IInv /\ Unique /\ [SendNext]_sendVars => [Delivery!Next]_(Delivery!vars)
  BY StepRefines
<1>3. SendSpec => Delivery!Spec
  BY <1>1, <1>2, InitRefines, Invariant, AlwaysResolved, PTL DEF SendSpec, Delivery!Spec
<1> QED
  BY <1>3 DEF ImplementsDelivery
=============================================================================
