----------------------------- MODULE TunnelSend -----------------------------
(***************************************************************************)
(* The outbound path of src/io/tunnel.ts over UDP: sendCemi(),             *)
(* _tunnellingRequestOnce(), _bumpSeqOut(), _handleAck() and the ACK       *)
(* timer, between the client and a gateway that are joined by a network    *)
(* that loses, duplicates and reorders datagrams.                          *)
(*                                                                         *)
(* Telegrams are numbered in the order in which the send queue runs them.  *)
(* A channel is numbered too: connect() obtains a new one and resets the   *)
(* counter.  The tunnel can be lost for a reason that is not a failed send *)
(* (TunnelLost); TunnelClient models those reasons.                        *)
(*                                                                         *)
(* The gateway and the network are external.  The gateway expects the      *)
(* counter of a channel to go up by one, acknowledges the counter it saw   *)
(* last again without forwarding, and ignores any other.                   *)
(***************************************************************************)
EXTENDS Datagrams

CONSTANT AutoReconnect   \* opts.autoReconnect

ASSUME AutoReconnectAssumption == AutoReconnect \in BOOLEAN

VARIABLES
  cur,       \* the telegram the head of the send queue carries
  phase,     \* where its sendCemi() is suspended
  chan,      \* the channel in use, 0 when not connected
  chans,     \* the number of channels opened so far
  seqOut,    \* _seqOut
  pos,       \* auxiliary: the increments of seqOut on this channel
  requests,  \* TUNNELLING_REQUESTs in the network
  acks,      \* TUNNELLING_ACKs in the network
  bus,       \* per channel, the telegrams the gateway put on the bus
  resolved,  \* the telegrams whose sendCemi() has resolved
  givenUp,   \* auxiliary: a telegram given up with this counter, 0 if none
  doubtful   \* auxiliary: those resolved with such a counter

client  == <<cur, phase, chan, chans, seqOut, pos, resolved, givenUp, doubtful>>
resolution == <<resolved, givenUp, doubtful>>
sendVars    == <<client, requests, acks, bus>>

Telegram == 1..MaxTelegrams

\* The channel and the position in it of a datagram's counter, which only the
\* counter's residue represents on the wire.
Request == [chan : Channel, seq : 0..SeqMod - 1, tele : Telegram, pos : Nat]
Ack     == [req : Request, ok : BOOLEAN]

Awaiting == {"ack1", "ack2", "ack3"}

SendInit ==
  /\ cur = 0 /\ phase = "idle"
  /\ chan = 0 /\ chans = 0
  /\ seqOut = 0 /\ pos = 0
  /\ requests = {} /\ acks = {}
  /\ bus = [c \in Channel |-> <<>>]
  /\ resolved = {} /\ doubtful = {}
  /\ givenUp = 0

-----------------------------------------------------------------------------
(* The client.                                                              *)

\* _tunnellingRequestOnce() sends telegram n on channel c.
Transmit(c, seq, p, n) ==
  requests' = requests \cup {[chan |-> c, seq |-> seq, tele |-> n, pos |-> p]}

\* Mutated form: the counter is not cut to its width.
BumpSeqOutWide == seqOut' = seqOut + 1 /\ pos' = pos + 1 /\ givenUp' = 0

BumpSeqOut ==
  /\ seqOut' = (seqOut + 1) % SeqMod
  /\ pos' = pos + 1 /\ givenUp' = 0

\* sendCemi() of the next telegram.  The queue's next task starts when the
\* previous one has settled.
SendCemi ==
  /\ phase = "idle"
  /\ chan # 0
  /\ cur < MaxTelegrams
  /\ cur' = cur + 1
  /\ phase' = "ack1"
  /\ Transmit(chan, seqOut, pos, cur + 1)
  /\ UNCHANGED <<chan, chans, seqOut, pos, acks, bus, resolution>>

\* Without a tunnel it throws, or waits for the reconnect loop if that runs.
SendCemiDown ==
  /\ phase = "idle"
  /\ chan = 0
  /\ cur < MaxTelegrams
  /\ cur' = cur + 1
  /\ phase' \in IF AutoReconnect THEN {"idle", "waiting"} ELSE {"idle"}
  /\ UNCHANGED <<chan, chans, seqOut, pos, requests, acks, bus, resolution>>

\* Mutated form: the retry takes a new sequence number.
FirstAttemptFailsBumping ==
  /\ phase = "ack1"
  /\ phase' = "ack2"
  /\ BumpSeqOut
  /\ Transmit(chan, (seqOut + 1) % SeqMod, pos + 1, cur)
  /\ UNCHANGED <<cur, chan, chans, acks, bus, resolved, doubtful>>

\* Retry once with the same sequence number.
FirstAttemptFails ==
  /\ phase = "ack1"
  /\ phase' = "ack2"
  /\ Transmit(chan, seqOut, pos, cur)
  /\ UNCHANGED <<cur, chan, chans, seqOut, pos, acks, bus, resolution>>

\* Mutated form: the tunnel is not given up.
SecondAttemptFailsStaying ==
  /\ phase = "ack2"
  /\ phase' = "idle"
  /\ UNCHANGED <<cur, chan, chans, seqOut, pos, requests, acks, bus, resolution>>

\* The tunnel is lost; with autoReconnect a third attempt will follow.
SecondAttemptFails ==
  /\ phase = "ack2"
  /\ BumpSeqOut
  /\ chan' = 0
  /\ phase' = IF AutoReconnect THEN "reconnect" ELSE "idle"
  /\ UNCHANGED <<cur, chans, requests, acks, bus, resolved, doubtful>>

\* sendCemi() rejects.  Neither the counter nor the tunnel changes.
ThirdAttemptFails ==
  /\ phase = "ack3"
  /\ phase' = "idle"
  /\ givenUp' = cur
  /\ UNCHANGED <<cur, chan, chans, seqOut, pos, requests, acks, bus,
                 resolved, doubtful>>

AttemptFails == FirstAttemptFails \/ SecondAttemptFails \/ ThirdAttemptFails

\* No TUNNELLING_ACK within TUNNELLING_REQUEST_TIMEOUT_MS.
AckTimeout == AttemptFails

Alive(r) == cur - r.tele <= Lifetime

\* Mutated form: an ACK of the channel is taken for the one awaited.
MatchesAny(a) ==
  /\ phase \in Awaiting
  /\ a.req.chan = chan
  /\ Alive(a.req)

\* _handleAck() looks at the sequence number only.  Without localPort each
\* connection has a fresh port, which the ACKs of older channels do not reach; with
\* a fixed one (config.ts:244-246) they would, and are not part of this model.
Matches(a) ==
  /\ phase \in Awaiting
  /\ a.req.chan = chan
  /\ Alive(a.req)
  /\ a.req.seq = seqOut

\* _handleAck() with E_NO_ERROR: the attempt succeeds.
RxAck(a) ==
  /\ Matches(a)
  /\ a.ok
  /\ phase' = "idle"
  /\ resolved' = resolved \cup {cur}
  /\ doubtful' = IF givenUp # 0 THEN doubtful \cup {cur} ELSE doubtful
  /\ BumpSeqOut
  /\ UNCHANGED <<cur, chan, chans, requests, acks, bus>>

\* _handleAck() with an error status: the attempt fails.
RxNack(a) ==
  /\ Matches(a)
  /\ ~a.ok
  /\ AttemptFails

\* The tunnel is lost while it is up, for another reason: a pending ACK is
\* rejected, and the attempts that are left before the reconnect fail at once.
TunnelLost ==
  /\ chan # 0
  /\ chan' = 0
  /\ IF phase \in {"ack1", "ack2"}
     THEN /\ BumpSeqOut
          /\ phase' = IF AutoReconnect THEN "reconnect" ELSE "idle"
     ELSE phase' = "idle" /\ UNCHANGED <<seqOut, pos, givenUp>>
  /\ UNCHANGED <<cur, chans, requests, acks, bus, resolved, doubtful>>

\* The loop is aborted by disconnect(): the sendCemi() that awaited it throws.
ReconnectAborted ==
  /\ phase \in {"waiting", "reconnect"}
  /\ phase' = "idle"
  /\ UNCHANGED <<cur, chan, chans, seqOut, pos, requests, acks, bus, resolution>>

\* connect() succeeds.  A sendCemi() that waited makes its first attempt, or
\* its third.
Connect ==
  /\ chan = 0
  /\ chans < MaxChannels
  /\ chans' = chans + 1
  /\ chan' = chans + 1
  /\ seqOut' = 0 /\ pos' = 0 /\ givenUp' = 0
  /\ CASE phase = "reconnect" ->
            phase' = "ack3" /\ Transmit(chans + 1, 0, 0, cur)
       [] phase = "waiting" ->
            phase' = "ack1" /\ Transmit(chans + 1, 0, 0, cur)
       [] OTHER -> UNCHANGED <<phase, requests>>
  /\ UNCHANGED <<cur, acks, bus, resolved, doubtful>>

-----------------------------------------------------------------------------
(* The gateway.                                                             *)

Expected(c) == Len(bus[c]) % SeqMod

Acknowledge(r, ok) == acks' = acks \cup {[req |-> r, ok |-> ok]}

GatewayForwards(r) ==
  /\ Alive(r)
  /\ r.seq = Expected(r.chan)
  /\ bus' = [bus EXCEPT ![r.chan] = Append(@, r.tele)]
  /\ Acknowledge(r, TRUE)
  /\ UNCHANGED <<client, requests>>

GatewayRefuses(r) ==
  /\ Alive(r)
  /\ r.seq = Expected(r.chan)
  /\ Acknowledge(r, FALSE)
  /\ UNCHANGED <<client, requests, bus>>

GatewaySeesDuplicate(r) ==
  /\ Alive(r)
  /\ bus[r.chan] # <<>>
  /\ r.seq = (Len(bus[r.chan]) - 1) % SeqMod
  /\ Acknowledge(r, TRUE)
  /\ UNCHANGED <<client, requests, bus>>

-----------------------------------------------------------------------------

SendNext ==
  \/ SendCemi
  \/ SendCemiDown
  \/ ReconnectAborted
  \/ AckTimeout
  \/ \E a \in acks : RxAck(a) \/ RxNack(a)
  \/ TunnelLost
  \/ Connect
  \/ \E r \in requests :
       GatewayForwards(r) \/ GatewayRefuses(r) \/ GatewaySeesDuplicate(r)

SendSpec == SendInit /\ [][SendNext]_sendVars

-----------------------------------------------------------------------------
(* Properties.                                                              *)

\* The counter keeps its width, and the datagrams their format.
SendTypeOK ==
  /\ cur \in 0..MaxTelegrams
  /\ phase \in Awaiting \cup {"idle", "waiting", "reconnect"}
  /\ chans \in 0..MaxChannels
  /\ chan \in 0..chans
  /\ seqOut \in 0..SeqMod - 1
  /\ pos \in Nat
  /\ requests \subseteq Request
  /\ acks \subseteq Ack
  /\ bus \in [Channel -> Seq(Telegram)]
  /\ resolved \subseteq Telegram /\ doubtful \subseteq resolved
  /\ givenUp \in 0..cur

\* A channel carries the telegrams in the order of the calls of sendCemi() and
\* none of them twice, whatever was retried, duplicated, reordered or lost.
BusInOrder ==
  \A c \in Channel : \A i, j \in 1..Len(bus[c]) :
    i < j => bus[c][i] < bus[c][j]

OnBus(n) == \E c \in Channel : \E i \in 1..Len(bus[c]) : bus[c][i] = n

\* sendCemi() resolves only for a telegram the gateway has put on the bus (no
\* ACK is taken for that of another telegram), or one that was sent with the
\* sequence number of a telegram given up before it.
ResolvedOnBus == \A n \in resolved \ doubtful : OnBus(n)

\* tunnel.ts:5-7 and 382, "the spec requires awaiting the ACK before the next
\* send", "resolves on TUNNELLING_ACK": a resolved telegram is on the bus.
AckMeansOnBus == \A n \in resolved : OnBus(n)

\* The tunnel keeps the promise of TelegramDelivery.
Delivery ==
  INSTANCE TelegramDelivery WITH busy <- phase # "idle", doubt <- givenUp # 0
ImplementsDelivery == Delivery!Spec
=============================================================================
