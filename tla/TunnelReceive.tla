--------------------------- MODULE TunnelReceive ---------------------------
(***************************************************************************)
(* The inbound path of src/io/tunnel.ts over UDP:                          *)
(* _handleInboundTunnelling(), _sendAck(), the out-of-order timer, and     *)
(* what connect() and _onTunnelLost() do to the counter _seqIn, with a     *)
(* gateway and a network that loses, duplicates and reorders datagrams.    *)
(*                                                                         *)
(* The gateway and the network are external.  The gateway sends the        *)
(* telegrams of a channel one at a time, as often as it likes, and goes on *)
(* when one is acknowledged.  The telegram at position p of a channel is   *)
(* called p; the wire carries its residue only.                            *)
(***************************************************************************)
EXTENDS Datagrams

CONSTANT EarlyRequests   \* a TUNNELLING_REQUEST may overtake the CONNECT_RESPONSE

ASSUME EarlyAssumption == EarlyRequests \in BOOLEAN

VARIABLES
  link,             \* "down", "opening" (channelId is null) or "up"
  seqIn,            \* _seqIn
  invalidSeqTimer,  \* _invalidSeqTimer is armed
  emitted,          \* per channel, the telegrams emitted as 'cemi' events
  gchan,            \* the channel the gateway opened last, 0 before the first
  gpos,             \* the telegram it is at
  inRequests,       \* TUNNELLING_REQUESTs in the network
  inAcks            \* those for which a TUNNELLING_ACK is in the network

receiver == <<link, seqIn, invalidSeqTimer, emitted>>
sender   == <<gchan, gpos>>
network  == <<inRequests, inAcks>>
receiveVars == <<receiver, sender, network>>

InRequest == [chan : Channel, seq : 0..SeqMod - 1, pos : Nat]

ReceiveInit ==
  /\ link = "down"
  /\ seqIn = 0
  /\ invalidSeqTimer = FALSE
  /\ emitted = [c \in Channel |-> <<>>]
  /\ gchan = 0 /\ gpos = 0
  /\ inRequests = {} /\ inAcks = {}

-----------------------------------------------------------------------------
(* The connection.                                                          *)

\* A fresh socket is bound; the gateway gets the CONNECT_REQUEST and opens a
\* channel.
Open ==
  /\ link = "down"
  /\ gchan < MaxChannels
  /\ link' = "opening"
  /\ gchan' = gchan + 1
  /\ gpos' = 0
  /\ UNCHANGED <<seqIn, invalidSeqTimer, emitted, network>>

\* Mutated form: the counter of the last connection is kept.
ConnectedKeeping ==
  /\ link = "opening"
  /\ link' = "up"
  /\ UNCHANGED <<seqIn, invalidSeqTimer, emitted, sender, network>>

\* The CONNECT_RESPONSE arrives: connect() resets the counter.
Connected ==
  /\ link = "opening"
  /\ link' = "up"
  /\ seqIn' = 0
  /\ UNCHANGED <<invalidSeqTimer, emitted, sender, network>>

\* connect() gives up; it leaves the out-of-order timer alone.
ConnectFails ==
  /\ link = "opening"
  /\ link' = "down"
  /\ UNCHANGED <<seqIn, invalidSeqTimer, emitted, sender, network>>

\* _onTunnelLost(), for whatever reason, or disconnect(), which cancels the timer
\* before it closes the socket, so that it may be armed again.
LinkLost ==
  /\ link = "up"
  /\ link' = "down"
  /\ invalidSeqTimer' \in {FALSE, invalidSeqTimer}
  /\ UNCHANGED <<seqIn, emitted, sender, network>>

\* The timer fires; a client that is disconnected ignores it.
InvalidSeqTimeout ==
  /\ invalidSeqTimer
  /\ invalidSeqTimer' = FALSE
  /\ link' = "down"
  /\ UNCHANGED <<seqIn, emitted, sender, network>>

-----------------------------------------------------------------------------
(* _handleInboundTunnelling().                                              *)

InNetwork(r) == r.chan = gchan /\ gpos - r.pos <= Lifetime

\* The request reaches the socket and is of this channel, or of any while
\* channelId is null.
Handles(r) == link # "down" /\ InNetwork(r)

SendAck(r) == inAcks' = inAcks \cup {r}

Previous == (seqIn - 1) % SeqMod

\* Mutated form: the counter does not go up.
AcceptStaying(r) ==
  /\ Handles(r)
  /\ r.seq = seqIn
  /\ invalidSeqTimer' = FALSE
  /\ SendAck(r)
  /\ emitted' = [emitted EXCEPT ![r.chan] = Append(@, r.pos)]
  /\ UNCHANGED <<link, seqIn, sender, inRequests>>

Accept(r) ==
  /\ Handles(r)
  /\ r.seq = seqIn
  /\ seqIn' = (seqIn + 1) % SeqMod
  /\ invalidSeqTimer' = FALSE
  /\ SendAck(r)
  /\ emitted' = [emitted EXCEPT ![r.chan] = Append(@, r.pos)]
  /\ UNCHANGED <<link, sender, inRequests>>

\* Acknowledged again, not emitted again.
Duplicate(r) ==
  /\ Handles(r)
  /\ r.seq # seqIn
  /\ r.seq = Previous
  /\ SendAck(r)
  /\ UNCHANGED <<receiver, sender, inRequests>>

\* Dropped; the tunnel is given up unless a request in order comes in time.
\* The timer is not armed while the reconnect loop runs.
OutOfOrder(r) ==
  /\ Handles(r)
  /\ r.seq \notin {seqIn, Previous}
  /\ invalidSeqTimer' \in {TRUE, invalidSeqTimer}
  /\ link = "up" => invalidSeqTimer' = TRUE
  /\ UNCHANGED <<link, seqIn, emitted, sender, network>>

-----------------------------------------------------------------------------
(* The gateway.                                                             *)

GatewayRequests ==
  /\ gchan # 0
  /\ gpos < MaxTelegrams
  /\ EarlyRequests \/ link = "up"
  /\ inRequests' = inRequests \cup
       {[chan |-> gchan, seq |-> gpos % SeqMod, pos |-> gpos]}
  /\ UNCHANGED <<receiver, sender, inAcks>>

GatewayGoesOn(a) ==
  /\ InNetwork(a)
  /\ a.seq = gpos % SeqMod
  /\ gpos' = gpos + 1
  /\ UNCHANGED <<receiver, gchan, network>>

-----------------------------------------------------------------------------

ReceiveNext ==
  \/ Open
  \/ Connected
  \/ ConnectFails
  \/ LinkLost
  \/ InvalidSeqTimeout
  \/ \E r \in inRequests : Accept(r) \/ Duplicate(r) \/ OutOfOrder(r)
  \/ GatewayRequests
  \/ \E a \in inAcks : GatewayGoesOn(a)

ReceiveSpec == ReceiveInit /\ [][ReceiveNext]_receiveVars

-----------------------------------------------------------------------------
(* Properties.                                                              *)

\* The counter keeps its width, and the datagrams their format.
ReceiveTypeOK ==
  /\ link \in {"down", "opening", "up"}
  /\ seqIn \in 0..SeqMod - 1
  /\ invalidSeqTimer \in BOOLEAN
  /\ emitted \in [Channel -> Seq(Nat)]
  /\ gchan \in 0..MaxChannels
  /\ gpos \in Nat
  /\ inRequests \subseteq InRequest
  /\ inAcks \subseteq inRequests

\* The telegrams of a channel are emitted in order, none twice and none left
\* out, whatever was lost, duplicated, reordered or sent again.
EmittedInOrder ==
  \A c \in Channel : \A i \in 1..Len(emitted[c]) : emitted[c][i] = i - 1

\* The gateway moves on only from telegrams that have been emitted: an ACK is
\* never sent for, or taken for that of, a telegram the client has not got.
AckedIsEmitted == gchan # 0 => gpos <= Len(emitted[gchan])
=============================================================================
