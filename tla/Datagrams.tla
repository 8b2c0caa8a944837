------------------------------ MODULE Datagrams -------------------------------
(***************************************************************************)
(* What the two directions of the tunnel (TunnelSend, TunnelReceive) share *)
(* of the UDP network and of KNXnet/IP: sequence counters that wrap, and   *)
(* datagrams that a network loses, duplicates and reorders, but does not   *)
(* keep for ever.                                                          *)
(***************************************************************************)
EXTENDS Integers, Sequences

CONSTANTS
  SeqMod,         \* the counters wrap here: 256
  Lifetime,       \* a datagram is gone when that many newer telegrams are sent
  MaxTelegrams,   \* bound on the telegrams: the calls of sendCemi(), or those
                  \* that a gateway sends through a channel
  MaxChannels     \* bound on the channels opened

ASSUME SizesAssumption ==
  /\ SeqMod \in Nat /\ Lifetime \in Nat
  /\ MaxTelegrams \in Nat /\ MaxChannels \in Nat

\* Datagrams do not live as long as the counter takes to come round.
ASSUME LifetimeAssumption == Lifetime + 1 < SeqMod

Channel == 1..MaxChannels
=============================================================================
