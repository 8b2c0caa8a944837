-------------------------- MODULE TelegramDelivery --------------------------
(***************************************************************************)
(* What TunnelClient.sendCemi() (src/io/tunnel.ts) promises its callers.   *)
(* Telegrams are numbered in the order of the calls and handled one at a   *)
(* time.  The gateway puts telegrams on the bus through a channel in the   *)
(* order of the calls and never twice through the same channel; a promise  *)
(* is resolved only for a telegram that has reached the bus.  A telegram   *)
(* whose promise was rejected may have reached the bus, or reach it later, *)
(* and casts doubt on the next that is resolved, which may be confused     *)
(* with it.                                                                *)
(***************************************************************************)
EXTENDS Naturals, Sequences

CONSTANTS MaxTelegrams, MaxChannels

VARIABLES
  cur,       \* the last telegram taken from the queue
  busy,      \* its promise is not settled yet
  bus,       \* per channel, the telegrams put on the bus, in order
  resolved,  \* the telegrams whose promise was resolved
  doubt,     \* the telegram before may be confused with this one
  doubtful   \* the telegrams resolved in doubt

vars == <<cur, busy, bus, resolved, doubt, doubtful>>

Channel  == 1..MaxChannels
Telegram == 1..MaxTelegrams

Init ==
  /\ cur = 0
  /\ busy = FALSE
  /\ bus = [c \in Channel |-> <<>>]
  /\ resolved = {}
  /\ doubt = FALSE
  /\ doubtful = {}

\* The next call is taken from the queue; it may be refused at once.
Begin ==
  /\ ~busy
  /\ cur < MaxTelegrams
  /\ cur' = cur + 1
  /\ busy' \in BOOLEAN
  /\ UNCHANGED <<bus, resolved, doubt, doubtful>>

Forward(c, n) ==
  /\ n <= cur
  /\ \A i \in 1..Len(bus[c]) : bus[c][i] < n
  /\ bus' = [bus EXCEPT ![c] = Append(@, n)]
  /\ UNCHANGED <<cur, busy, resolved, doubt, doubtful>>

OnBus(n) == \E c \in Channel : \E i \in 1..Len(bus[c]) : bus[c][i] = n

Resolve ==
  /\ busy
  /\ OnBus(cur) \/ doubt
  /\ busy' = FALSE
  /\ resolved' = resolved \cup {cur}
  /\ doubtful' = IF doubt THEN doubtful \cup {cur} ELSE doubtful
  /\ doubt' = FALSE
  /\ UNCHANGED <<cur, bus>>

Reject ==
  /\ busy
  /\ busy' = FALSE
  /\ doubt' \in BOOLEAN
  /\ UNCHANGED <<cur, bus, resolved, doubtful>>

\* A new channel, or a new number, ends the doubt.
Forget ==
  /\ doubt' = FALSE
  /\ UNCHANGED <<cur, busy, bus, resolved, doubtful>>

Next ==
  \/ Begin
  \/ \E c \in Channel, n \in Telegram : Forward(c, n)
  \/ Resolve
  \/ Reject
  \/ Forget

Spec == Init /\ [][Next]_vars
=============================================================================
