------------------------ MODULE TunnelClient_proofs ------------------------
(***************************************************************************)
(* Proofs about TunnelClient, for every set of callers, sockets, channels  *)
(* and heartbeats and every limit of failures.                             *)
(*                                                                         *)
(* First, of a client that is used in any way and order: its types, that   *)
(* nobody who awaits a promise is left stranded, and that the owner of a   *)
(* slot waits for it.  Good is what every method of the client preserves.  *)
(* Then, of a client whose owner is orderly: its sockets and its lifecycle.*)
(*                                                                         *)
(* Last, of ConfigNode, for every set of children: the node is an owner of *)
(* its client, so that all this holds of it too, and the tunnel follows    *)
(* the children.                                                           *)
(***************************************************************************)
EXTENDS ConfigNode, TLAPS

-----------------------------------------------------------------------------
(* The inductive invariant.                                                 *)

\* A response is awaited by a function of the kind that asked for it.
OwnerOfItsKind(x) ==
  LET r == x.pendingResponse
  IN  /\ r.type = "connect"    => r.owner \in ConnProc \cup {None}
      /\ r.type = "state"      => r.owner \in Beats \cup {None}
      /\ r.type = "disconnect" => r.owner \in Closers \cup {None}

\* A socket being bound belongs to one connect(), which is at its bind, and is
\* not the client's transport.
BindsAreOwned(x) ==
  /\ \A p \in ConnProc :
       /\ x.conn[p] = "binding" <=> x.opening[p] # None
       /\ x.opening[p] # None => x.sock[x.opening[p]] = "binding"
  /\ \A p, q \in ConnProc : x.opening[p] = x.opening[q] => p = q \/ x.opening[p] = None
  /\ \A t \in Sockets : x.sock[t] = "binding" => \E p \in ConnProc : x.opening[p] = t
  /\ x.transport # None => x.sock[x.transport] \in {"open", "dead"}

\* The loop is in an attempt as long as its connect() is running.
LoopConnects(x) == x.loop = "connecting" <=> x.conn[Loop] # "idle"

Sound(x) ==
  /\ x \in ClientState
  /\ OwnerOfItsKind(x)
  /\ BindsAreOwned(x)
  /\ ConnectsAreServed(x) /\ HeartbeatsAreServed(x)
  /\ ClosersAreServed(x) /\ SenderIsServed(x)
  /\ ResponseOwnerWaits(x) /\ AckOwnerWaits(x)

Good(x) == Sound(x) /\ LoopConnects(x)

\* No async function is waiting for its turn.
Settled(x) ==
  /\ \A p \in ConnProc : x.conn[p] # "rejected"
  /\ \A h \in Beats : x.beat[h].pc # "rejected"
  /\ \A d \in Closers : x.closer[d] \notin {"rejected", "resumed"}
  /\ x.sender.pc \notin {"rejected", "resumed"}

HasFree(x) == \E t \in Sockets : x.sock[t] = "free"

\* A function whose turn is due may find the tunnel lost and start the loop: the
\* pool has a socket left for it.
Room(x) == x.loop = "none" /\ ~Settled(x) => HasFree(x)

IInv ==
  /\ Good(tc)
  /\ Room(tc)
  /\ user \in [wants : {"up", "down"}, habit : Habits]

-----------------------------------------------------------------------------
(* The methods.  For each: what it leaves alone and what it sets, and that  *)
(* it keeps what is sound.                                                  *)

Fields == {"autoReconnect", "overTcp", "state", "transport", "sock", "opening", "channelId",
           "pendingAck", "pendingResponse", "heartbeatTimer", "invalidSeqTimer",
           "reconnectAbort", "loop", "conn", "beat", "closer", "sender"}

\* From x to y nothing but the fields F changes.
Only(x, y, F) == \A f \in Fields \ F : y[f] = x[f]

\* No free socket is taken.
Frees(x, y) == \A t \in Sockets : x.sock[t] = "free" => y.sock[t] = "free"

\* Where a disconnect() has set the state and not yet returned.
Closing == {"response", "rejected", "closing"}

BeatState == [pc : BeatPc, n : 0..HeartbeatMaxFailures]

LEMMA NoneIsNobody ==
  /\ None \notin ConnProc /\ None \notin Beats /\ None \notin Closers
  /\ None \notin Sockets /\ None \notin Channels
  /\ Loop \in ConnProc /\ Loop \notin Callers
BY NamesAssumption DEF Owners, ConnProc

\* Who awaits the response is rejected.
LEMMA RejectResponseFields ==
  ASSUME NEW x \in ClientState, NEW y, y = RejectPendingResponse(x),
         NEW o, o = x.pendingResponse.owner
  PROVE  /\ y \in ClientState
         /\ Only(x, y, {"pendingResponse", "conn", "beat", "closer"})
         /\ y.pendingResponse = NoResponse
         /\ \A p \in ConnProc : y.conn[p] = IF p = o THEN "rejected" ELSE x.conn[p]
         /\ \A h \in Beats : y.beat[h].pc = IF h = o THEN "rejected" ELSE x.beat[h].pc
         /\ \A d \in Closers : y.closer[d] = IF d = o THEN "rejected" ELSE x.closer[d]
<1> DEFINE conn == [p \in ConnProc |-> IF p = o THEN "rejected" ELSE x.conn[p]]
           beat == [h \in Beats |-> IF h = o THEN [pc |-> "rejected", n |-> x.beat[h].n]
                                    ELSE x.beat[h]]
           closer == [d \in Closers |-> IF d = o THEN "rejected" ELSE x.closer[d]]
           r == NoResponse
<1>1. y = [x EXCEPT !.pendingResponse = r, !.conn = conn, !.beat = beat, !.closer = closer]
  BY DEF RejectPendingResponse
<1>2. /\ conn \in [ConnProc -> ConnPc] /\ closer \in [Closers -> CloserPc]
      /\ \A p \in ConnProc : conn[p] = IF p = o THEN "rejected" ELSE x.conn[p]
      /\ \A d \in Closers : closer[d] = IF d = o THEN "rejected" ELSE x.closer[d]
  BY DEF ClientState, ConnPc, CloserPc
<1>3. /\ beat \in [Beats -> [pc : BeatPc, n : 0..HeartbeatMaxFailures]]
      /\ \A h \in Beats : beat[h].pc = IF h = o THEN "rejected" ELSE x.beat[h].pc
  BY DEF ClientState, BeatPc
<1>4. r \in Response \cup {NoResponse}
  OBVIOUS
<1> HIDE DEF conn, beat, closer, r
<1>5. [x EXCEPT !.pendingResponse = r, !.conn = conn, !.beat = beat, !.closer = closer]
        \in ClientState
  BY <1>2, <1>3, <1>4 DEF ClientState
<1>6. Only(x, y, {"pendingResponse", "conn", "beat", "closer"})
  BY <1>1 DEF ClientState, Only, Fields
<1>7. y.pendingResponse = r /\ y.conn = conn /\ y.beat = beat /\ y.closer = closer
  BY <1>1 DEF ClientState
<1> QED
  BY <1>1, <1>2, <1>3, <1>5, <1>6, <1>7 DEF r

LEMMA RejectResponseSound ==
  ASSUME NEW x, Sound(x)
  PROVE  Sound(RejectPendingResponse(x))
<1> DEFINE y == RejectPendingResponse(x)
           o == x.pendingResponse.owner
<1>0. x \in ClientState
  BY DEF Sound
<1>1. /\ y \in ClientState
      /\ Only(x, y, {"pendingResponse", "conn", "beat", "closer"})
      /\ y.pendingResponse = NoResponse
      /\ \A p \in ConnProc : y.conn[p] = IF p = o THEN "rejected" ELSE x.conn[p]
      /\ \A h \in Beats : y.beat[h].pc = IF h = o THEN "rejected" ELSE x.beat[h].pc
      /\ \A d \in Closers : y.closer[d] = IF d = o THEN "rejected" ELSE x.closer[d]
  BY <1>0, RejectResponseFields
<1>2. /\ y.loop = x.loop /\ y.sock = x.sock /\ y.opening = x.opening
      /\ y.transport = x.transport /\ y.pendingAck = x.pendingAck /\ y.sender = x.sender
  BY <1>1 DEF Only, Fields
<1> HIDE DEF y
<1>3. OwnerOfItsKind(y)
  BY <1>1 DEF OwnerOfItsKind, NoResponse
<1>4. BindsAreOwned(y)
  BY <1>1, <1>2 DEF Sound, BindsAreOwned, ResponseOwnerWaits
<1>5. /\ ConnectsAreServed(y) /\ HeartbeatsAreServed(y)
      /\ ClosersAreServed(y) /\ SenderIsServed(y)
  BY <1>1, <1>2
     DEF Sound, ConnectsAreServed, HeartbeatsAreServed, ClosersAreServed, SenderIsServed
<1>6. ResponseOwnerWaits(y) /\ AckOwnerWaits(y)
  BY <1>1, <1>2, NoneIsNobody DEF Sound, ResponseOwnerWaits, AckOwnerWaits, NoResponse
<1> QED
  BY <1>1, <1>3, <1>4, <1>5, <1>6 DEF Sound, y

\* The sender that awaits the ACK is rejected.
LEMMA RejectAckFields ==
  ASSUME NEW x \in ClientState, NEW y, y = RejectPendingAck(x)
  PROVE  /\ y \in ClientState
         /\ Only(x, y, {"pendingAck", "sender"})
         /\ y.pendingAck = "none"
         /\ y.sender.pc = IF x.pendingAck = "sender" THEN "rejected" ELSE x.sender.pc
<1>1. x.sender \in [pc : SenderPc, attempt : 0..3]
  BY DEF ClientState
<1>2. CASE x.pendingAck = "sender"
  <2> DEFINE s == [x.sender EXCEPT !.pc = "rejected"]
  <2>1. s \in [pc : SenderPc, attempt : 0..3] /\ s.pc = "rejected"
    BY <1>1 DEF SenderPc
  <2>2. y = [x EXCEPT !.pendingAck = "none", !.sender = s]
    BY <1>2 DEF RejectPendingAck, ClientState
  <2> HIDE DEF s
  <2> QED
    BY <1>2, <2>1, <2>2 DEF ClientState, Only, Fields
<1>3. CASE x.pendingAck # "sender"
  <2>1. y = [x EXCEPT !.pendingAck = "none"]
    BY <1>3 DEF RejectPendingAck
  <2> QED
    BY <1>3, <2>1 DEF ClientState, Only, Fields
<1> QED
  BY <1>2, <1>3

LEMMA RejectAckSound ==
  ASSUME NEW x, Sound(x)
  PROVE  Sound(RejectPendingAck(x))
<1> DEFINE y == RejectPendingAck(x)
<1>1. /\ x \in ClientState /\ y \in ClientState
      /\ Only(x, y, {"pendingAck", "sender"})
      /\ y.pendingAck = "none"
      /\ y.sender.pc = IF x.pendingAck = "sender" THEN "rejected" ELSE x.sender.pc
  BY RejectAckFields DEF Sound
<1>2. /\ y.loop = x.loop /\ y.sock = x.sock /\ y.opening = x.opening
      /\ y.transport = x.transport /\ y.pendingResponse = x.pendingResponse
      /\ y.conn = x.conn /\ y.beat = x.beat /\ y.closer = x.closer
  BY <1>1 DEF Only, Fields
<1> HIDE DEF y
<1>3. OwnerOfItsKind(y) /\ BindsAreOwned(y) /\ ResponseOwnerWaits(y)
  BY <1>2 DEF Sound, OwnerOfItsKind, BindsAreOwned, ResponseOwnerWaits
<1>4. ConnectsAreServed(y) /\ HeartbeatsAreServed(y) /\ ClosersAreServed(y)
  BY <1>2 DEF Sound, ConnectsAreServed, HeartbeatsAreServed, ClosersAreServed
<1>5. SenderIsServed(y) /\ AckOwnerWaits(y)
  BY <1>1, <1>2 DEF Sound, SenderIsServed, AckOwnerWaits
<1> QED
  BY <1>1, <1>3, <1>4, <1>5 DEF Sound, y

\* The transport is forgotten, its socket is free.
LEMMA TeardownFields ==
  ASSUME NEW x \in ClientState, NEW y, y = TeardownTransport(x)
  PROVE  /\ y \in ClientState
         /\ Only(x, y, {"transport", "sock"})
         /\ y.transport = None
         /\ \A t \in Sockets : y.sock[t] = IF t = x.transport THEN "free" ELSE x.sock[t]
<1>1. CASE x.transport = None
  BY <1>1, NoneIsNobody DEF TeardownTransport, Only
<1>2. CASE x.transport # None
  <2>1. y = [x EXCEPT !.sock[x.transport] = "free", !.transport = None]
    BY <1>2 DEF TeardownTransport
  <2>2. [x EXCEPT !.sock[x.transport] = "free", !.transport = None] \in ClientState
    BY <1>2 DEF ClientState
  <2>3. Only(x, y, {"transport", "sock"}) /\ y.transport = None
    BY <1>2, <2>1 DEF ClientState, Only, Fields
  <2>4. y.sock = [t \in Sockets |-> IF t = x.transport THEN "free" ELSE x.sock[t]]
    BY <1>2, <2>1 DEF ClientState
  <2> QED
    BY <2>1, <2>2, <2>3, <2>4
<1> QED
  BY <1>1, <1>2

LEMMA TeardownSound ==
  ASSUME NEW x, Sound(x)
  PROVE  Sound(TeardownTransport(x))
<1> DEFINE y == TeardownTransport(x)
<1>1. /\ x \in ClientState /\ y \in ClientState
      /\ Only(x, y, {"transport", "sock"})
      /\ y.transport = None
      /\ \A t \in Sockets : y.sock[t] = IF t = x.transport THEN "free" ELSE x.sock[t]
  BY TeardownFields DEF Sound
<1>2. /\ y.loop = x.loop /\ y.opening = x.opening /\ y.pendingResponse = x.pendingResponse
      /\ y.pendingAck = x.pendingAck /\ y.conn = x.conn /\ y.beat = x.beat
      /\ y.closer = x.closer /\ y.sender = x.sender
  BY <1>1 DEF Only, Fields
<1> HIDE DEF y
<1>3. BindsAreOwned(y)
  <2>1. \A p \in ConnProc : x.opening[p] \in Sockets \cup {None}
    BY <1>1 DEF ClientState
  <2> QED
    BY <1>1, <1>2, <2>1, NoneIsNobody DEF Sound, BindsAreOwned
<1>4. /\ OwnerOfItsKind(y) /\ ResponseOwnerWaits(y) /\ AckOwnerWaits(y)
      /\ ConnectsAreServed(y) /\ HeartbeatsAreServed(y)
      /\ ClosersAreServed(y) /\ SenderIsServed(y)
  BY <1>2 DEF Sound, OwnerOfItsKind, ResponseOwnerWaits, AckOwnerWaits, ConnectsAreServed,
              HeartbeatsAreServed, ClosersAreServed, SenderIsServed
<1> QED
  BY <1>1, <1>3, <1>4 DEF Sound, y
\* The loop ends: those who await it get their turn.
LEMMA LoopEndsFields ==
  ASSUME NEW x \in ClientState, NEW y, y = LoopEnds(x)
  PROVE  /\ y \in ClientState
         /\ Only(x, y, {"loop", "closer", "sender"})
         /\ y.loop = "none"
         /\ \A d \in Closers : y.closer[d] = IF x.closer[d] = "reconnecting" THEN "resumed"
                                             ELSE x.closer[d]
         /\ y.sender.pc = IF x.sender.pc = "reconnecting" THEN "resumed" ELSE x.sender.pc
<1> DEFINE closer == [d \in Closers |-> IF x.closer[d] = "reconnecting" THEN "resumed"
                                        ELSE x.closer[d]]
           sender == IF x.sender.pc # "reconnecting" THEN x.sender
                     ELSE [pc |-> "resumed", attempt |-> x.sender.attempt]
<1>1. y = [x EXCEPT !.loop = "none", !.closer = closer, !.sender = sender]
  BY DEF LoopEnds
<1>2. /\ closer \in [Closers -> CloserPc]
      /\ \A d \in Closers : closer[d] = IF x.closer[d] = "reconnecting" THEN "resumed"
                                        ELSE x.closer[d]
  BY DEF ClientState, CloserPc
<1>3. x.sender \in [pc : SenderPc, attempt : 0..3]
  BY DEF ClientState
<1>4. /\ sender \in [pc : SenderPc, attempt : 0..3]
      /\ sender.pc = IF x.sender.pc = "reconnecting" THEN "resumed" ELSE x.sender.pc
  BY <1>3 DEF SenderPc
<1> HIDE DEF closer, sender
<1>5. [x EXCEPT !.loop = "none", !.closer = closer, !.sender = sender] \in ClientState
  BY <1>2, <1>4 DEF ClientState
<1>6. /\ Only(x, y, {"loop", "closer", "sender"})
      /\ y.loop = "none" /\ y.closer = closer /\ y.sender = sender
  BY <1>1 DEF ClientState, Only, Fields
<1> QED
  BY <1>1, <1>2, <1>4, <1>5, <1>6

LEMMA LoopEndsGood ==
  ASSUME NEW x, Sound(x), x.conn[Loop] = "idle"
  PROVE  Good(LoopEnds(x))
<1> DEFINE y == LoopEnds(x)
<1>1. /\ x \in ClientState /\ y \in ClientState
      /\ Only(x, y, {"loop", "closer", "sender"})
      /\ y.loop = "none"
      /\ \A d \in Closers : y.closer[d] = IF x.closer[d] = "reconnecting" THEN "resumed"
                                          ELSE x.closer[d]
      /\ y.sender.pc = IF x.sender.pc = "reconnecting" THEN "resumed" ELSE x.sender.pc
  BY LoopEndsFields DEF Sound
<1>2. /\ y.sock = x.sock /\ y.opening = x.opening /\ y.transport = x.transport
      /\ y.pendingResponse = x.pendingResponse /\ y.pendingAck = x.pendingAck
      /\ y.conn = x.conn /\ y.beat = x.beat
  BY <1>1 DEF Only, Fields
<1> HIDE DEF y
<1>3. /\ OwnerOfItsKind(y) /\ BindsAreOwned(y)
      /\ ConnectsAreServed(y) /\ HeartbeatsAreServed(y)
  BY <1>2 DEF Sound, OwnerOfItsKind, BindsAreOwned, ConnectsAreServed, HeartbeatsAreServed
<1>4. ClosersAreServed(y) /\ SenderIsServed(y)
  BY <1>1, <1>2 DEF Sound, ClosersAreServed, SenderIsServed
<1>5. ResponseOwnerWaits(y) /\ AckOwnerWaits(y)
  BY <1>1, <1>2 DEF Sound, ResponseOwnerWaits, AckOwnerWaits
<1>6. LoopConnects(y)
  BY <1>1, <1>2 DEF LoopConnects
<1> QED
  BY <1>1, <1>3, <1>4, <1>5, <1>6 DEF Good, Sound, y

\* connect() of p returns or throws.
LEMMA ConnectEndsFields ==
  ASSUME NEW x \in ClientState, NEW p \in ConnProc, NEW ok \in BOOLEAN,
         NEW y, y = ConnectEnds(x, p, ok)
  PROVE  /\ y \in ClientState
         /\ Only(x, y, {"conn", "opening", "loop", "closer", "sender"})
         /\ \A q \in ConnProc : /\ y.conn[q] = IF q = p THEN "idle" ELSE x.conn[q]
                                /\ y.opening[q] = IF q = p THEN None ELSE x.opening[q]
         /\ p # Loop => Only(x, y, {"conn", "opening"})
         /\ p = Loop /\ ~ok => Only(x, y, {"conn", "opening", "loop"}) /\ y.loop = "delay"
         /\ p = Loop /\ ok =>
              /\ y.loop = "none"
              /\ \A d \in Closers : y.closer[d] = IF x.closer[d] = "reconnecting"
                                                  THEN "resumed" ELSE x.closer[d]
              /\ y.sender.pc = IF x.sender.pc = "reconnecting" THEN "resumed"
                               ELSE x.sender.pc
<1> DEFINE z == [x EXCEPT !.conn[p] = "idle", !.opening[p] = None]
<1>1. z \in ClientState
  BY DEF ClientState, ConnPc
<1>2. Only(x, z, {"conn", "opening"})
  BY DEF ClientState, Only, Fields
<1>3. \A q \in ConnProc : /\ z.conn[q] = IF q = p THEN "idle" ELSE x.conn[q]
                          /\ z.opening[q] = IF q = p THEN None ELSE x.opening[q]
  BY DEF ClientState
<1>4. y = CASE p # Loop       -> z
            [] p = Loop /\ ok -> LoopEnds(z)
            [] OTHER          -> [z EXCEPT !.loop = "delay"]
  BY DEF ConnectEnds
<1> HIDE DEF z
<1>5. CASE p # Loop
  BY <1>1, <1>2, <1>3, <1>4, <1>5 DEF Only
<1>6. CASE p = Loop /\ ok
  <2>1. y = LoopEnds(z)
    BY <1>4, <1>6
  <2>2. /\ y \in ClientState
        /\ Only(z, y, {"loop", "closer", "sender"})
        /\ y.loop = "none"
        /\ \A d \in Closers : y.closer[d] = IF z.closer[d] = "reconnecting" THEN "resumed"
                                            ELSE z.closer[d]
        /\ y.sender.pc = IF z.sender.pc = "reconnecting" THEN "resumed" ELSE z.sender.pc
    BY <1>1, <2>1, LoopEndsFields
  <2>3. Only(x, y, {"conn", "opening", "loop", "closer", "sender"})
    BY <1>2, <2>2 DEF Only
  <2>4. y.conn = z.conn /\ y.opening = z.opening /\ z.closer = x.closer /\ z.sender = x.sender
    BY <1>2, <2>2 DEF Only, Fields
  <2> QED
    BY <1>3, <1>6, <2>2, <2>3, <2>4
<1>7. CASE p = Loop /\ ~ok
  <2>1. y = [z EXCEPT !.loop = "delay"]
    BY <1>4, <1>7
  <2>2. y \in ClientState /\ Only(z, y, {"loop"}) /\ y.loop = "delay"
    BY <1>1, <2>1 DEF ClientState, Only, Fields
  <2>3. Only(x, y, {"conn", "opening", "loop"})
    BY <1>2, <2>2 DEF Only
  <2>4. y.conn = z.conn /\ y.opening = z.opening
    BY <2>2 DEF Only, Fields
  <2>5. Only(x, y, {"conn", "opening", "loop", "closer", "sender"})
    BY <2>3 DEF Only
  <2> QED
    BY <1>3, <1>7, <2>2, <2>3, <2>4, <2>5
<1> QED
  BY <1>5, <1>6, <1>7

\* x is sound but for p, whose connect() is about to return.
Returning(x, p) ==
  /\ x \in ClientState
  /\ OwnerOfItsKind(x)
  /\ BindsAreOwned(x) /\ x.conn[p] # "binding"
  /\ \A q \in ConnProc \ {p} : x.conn[q] = "response" => x.pendingResponse.owner = q
  /\ HeartbeatsAreServed(x) /\ ClosersAreServed(x) /\ SenderIsServed(x)
  /\ ResponseOwnerWaits(x) /\ x.pendingResponse.owner # p
  /\ AckOwnerWaits(x)
  /\ IF p = Loop THEN x.loop = "connecting" ELSE LoopConnects(x)

LEMMA ConnectEndsGood ==
  ASSUME NEW x, NEW p \in ConnProc, NEW ok \in BOOLEAN, Returning(x, p)
  PROVE  Good(ConnectEnds(x, p, ok))
<1> DEFINE y == ConnectEnds(x, p, ok)
<1>1. /\ x \in ClientState /\ y \in ClientState
      /\ Only(x, y, {"conn", "opening", "loop", "closer", "sender"})
      /\ \A q \in ConnProc : /\ y.conn[q] = IF q = p THEN "idle" ELSE x.conn[q]
                             /\ y.opening[q] = IF q = p THEN None ELSE x.opening[q]
      /\ p # Loop => Only(x, y, {"conn", "opening"})
      /\ p = Loop /\ ~ok => Only(x, y, {"conn", "opening", "loop"}) /\ y.loop = "delay"
      /\ p = Loop /\ ok =>
           /\ y.loop = "none"
           /\ \A d \in Closers : y.closer[d] = IF x.closer[d] = "reconnecting"
                                               THEN "resumed" ELSE x.closer[d]
           /\ y.sender.pc = IF x.sender.pc = "reconnecting" THEN "resumed"
                            ELSE x.sender.pc
  BY ConnectEndsFields DEF Returning
<1> HIDE DEF y
<1>2. /\ y.sock = x.sock /\ y.transport = x.transport
      /\ y.pendingResponse = x.pendingResponse /\ y.pendingAck = x.pendingAck
      /\ y.beat = x.beat
  BY <1>1 DEF Only, Fields
<1>3. OwnerOfItsKind(y) /\ HeartbeatsAreServed(y)
  BY <1>2 DEF Returning, OwnerOfItsKind, HeartbeatsAreServed
<1>4. BindsAreOwned(y)
  <2>1. x.opening[p] = None
    BY DEF Returning, BindsAreOwned
  <2>2. \A q \in ConnProc : y.opening[q] = x.opening[q]
    BY <1>1, <2>1
  <2> QED
    BY <1>1, <1>2, <2>1, <2>2 DEF Returning, BindsAreOwned
<1>5. ConnectsAreServed(y)
  BY <1>1, <1>2 DEF Returning, ConnectsAreServed
<1>6. /\ \A d \in Closers : y.closer[d] = x.closer[d] \/ y.closer[d] = "resumed"
      /\ \A d \in Closers : x.closer[d] # "reconnecting" => y.closer[d] = x.closer[d]
      /\ \A d \in Closers : y.closer[d] = "reconnecting" =>
           x.closer[d] = "reconnecting" /\ (y.loop = x.loop \/ y.loop # "none")
      /\ y.sender.pc = x.sender.pc \/ y.sender.pc = "resumed"
      /\ x.sender.pc # "reconnecting" => y.sender.pc = x.sender.pc
      /\ y.sender.pc = "reconnecting" =>
           x.sender.pc = "reconnecting" /\ (y.loop = x.loop \/ y.loop # "none")
  BY <1>1 DEF Only, Fields
<1>7. ClosersAreServed(y) /\ SenderIsServed(y)
  BY <1>2, <1>6 DEF Returning, ClosersAreServed, SenderIsServed
<1>8. ResponseOwnerWaits(y) /\ AckOwnerWaits(y)
  BY <1>1, <1>2, <1>6 DEF Returning, ResponseOwnerWaits, AckOwnerWaits
<1>9. LoopConnects(y)
  <2>1. CASE p = Loop
    BY <1>1, <2>1 DEF LoopConnects
  <2>2. CASE p # Loop
    <3>1. y.loop = x.loop
      BY <1>1, <2>2 DEF Only, Fields
    <3>2. y.conn[Loop] = x.conn[Loop]
      BY <1>1, <2>2, NoneIsNobody
    <3> QED
      BY <2>2, <3>1, <3>2 DEF Returning, LoopConnects
  <2> QED
    BY <2>1, <2>2
<1> QED
  BY <1>1, <1>3, <1>4, <1>5, <1>7, <1>8, <1>9 DEF Good, Sound, y

\* connect() of a client that is down begins to bind a free socket.
LEMMA ConnectFields ==
  ASSUME NEW x \in ClientState, NEW p \in ConnProc, x.state = "disconnected", HasFree(x),
         NEW y, y = Connect(x, p)
  PROVE  /\ y \in ClientState
         /\ Only(x, y, {"state", "sock", "conn", "opening"})
         /\ y.state = "connecting"
         /\ \E t \in Sockets :
              /\ x.sock[t] = "free"
              /\ \A u \in Sockets : y.sock[u] = IF u = t THEN "binding" ELSE x.sock[u]
              /\ \A q \in ConnProc : y.opening[q] = IF q = p THEN t ELSE x.opening[q]
         /\ \A q \in ConnProc : y.conn[q] = IF q = p THEN "binding" ELSE x.conn[q]
<1> DEFINE t == FreeSocket(x)
<1>1. t \in Sockets /\ x.sock[t] = "free"
  BY DEF FreeSocket, HasFree
<1>2. y = [x EXCEPT !.state = "connecting", !.sock[t] = "binding",
                    !.conn[p] = "binding", !.opening[p] = t]
  BY DEF Connect
<1> HIDE DEF t
<1>3. [x EXCEPT !.state = "connecting", !.sock[t] = "binding",
                !.conn[p] = "binding", !.opening[p] = t] \in ClientState
  BY <1>1 DEF ClientState, TunnelState, ConnPc
<1>4. Only(x, y, {"state", "sock", "conn", "opening"}) /\ y.state = "connecting"
  BY <1>2 DEF ClientState, Only, Fields
<1>5. /\ \A u \in Sockets : y.sock[u] = IF u = t THEN "binding" ELSE x.sock[u]
      /\ \A q \in ConnProc : y.opening[q] = IF q = p THEN t ELSE x.opening[q]
      /\ \A q \in ConnProc : y.conn[q] = IF q = p THEN "binding" ELSE x.conn[q]
  BY <1>1, <1>2 DEF ClientState
<1> QED
  BY <1>1, <1>2, <1>3, <1>4, <1>5

LEMMA ConnectGood ==
  ASSUME NEW x, NEW p \in ConnProc, Returning(x, p), x.conn[p] = "idle", HasFree(x)
  PROVE  Good(Connect(x, p))
<1>1. CASE x.state = "connected"
  BY <1>1, ConnectEndsGood DEF Connect
<1>2. CASE x.state \notin {"connected", "disconnected"}
  BY <1>2, ConnectEndsGood DEF Connect
<1>3. CASE x.state = "disconnected"
  <2> DEFINE y == Connect(x, p)
  <2>1. /\ x \in ClientState /\ y \in ClientState
        /\ Only(x, y, {"state", "sock", "conn", "opening"})
        /\ \E t \in Sockets :
             /\ x.sock[t] = "free"
             /\ \A u \in Sockets : y.sock[u] = IF u = t THEN "binding" ELSE x.sock[u]
             /\ \A q \in ConnProc : y.opening[q] = IF q = p THEN t ELSE x.opening[q]
        /\ \A q \in ConnProc : y.conn[q] = IF q = p THEN "binding" ELSE x.conn[q]
    BY <1>3, ConnectFields DEF Returning
  <2> HIDE DEF y
  <2>2. PICK t \in Sockets :
          /\ x.sock[t] = "free"
          /\ \A u \in Sockets : y.sock[u] = IF u = t THEN "binding" ELSE x.sock[u]
          /\ \A q \in ConnProc : y.opening[q] = IF q = p THEN t ELSE x.opening[q]
    BY <2>1
  <2>3. /\ y.transport = x.transport /\ y.pendingResponse = x.pendingResponse
        /\ y.pendingAck = x.pendingAck /\ y.loop = x.loop /\ y.beat = x.beat
        /\ y.closer = x.closer /\ y.sender = x.sender
    BY <2>1 DEF Only, Fields
  <2>4. /\ OwnerOfItsKind(y) /\ HeartbeatsAreServed(y)
        /\ ClosersAreServed(y) /\ SenderIsServed(y) /\ AckOwnerWaits(y)
    BY <2>3 DEF Returning, OwnerOfItsKind, HeartbeatsAreServed, ClosersAreServed,
                SenderIsServed, AckOwnerWaits
  <2>5. BindsAreOwned(y)
    <3>1. \A q \in ConnProc : x.opening[q] \in Sockets \cup {None}
      BY <2>1 DEF ClientState
    <3>2. \A q \in ConnProc : x.opening[q] # t
      BY <2>2, <3>1, NoneIsNobody DEF Returning, BindsAreOwned
    <3>3. /\ \A q \in ConnProc : y.conn[q] = "binding" <=> y.opening[q] # None
          /\ \A q \in ConnProc : y.opening[q] # None => y.sock[y.opening[q]] = "binding"
      BY <2>1, <2>2, <3>1, <3>2, NoneIsNobody DEF Returning, BindsAreOwned
    <3>4. \A q, r \in ConnProc : y.opening[q] = y.opening[r] => q = r \/ y.opening[q] = None
      BY <2>2, <3>2 DEF Returning, BindsAreOwned
    <3>5. \A u \in Sockets : y.sock[u] = "binding" => \E q \in ConnProc : y.opening[q] = u
      <4> SUFFICES ASSUME NEW u \in Sockets, y.sock[u] = "binding"
                   PROVE  \E q \in ConnProc : y.opening[q] = u
        OBVIOUS
      <4>1. CASE u = t
        BY <2>2, <4>1
      <4>2. CASE u # t
        <5>1. PICK q \in ConnProc : x.opening[q] = u
          BY <2>2, <4>2 DEF Returning, BindsAreOwned
        <5>2. q # p
          BY <5>1, NoneIsNobody DEF Returning, BindsAreOwned
        <5> QED
          BY <2>2, <5>1, <5>2
      <4> QED
        BY <4>1, <4>2
    <3>6. y.transport # None => y.sock[y.transport] \in {"open", "dead"}
      <4>1. x.transport \in Sockets \cup {None}
        BY <2>1 DEF ClientState
      <4> QED
        BY <2>2, <2>3, <4>1 DEF Returning, BindsAreOwned
    <3> QED
      BY <3>3, <3>4, <3>5, <3>6 DEF BindsAreOwned
  <2>6. ConnectsAreServed(y) /\ ResponseOwnerWaits(y)
    BY <2>1, <2>3 DEF Returning, ConnectsAreServed, ResponseOwnerWaits
  <2>7. LoopConnects(y)
    BY <2>1, <2>3, NoneIsNobody DEF Returning, LoopConnects
  <2> QED
    BY <2>1, <2>4, <2>5, <2>6, <2>7 DEF Good, Sound, y
<1> QED
  BY <1>1, <1>2, <1>3

\* The tunnel is down: no timer, no transport, nobody awaits an answer.
LEMMA TunnelDownFields ==
  ASSUME NEW x \in ClientState, NEW y, y = TunnelDown(x),
         NEW o, o = x.pendingResponse.owner
  PROVE  /\ y \in ClientState
         /\ Only(x, y, {"state", "transport", "sock", "channelId", "pendingAck",
                        "pendingResponse", "heartbeatTimer", "invalidSeqTimer", "conn",
                        "beat", "closer", "sender"})
         /\ y.state = "disconnected" /\ y.transport = None /\ y.channelId = None
         /\ ~y.heartbeatTimer /\ ~y.invalidSeqTimer
         /\ y.pendingResponse = NoResponse /\ y.pendingAck = "none"
         /\ \A p \in ConnProc : y.conn[p] = IF p = o THEN "rejected" ELSE x.conn[p]
         /\ \A h \in Beats : y.beat[h].pc = IF h = o THEN "rejected" ELSE x.beat[h].pc
         /\ \A d \in Closers : y.closer[d] = IF d = o THEN "rejected" ELSE x.closer[d]
         /\ y.sender.pc = IF x.pendingAck = "sender" THEN "rejected" ELSE x.sender.pc
         /\ \A t \in Sockets : y.sock[t] = IF t = x.transport THEN "free" ELSE x.sock[t]
<1> DEFINE a == [x EXCEPT !.heartbeatTimer = FALSE, !.invalidSeqTimer = FALSE]
           b == RejectPendingAck(a)
           c == RejectPendingResponse(b)
           d == TeardownTransport(c)
<1>1. y = [d EXCEPT !.channelId = None, !.state = "disconnected"]
  BY DEF TunnelDown
<1>2. /\ a \in ClientState /\ Only(x, a, {"heartbeatTimer", "invalidSeqTimer"})
      /\ ~a.heartbeatTimer /\ ~a.invalidSeqTimer
  BY DEF ClientState, Only, Fields
<1> HIDE DEF a
<1>3. /\ b \in ClientState /\ Only(a, b, {"pendingAck", "sender"})
      /\ b.pendingAck = "none"
      /\ b.sender.pc = IF a.pendingAck = "sender" THEN "rejected" ELSE a.sender.pc
  BY <1>2, RejectAckFields
<1> HIDE DEF b
<1>4. a.pendingAck = x.pendingAck /\ a.sender = x.sender
  BY <1>2 DEF Only, Fields
<1>5. /\ b.pendingResponse = x.pendingResponse /\ b.conn = x.conn
      /\ b.beat = x.beat /\ b.closer = x.closer
  BY <1>2, <1>3 DEF Only, Fields
<1>6. /\ c \in ClientState /\ Only(b, c, {"pendingResponse", "conn", "beat", "closer"})
      /\ c.pendingResponse = NoResponse
      /\ \A p \in ConnProc : c.conn[p] = IF p = o THEN "rejected" ELSE x.conn[p]
      /\ \A h \in Beats : c.beat[h].pc = IF h = o THEN "rejected" ELSE x.beat[h].pc
      /\ \A e \in Closers : c.closer[e] = IF e = o THEN "rejected" ELSE x.closer[e]
  BY <1>3, <1>5, RejectResponseFields
<1> HIDE DEF c
<1>7. c.sock = x.sock /\ c.transport = x.transport
  BY <1>2, <1>3, <1>6 DEF Only, Fields
<1>8. /\ d \in ClientState /\ Only(c, d, {"transport", "sock"})
      /\ d.transport = None
      /\ \A t \in Sockets : d.sock[t] = IF t = x.transport THEN "free" ELSE x.sock[t]
  BY <1>6, <1>7, TeardownFields
<1> HIDE DEF d
<1>9. [d EXCEPT !.channelId = None, !.state = "disconnected"] \in ClientState
  <2>1. d \in ClientState
    BY <1>8
  <2> QED
    BY <2>1 DEF ClientState, TunnelState
<1>10. /\ Only(d, y, {"channelId", "state"})
       /\ y.channelId = None /\ y.state = "disconnected"
  BY <1>1, <1>8 DEF ClientState, Only, Fields
<1>11. Only(x, y, {"state", "transport", "sock", "channelId", "pendingAck",
                   "pendingResponse", "heartbeatTimer", "invalidSeqTimer", "conn",
                   "beat", "closer", "sender"})
  BY <1>2, <1>3, <1>6, <1>8, <1>10 DEF Only
<1>12. /\ y.transport = d.transport /\ y.sock = d.sock
       /\ y.heartbeatTimer = a.heartbeatTimer /\ y.invalidSeqTimer = a.invalidSeqTimer
       /\ y.pendingResponse = c.pendingResponse /\ y.conn = c.conn /\ y.beat = c.beat
       /\ y.closer = c.closer /\ y.pendingAck = b.pendingAck /\ y.sender = b.sender
  BY <1>3, <1>6, <1>8, <1>10 DEF Only, Fields
<1> QED
  BY <1>1, <1>2, <1>3, <1>4, <1>6, <1>8, <1>9, <1>10, <1>11, <1>12

\* Fields that no wait depends on.
LEMMA PlainFieldsSound ==
  ASSUME NEW x, NEW y, Sound(x), y \in ClientState,
         Only(x, y, {"autoReconnect", "overTcp", "state", "channelId", "heartbeatTimer",
                     "invalidSeqTimer", "reconnectAbort"})
  PROVE  Sound(y) /\ (Good(x) => Good(y))
<1>1. /\ y.transport = x.transport /\ y.sock = x.sock /\ y.opening = x.opening
      /\ y.pendingAck = x.pendingAck /\ y.pendingResponse = x.pendingResponse
      /\ y.loop = x.loop /\ y.conn = x.conn /\ y.beat = x.beat /\ y.closer = x.closer
      /\ y.sender = x.sender
  BY DEF Only, Fields
<1>2. OwnerOfItsKind(y) /\ BindsAreOwned(y) /\ ResponseOwnerWaits(y) /\ AckOwnerWaits(y)
  BY <1>1 DEF Sound, OwnerOfItsKind, BindsAreOwned, ResponseOwnerWaits, AckOwnerWaits
<1>3. /\ ConnectsAreServed(y) /\ HeartbeatsAreServed(y)
      /\ ClosersAreServed(y) /\ SenderIsServed(y)
  BY <1>1
     DEF Sound, ConnectsAreServed, HeartbeatsAreServed, ClosersAreServed, SenderIsServed
<1> QED
  BY <1>1, <1>2, <1>3 DEF Sound, Good, LoopConnects

LEMMA TunnelDownGood ==
  ASSUME NEW x, Good(x)
  PROVE  Good(TunnelDown(x))
<1> DEFINE a == [x EXCEPT !.heartbeatTimer = FALSE, !.invalidSeqTimer = FALSE]
           d == TeardownTransport(RejectPendingResponse(RejectPendingAck(a)))
           y == TunnelDown(x)
           o == x.pendingResponse.owner
<1>1. Sound(x) /\ x \in ClientState /\ LoopConnects(x)
  BY DEF Good, Sound
<1>2. /\ a \in ClientState
      /\ Only(x, a, {"autoReconnect", "overTcp", "state", "channelId", "heartbeatTimer",
                     "invalidSeqTimer", "reconnectAbort"})
  BY <1>1 DEF ClientState, Only, Fields
<1> HIDE DEF a
<1>3. Sound(d)
  BY <1>1, <1>2, PlainFieldsSound, RejectAckSound, RejectResponseSound, TeardownSound
<1>4. y = [d EXCEPT !.channelId = None, !.state = "disconnected"]
  BY DEF TunnelDown, a
<1> HIDE DEF d
<1>5. Only(d, y, {"autoReconnect", "overTcp", "state", "channelId", "heartbeatTimer",
                  "invalidSeqTimer", "reconnectAbort"})
  BY <1>3, <1>4 DEF Sound, ClientState, Only, Fields
<1>6. /\ y \in ClientState
      /\ \A p \in ConnProc : y.conn[p] = IF p = o THEN "rejected" ELSE x.conn[p]
      /\ y.loop = x.loop
  BY <1>1, TunnelDownFields DEF Only, Fields
<1>7. Sound(y)
  BY <1>3, <1>5, <1>6, PlainFieldsSound
<1>8. LoopConnects(y)
  BY <1>1, <1>6, NoneIsNobody DEF LoopConnects, Sound, ResponseOwnerWaits
<1> QED
  BY <1>7, <1>8 DEF Good

\* The loop makes an attempt: a connect() of its own begins.
LEMMA LoopAttempts ==
  ASSUME NEW x, Good(x), x.loop # "connecting",
         NEW a, a = [x EXCEPT !.loop = "connecting"]
  PROVE  /\ Returning(a, Loop) /\ a.conn[Loop] = "idle" /\ a \in ClientState
         /\ Only(x, a, {"loop"}) /\ a.loop = "connecting"
<1>1. x \in ClientState /\ Sound(x) /\ x.conn[Loop] = "idle"
  BY DEF Good, Sound, LoopConnects
<1>2. a \in ClientState /\ Only(x, a, {"loop"}) /\ a.loop = "connecting"
  BY <1>1 DEF ClientState, Only, Fields
<1>3. /\ a.state = x.state /\ a.sock = x.sock /\ a.opening = x.opening
      /\ a.transport = x.transport /\ a.pendingAck = x.pendingAck
      /\ a.pendingResponse = x.pendingResponse /\ a.conn = x.conn /\ a.beat = x.beat
      /\ a.closer = x.closer /\ a.sender = x.sender
  BY <1>2 DEF Only, Fields
<1>4. OwnerOfItsKind(a) /\ BindsAreOwned(a) /\ HeartbeatsAreServed(a)
  BY <1>1, <1>3 DEF Sound, OwnerOfItsKind, BindsAreOwned, HeartbeatsAreServed
<1>5. ResponseOwnerWaits(a) /\ AckOwnerWaits(a)
  BY <1>1, <1>3 DEF Sound, ResponseOwnerWaits, AckOwnerWaits
<1>6. ClosersAreServed(a) /\ SenderIsServed(a)
  BY <1>1, <1>2, <1>3 DEF Sound, ClosersAreServed, SenderIsServed
<1>7. \A q \in ConnProc \ {Loop} : a.conn[q] = "response" => a.pendingResponse.owner = q
  BY <1>1, <1>3 DEF Sound, ConnectsAreServed
<1>8. a.pendingResponse.owner # Loop
  BY <1>1, <1>3, NoneIsNobody DEF Sound, ResponseOwnerWaits
<1> QED
  BY <1>1, <1>2, <1>3, <1>4, <1>5, <1>6, <1>7, <1>8 DEF Returning

\* The tunnel is lost: nothing happens in a client that is down or being closed;
\* else it is torn down, and the loop begins to bind a free socket unless it is
\* running, switched off or told to stop.
Reconnects(x) == x.autoReconnect /\ ~x.reconnectAbort /\ x.loop = "none"

LEMMA OnTunnelLostCases ==
  ASSUME NEW x, Good(x), x.loop = "none" => HasFree(x),
         NEW y, y = OnTunnelLost(x), NEW z, z = TunnelDown(x)
  PROVE  /\ Good(y)
         /\ x.state \in {"disconnected", "disconnecting"} => y = x
         /\ x.state \notin {"disconnected", "disconnecting"} /\ ~Reconnects(x) => y = z
         /\ x.state \notin {"disconnected", "disconnecting"} /\ Reconnects(x) =>
              /\ Only(z, y, {"state", "sock", "conn", "opening", "loop"})
              /\ y.state = "connecting" /\ y.loop = "connecting"
              /\ \E t \in Sockets :
                   /\ z.sock[t] = "free"
                   /\ \A u \in Sockets : y.sock[u] = IF u = t THEN "binding" ELSE z.sock[u]
                   /\ \A q \in ConnProc : y.opening[q] = IF q = Loop THEN t ELSE z.opening[q]
              /\ \A q \in ConnProc : y.conn[q] = IF q = Loop THEN "binding" ELSE z.conn[q]
<1> USE NoneIsNobody
<1>1. Sound(x) /\ x \in ClientState
  BY DEF Good, Sound
<1>2. Good(z) /\ Sound(z) /\ z \in ClientState
  BY TunnelDownGood DEF Good, Sound
<1>3. CASE x.state \in {"disconnected", "disconnecting"}
  BY <1>3 DEF OnTunnelLost
<1>4. CASE x.state \notin {"disconnected", "disconnecting"} /\ ~Reconnects(x)
  BY <1>1, <1>2, <1>4 DEF OnTunnelLost, Reconnects, ClientState
<1>5. CASE x.state \notin {"disconnected", "disconnecting"} /\ Reconnects(x)
  <2> DEFINE a == [z EXCEPT !.loop = "connecting"]
  <2>1. y = Connect(a, Loop)
    BY <1>1, <1>5 DEF OnTunnelLost, Reconnects, ClientState
  <2>2. z.state = "disconnected" /\ z.loop = x.loop
        /\ \A t \in Sockets : z.sock[t] = IF t = x.transport THEN "free" ELSE x.sock[t]
    BY <1>1, TunnelDownFields DEF Only, Fields
  <2>3. z.loop # "connecting"
    BY <1>5, <2>2 DEF Reconnects
  <2>4. /\ Returning(a, Loop) /\ a.conn[Loop] = "idle" /\ a \in ClientState
        /\ Only(z, a, {"loop"}) /\ a.loop = "connecting"
    BY <1>2, <2>3, LoopAttempts
  <2> HIDE DEF a
  <2>5. a.state = z.state /\ a.sock = z.sock /\ a.opening = z.opening /\ a.conn = z.conn
    BY <2>4 DEF Only, Fields
  <2>6. HasFree(a)
    BY <1>5, <2>2, <2>5 DEF HasFree, Reconnects
  <2>7. Good(y)
    BY <2>1, <2>4, <2>6, ConnectGood
  <2>8. /\ Only(a, y, {"state", "sock", "conn", "opening"})
        /\ y.state = "connecting"
        /\ \E t \in Sockets :
             /\ a.sock[t] = "free"
             /\ \A u \in Sockets : y.sock[u] = IF u = t THEN "binding" ELSE a.sock[u]
             /\ \A q \in ConnProc : y.opening[q] = IF q = Loop THEN t ELSE a.opening[q]
        /\ \A q \in ConnProc : y.conn[q] = IF q = Loop THEN "binding" ELSE a.conn[q]
    BY <2>1, <2>2, <2>4, <2>5, <2>6, ConnectFields
  <2>9. Only(z, y, {"state", "sock", "conn", "opening", "loop"})
    BY <2>4, <2>8 DEF Only
  <2>10. y.loop = "connecting"
    BY <2>4, <2>8 DEF Only, Fields
  <2> QED
    BY <1>5, <2>5, <2>7, <2>8, <2>9, <2>10
<1> QED
  BY <1>3, <1>4, <1>5

\* Losing the tunnel takes a free socket only for a loop that starts.
LEMMA OnTunnelLostGood ==
  ASSUME NEW x, Good(x), x.loop = "none" => HasFree(x)
  PROVE  LET y == OnTunnelLost(x)
         IN  /\ Good(y)
             /\ y.loop = x.loop \/ y.loop # "none"
             /\ y.loop = "none" => Frees(x, y)
<1> DEFINE y == OnTunnelLost(x)
           z == TunnelDown(x)
<1>1. x \in ClientState
  BY DEF Good, Sound
<1>2. /\ z.loop = x.loop
      /\ \A t \in Sockets : z.sock[t] = IF t = x.transport THEN "free" ELSE x.sock[t]
  BY <1>1, TunnelDownFields DEF Only, Fields
<1>3. /\ Good(y)
      /\ \/ y = x
         \/ y = z
         \/ y.loop = "connecting"
  BY OnTunnelLostCases
<1> QED
  BY <1>2, <1>3 DEF Frees

\* disconnect() of d returns.
LEMMA DisconnectEndsFields ==
  ASSUME NEW x \in ClientState, NEW d \in Closers, NEW y, y = DisconnectEnds(x, d)
  PROVE  /\ y \in ClientState
         /\ Only(x, y, {"channelId", "state", "reconnectAbort", "closer"})
         /\ y.channelId = None /\ y.state = "disconnected" /\ ~y.reconnectAbort
         /\ \A e \in Closers : y.closer[e] = IF e = d THEN "idle" ELSE x.closer[e]
<1>1. [x EXCEPT !.channelId = None, !.state = "disconnected",
                !.reconnectAbort = FALSE, !.closer[d] = "idle"] \in ClientState
  BY DEF ClientState, TunnelState, CloserPc
<1>2. y = [x EXCEPT !.channelId = None, !.state = "disconnected",
                    !.reconnectAbort = FALSE, !.closer[d] = "idle"]
  BY DEF DisconnectEnds
<1>3. /\ Only(x, y, {"channelId", "state", "reconnectAbort", "closer"})
      /\ y.channelId = None /\ y.state = "disconnected" /\ ~y.reconnectAbort
  BY <1>2 DEF ClientState, Only, Fields
<1>4. \A e \in Closers : y.closer[e] = IF e = d THEN "idle" ELSE x.closer[e]
  BY <1>2 DEF ClientState
<1> QED
  BY <1>1, <1>2, <1>3, <1>4

\* x is good but for d, whose disconnect() is in its finally block.
Leaving(x, d) ==
  /\ x \in ClientState
  /\ OwnerOfItsKind(x) /\ BindsAreOwned(x) /\ LoopConnects(x)
  /\ ConnectsAreServed(x) /\ HeartbeatsAreServed(x) /\ SenderIsServed(x)
  /\ \A e \in Closers \ {d} :
       /\ x.closer[e] = "response" => x.pendingResponse.owner = e
       /\ x.closer[e] = "reconnecting" => x.loop # "none"
  /\ ResponseOwnerWaits(x) /\ x.pendingResponse.owner # d
  /\ AckOwnerWaits(x)

LEMMA NotAwaitingLeaves ==
  ASSUME NEW x, Good(x), NEW d \in Closers, x.closer[d] # "response"
  PROVE  Leaving(x, d)
BY DEF Good, Sound, Leaving, ClosersAreServed, ResponseOwnerWaits

\* d goes on to a point where it awaits nobody's answer.
LEMMA LeavingGood ==
  ASSUME NEW x, NEW d \in Closers, Leaving(x, d), NEW y \in ClientState,
         Only(x, y, {"channelId", "state", "reconnectAbort", "closer"}),
         \A e \in Closers \ {d} : y.closer[e] = x.closer[e],
         \/ y.closer[d] \in {"idle", "closing", "rejected"}
         \/ y.closer[d] = "reconnecting" /\ x.loop # "none"
  PROVE  Good(y)
<1>1. /\ y.transport = x.transport /\ y.sock = x.sock /\ y.opening = x.opening
      /\ y.pendingAck = x.pendingAck /\ y.pendingResponse = x.pendingResponse
      /\ y.loop = x.loop /\ y.conn = x.conn /\ y.beat = x.beat /\ y.sender = x.sender
  BY DEF Only, Fields
<1>2. OwnerOfItsKind(y) /\ BindsAreOwned(y) /\ LoopConnects(y) /\ AckOwnerWaits(y)
  BY <1>1 DEF Leaving, OwnerOfItsKind, BindsAreOwned, LoopConnects, AckOwnerWaits
<1>3. ConnectsAreServed(y) /\ HeartbeatsAreServed(y) /\ SenderIsServed(y)
  BY <1>1 DEF Leaving, ConnectsAreServed, HeartbeatsAreServed, SenderIsServed
<1>4. ClosersAreServed(y)
  BY <1>1 DEF Leaving, ClosersAreServed
<1>5. ResponseOwnerWaits(y)
  BY <1>1 DEF Leaving, ResponseOwnerWaits
<1> QED
  BY <1>2, <1>3, <1>4, <1>5 DEF Good, Sound

\* The finally block: the transport is gone, and so is the state or d awaits the
\* end of the socket.
LEMMA DisconnectFinallyFields ==
  ASSUME NEW x \in ClientState, NEW d \in Closers, NEW y, y = DisconnectFinally(x, d)
  PROVE  /\ y \in ClientState
         /\ Only(x, y, {"channelId", "state", "reconnectAbort", "closer", "transport", "sock"})
         /\ y.transport = None
         /\ \A t \in Sockets : y.sock[t] = IF t = x.transport THEN "free" ELSE x.sock[t]
         /\ \A e \in Closers \ {d} : y.closer[e] = x.closer[e]
         /\ \/ /\ y.closer[d] = "closing" /\ y.state = x.state
               /\ y.reconnectAbort = x.reconnectAbort /\ y.channelId = x.channelId
            \/ /\ y.closer[d] = "idle" /\ y.state = "disconnected"
               /\ ~y.reconnectAbort /\ y.channelId = None
         /\ Only(TeardownTransport(x), y, {"channelId", "state", "reconnectAbort", "closer"})
<1> DEFINE z == TeardownTransport(x)
<1>1. /\ z \in ClientState
      /\ Only(x, z, {"transport", "sock"})
      /\ z.transport = None
      /\ \A t \in Sockets : z.sock[t] = IF t = x.transport THEN "free" ELSE x.sock[t]
  BY TeardownFields
<1>2. y = IF CloseTakesTime(x) THEN [z EXCEPT !.closer[d] = "closing"] ELSE DisconnectEnds(z, d)
  BY DEF DisconnectFinally
<1> HIDE DEF z
<1>3. z.closer = x.closer /\ z.state = x.state /\ z.reconnectAbort = x.reconnectAbort
      /\ z.channelId = x.channelId
  BY <1>1 DEF Only, Fields
<1>4. CASE CloseTakesTime(x)
  <2>1. y = [z EXCEPT !.closer[d] = "closing"] /\ z \in ClientState
    BY <1>1, <1>2, <1>4
  <2>2. y \in ClientState /\ Only(z, y, {"closer"})
    <3>1. [z EXCEPT !.closer[d] = "closing"] \in ClientState
      BY <2>1 DEF ClientState, CloserPc
    <3>2. Only(z, y, {"closer"})
      BY <2>1 DEF ClientState, Only, Fields
    <3> QED
      BY <2>1, <3>1, <3>2
  <2>3. \A e \in Closers : y.closer[e] = IF e = d THEN "closing" ELSE z.closer[e]
    BY <2>1 DEF ClientState
  <2>4. /\ Only(x, y, {"channelId", "state", "reconnectAbort", "closer", "transport", "sock"})
        /\ Only(z, y, {"channelId", "state", "reconnectAbort", "closer"})
    BY <1>1, <2>2 DEF Only
  <2>5. /\ y.transport = z.transport /\ y.sock = z.sock /\ y.state = z.state
        /\ y.reconnectAbort = z.reconnectAbort /\ y.channelId = z.channelId
    BY <2>2 DEF Only, Fields
  <2> QED
    BY <1>1, <1>3, <2>2, <2>3, <2>4, <2>5 DEF z
<1>5. CASE ~CloseTakesTime(x)
  <2>1. y = DisconnectEnds(z, d)
    BY <1>2, <1>5
  <2>2. /\ y \in ClientState
        /\ Only(z, y, {"channelId", "state", "reconnectAbort", "closer"})
        /\ y.channelId = None /\ y.state = "disconnected" /\ ~y.reconnectAbort
        /\ \A e \in Closers : y.closer[e] = IF e = d THEN "idle" ELSE z.closer[e]
    BY <1>1, <2>1, DisconnectEndsFields
  <2>3. Only(x, y, {"channelId", "state", "reconnectAbort", "closer", "transport", "sock"})
    BY <1>1, <2>2 DEF Only
  <2>4. y.transport = z.transport /\ y.sock = z.sock
    BY <2>2 DEF Only, Fields
  <2> QED
    BY <1>1, <1>3, <2>2, <2>3, <2>4 DEF z
<1> QED
  BY <1>4, <1>5

LEMMA DisconnectFinallyGood ==
  ASSUME NEW x, NEW d \in Closers, Leaving(x, d)
  PROVE  Good(DisconnectFinally(x, d))
<1> DEFINE z == TeardownTransport(x)
           y == DisconnectFinally(x, d)
<1>1. x \in ClientState
  BY DEF Leaving
<1>2. /\ z \in ClientState
      /\ Only(x, z, {"transport", "sock"})
      /\ z.transport = None
      /\ \A t \in Sockets : z.sock[t] = IF t = x.transport THEN "free" ELSE x.sock[t]
  BY <1>1, TeardownFields
<1>3. /\ z.loop = x.loop /\ z.opening = x.opening /\ z.pendingResponse = x.pendingResponse
      /\ z.pendingAck = x.pendingAck /\ z.conn = x.conn /\ z.beat = x.beat
      /\ z.closer = x.closer /\ z.sender = x.sender
  BY <1>2 DEF Only, Fields
<1>4. BindsAreOwned(z)
  <2>1. \A p \in ConnProc : x.opening[p] \in Sockets \cup {None}
    BY <1>1 DEF ClientState
  <2> HIDE DEF z
  <2> QED
    BY <1>2, <1>3, <2>1, NoneIsNobody DEF Leaving, BindsAreOwned
<1>5. /\ y \in ClientState
      /\ Only(z, y, {"channelId", "state", "reconnectAbort", "closer"})
      /\ \A e \in Closers \ {d} : y.closer[e] = x.closer[e]
      /\ y.closer[d] \in {"idle", "closing"}
  BY <1>1, DisconnectFinallyFields
<1> HIDE DEF z, y
<1>6. Leaving(z, d)
  BY <1>2, <1>3, <1>4
     DEF Leaving, OwnerOfItsKind, LoopConnects, ConnectsAreServed, HeartbeatsAreServed,
         SenderIsServed, ResponseOwnerWaits, AckOwnerWaits
<1> QED
  BY <1>3, <1>5, <1>6, LeavingGood DEF y

\* A request takes the slot if it is free, for the owner if it can be sent.
LEMMA AwaitResponseFields ==
  ASSUME NEW x \in ClientState, x.transport # None,
         NEW type \in {"connect", "state", "disconnect"}, NEW owner \in Owners,
         NEW r, r = AwaitResponse(x, type, owner)
  PROVE  /\ r \in Response
         /\ x.pendingResponse # NoResponse => r = x.pendingResponse
         /\ x.pendingResponse = NoResponse =>
              /\ r.type = type
              /\ r.owner = IF x.sock[x.transport] = "open" THEN owner ELSE None
         /\ ResponsePc(x) = IF x.sock[x.transport] # "open" THEN "rejected"
                            ELSE IF x.pendingResponse # NoResponse THEN "busy" ELSE "response"
<1>1. x.transport \in Sockets /\ x.pendingResponse \in Response \cup {NoResponse}
  BY DEF ClientState
<1>2. ResponsePc(x) = IF x.sock[x.transport] # "open" THEN "rejected"
                      ELSE IF x.pendingResponse # NoResponse THEN "busy" ELSE "response"
  BY DEF ResponsePc, AwaitPc
<1>3. CASE x.pendingResponse # NoResponse
  BY <1>1, <1>2, <1>3 DEF AwaitResponse
<1>4. CASE x.pendingResponse = NoResponse
  <2> DEFINE o == IF x.sock[x.transport] = "open" THEN owner ELSE None
  <2>1. r = [type |-> type, via |-> x.transport, owner |-> o]
    BY <1>4 DEF AwaitResponse
  <2>2. o \in Owners \cup {None}
    OBVIOUS
  <2> HIDE DEF o
  <2>3. r \in Response /\ r.type = type /\ r.owner = o
    BY <1>1, <2>1, <2>2 DEF Response
  <2> QED
    BY <1>2, <1>4, <2>3 DEF o
<1> QED
  BY <1>3, <1>4

LEMMA CloseDownFields ==
  ASSUME NEW x, Good(x), NEW d \in Closers, NEW y, y = CloseDown(x, d)
  PROVE  /\ Good(y)
         /\ Only(x, y, {"state", "transport", "sock", "channelId", "pendingAck",
                        "pendingResponse", "heartbeatTimer", "invalidSeqTimer",
                        "reconnectAbort", "conn", "beat", "closer", "sender"})
         /\ ~y.heartbeatTimer /\ ~y.invalidSeqTimer
         /\ \A p \in ConnProc : y.conn[p] = x.conn[p]
                                  \/ (x.conn[p] = "response" /\ y.conn[p] = "rejected")
         /\ \A h \in Beats : y.beat[h].pc = x.beat[h].pc \/ y.beat[h].pc = "rejected"
         /\ \A e \in Closers \ {d} :
              y.closer[e] = x.closer[e]
                \/ (x.closer[e] = "response" /\ y.closer[e] = "rejected")
         /\ \/ y.closer[d] \in Closing /\ y.state = "disconnecting"
                 /\ y.reconnectAbort = x.reconnectAbort
            \/ y.closer[d] = "idle" /\ y.state = "disconnected" /\ y.channelId = None
                 /\ ~y.reconnectAbort
         /\ \/ /\ y.transport = x.transport /\ y.sock = x.sock
               /\ y.closer[d] \in {"response", "rejected"}
            \/ /\ y.transport = None
               /\ \A t \in Sockets : y.sock[t] = IF t = x.transport THEN "free"
                                                 ELSE x.sock[t]
         /\ x.channelId # None /\ x.transport # None => y.closer[d] # "idle"
<1> USE NoneIsNobody
<1> DEFINE a == [x EXCEPT !.state = "disconnecting",
                          !.heartbeatTimer = FALSE, !.invalidSeqTimer = FALSE]
           b == RejectPendingAck(a)
           c == RejectPendingResponse(b)
           o == x.pendingResponse.owner
           F == {"state", "transport", "sock", "channelId", "pendingAck",
                 "pendingResponse", "heartbeatTimer", "invalidSeqTimer",
                 "reconnectAbort", "conn", "beat", "closer", "sender"}
<1>1. Sound(x) /\ x \in ClientState /\ LoopConnects(x)
  BY DEF Good, Sound
<1>2. y = IF c.channelId = None \/ c.transport = None THEN DisconnectFinally(c, d)
          ELSE [c EXCEPT !.pendingResponse = AwaitResponse(c, "disconnect", d),
                         !.closer[d] = IF c.sock[c.transport] = "open"
                                       THEN "response" ELSE "rejected"]
  BY DEF CloseDown
<1>3. /\ a \in ClientState
      /\ Only(x, a, {"state", "heartbeatTimer", "invalidSeqTimer"})
      /\ a.state = "disconnecting" /\ ~a.heartbeatTimer /\ ~a.invalidSeqTimer
  BY <1>1 DEF ClientState, TunnelState, Only, Fields
<1> HIDE DEF a
<1>4. Sound(a)
  <2>1. Only(x, a, {"autoReconnect", "overTcp", "state", "channelId", "heartbeatTimer",
                    "invalidSeqTimer", "reconnectAbort"})
    BY <1>3 DEF Only
  <2> QED
    BY <1>1, <1>3, <2>1, PlainFieldsSound
<1>5. /\ Sound(b) /\ b \in ClientState /\ Only(a, b, {"pendingAck", "sender"})
      /\ b.pendingAck = "none"
  BY <1>4, RejectAckSound, RejectAckFields DEF Sound
<1> HIDE DEF b
<1>6. /\ b.pendingResponse = x.pendingResponse /\ b.conn = x.conn
      /\ b.beat = x.beat /\ b.closer = x.closer
  BY <1>3, <1>5 DEF Only, Fields
<1>7. /\ Sound(c) /\ c \in ClientState
      /\ Only(b, c, {"pendingResponse", "conn", "beat", "closer"})
      /\ c.pendingResponse = NoResponse
      /\ \A p \in ConnProc : c.conn[p] = IF p = o THEN "rejected" ELSE x.conn[p]
      /\ \A h \in Beats : c.beat[h].pc = IF h = o THEN "rejected" ELSE x.beat[h].pc
      /\ \A e \in Closers : c.closer[e] = IF e = o THEN "rejected" ELSE x.closer[e]
  BY <1>5, <1>6, RejectResponseSound, RejectResponseFields DEF Sound
<1> HIDE DEF c
<1>8. /\ c.state = "disconnecting" /\ ~c.heartbeatTimer /\ ~c.invalidSeqTimer
      /\ c.transport = x.transport /\ c.sock = x.sock /\ c.loop = x.loop
      /\ c.channelId = x.channelId /\ c.reconnectAbort = x.reconnectAbort
  BY <1>3, <1>5, <1>7 DEF Only, Fields
<1>9. Only(x, c, F)
  BY <1>3, <1>5, <1>7 DEF Only
<1>10. LoopConnects(c)
  BY <1>1, <1>7, <1>8 DEF LoopConnects, Sound, ResponseOwnerWaits
<1>11. /\ \A p \in ConnProc : c.conn[p] = x.conn[p]
                                \/ (x.conn[p] = "response" /\ c.conn[p] = "rejected")
       /\ \A h \in Beats : c.beat[h].pc = x.beat[h].pc \/ c.beat[h].pc = "rejected"
       /\ \A e \in Closers \ {d} :
            \/ c.closer[e] = x.closer[e]
            \/ x.closer[e] = "response" /\ c.closer[e] = "rejected"
  BY <1>1, <1>7 DEF Sound, ResponseOwnerWaits
<1>12. c.pendingResponse.owner = None /\ c.pendingResponse.type = "none"
  BY <1>7 DEF NoResponse
<1>13. CASE c.channelId = None \/ c.transport = None
  <2>1. y = DisconnectFinally(c, d)
    BY <1>2, <1>13
  <2>2. Leaving(c, d)
    BY <1>7, <1>10, <1>12 DEF Leaving, Sound, ClosersAreServed
  <2>3. Good(y)
    BY <2>1, <2>2, DisconnectFinallyGood
  <2>4. /\ Only(c, y, {"channelId", "state", "reconnectAbort", "closer", "transport", "sock"})
        /\ y.transport = None
        /\ \A t \in Sockets : y.sock[t] = IF t = c.transport THEN "free" ELSE c.sock[t]
        /\ \A e \in Closers \ {d} : y.closer[e] = c.closer[e]
        /\ \/ /\ y.closer[d] = "closing" /\ y.state = c.state
              /\ y.reconnectAbort = c.reconnectAbort
           \/ /\ y.closer[d] = "idle" /\ y.state = "disconnected"
              /\ ~y.reconnectAbort /\ y.channelId = None
    BY <1>7, <2>1, DisconnectFinallyFields
  <2>5. Only(x, y, F)
    BY <1>9, <2>4 DEF Only
  <2>6. /\ y.heartbeatTimer = c.heartbeatTimer /\ y.invalidSeqTimer = c.invalidSeqTimer
        /\ y.conn = c.conn /\ y.beat = c.beat
    BY <2>4 DEF Only, Fields
  <2> QED
    BY <1>8, <1>11, <1>13, <2>3, <2>4, <2>5, <2>6 DEF Closing
<1>14. CASE c.channelId # None /\ c.transport # None
  <2> DEFINE r == AwaitResponse(c, "disconnect", d)
             s == IF c.sock[c.transport] = "open" THEN "response" ELSE "rejected"
  <2>1. y = [c EXCEPT !.pendingResponse = r, !.closer[d] = s]
    BY <1>2, <1>14
  <2>2. /\ r \in Response /\ r.type = "disconnect"
        /\ r.owner = IF s = "response" THEN d ELSE None
    BY <1>7, <1>14, AwaitResponseFields DEF Owners
  <2>3. s \in {"response", "rejected"}
    OBVIOUS
  <2> HIDE DEF r, s
  <2>4. [c EXCEPT !.pendingResponse = r, !.closer[d] = s] \in ClientState
    BY <1>7, <2>2, <2>3 DEF ClientState, CloserPc
  <2>5. Only(c, y, {"pendingResponse", "closer"}) /\ y.pendingResponse = r
    BY <1>7, <2>1 DEF ClientState, Only, Fields
  <2>6. \A e \in Closers : y.closer[e] = IF e = d THEN s ELSE c.closer[e]
    BY <1>7, <2>1 DEF ClientState
  <2>7. /\ y.transport = c.transport /\ y.sock = c.sock /\ y.opening = c.opening
        /\ y.pendingAck = c.pendingAck /\ y.loop = c.loop /\ y.conn = c.conn
        /\ y.beat = c.beat /\ y.sender = c.sender /\ y.state = c.state
        /\ y.heartbeatTimer = c.heartbeatTimer /\ y.invalidSeqTimer = c.invalidSeqTimer
        /\ y.reconnectAbort = c.reconnectAbort
    BY <2>5 DEF Only, Fields
  <2>8. OwnerOfItsKind(y)
    BY <2>2, <2>5 DEF OwnerOfItsKind
  <2>9. BindsAreOwned(y) /\ LoopConnects(y) /\ SenderIsServed(y) /\ AckOwnerWaits(y)
    BY <1>7, <1>10, <2>7 DEF Sound, BindsAreOwned, LoopConnects, SenderIsServed, AckOwnerWaits
  <2>10. ConnectsAreServed(y) /\ HeartbeatsAreServed(y)
    BY <1>7, <1>12, <2>7 DEF Sound, ConnectsAreServed, HeartbeatsAreServed
  <2>11. ClosersAreServed(y)
    BY <1>7, <1>12, <2>2, <2>3, <2>5, <2>6, <2>7 DEF Sound, ClosersAreServed
  <2>12. ResponseOwnerWaits(y)
    BY <2>2, <2>3, <2>5, <2>6, NamesAssumption DEF ResponseOwnerWaits
  <2>13. Good(y)
    BY <2>1, <2>4, <2>8, <2>9, <2>10, <2>11, <2>12 DEF Good, Sound
  <2>14. Only(x, y, F)
    BY <1>9, <2>5 DEF Only
  <2> QED
    BY <1>8, <1>11, <2>3, <2>6, <2>7, <2>13, <2>14 DEF Closing
<1> QED
  BY <1>13, <1>14

\* An attempt of the heartbeat.
LEMMA HeartbeatAttemptGood ==
  ASSUME NEW x, Good(x), NEW h \in Beats, x.beat[h].pc # "response",
         NEW n \in 0..HeartbeatMaxFailures, NEW y, y = HeartbeatAttempt(x, h, n)
  PROVE  /\ Good(y)
         /\ Only(x, y, {"pendingResponse", "beat"})
         /\ \A g \in Beats \ {h} : y.beat[g] = x.beat[g]
<1> USE NoneIsNobody
<1> DEFINE open == x.transport # None /\ x.channelId # None
           r == IF open THEN AwaitResponse(x, "state", h) ELSE x.pendingResponse
           pc == IF open THEN ResponsePc(x) ELSE "rejected"
           v == [pc |-> pc, n |-> n]
<1>1. x \in ClientState /\ Sound(x) /\ x.pendingResponse.owner # h
  BY DEF Good, Sound, ResponseOwnerWaits
<1>2. y = [x EXCEPT !.pendingResponse = r, !.beat[h] = v]
  <2>1. CASE open
    BY <2>1 DEF HeartbeatAttempt
  <2>2. CASE ~open
    <3>1. y = [x EXCEPT !.beat[h] = v]
      BY <2>2 DEF HeartbeatAttempt
    <3>2. r = x.pendingResponse
      BY <2>2
    <3> HIDE DEF r, v
    <3> QED
      BY <1>1, <3>1, <3>2 DEF ClientState
  <2> QED
    BY <2>1, <2>2
<1>3. /\ r \in Response \cup {NoResponse}
      /\ \/ r = x.pendingResponse /\ pc \in {"busy", "rejected"}
         \/ /\ x.pendingResponse = NoResponse /\ r.type = "state"
            /\ \/ r.owner = h /\ pc = "response"
               \/ r.owner = None /\ pc = "rejected"
  <2>1. x.pendingResponse \in Response \cup {NoResponse}
    BY <1>1 DEF ClientState
  <2>2. CASE open
    BY <1>1, <2>2, AwaitResponseFields DEF Owners
  <2>3. CASE ~open
    BY <2>1, <2>3
  <2> QED
    BY <2>2, <2>3
<1>4. v \in BeatState /\ v.pc = pc
  BY <1>3 DEF BeatState, BeatPc
<1> HIDE DEF r, pc, v
<1>5. [x EXCEPT !.pendingResponse = r, !.beat[h] = v] \in ClientState
  BY <1>1, <1>3, <1>4 DEF ClientState, BeatState
<1>6. Only(x, y, {"pendingResponse", "beat"}) /\ y.pendingResponse = r
  BY <1>1, <1>2 DEF ClientState, Only, Fields
<1>7. \A g \in Beats : y.beat[g] = IF g = h THEN v ELSE x.beat[g]
  BY <1>1, <1>2 DEF ClientState
<1>8. /\ y.transport = x.transport /\ y.sock = x.sock /\ y.opening = x.opening
      /\ y.pendingAck = x.pendingAck /\ y.loop = x.loop /\ y.conn = x.conn
      /\ y.closer = x.closer /\ y.sender = x.sender
  BY <1>6 DEF Only, Fields
<1>9. x.pendingResponse = NoResponse => x.pendingResponse.owner = None
  BY DEF NoResponse
<1>10. OwnerOfItsKind(y)
  BY <1>1, <1>3, <1>6 DEF Sound, OwnerOfItsKind
<1>11. BindsAreOwned(y) /\ LoopConnects(y) /\ SenderIsServed(y) /\ AckOwnerWaits(y)
  BY <1>8 DEF Good, Sound, BindsAreOwned, LoopConnects, SenderIsServed, AckOwnerWaits
<1>12. ConnectsAreServed(y) /\ ClosersAreServed(y)
  BY <1>1, <1>3, <1>6, <1>8, <1>9 DEF Sound, ConnectsAreServed, ClosersAreServed
<1>13. HeartbeatsAreServed(y)
  BY <1>1, <1>3, <1>4, <1>6, <1>7, <1>9 DEF Sound, HeartbeatsAreServed
<1>14. ResponseOwnerWaits(y)
  BY <1>1, <1>3, <1>4, <1>6, <1>7, <1>8, NamesAssumption DEF Sound, ResponseOwnerWaits
<1> QED
  BY <1>2, <1>5, <1>6, <1>7, <1>10, <1>11, <1>12, <1>13, <1>14 DEF Good, Sound

SenderState == [pc : SenderPc, attempt : 0..3]

\* The sender goes on to a point where it does not await the ACK.
LEMMA SenderMoves ==
  ASSUME NEW x, Good(x), x.sender.pc # "ack", NEW s \in SenderState, s.pc # "ack",
         s.pc = "reconnecting" => x.loop # "none",
         NEW y, y = [x EXCEPT !.sender = s]
  PROVE  Good(y) /\ Only(x, y, {"sender"}) /\ y.sender = s
<1>1. x \in ClientState /\ Sound(x)
  BY DEF Good, Sound
<1>2. [x EXCEPT !.sender = s] \in ClientState
  BY <1>1 DEF ClientState, SenderState
<1>3. Only(x, y, {"sender"}) /\ y.sender = s
  BY <1>1 DEF ClientState, Only, Fields
<1>4. /\ y.transport = x.transport /\ y.sock = x.sock /\ y.opening = x.opening
      /\ y.pendingAck = x.pendingAck /\ y.pendingResponse = x.pendingResponse
      /\ y.loop = x.loop /\ y.conn = x.conn /\ y.beat = x.beat /\ y.closer = x.closer
  BY <1>3 DEF Only, Fields
<1>5. OwnerOfItsKind(y) /\ BindsAreOwned(y) /\ LoopConnects(y) /\ ResponseOwnerWaits(y)
  BY <1>1, <1>4 DEF Good, Sound, OwnerOfItsKind, BindsAreOwned, LoopConnects,
                    ResponseOwnerWaits
<1>6. ConnectsAreServed(y) /\ HeartbeatsAreServed(y) /\ ClosersAreServed(y)
  BY <1>1, <1>4 DEF Sound, ConnectsAreServed, HeartbeatsAreServed, ClosersAreServed
<1>7. SenderIsServed(y) /\ AckOwnerWaits(y)
  BY <1>1, <1>3, <1>4 DEF Sound, SenderIsServed, AckOwnerWaits
<1> QED
  BY <1>2, <1>3, <1>5, <1>6, <1>7 DEF Good, Sound

LEMMA IdleSenderType == IdleSender \in SenderState /\ IdleSender.pc = "idle"
BY DEF IdleSender, SenderState, SenderPc

\* An attempt to send.
LEMMA TunnellingRequestGood ==
  ASSUME NEW x, Good(x), x.sender.pc # "ack", NEW k \in 0..3,
         NEW y, y = TunnellingRequestOnce(x, k)
  PROVE  Good(y) /\ Only(x, y, {"pendingAck", "sender"})
<1>1. x \in ClientState /\ Sound(x) /\ x.pendingAck \in {"none", "orphan"}
  BY DEF Good, Sound, AckOwnerWaits, ClientState
<1>2. CASE x.transport = None \/ x.channelId = None
  <2> DEFINE s == [pc |-> "rejected", attempt |-> k]
  <2>1. s \in SenderState /\ s.pc = "rejected"
    BY DEF SenderState, SenderPc
  <2>2. y = [x EXCEPT !.sender = s]
    BY <1>2 DEF TunnellingRequestOnce
  <2> HIDE DEF s
  <2>3. Good(y) /\ Only(x, y, {"sender"})
    BY <2>1, <2>2, SenderMoves
  <2> QED
    BY <2>3 DEF Only
<1>3. CASE x.transport # None /\ x.channelId # None
  <2> DEFINE a == AwaitAck(x)
             pc == AwaitPc(x, x.pendingAck # "none", "ack")
             s == [pc |-> pc, attempt |-> k]
  <2>1. y = [x EXCEPT !.pendingAck = a, !.sender = s]
    BY <1>3 DEF TunnellingRequestOnce
  <2>2. /\ a \in {"none", "sender", "orphan"}
        /\ pc \in {"ack", "busy", "rejected"}
        /\ pc = "ack" <=> a = "sender"
    BY <1>1 DEF AwaitAck, AwaitPc
  <2>3. s \in SenderState /\ s.pc = pc
    BY <2>2 DEF SenderState, SenderPc
  <2> HIDE DEF a, pc, s
  <2>4. [x EXCEPT !.pendingAck = a, !.sender = s] \in ClientState
    BY <1>1, <2>2, <2>3 DEF ClientState, SenderState
  <2>5. Only(x, y, {"pendingAck", "sender"}) /\ y.pendingAck = a /\ y.sender = s
    BY <1>1, <2>1 DEF ClientState, Only, Fields
  <2>6. /\ y.transport = x.transport /\ y.sock = x.sock /\ y.opening = x.opening
        /\ y.pendingResponse = x.pendingResponse /\ y.loop = x.loop /\ y.conn = x.conn
        /\ y.beat = x.beat /\ y.closer = x.closer
    BY <2>5 DEF Only, Fields
  <2>7. OwnerOfItsKind(y) /\ BindsAreOwned(y) /\ LoopConnects(y) /\ ResponseOwnerWaits(y)
    BY <1>1, <2>6 DEF Good, Sound, OwnerOfItsKind, BindsAreOwned, LoopConnects,
                      ResponseOwnerWaits
  <2>8. ConnectsAreServed(y) /\ HeartbeatsAreServed(y) /\ ClosersAreServed(y)
    BY <1>1, <2>6 DEF Sound, ConnectsAreServed, HeartbeatsAreServed, ClosersAreServed
  <2>9. SenderIsServed(y) /\ AckOwnerWaits(y)
    BY <2>2, <2>3, <2>5 DEF SenderIsServed, AckOwnerWaits
  <2> QED
    BY <2>1, <2>4, <2>5, <2>7, <2>8, <2>9 DEF Good, Sound
<1> QED
  BY <1>2, <1>3

LEMMA SendBeginsGood ==
  ASSUME NEW x, Good(x), x.sender.pc # "ack", NEW y, y = SendBegins(x)
  PROVE  /\ Good(y) /\ Only(x, y, {"pendingAck", "sender"})
         /\ x.state # "connected" => y.sender.pc = "idle"
<1>1. CASE x.state = "connected"
  BY <1>1, TunnellingRequestGood DEF SendBegins
<1>2. CASE x.state # "connected"
  <2>1. y = [x EXCEPT !.sender = IdleSender]
    BY <1>2 DEF SendBegins
  <2>2. Good(y) /\ Only(x, y, {"sender"}) /\ y.sender.pc = "idle"
    BY <2>1, IdleSenderType, SenderMoves
  <2> QED
    BY <2>2 DEF Only
<1> QED
  BY <1>1, <1>2

\* A tunnel is lost while nothing is being sent.
LEMMA IdleSenderStays ==
  ASSUME NEW x, Good(x), x.sender.pc = "idle", x.loop = "none" => HasFree(x),
         NEW y, y = OnTunnelLost(x)
  PROVE  Good(y) /\ y.sender.pc = "idle"
<1> DEFINE z == TunnelDown(x)
<1>1. x \in ClientState /\ x.pendingAck # "sender"
  BY DEF Good, Sound, AckOwnerWaits
<1>2. z.sender.pc = "idle"
  BY <1>1, TunnelDownFields
<1>3. /\ Good(y)
      /\ \/ y = x
         \/ y = z
         \/ Only(z, y, {"state", "sock", "conn", "opening", "loop"})
  BY OnTunnelLostCases
<1> HIDE DEF z
<1> QED
  BY <1>2, <1>3 DEF Only, Fields

\* After two failed attempts: the tunnel is lost, whatever the sender does then.
LEMMA SendGivesUpGood ==
  ASSUME NEW x, Good(x), x.sender.pc = "rejected", x.loop = "none" => HasFree(x),
         NEW a, a = [x EXCEPT !.sender = IdleSender],
         NEW y, y = SendGivesUp(x)
  PROVE  /\ Good(a) /\ Only(x, a, {"sender"})
         /\ Good(y) /\ Only(OnTunnelLost(a), y, {"pendingAck", "sender"})
<1> DEFINE b == OnTunnelLost(a)
<1>1. Good(a) /\ Only(x, a, {"sender"}) /\ a.sender = IdleSender
  BY IdleSenderType, SenderMoves
<1>2. a.loop = x.loop /\ a.sock = x.sock /\ a \in ClientState /\ a.pendingAck # "sender"
  BY <1>1 DEF Good, Sound, AckOwnerWaits, Only, Fields, IdleSender
<1>3. Good(b) /\ b.sender.pc = "idle"
  <2>1. Good(a) /\ a.sender.pc = "idle" /\ (a.loop = "none" => HasFree(a))
    BY <1>1, <1>2, IdleSenderType DEF HasFree
  <2> QED
    BY <2>1, IdleSenderStays
<1>6. y = CASE ~x.autoReconnect -> b
            [] x.autoReconnect /\ b.loop # "none" ->
                 [b EXCEPT !.sender = [pc |-> "reconnecting", attempt |-> 2]]
            [] OTHER -> TunnellingRequestOnce(b, 3)
  BY DEF SendGivesUp
<1> HIDE DEF b
<1>8. CASE ~x.autoReconnect
  BY <1>1, <1>6, <1>3, <1>8 DEF Only, b
<1>9. CASE x.autoReconnect /\ b.loop # "none"
  <2> DEFINE s == [pc |-> "reconnecting", attempt |-> 2]
  <2>1. s \in SenderState /\ s.pc = "reconnecting"
    BY DEF SenderState, SenderPc
  <2>2. y = [b EXCEPT !.sender = s]
    BY <1>6, <1>9
  <2> HIDE DEF s
  <2>3. Good(y) /\ Only(b, y, {"sender"})
    BY <1>3, <1>9, <2>1, <2>2, SenderMoves
  <2> QED
    BY <1>1, <2>3 DEF Only, b
<1>10. CASE x.autoReconnect /\ b.loop = "none"
  <2>1. y = TunnellingRequestOnce(b, 3)
    BY <1>6, <1>10
  <2>2. Good(y) /\ Only(b, y, {"pendingAck", "sender"})
    BY <1>3, <2>1, TunnellingRequestGood
  <2> QED
    BY <1>1, <2>2 DEF b
<1> QED
  BY <1>8, <1>9, <1>10
-----------------------------------------------------------------------------
(* The actions.  For each: what it changes, and that the client stays good  *)
(* with room for what is due.                                               *)

LEMMA QuietSettled == Quiet => Settled(tc) /\ HasFree(tc)
BY DEF Quiet, Settled, HasFree

\* Room is kept by a callback that takes no free socket ...
LEMMA RoomKept ==
  ASSUME NEW x, NEW y, HasFree(x), Frees(x, y)
  PROVE  Room(y)
BY DEF HasFree, Frees, Room

\* ... and by a function that gets its turn and takes none unless the loop runs.
LEMMA RoomContinues ==
  ASSUME NEW x, NEW y, Room(x), ~Settled(x),
         y.loop = "none" => x.loop = "none" /\ Frees(x, y)
  PROVE  Room(y)
BY DEF HasFree, Frees, Room

\* The slot is emptied, and who awaited it, if anybody, does not any more.
LEMMA SlotEmptied ==
  ASSUME NEW x, Good(x), NEW y \in ClientState,
         Only(x, y, {"pendingResponse", "conn", "beat", "closer"}),
         y.pendingResponse = NoResponse,
         NEW o, o = x.pendingResponse.owner,
         \A p \in ConnProc : y.conn[p] = IF p = o THEN "rejected" ELSE x.conn[p],
         \A h \in Beats : IF h = o THEN y.beat[h].pc \in {"idle", "rejected"}
                          ELSE y.beat[h].pc = x.beat[h].pc,
         \A d \in Closers : y.closer[d] = IF d = o THEN "rejected" ELSE x.closer[d]
  PROVE  Good(y)
<1> USE NoneIsNobody
<1>1. Sound(x) /\ LoopConnects(x)
  BY DEF Good
<1>2. /\ y.loop = x.loop /\ y.sock = x.sock /\ y.opening = x.opening
      /\ y.transport = x.transport /\ y.pendingAck = x.pendingAck /\ y.sender = x.sender
  BY DEF Only, Fields
<1>3. OwnerOfItsKind(y)
  BY DEF OwnerOfItsKind, NoResponse
<1>4. BindsAreOwned(y)
  BY <1>1, <1>2 DEF Sound, BindsAreOwned, ResponseOwnerWaits
<1>5. ConnectsAreServed(y)
  BY <1>1 DEF Sound, ConnectsAreServed
<1>6. HeartbeatsAreServed(y)
  BY <1>1 DEF Sound, HeartbeatsAreServed
<1>7. ClosersAreServed(y) /\ SenderIsServed(y)
  BY <1>1, <1>2 DEF Sound, ClosersAreServed, SenderIsServed
<1>8. ResponseOwnerWaits(y) /\ AckOwnerWaits(y)
  BY <1>1, <1>2 DEF Sound, ResponseOwnerWaits, AckOwnerWaits, NoResponse
<1>9. LoopConnects(y)
  BY <1>1, <1>2 DEF LoopConnects, Sound, ResponseOwnerWaits
<1> QED
  BY <1>3, <1>4, <1>5, <1>6, <1>7, <1>8, <1>9 DEF Good, Sound

\* A connect() that is neither at its bind nor at its await goes on.
LEMMA ConnMoves ==
  ASSUME NEW x, Good(x), NEW p \in ConnProc,
         x.conn[p] \in {"busy", "rejected"},
         NEW s \in {"rejected", "closing"}, NEW y, y = [x EXCEPT !.conn[p] = s]
  PROVE  /\ Good(y) /\ Only(x, y, {"conn"})
         /\ \A q \in ConnProc : y.conn[q] = IF q = p THEN s ELSE x.conn[q]
<1>1. x \in ClientState /\ Sound(x) /\ LoopConnects(x)
  BY DEF Good, Sound
<1>2. [x EXCEPT !.conn[p] = s] \in ClientState
  BY <1>1 DEF ClientState, ConnPc
<1>3. Only(x, y, {"conn"})
  BY <1>1 DEF ClientState, Only, Fields
<1>4. \A q \in ConnProc : y.conn[q] = IF q = p THEN s ELSE x.conn[q]
  BY <1>1 DEF ClientState
<1>5. /\ y.transport = x.transport /\ y.sock = x.sock /\ y.opening = x.opening
      /\ y.pendingAck = x.pendingAck /\ y.pendingResponse = x.pendingResponse
      /\ y.loop = x.loop /\ y.beat = x.beat /\ y.closer = x.closer /\ y.sender = x.sender
  BY <1>3 DEF Only, Fields
<1>6. OwnerOfItsKind(y) /\ AckOwnerWaits(y)
  BY <1>1, <1>5 DEF Sound, OwnerOfItsKind, AckOwnerWaits
<1>7. HeartbeatsAreServed(y) /\ ClosersAreServed(y) /\ SenderIsServed(y)
  BY <1>1, <1>5 DEF Sound, HeartbeatsAreServed, ClosersAreServed, SenderIsServed
<1>8. BindsAreOwned(y)
  BY <1>1, <1>4, <1>5 DEF Sound, BindsAreOwned
<1>9. ConnectsAreServed(y) /\ ResponseOwnerWaits(y)
  BY <1>1, <1>4, <1>5 DEF Sound, ConnectsAreServed, ResponseOwnerWaits
<1>10. LoopConnects(y)
  BY <1>1, <1>4, <1>5, NoneIsNobody DEF LoopConnects
<1> QED
  BY <1>2, <1>3, <1>4, <1>6, <1>7, <1>8, <1>9, <1>10 DEF Good, Sound

LEMMA ConnectCallGood ==
  ASSUME IInv, NEW p \in Callers, ConnectCall(p)
  PROVE  Good(tc') /\ Room(tc')
<1>1. /\ Good(tc) /\ Sound(tc) /\ tc \in ClientState /\ p \in ConnProc /\ p # Loop
      /\ tc.conn[p] = "idle" /\ tc' = Connect(tc, p) /\ Settled(tc) /\ HasFree(tc)
  BY QuietSettled, NoneIsNobody DEF IInv, Good, Sound, ConnectCall, ConnProc
<1>2. tc.pendingResponse.owner # p
  BY <1>1 DEF Sound, ResponseOwnerWaits
<1>3. Returning(tc, p)
  BY <1>1, <1>2 DEF Good, Sound, Returning, ConnectsAreServed
<1>4. Good(tc')
  BY <1>1, <1>3, ConnectGood
<1>5. CASE tc.state = "disconnected"
  <2>1. /\ Only(tc, tc', {"state", "sock", "conn", "opening"})
        /\ \A q \in ConnProc : tc'.conn[q] = IF q = p THEN "binding" ELSE tc.conn[q]
    BY <1>1, <1>5, ConnectFields
  <2>2. tc'.beat = tc.beat /\ tc'.closer = tc.closer /\ tc'.sender = tc.sender
    BY <2>1 DEF Only, Fields
  <2> QED
    BY <1>1, <1>4, <2>1, <2>2 DEF Settled, Room
<1>6. CASE tc.state # "disconnected"
  <2>1. PICK ok \in BOOLEAN : tc' = ConnectEnds(tc, p, ok)
    BY <1>1, <1>6 DEF Connect
  <2>2. Only(tc, tc', {"conn", "opening"})
    BY <1>1, <2>1, ConnectEndsFields
  <2>3. Frees(tc, tc')
    BY <2>2 DEF Only, Fields, Frees
  <2> QED
    BY <1>1, <1>4, <2>3, RoomKept
<1> QED
  BY <1>5, <1>6

\* The socket that was being bound is the client's transport.
LEMMA BindEndsGood ==
  ASSUME IInv, NEW p \in ConnProc, NEW v \in {"open", "dead"}, BindEnds(p, v)
  PROVE  /\ Good(tc') /\ Room(tc')
         /\ Only(tc, tc', {"transport", "opening", "sock", "conn", "pendingResponse"})
         /\ tc.opening[p] \in Sockets /\ tc'.transport = tc.opening[p]
         /\ \A q \in ConnProc : tc'.opening[q] = IF q = p THEN None ELSE tc.opening[q]
         /\ \A t \in Sockets : tc'.sock[t] = IF t = tc.opening[p] THEN v ELSE tc.sock[t]
         /\ \A q \in ConnProc : q # p => tc'.conn[q] = tc.conn[q]
         /\ tc'.conn[p] \in {"response", "busy", "rejected"}
<1> USE NoneIsNobody
<1> DEFINE u == tc.opening[p]
           x == [tc EXCEPT !.transport = u, !.opening[p] = None, !.sock[u] = v]
           r == AwaitResponse(x, "connect", p)
           s == ResponsePc(x)
<1>1. /\ Good(tc) /\ Sound(tc) /\ tc \in ClientState /\ Settled(tc) /\ HasFree(tc)
      /\ tc.conn[p] = "binding" /\ tc' = [x EXCEPT !.conn[p] = s, !.pendingResponse = r]
  BY QuietSettled DEF IInv, Good, Sound, BindEnds
<1>2. u \in Sockets /\ tc.sock[u] = "binding"
  BY <1>1 DEF Sound, BindsAreOwned, ClientState
<1>3. /\ x \in ClientState /\ Only(tc, x, {"transport", "opening", "sock"})
      /\ x.transport = u
      /\ \A q \in ConnProc : x.opening[q] = IF q = p THEN None ELSE tc.opening[q]
      /\ \A t \in Sockets : x.sock[t] = IF t = u THEN v ELSE tc.sock[t]
  <2>1. tc \in ClientState /\ u \in Sockets
    BY <1>1, <1>2
  <2> HIDE DEF u
  <2>2. x \in ClientState
    BY <2>1 DEF ClientState
  <2>3. Only(tc, x, {"transport", "opening", "sock"}) /\ x.transport = u
    BY <2>1 DEF ClientState, Only, Fields
  <2>4. /\ \A q \in ConnProc : x.opening[q] = IF q = p THEN None ELSE tc.opening[q]
        /\ \A t \in Sockets : x.sock[t] = IF t = u THEN v ELSE tc.sock[t]
    BY <2>1 DEF ClientState
  <2> QED
    BY <2>2, <2>3, <2>4
<1> HIDE DEF x
<1>4. x.pendingResponse = tc.pendingResponse /\ x.conn = tc.conn
  BY <1>3 DEF Only, Fields
<1>5. /\ r \in Response
      /\ tc.pendingResponse # NoResponse => r = tc.pendingResponse /\ s \in {"busy", "rejected"}
      /\ tc.pendingResponse = NoResponse =>
           /\ r.type = "connect"
           /\ \/ r.owner = p /\ s = "response"
              \/ r.owner = None /\ s = "rejected"
  BY <1>2, <1>3, <1>4, AwaitResponseFields DEF Owners
<1> HIDE DEF r, s
<1>6. [x EXCEPT !.conn[p] = s, !.pendingResponse = r] \in ClientState
  BY <1>3, <1>5 DEF ClientState, ConnPc
<1>7. Only(x, tc', {"conn", "pendingResponse"}) /\ tc'.pendingResponse = r
  BY <1>1, <1>3 DEF ClientState, Only, Fields
<1>8. \A q \in ConnProc : tc'.conn[q] = IF q = p THEN s ELSE tc.conn[q]
  BY <1>1, <1>3, <1>4 DEF ClientState
<1>9. Only(tc, tc', {"transport", "opening", "sock", "conn", "pendingResponse"})
  BY <1>3, <1>7 DEF Only
<1>10. /\ tc'.transport = u /\ tc'.opening = x.opening /\ tc'.sock = x.sock
       /\ tc'.loop = tc.loop /\ tc'.beat = tc.beat /\ tc'.closer = tc.closer
       /\ tc'.sender = tc.sender /\ tc'.pendingAck = tc.pendingAck
  BY <1>3, <1>7, <1>9 DEF Only, Fields
<1>11. tc.pendingResponse = NoResponse => tc.pendingResponse.owner = None
  BY DEF NoResponse
<1>12. OwnerOfItsKind(tc') /\ AckOwnerWaits(tc') /\ SenderIsServed(tc')
  BY <1>1, <1>5, <1>7, <1>10 DEF Sound, OwnerOfItsKind, AckOwnerWaits, SenderIsServed
<1>13. BindsAreOwned(tc')
  <2>1. \A q \in ConnProc : tc'.opening[q] = IF q = p THEN None ELSE tc.opening[q]
    BY <1>3, <1>10
  <2>2. \A t \in Sockets : tc'.sock[t] = IF t = u THEN v ELSE tc.sock[t]
    BY <1>3, <1>10
  <2>3. \A q \in ConnProc : q # p => tc.opening[q] # u
    BY <1>1, <1>2 DEF Sound, BindsAreOwned
  <2>4. \A q \in ConnProc : tc.opening[q] \in Sockets \cup {None}
    BY <1>1 DEF ClientState
  <2>5. \A q \in ConnProc : tc'.conn[q] = "binding" <=> tc'.opening[q] # None
    BY <1>1, <1>5, <1>8, <2>1 DEF Sound, BindsAreOwned
  <2>6. \A q \in ConnProc : tc'.opening[q] # None => tc'.sock[tc'.opening[q]] = "binding"
    BY <1>1, <2>1, <2>2, <2>3, <2>4 DEF Sound, BindsAreOwned
  <2>7. \A q, w \in ConnProc :
          tc'.opening[q] = tc'.opening[w] => q = w \/ tc'.opening[q] = None
    BY <1>1, <2>1 DEF Sound, BindsAreOwned
  <2>8. \A t \in Sockets : tc'.sock[t] = "binding" => \E q \in ConnProc : tc'.opening[q] = t
    BY <1>1, <2>1, <2>2 DEF Sound, BindsAreOwned
  <2>9. tc'.sock[tc'.transport] \in {"open", "dead"}
    BY <1>2, <1>10, <2>2
  <2> HIDE DEF u
  <2> QED
    BY <2>5, <2>6, <2>7, <2>8, <2>9 DEF BindsAreOwned
<1>14. ConnectsAreServed(tc')
  BY <1>1, <1>5, <1>7, <1>8, <1>11 DEF Sound, ConnectsAreServed
<1>15. HeartbeatsAreServed(tc') /\ ClosersAreServed(tc')
  BY <1>1, <1>5, <1>7, <1>10, <1>11 DEF Sound, HeartbeatsAreServed, ClosersAreServed
<1>16. ResponseOwnerWaits(tc')
  BY <1>1, <1>5, <1>7, <1>8, <1>10, NamesAssumption DEF Sound, ResponseOwnerWaits
<1>17. LoopConnects(tc')
  BY <1>1, <1>5, <1>8, <1>10 DEF Good, LoopConnects
<1>18. Frees(tc, tc')
  BY <1>2, <1>3, <1>10 DEF Frees
<1>19. Good(tc') /\ Room(tc')
  BY <1>1, <1>6, <1>12, <1>13, <1>14, <1>15, <1>16, <1>17, <1>18, RoomKept DEF Good, Sound
<1> QED
  BY <1>2, <1>3, <1>5, <1>8, <1>9, <1>10, <1>19

LEMMA BindFailsGood ==
  ASSUME IInv, NEW p \in ConnProc, BindFails(p)
  PROVE  /\ Good(tc') /\ Room(tc')
         /\ Only(tc, tc', {"opening", "sock", "conn"})
         /\ \A t \in Sockets : tc'.sock[t] = IF t = tc.opening[p] THEN "free" ELSE tc.sock[t]
         /\ \A q \in ConnProc : /\ tc'.conn[q] = IF q = p THEN "rejected" ELSE tc.conn[q]
                                /\ tc'.opening[q] = IF q = p THEN None ELSE tc.opening[q]
<1> USE NoneIsNobody
<1> DEFINE u == tc.opening[p]
<1>1. /\ Good(tc) /\ Sound(tc) /\ tc \in ClientState /\ Settled(tc) /\ HasFree(tc)
      /\ tc.conn[p] = "binding"
      /\ tc' = [tc EXCEPT !.conn[p] = "rejected", !.opening[p] = None, !.sock[u] = "free"]
  BY QuietSettled DEF IInv, Good, Sound, BindFails
<1>2. u \in Sockets /\ tc.sock[u] = "binding"
  BY <1>1 DEF Sound, BindsAreOwned, ClientState
<1>3. tc.transport # u
  BY <1>1, <1>2 DEF Sound, BindsAreOwned
<1>4. \A q \in ConnProc : q # p => tc.opening[q] # u
  BY <1>1, <1>2 DEF Sound, BindsAreOwned
<1> HIDE DEF u
<1>5. tc' \in ClientState
  <2>1. [tc EXCEPT !.conn[p] = "rejected", !.opening[p] = None, !.sock[u] = "free"]
          \in ClientState
    BY <1>1, <1>2 DEF ClientState, ConnPc
  <2> QED
    BY <1>1, <2>1
<1>6. Only(tc, tc', {"opening", "sock", "conn"})
  BY <1>1 DEF ClientState, Only, Fields
<1>7. /\ \A t \in Sockets : tc'.sock[t] = IF t = u THEN "free" ELSE tc.sock[t]
      /\ \A q \in ConnProc : /\ tc'.conn[q] = IF q = p THEN "rejected" ELSE tc.conn[q]
                             /\ tc'.opening[q] = IF q = p THEN None ELSE tc.opening[q]
  BY <1>1, <1>2 DEF ClientState
<1>8. /\ tc'.transport = tc.transport /\ tc'.pendingAck = tc.pendingAck
      /\ tc'.pendingResponse = tc.pendingResponse /\ tc'.loop = tc.loop
      /\ tc'.beat = tc.beat /\ tc'.closer = tc.closer /\ tc'.sender = tc.sender
  BY <1>6 DEF Only, Fields
<1>9. OwnerOfItsKind(tc') /\ AckOwnerWaits(tc') /\ SenderIsServed(tc')
  BY <1>1, <1>8 DEF Sound, OwnerOfItsKind, AckOwnerWaits, SenderIsServed
<1>10. HeartbeatsAreServed(tc') /\ ClosersAreServed(tc')
  BY <1>1, <1>8 DEF Sound, HeartbeatsAreServed, ClosersAreServed
<1>11. ConnectsAreServed(tc') /\ ResponseOwnerWaits(tc')
  BY <1>1, <1>7, <1>8 DEF Sound, ConnectsAreServed, ResponseOwnerWaits
<1>12. BindsAreOwned(tc')
  <2>1. \A q \in ConnProc : tc.opening[q] \in Sockets \cup {None}
    BY <1>1 DEF ClientState
  <2>2. /\ \A q \in ConnProc : tc'.conn[q] = "binding" <=> tc'.opening[q] # None
        /\ \A q \in ConnProc : tc'.opening[q] # None => tc'.sock[tc'.opening[q]] = "binding"
    BY <1>1, <1>4, <1>7, <2>1 DEF Sound, BindsAreOwned
  <2>3. \A q, w \in ConnProc :
          tc'.opening[q] = tc'.opening[w] => q = w \/ tc'.opening[q] = None
    BY <1>1, <1>7 DEF Sound, BindsAreOwned
  <2>4. \A t \in Sockets : tc'.sock[t] = "binding" => \E q \in ConnProc : tc'.opening[q] = t
    BY <1>1, <1>7 DEF u, Sound, BindsAreOwned
  <2>5. tc'.transport # None => tc'.sock[tc'.transport] \in {"open", "dead"}
    BY <1>1, <1>3, <1>7, <1>8 DEF Sound, BindsAreOwned, ClientState
  <2> QED
    BY <2>2, <2>3, <2>4, <2>5 DEF BindsAreOwned
<1>13. LoopConnects(tc')
  BY <1>1, <1>7, <1>8 DEF Good, LoopConnects
<1>14. Frees(tc, tc')
  BY <1>7 DEF Frees
<1>15. Good(tc') /\ Room(tc')
  BY <1>1, <1>5, <1>9, <1>10, <1>11, <1>12, <1>13, <1>14, RoomKept DEF Good, Sound
<1> QED
  BY <1>6, <1>7, <1>15 DEF u

LEMMA ConnectBusyGood ==
  ASSUME IInv, NEW p \in ConnProc, ConnectBusy(p)
  PROVE  /\ Good(tc') /\ Room(tc')
         /\ Only(tc, tc', {"conn"})
         /\ \A q \in ConnProc : tc'.conn[q] = IF q = p THEN "rejected" ELSE tc.conn[q]
<1>1. /\ Good(tc) /\ HasFree(tc) /\ tc.conn[p] = "busy"
      /\ tc' = [tc EXCEPT !.conn[p] = "rejected"]
  BY QuietSettled DEF IInv, ConnectBusy
<1>2. /\ Good(tc') /\ Only(tc, tc', {"conn"})
      /\ \A q \in ConnProc : tc'.conn[q] = IF q = p THEN "rejected" ELSE tc.conn[q]
  BY <1>1, ConnMoves
<1>3. Frees(tc, tc')
  BY <1>2 DEF Only, Fields, Frees
<1> QED
  BY <1>1, <1>2, <1>3, RoomKept

\* connect() throws: the client is down, the loop goes to sleep.
LEMMA ConnectFailedGood ==
  ASSUME NEW x, Good(x), NEW p \in ConnProc, x.conn[p] \in {"rejected", "closing"},
         NEW y, y = ConnectFailed(x, p)
  PROVE  /\ Good(y)
         /\ Only(x, y, {"state", "conn", "opening", "loop"})
         /\ y.state = "disconnected"
         /\ \A q \in ConnProc : y.conn[q] = IF q = p THEN "idle" ELSE x.conn[q]
         /\ IF p = Loop THEN y.loop = "delay" ELSE y.loop = x.loop
<1> USE NoneIsNobody
<1> DEFINE a == [x EXCEPT !.state = "disconnected"]
           ok == FALSE
<1>1. x \in ClientState /\ Sound(x) /\ LoopConnects(x)
  BY DEF Good, Sound
<1>2. /\ a \in ClientState /\ Only(x, a, {"state"}) /\ a.state = "disconnected"
  BY <1>1 DEF ClientState, TunnelState, Only, Fields
<1>3. y = ConnectEnds(a, p, ok) /\ ok \in BOOLEAN /\ ~ok
  BY DEF ConnectFailed
<1> HIDE DEF a, ok
<1>4. Good(a)
  <2>1. Only(x, a, {"autoReconnect", "overTcp", "state", "channelId", "heartbeatTimer",
                    "invalidSeqTimer", "reconnectAbort"})
    BY <1>2 DEF Only
  <2> QED
    BY <1>1, <1>2, <2>1, PlainFieldsSound
<1>5. a.conn = x.conn /\ a.loop = x.loop
  BY <1>2 DEF Only, Fields
<1>6. a.pendingResponse.owner # p
  BY <1>4, <1>5 DEF Good, Sound, ResponseOwnerWaits
<1>7. p = Loop => a.loop = "connecting"
  BY <1>1, <1>5 DEF LoopConnects
<1>8. Returning(a, p)
  BY <1>2, <1>4, <1>5, <1>6, <1>7 DEF Good, Sound, Returning, ConnectsAreServed
<1>9. Good(y)
  BY <1>3, <1>8, ConnectEndsGood
<1>10. /\ Only(a, y, {"conn", "opening", "loop"})
       /\ \A q \in ConnProc : y.conn[q] = IF q = p THEN "idle" ELSE a.conn[q]
       /\ IF p = Loop THEN y.loop = "delay" ELSE y.loop = a.loop
  <2>1. /\ \A q \in ConnProc : y.conn[q] = IF q = p THEN "idle" ELSE a.conn[q]
        /\ p # Loop => Only(a, y, {"conn", "opening"})
        /\ p = Loop => Only(a, y, {"conn", "opening", "loop"}) /\ y.loop = "delay"
    BY <1>2, <1>3, ConnectEndsFields
  <2> QED
    BY <2>1 DEF Only, Fields
<1>11. Only(x, y, {"state", "conn", "opening", "loop"}) /\ y.state = a.state
  BY <1>2, <1>10 DEF Only, Fields
<1> QED
  BY <1>2, <1>5, <1>9, <1>10, <1>11

LEMMA ConnectThrowsGood ==
  ASSUME IInv, NEW p \in ConnProc, ConnectThrows(p)
  PROVE  /\ Good(tc') /\ Room(tc')
         /\ Only(tc, tc', {"transport", "sock", "state", "conn", "opening", "loop"})
         /\ tc'.transport = None
         /\ \A t \in Sockets : tc'.sock[t] = IF t = tc.transport THEN "free" ELSE tc.sock[t]
         /\ \A q \in ConnProc \ {p} : tc'.conn[q] = tc.conn[q]
         /\ \/ tc'.conn[p] = "closing" /\ tc'.state = tc.state /\ tc'.loop = tc.loop
            \/ /\ tc'.conn[p] = "idle" /\ tc'.state = "disconnected"
               /\ IF p = Loop THEN tc'.loop = "delay" ELSE tc'.loop = tc.loop
<1> DEFINE z == TeardownTransport(tc)
<1>1. /\ Good(tc) /\ tc \in ClientState /\ Sound(tc) /\ LoopConnects(tc) /\ Room(tc)
      /\ tc.conn[p] = "rejected" /\ ~Settled(tc)
      /\ tc' = IF CloseTakesTime(tc) THEN [z EXCEPT !.conn[p] = "closing"]
               ELSE ConnectFailed(z, p)
  BY DEF IInv, Good, Sound, ConnectThrows, Settled
<1>2. /\ Sound(z) /\ Only(tc, z, {"transport", "sock"}) /\ z.transport = None
      /\ \A t \in Sockets : z.sock[t] = IF t = tc.transport THEN "free" ELSE tc.sock[t]
  BY <1>1, TeardownSound, TeardownFields
<1> HIDE DEF z
<1>3. z.conn = tc.conn /\ z.loop = tc.loop /\ z.state = tc.state
  BY <1>2 DEF Only, Fields
<1>4. Good(z)
  BY <1>1, <1>2, <1>3 DEF Good, LoopConnects
<1>5. CASE CloseTakesTime(tc)
  <2>1. tc' = [z EXCEPT !.conn[p] = "closing"]
    BY <1>1, <1>5
  <2>2. /\ Good(tc') /\ Only(z, tc', {"conn"})
        /\ \A q \in ConnProc : tc'.conn[q] = IF q = p THEN "closing" ELSE z.conn[q]
    BY <1>1, <1>3, <1>4, <2>1, ConnMoves
  <2>3. Only(tc, tc', {"transport", "sock", "state", "conn", "opening", "loop"})
    BY <1>2, <2>2 DEF Only
  <2>4. /\ tc'.transport = None /\ tc'.sock = z.sock /\ tc'.state = tc.state
        /\ tc'.loop = tc.loop
    BY <1>2, <1>3, <2>2 DEF Only, Fields
  <2>5. Frees(tc, tc')
    BY <1>2, <2>4 DEF Frees
  <2>6. Room(tc')
    BY <1>1, <2>4, <2>5, RoomContinues
  <2> QED
    BY <1>2, <1>3, <2>2, <2>3, <2>4, <2>6
<1>6. CASE ~CloseTakesTime(tc)
  <2>1. tc' = ConnectFailed(z, p)
    BY <1>1, <1>6
  <2>2. /\ Good(tc') /\ Only(z, tc', {"state", "conn", "opening", "loop"})
        /\ tc'.state = "disconnected"
        /\ \A q \in ConnProc : tc'.conn[q] = IF q = p THEN "idle" ELSE z.conn[q]
        /\ IF p = Loop THEN tc'.loop = "delay" ELSE tc'.loop = z.loop
    <3>1. Good(z) /\ z.conn[p] = "rejected"
      BY <1>1, <1>3, <1>4
    <3> QED
      BY <2>1, <3>1, ConnectFailedGood
  <2>3. Only(tc, tc', {"transport", "sock", "state", "conn", "opening", "loop"})
    BY <1>2, <2>2 DEF Only
  <2>4. tc'.transport = None /\ tc'.sock = z.sock
    BY <1>2, <2>2 DEF Only, Fields
  <2>5. Frees(tc, tc')
    BY <1>2, <2>4 DEF Frees
  <2>6. tc'.loop = "none" => tc.loop = "none"
    BY <1>3, <2>2
  <2>7. Room(tc')
    BY <1>1, <2>5, <2>6, RoomContinues
  <2> QED
    BY <1>2, <1>3, <2>2, <2>3, <2>4, <2>7
<1> QED
  BY <1>5, <1>6

LEMMA ConnectClosedGood ==
  ASSUME IInv, NEW p \in ConnProc, ConnectClosed(p)
  PROVE  /\ Good(tc') /\ Room(tc')
         /\ Only(tc, tc', {"state", "conn", "opening", "loop"})
         /\ tc'.state = "disconnected"
         /\ \A q \in ConnProc : tc'.conn[q] = IF q = p THEN "idle" ELSE tc.conn[q]
         /\ IF p = Loop THEN tc'.loop = "delay" ELSE tc'.loop = tc.loop
<1>1. /\ Good(tc) /\ HasFree(tc) /\ tc.conn[p] = "closing" /\ tc' = ConnectFailed(tc, p)
  BY QuietSettled DEF IInv, ConnectClosed
<1>2. /\ Good(tc') /\ Only(tc, tc', {"state", "conn", "opening", "loop"})
      /\ tc'.state = "disconnected"
      /\ \A q \in ConnProc : tc'.conn[q] = IF q = p THEN "idle" ELSE tc.conn[q]
      /\ IF p = Loop THEN tc'.loop = "delay" ELSE tc'.loop = tc.loop
  BY <1>1, ConnectFailedGood
<1>3. Frees(tc, tc')
  BY <1>2 DEF Only, Fields, Frees
<1> QED
  BY <1>1, <1>2, <1>3, RoomKept

\* connect() returns: with the loop's own, the loop is over.
LEMMA ConnectReturnsFields ==
  ASSUME NEW x \in ClientState, NEW p \in ConnProc, NEW y, y = ConnectEnds(x, p, TRUE)
  PROVE  /\ Only(x, y, {"conn", "opening", "loop", "closer", "sender"})
         /\ \A q \in ConnProc : y.conn[q] = IF q = p THEN "idle" ELSE x.conn[q]
         /\ \A d \in Closers : y.closer[d] =
              IF p = Loop /\ x.closer[d] = "reconnecting" THEN "resumed" ELSE x.closer[d]
         /\ y.loop = IF p = Loop THEN "none" ELSE x.loop
<1> DEFINE z == [x EXCEPT !.conn[p] = "idle", !.opening[p] = None]
<1>1. y = IF p # Loop THEN z ELSE LoopEnds(z)
  BY DEF ConnectEnds
<1>2. z \in ClientState /\ Only(x, z, {"conn", "opening"})
  BY DEF ClientState, ConnPc, Only, Fields
<1>3. \A q \in ConnProc : z.conn[q] = IF q = p THEN "idle" ELSE x.conn[q]
  BY DEF ClientState
<1> HIDE DEF z
<1>4. z.loop = x.loop /\ z.closer = x.closer
  BY <1>2 DEF Only, Fields
<1>5. CASE p # Loop
  BY <1>1, <1>2, <1>3, <1>4, <1>5 DEF Only
<1>6. CASE p = Loop
  <2>1. y = LoopEnds(z)
    BY <1>1, <1>6
  <2>2. /\ Only(z, y, {"loop", "closer", "sender"}) /\ y.loop = "none"
        /\ \A d \in Closers : y.closer[d] = IF z.closer[d] = "reconnecting" THEN "resumed"
                                            ELSE z.closer[d]
    BY <1>2, <2>1, LoopEndsFields
  <2>3. Only(x, y, {"conn", "opening", "loop", "closer", "sender"}) /\ y.conn = z.conn
    BY <1>2, <2>2 DEF Only, Fields
  <2> QED
    BY <1>3, <1>4, <1>6, <2>2, <2>3
<1> QED
  BY <1>5, <1>6

\* A refusal, or a response that nobody awaits: the slot is empty, and who
\* awaited it is rejected.  An acceptance: connect() returns.
LEMMA RxConnectResponseGood ==
  ASSUME IInv, NEW ok \in BOOLEAN, NEW ch \in Channels, RxConnectResponse(ok, ch),
         NEW p, p = tc.pendingResponse.owner
  PROVE  /\ Good(tc') /\ Room(tc')
         /\ p = None \/ ~ok =>
              /\ Only(tc, tc', {"pendingResponse", "conn"})
              /\ \A q \in ConnProc : tc'.conn[q] = IF q = p THEN "rejected" ELSE tc.conn[q]
         /\ p # None /\ ok =>
              /\ p \in ConnProc /\ tc.conn[p] = "response"
              /\ Only(tc, tc', {"pendingResponse", "channelId", "heartbeatTimer", "state",
                                "conn", "opening", "loop", "closer", "sender"})
              /\ tc'.channelId = ch /\ tc'.state = "connected"
              /\ Beats # {} <=> tc'.heartbeatTimer
              /\ \A q \in ConnProc : tc'.conn[q] = IF q = p THEN "idle" ELSE tc.conn[q]
              /\ \A d \in Closers : tc'.closer[d] =
                   IF p = Loop /\ tc.closer[d] = "reconnecting" THEN "resumed"
                   ELSE tc.closer[d]
              /\ tc'.loop = IF p = Loop THEN "none" ELSE tc.loop
<1> USE NoneIsNobody
<1> DEFINE x == [tc EXCEPT !.pendingResponse = NoResponse]
           t == (Beats # {})
           z == [x EXCEPT !.channelId = ch, !.heartbeatTimer = t, !.state = "connected"]
<1>1. /\ Good(tc) /\ Sound(tc) /\ tc \in ClientState /\ LoopConnects(tc) /\ HasFree(tc)
      /\ tc.pendingResponse.type = "connect"
      /\ tc' = CASE p = None -> x
                 [] p # None /\ ok -> ConnectEnds(z, p, TRUE)
                 [] OTHER -> [x EXCEPT !.conn[p] = "rejected"]
  BY QuietSettled DEF IInv, Good, Sound, RxConnectResponse
<1>2. p \in ConnProc \cup {None} /\ (p # None => tc.conn[p] = "response")
  BY <1>1 DEF Sound, OwnerOfItsKind, ResponseOwnerWaits
<1>3. /\ x \in ClientState /\ Only(tc, x, {"pendingResponse"})
      /\ x.pendingResponse = NoResponse
  BY <1>1 DEF ClientState, Only, Fields
<1> HIDE DEF x
<1>4. /\ x.conn = tc.conn /\ x.beat = tc.beat /\ x.closer = tc.closer
  BY <1>3 DEF Only, Fields
<1>5. p \notin Beats /\ p \notin Closers
  BY <1>2, NamesAssumption
<1>6. CASE p = None \/ ~ok
  <2>1. /\ tc' \in ClientState /\ Only(x, tc', {"conn"})
        /\ \A q \in ConnProc : tc'.conn[q] = IF q = p THEN "rejected" ELSE x.conn[q]
    <3>1. CASE p = None
      BY <1>1, <1>3, <3>1 DEF Only
    <3>2. CASE p # None
      <4>1. tc' = [x EXCEPT !.conn[p] = "rejected"]
        BY <1>1, <1>6, <3>2
      <4>2. [x EXCEPT !.conn[p] = "rejected"] \in ClientState
        BY <1>3 DEF ClientState, ConnPc
      <4>3. Only(x, tc', {"conn"})
        BY <1>3, <4>1 DEF ClientState, Only, Fields
      <4>4. \A q \in ConnProc : tc'.conn[q] = IF q = p THEN "rejected" ELSE x.conn[q]
        BY <1>3, <4>1 DEF ClientState
      <4> QED
        BY <4>1, <4>2, <4>3, <4>4
    <3> QED
      BY <3>1, <3>2
  <2>2. Only(tc, tc', {"pendingResponse", "conn"})
    BY <1>3, <2>1 DEF Only
  <2>3. /\ tc'.pendingResponse = NoResponse /\ tc'.beat = tc.beat
        /\ tc'.closer = tc.closer /\ tc'.sock = tc.sock
    BY <1>3, <1>4, <2>1 DEF Only, Fields
  <2>4. Only(tc, tc', {"pendingResponse", "conn", "beat", "closer"})
    BY <2>2 DEF Only
  <2>5. Good(tc')
    <3>1. \A q \in ConnProc : tc'.conn[q] = IF q = p THEN "rejected" ELSE tc.conn[q]
      BY <1>4, <2>1
    <3>2. \A h \in Beats : IF h = p THEN tc'.beat[h].pc \in {"idle", "rejected"}
                           ELSE tc'.beat[h].pc = tc.beat[h].pc
      BY <1>5, <2>3
    <3>3. \A d \in Closers : tc'.closer[d] = IF d = p THEN "rejected" ELSE tc.closer[d]
      BY <1>5, <2>3
    <3>4. Good(tc) /\ tc' \in ClientState /\ tc'.pendingResponse = NoResponse
      BY <1>1, <2>1, <2>3
    <3> QED
      BY <2>4, <3>1, <3>2, <3>3, <3>4, SlotEmptied
  <2>6. Room(tc')
    BY <1>1, <2>3, RoomKept DEF Frees
  <2> QED
    BY <1>4, <1>6, <2>1, <2>2, <2>5, <2>6
<1>7. CASE p # None /\ ok
  <2>1. tc' = ConnectEnds(z, p, TRUE)
    BY <1>1, <1>7
  <2>2. /\ z \in ClientState /\ Only(x, z, {"channelId", "heartbeatTimer", "state"})
        /\ z.channelId = ch /\ z.heartbeatTimer = t /\ z.state = "connected"
    <3>1. t \in BOOLEAN
      OBVIOUS
    <3> HIDE DEF t
    <3>2. z \in ClientState
      BY <1>3, <3>1 DEF ClientState, TunnelState
    <3>3. /\ Only(x, z, {"channelId", "heartbeatTimer", "state"})
          /\ z.channelId = ch /\ z.heartbeatTimer = t /\ z.state = "connected"
      BY <1>3 DEF ClientState, Only, Fields
    <3> QED
      BY <3>2, <3>3
  <2> HIDE DEF z, t
  <2>3. /\ z.transport = tc.transport /\ z.sock = tc.sock /\ z.opening = tc.opening
        /\ z.pendingAck = tc.pendingAck /\ z.pendingResponse = NoResponse
        /\ z.loop = tc.loop /\ z.conn = tc.conn /\ z.beat = tc.beat
        /\ z.closer = tc.closer /\ z.sender = tc.sender
    BY <1>3, <2>2 DEF Only, Fields
  <2>4. OwnerOfItsKind(z) /\ BindsAreOwned(z) /\ SenderIsServed(z) /\ AckOwnerWaits(z)
    BY <1>1, <2>3
       DEF Sound, OwnerOfItsKind, NoResponse, BindsAreOwned, SenderIsServed, AckOwnerWaits
  <2>5. HeartbeatsAreServed(z) /\ ClosersAreServed(z)
    BY <1>1, <1>5, <2>3 DEF Sound, HeartbeatsAreServed, ClosersAreServed
  <2>6. z.pendingResponse.owner = None
    BY <2>3 DEF NoResponse
  <2>7. ResponseOwnerWaits(z)
    BY <2>6 DEF ResponseOwnerWaits
  <2>8. \A q \in ConnProc \ {p} : z.conn[q] # "response"
    BY <1>1, <2>3 DEF Sound, ConnectsAreServed
  <2>9. IF p = Loop THEN z.loop = "connecting" ELSE LoopConnects(z)
    BY <1>1, <1>2, <1>7, <2>3 DEF LoopConnects
  <2>10. Returning(z, p)
    BY <1>2, <1>7, <2>2, <2>3, <2>4, <2>5, <2>6, <2>7, <2>8, <2>9 DEF Returning
  <2>11. Good(tc')
    BY <1>2, <1>7, <2>1, <2>10, ConnectEndsGood
  <2>12. /\ Only(z, tc', {"conn", "opening", "loop", "closer", "sender"})
         /\ \A q \in ConnProc : tc'.conn[q] = IF q = p THEN "idle" ELSE z.conn[q]
         /\ \A d \in Closers : tc'.closer[d] =
              IF p = Loop /\ z.closer[d] = "reconnecting" THEN "resumed" ELSE z.closer[d]
         /\ tc'.loop = IF p = Loop THEN "none" ELSE z.loop
    <3>1. p \in ConnProc /\ z \in ClientState
      BY <1>2, <1>7, <2>2
    <3>2. \A y : y = ConnectEnds(z, p, TRUE) =>
            /\ Only(z, y, {"conn", "opening", "loop", "closer", "sender"})
            /\ \A q \in ConnProc : y.conn[q] = IF q = p THEN "idle" ELSE z.conn[q]
            /\ \A d \in Closers : y.closer[d] =
                 IF p = Loop /\ z.closer[d] = "reconnecting" THEN "resumed" ELSE z.closer[d]
            /\ y.loop = IF p = Loop THEN "none" ELSE z.loop
      BY <3>1, ConnectReturnsFields
    <3> QED
      BY <2>1, <3>2
  <2>13. Only(tc, tc', {"pendingResponse", "channelId", "heartbeatTimer", "state",
                        "conn", "opening", "loop", "closer", "sender"})
    BY <1>3, <2>2, <2>12 DEF Only
  <2>14. /\ tc'.channelId = ch /\ tc'.heartbeatTimer = t /\ tc'.state = "connected"
         /\ tc'.sock = tc.sock
    BY <2>2, <2>3, <2>12 DEF Only, Fields
  <2>15. Room(tc')
    BY <1>1, <2>14, RoomKept DEF Frees
  <2>16. Beats # {} <=> tc'.heartbeatTimer
    BY <2>14 DEF t
  <2> QED
    BY <1>2, <1>7, <2>3, <2>11, <2>12, <2>13, <2>14, <2>15, <2>16
<1> QED
  BY <1>6, <1>7

\* The loop leaves, or makes another attempt.
LEMMA LoopRetriesGood ==
  ASSUME IInv, LoopRetries
  PROVE  Good(tc') /\ Room(tc')
<1>1. /\ Good(tc) /\ Sound(tc) /\ tc \in ClientState /\ HasFree(tc) /\ tc.loop = "delay"
      /\ tc.conn[Loop] = "idle"
      /\ tc' = IF tc.reconnectAbort THEN LoopEnds(tc)
               ELSE Connect([tc EXCEPT !.loop = "connecting"], Loop)
  BY QuietSettled DEF IInv, Good, Sound, LoopConnects, LoopRetries
<1>2. CASE tc.reconnectAbort
  <2>1. tc' = LoopEnds(tc)
    BY <1>1, <1>2
  <2>2. Good(tc') /\ Only(tc, tc', {"loop", "closer", "sender"})
    BY <1>1, <2>1, LoopEndsGood, LoopEndsFields
  <2>3. Frees(tc, tc')
    BY <2>2 DEF Only, Fields, Frees
  <2> QED
    BY <1>1, <2>2, <2>3, RoomKept
<1>3. CASE ~tc.reconnectAbort
  <2> DEFINE a == [tc EXCEPT !.loop = "connecting"]
  <2>1. /\ Returning(a, Loop) /\ a.conn[Loop] = "idle" /\ a \in ClientState
        /\ Only(tc, a, {"loop"}) /\ a.loop = "connecting"
    BY <1>1, LoopAttempts
  <2>2. tc' = Connect(a, Loop)
    BY <1>1, <1>3
  <2> HIDE DEF a
  <2>3. a.sock = tc.sock
    BY <2>1 DEF Only, Fields
  <2>4. HasFree(a)
    BY <1>1, <2>3 DEF HasFree
  <2>5. Good(tc')
    BY <2>1, <2>2, <2>4, NoneIsNobody, ConnectGood
  <2>6. CASE a.state = "disconnected"
    <3>1. Only(a, tc', {"state", "sock", "conn", "opening"})
      BY <2>1, <2>2, <2>4, <2>6, NoneIsNobody, ConnectFields
    <3>2. tc'.loop = "connecting"
      BY <2>1, <3>1 DEF Only, Fields
    <3> QED
      BY <2>5, <3>2 DEF Room
  <2>7. CASE a.state # "disconnected"
    <3>1. PICK ok \in BOOLEAN : tc' = ConnectEnds(a, Loop, ok)
      BY <2>2, <2>7 DEF Connect
    <3>2. Only(a, tc', {"conn", "opening", "loop", "closer", "sender"})
      BY <2>1, <3>1, NoneIsNobody, ConnectEndsFields
    <3>3. Frees(tc, tc')
      BY <2>3, <3>2 DEF Only, Fields, Frees
    <3> QED
      BY <1>1, <2>5, <3>3, RoomKept
  <2> QED
    BY <2>6, <2>7
<1> QED
  BY <1>2, <1>3

LEMMA CloseDownFrees ==
  ASSUME NEW x, Good(x), NEW d \in Closers, NEW y, y = CloseDown(x, d)
  PROVE  y.loop = x.loop /\ Frees(x, y)
<1>1. /\ Only(x, y, {"state", "transport", "sock", "channelId", "pendingAck",
                     "pendingResponse", "heartbeatTimer", "invalidSeqTimer",
                     "reconnectAbort", "conn", "beat", "closer", "sender"})
      /\ \/ y.sock = x.sock
         \/ \A t \in Sockets : y.sock[t] = IF t = x.transport THEN "free" ELSE x.sock[t]
  BY CloseDownFields
<1> QED
  BY <1>1 DEF Only, Fields, Frees

\* disconnect() begins: it returns, awaits the loop or closes down.
LEMMA DisconnectCallGood ==
  ASSUME IInv, NEW d \in Closers, DisconnectCall(d)
  PROVE  /\ Good(tc') /\ Room(tc')
         /\ tc.state = "disconnected" => tc' = tc
         /\ tc.state # "disconnected" /\ tc.loop # "none" =>
              /\ Only(tc, tc', {"reconnectAbort", "closer"})
              /\ tc'.reconnectAbort
              /\ \A e \in Closers : tc'.closer[e] = IF e = d THEN "reconnecting"
                                                    ELSE tc.closer[e]
         /\ tc.state # "disconnected" /\ tc.loop = "none" =>
              \E x : /\ Good(x) /\ Only(tc, x, {"reconnectAbort"}) /\ x.reconnectAbort
                     /\ tc' = CloseDown(x, d)
<1> DEFINE x == [tc EXCEPT !.reconnectAbort = TRUE]
<1>1. /\ Good(tc) /\ Sound(tc) /\ tc \in ClientState /\ HasFree(tc)
      /\ tc.closer[d] = "idle"
      /\ tc' = CASE tc.state = "disconnected" -> tc
                 [] tc.state # "disconnected" /\ tc.loop # "none" ->
                      [x EXCEPT !.closer[d] = "reconnecting"]
                 [] OTHER -> CloseDown(x, d)
  BY QuietSettled DEF IInv, Good, Sound, DisconnectCall
<1>2. x \in ClientState /\ Only(tc, x, {"reconnectAbort"}) /\ x.reconnectAbort
  BY <1>1 DEF ClientState, Only, Fields
<1> HIDE DEF x
<1>3. Good(x)
  <2>1. Only(tc, x, {"autoReconnect", "overTcp", "state", "channelId", "heartbeatTimer",
                     "invalidSeqTimer", "reconnectAbort"})
    BY <1>2 DEF Only
  <2> QED
    BY <1>1, <1>2, <2>1, PlainFieldsSound
<1>4. x.loop = tc.loop /\ x.closer = tc.closer /\ x.sock = tc.sock
  BY <1>2 DEF Only, Fields
<1>5. CASE tc.state = "disconnected"
  <2>1. tc' = tc
    BY <1>1, <1>5
  <2> QED
    BY <1>1, <1>2, <1>3, <1>5, <2>1 DEF Room
<1>6. CASE tc.state # "disconnected" /\ tc.loop # "none"
  <2>1. tc' = [x EXCEPT !.closer[d] = "reconnecting"]
    BY <1>1, <1>6
  <2>2. [x EXCEPT !.closer[d] = "reconnecting"] \in ClientState
    BY <1>2 DEF ClientState, CloserPc
  <2>3. Only(x, tc', {"closer"})
    BY <1>2, <2>1 DEF ClientState, Only, Fields
  <2>4. \A e \in Closers : tc'.closer[e] = IF e = d THEN "reconnecting" ELSE tc.closer[e]
    BY <1>2, <1>4, <2>1 DEF ClientState
  <2>5. Only(tc, tc', {"reconnectAbort", "closer"})
    BY <1>2, <2>3 DEF Only
  <2>6. /\ Only(x, tc', {"channelId", "state", "reconnectAbort", "closer"})
        /\ tc'.reconnectAbort /\ tc'.loop = tc.loop
    BY <1>2, <1>4, <2>3 DEF Only, Fields
  <2>7. Leaving(x, d)
    BY <1>1, <1>3, <1>4, NotAwaitingLeaves
  <2>8. Good(tc')
    <3>1. tc' \in ClientState /\ \A e \in Closers \ {d} : tc'.closer[e] = x.closer[e]
      BY <1>4, <2>1, <2>2, <2>4
    <3>2. tc'.closer[d] = "reconnecting" /\ x.loop # "none"
      BY <1>4, <1>6, <2>4
    <3> QED
      BY <2>6, <2>7, <3>1, <3>2, LeavingGood
  <2> QED
    BY <1>2, <1>3, <1>6, <2>4, <2>5, <2>6, <2>8 DEF Room
<1>7. CASE tc.state # "disconnected" /\ tc.loop = "none"
  <2>1. tc' = CloseDown(x, d)
    BY <1>1, <1>7
  <2>2. Good(tc') /\ Frees(tc, tc')
    BY <1>3, <1>4, <2>1, CloseDownFields, CloseDownFrees DEF Frees
  <2> QED
    BY <1>1, <1>2, <1>3, <1>7, <2>1, <2>2, RoomKept
<1> QED
  BY <1>5, <1>6, <1>7

LEMMA DisconnectResumesGood ==
  ASSUME IInv, NEW d \in Closers, DisconnectResumes(d)
  PROVE  /\ Good(tc') /\ Room(tc')
         /\ tc.state = "disconnected" =>
              /\ Only(tc, tc', {"closer"})
              /\ \A e \in Closers : tc'.closer[e] = IF e = d THEN "idle" ELSE tc.closer[e]
<1>1. /\ Good(tc) /\ Sound(tc) /\ tc \in ClientState /\ Room(tc) /\ ~Settled(tc)
      /\ tc.closer[d] = "resumed"
      /\ tc' = IF tc.state = "disconnected" THEN [tc EXCEPT !.closer[d] = "idle"]
               ELSE CloseDown(tc, d)
  BY DEF IInv, Good, Sound, Settled, DisconnectResumes
<1>2. CASE tc.state = "disconnected"
  <2>1. tc' = [tc EXCEPT !.closer[d] = "idle"]
    BY <1>1, <1>2
  <2>2. [tc EXCEPT !.closer[d] = "idle"] \in ClientState
    BY <1>1 DEF ClientState, CloserPc
  <2>3. Only(tc, tc', {"closer"})
    BY <1>1, <2>1 DEF ClientState, Only, Fields
  <2>4. \A e \in Closers : tc'.closer[e] = IF e = d THEN "idle" ELSE tc.closer[e]
    BY <1>1, <2>1 DEF ClientState
  <2>5. /\ Only(tc, tc', {"channelId", "state", "reconnectAbort", "closer"})
        /\ tc'.loop = tc.loop /\ tc'.sock = tc.sock
    BY <2>3 DEF Only, Fields
  <2>6. Leaving(tc, d)
    BY <1>1, NotAwaitingLeaves
  <2>7. Good(tc')
    <3>1. tc' \in ClientState /\ \A e \in Closers \ {d} : tc'.closer[e] = tc.closer[e]
      BY <2>1, <2>2, <2>4
    <3> QED
      BY <2>4, <2>5, <2>6, <3>1, LeavingGood
  <2>8. Room(tc')
    BY <1>1, <2>5, RoomContinues DEF Frees
  <2> QED
    BY <2>3, <2>4, <2>7, <2>8
<1>3. CASE tc.state # "disconnected"
  <2>1. tc' = CloseDown(tc, d)
    BY <1>1, <1>3
  <2>2. Good(tc') /\ tc'.loop = tc.loop /\ Frees(tc, tc')
    BY <1>1, <2>1, CloseDownFields, CloseDownFrees
  <2> QED
    BY <1>1, <1>3, <2>2, RoomContinues
<1> QED
  BY <1>2, <1>3

LEMMA DisconnectFinallyFrees ==
  ASSUME NEW x \in ClientState, NEW d \in Closers, NEW y, y = DisconnectFinally(x, d)
  PROVE  y.loop = x.loop /\ Frees(x, y)
<1>1. /\ Only(x, y, {"channelId", "state", "reconnectAbort", "closer", "transport", "sock"})
      /\ \A t \in Sockets : y.sock[t] = IF t = x.transport THEN "free" ELSE x.sock[t]
  BY DisconnectFinallyFields
<1> QED
  BY <1>1 DEF Only, Fields, Frees

LEMMA RxDisconnectResponseGood ==
  ASSUME IInv, RxDisconnectResponse
  PROVE  /\ Good(tc') /\ Room(tc')
         /\ \E x \in ClientState :
              /\ Only(tc, x, {"pendingResponse"})
              /\ \/ tc' = x
                 \/ \E d \in Closers : /\ tc.closer[d] = "response"
                                       /\ tc' = DisconnectFinally(x, d)
<1> USE NoneIsNobody
<1> DEFINE d == tc.pendingResponse.owner
           x == [tc EXCEPT !.pendingResponse = NoResponse]
<1>1. /\ Good(tc) /\ Sound(tc) /\ tc \in ClientState /\ LoopConnects(tc) /\ HasFree(tc)
      /\ tc.pendingResponse.type = "disconnect"
      /\ tc' = IF d = None THEN x ELSE DisconnectFinally(x, d)
  BY QuietSettled DEF IInv, Good, Sound, RxDisconnectResponse
<1>2. d \in Closers \cup {None} /\ (d # None => tc.closer[d] = "response")
  BY <1>1 DEF Sound, OwnerOfItsKind, ResponseOwnerWaits
<1>3. /\ x \in ClientState /\ Only(tc, x, {"pendingResponse"})
      /\ x.pendingResponse = NoResponse
  BY <1>1 DEF ClientState, Only, Fields
<1> HIDE DEF x
<1>4. /\ x.transport = tc.transport /\ x.sock = tc.sock /\ x.opening = tc.opening
      /\ x.pendingAck = tc.pendingAck /\ x.loop = tc.loop /\ x.conn = tc.conn
      /\ x.beat = tc.beat /\ x.closer = tc.closer /\ x.sender = tc.sender
  BY <1>3 DEF Only, Fields
<1>5. d \notin ConnProc /\ d \notin Beats
  BY <1>2, NamesAssumption
<1> HIDE DEF d
<1>6. CASE d = None
  <2>1. tc' = x
    BY <1>1, <1>6
  <2>2. Only(tc, tc', {"pendingResponse", "conn", "beat", "closer"})
    BY <1>3, <2>1 DEF Only
  <2>3. /\ tc' \in ClientState /\ tc'.pendingResponse = NoResponse
        /\ \A q \in ConnProc : tc'.conn[q] = IF q = d THEN "rejected" ELSE tc.conn[q]
        /\ \A h \in Beats : IF h = d THEN tc'.beat[h].pc \in {"idle", "rejected"}
                            ELSE tc'.beat[h].pc = tc.beat[h].pc
        /\ \A e \in Closers : tc'.closer[e] = IF e = d THEN "rejected" ELSE tc.closer[e]
    BY <1>3, <1>4, <1>5, <1>6, <2>1
  <2>4. Good(tc')
    BY <1>1, <2>2, <2>3, SlotEmptied DEF d
  <2>5. Room(tc')
    BY <1>1, <1>4, <2>1, RoomKept DEF Frees
  <2> QED
    BY <1>3, <1>6, <2>1, <2>4, <2>5
<1>7. CASE d # None
  <2>1. tc' = DisconnectFinally(x, d) /\ d \in Closers
    BY <1>1, <1>2, <1>7
  <2>2. x.pendingResponse.owner = None
    BY <1>3 DEF NoResponse
  <2>3. OwnerOfItsKind(x) /\ BindsAreOwned(x) /\ LoopConnects(x) /\ AckOwnerWaits(x)
    BY <1>1, <1>3, <1>4
       DEF Sound, OwnerOfItsKind, NoResponse, BindsAreOwned, LoopConnects, AckOwnerWaits
  <2>4. ConnectsAreServed(x) /\ HeartbeatsAreServed(x) /\ SenderIsServed(x)
    BY <1>1, <1>4, <1>5
       DEF d, Sound, ConnectsAreServed, HeartbeatsAreServed, SenderIsServed
  <2>5. /\ \A e \in Closers \ {d} :
             /\ x.closer[e] = "response" => x.pendingResponse.owner = e
             /\ x.closer[e] = "reconnecting" => x.loop # "none"
        /\ ResponseOwnerWaits(x)
    BY <1>1, <1>4, <2>2 DEF d, Sound, ClosersAreServed, ResponseOwnerWaits
  <2>6. Leaving(x, d)
    BY <1>3, <1>7, <2>2, <2>3, <2>4, <2>5 DEF Leaving
  <2>7. Good(tc')
    BY <2>1, <2>6, DisconnectFinallyGood
  <2>8. Frees(tc, tc')
    BY <1>3, <1>4, <2>1, DisconnectFinallyFrees DEF Frees
  <2>9. Room(tc')
    BY <1>1, <2>8, RoomKept
  <2> QED
    BY <1>2, <1>3, <1>7, <2>1, <2>7, <2>9
<1> QED
  BY <1>6, <1>7

LEMMA DisconnectToleratesGood ==
  ASSUME IInv, NEW d \in Closers, DisconnectTolerates(d)
  PROVE  Good(tc') /\ Room(tc')
<1>1. /\ Good(tc) /\ tc \in ClientState /\ Room(tc) /\ ~Settled(tc)
      /\ tc.closer[d] = "rejected" /\ tc' = DisconnectFinally(tc, d)
  BY DEF IInv, Good, Sound, Settled, DisconnectTolerates
<1>2. Good(tc')
  BY <1>1, NotAwaitingLeaves, DisconnectFinallyGood
<1>3. tc'.loop = tc.loop /\ Frees(tc, tc')
  BY <1>1, DisconnectFinallyFrees
<1> QED
  BY <1>1, <1>2, <1>3, RoomContinues

LEMMA DisconnectClosedGood ==
  ASSUME IInv, NEW d \in Closers, DisconnectClosed(d)
  PROVE  Good(tc') /\ Room(tc')
<1>1. /\ Good(tc) /\ tc \in ClientState /\ HasFree(tc)
      /\ tc.closer[d] = "closing" /\ tc' = DisconnectEnds(tc, d)
  BY QuietSettled DEF IInv, Good, Sound, DisconnectClosed
<1>2. /\ tc' \in ClientState
      /\ Only(tc, tc', {"channelId", "state", "reconnectAbort", "closer"})
      /\ \A e \in Closers : tc'.closer[e] = IF e = d THEN "idle" ELSE tc.closer[e]
  BY <1>1, DisconnectEndsFields
<1>3. Leaving(tc, d)
  BY <1>1, NotAwaitingLeaves
<1>4. Good(tc')
  BY <1>2, <1>3, LeavingGood
<1>5. Frees(tc, tc')
  BY <1>2 DEF Only, Fields, Frees
<1> QED
  BY <1>1, <1>4, <1>5, RoomKept

LEMMA SocketTurns ==
  ASSUME NEW x, Good(x), NEW t \in Sockets, x.sock[t] \in {"open", "dead"},
         NEW v \in {"open", "dead"}, NEW y \in ClientState, Only(x, y, {"sock"}),
         \A u \in Sockets : y.sock[u] = IF u = t THEN v ELSE x.sock[u]
  PROVE  Good(y)
<1>1. x \in ClientState /\ Sound(x)
  BY DEF Good, Sound
<1>2. /\ y.transport = x.transport /\ y.opening = x.opening
      /\ y.pendingAck = x.pendingAck /\ y.pendingResponse = x.pendingResponse
      /\ y.loop = x.loop /\ y.conn = x.conn /\ y.beat = x.beat
      /\ y.closer = x.closer /\ y.sender = x.sender
  BY DEF Only, Fields
<1>3. OwnerOfItsKind(y) /\ LoopConnects(y) /\ ResponseOwnerWaits(y) /\ AckOwnerWaits(y)
  BY <1>1, <1>2
     DEF Good, Sound, OwnerOfItsKind, LoopConnects, ResponseOwnerWaits, AckOwnerWaits
<1>4. /\ ConnectsAreServed(y) /\ HeartbeatsAreServed(y)
      /\ ClosersAreServed(y) /\ SenderIsServed(y)
  BY <1>1, <1>2
     DEF Sound, ConnectsAreServed, HeartbeatsAreServed, ClosersAreServed, SenderIsServed
<1>5. BindsAreOwned(y)
  <2>1. /\ \A p \in ConnProc : x.opening[p] \in Sockets \cup {None}
        /\ x.transport \in Sockets \cup {None}
    BY <1>1 DEF ClientState
  <2> QED
    BY <1>1, <1>2, <2>1 DEF Sound, BindsAreOwned
<1> QED
  BY <1>3, <1>4, <1>5 DEF Good, Sound

\* The network is lost to a UDP socket, or is there again.
LEMMA NetworkTurnsGood ==
  ASSUME IInv, NEW t \in Sockets, NetworkFails(t) \/ NetworkReturns(t)
  PROVE  /\ Good(tc') /\ Room(tc') /\ Only(tc, tc', {"sock"})
         /\ \A u \in Sockets : tc'.sock[u] \in {"open", "dead"}
                               => tc.sock[u] \in {"open", "dead"}
<1>1. /\ Good(tc) /\ tc \in ClientState /\ HasFree(tc) /\ tc.sock[t] \in {"open", "dead"}
      /\ \E w \in {"open", "dead"} : tc' = [tc EXCEPT !.sock[t] = w]
  BY QuietSettled DEF IInv, Good, Sound, NetworkFails, NetworkReturns
<1>2. PICK v \in {"open", "dead"} : tc' = [tc EXCEPT !.sock[t] = v]
  BY <1>1
<1> DEFINE x == [tc EXCEPT !.sock[t] = v]
<1>3. x \in ClientState /\ Only(tc, x, {"sock"})
  BY <1>1 DEF ClientState, Only, Fields
<1>4. \A u \in Sockets : x.sock[u] = IF u = t THEN v ELSE tc.sock[u]
  BY <1>1 DEF ClientState
<1>5. tc' = x
  BY <1>2
<1> HIDE DEF x
<1>6. Good(x)
  BY <1>1, <1>3, <1>4, SocketTurns
<1>7. Frees(tc, x)
  BY <1>1, <1>4 DEF Frees
<1>8. Room(tc')
  BY <1>1, <1>5, <1>7, RoomKept
<1> QED
  BY <1>1, <1>3, <1>4, <1>5, <1>6, <1>8

\* The peer closes: a disconnect() that listens for that goes on.
LEMMA PeerClosesGood ==
  ASSUME IInv, NEW t \in Sockets, PeerCloses(t)
  PROVE  /\ Good(tc') /\ Room(tc')
         /\ \E x \in ClientState :
              /\ Only(tc, x, {"sock", "pendingResponse"})
              /\ \A u \in Sockets : x.sock[u] = IF u = t THEN "dead" ELSE tc.sock[u]
              /\ \/ tc' = x
                 \/ \E d \in Closers : /\ tc.closer[d] = "response"
                                       /\ tc' = DisconnectFinally(x, d)
<1> USE NoneIsNobody
<1> DEFINE r == tc.pendingResponse
           d == r.owner
           x == [tc EXCEPT !.sock[t] = "dead"]
           listens == r.type = "disconnect" /\ r.via = t /\ d # None
           z == [x EXCEPT !.pendingResponse.owner = None]
<1>1. /\ Good(tc) /\ Sound(tc) /\ tc \in ClientState /\ HasFree(tc) /\ tc.sock[t] = "open"
      /\ tc' = IF listens THEN DisconnectFinally(z, d) ELSE x
  BY QuietSettled DEF IInv, Good, Sound, PeerCloses
<1>2. /\ Good(x) /\ Only(tc, x, {"sock"})
      /\ \A u \in Sockets : x.sock[u] = IF u = t THEN "dead" ELSE tc.sock[u]
  <2>1. x \in ClientState /\ Only(tc, x, {"sock"})
    BY <1>1 DEF ClientState, Only, Fields
  <2>2. \A u \in Sockets : x.sock[u] = IF u = t THEN "dead" ELSE tc.sock[u]
    BY <1>1 DEF ClientState
  <2>3. Good(tc) /\ tc.sock[t] = "open"
    BY <1>1
  <2> HIDE DEF x
  <2> QED
    BY <2>1, <2>2, <2>3, SocketTurns
<1>3. Sound(x) /\ x \in ClientState /\ LoopConnects(x)
  BY <1>2 DEF Good, Sound
<1> HIDE DEF x
<1>4. Frees(tc, x)
  BY <1>1, <1>2 DEF Frees
<1>5. x.pendingResponse = r /\ x.closer = tc.closer
  BY <1>2 DEF Only, Fields
<1>6. CASE ~listens
  <2>1. tc' = x
    BY <1>1, <1>6
  <2>2. Room(tc')
    BY <1>1, <1>4, <2>1, RoomKept
  <2>3. Only(tc, x, {"sock", "pendingResponse"})
    BY <1>2 DEF Only
  <2> QED
    BY <1>2, <1>3, <2>1, <2>2, <2>3
<1>7. CASE listens
  <2>1. d \in Closers /\ tc.closer[d] = "response"
    BY <1>1, <1>7 DEF Sound, OwnerOfItsKind, ResponseOwnerWaits
  <2>2. tc' = DisconnectFinally(z, d)
    BY <1>1, <1>7
  <2>3. r \in Response
    BY <1>1, <1>7 DEF ClientState, NoResponse
  <2>4. /\ z \in ClientState /\ Only(x, z, {"pendingResponse"})
        /\ z.pendingResponse.owner = None /\ z.pendingResponse.type = r.type
    <3> DEFINE w == [r EXCEPT !.owner = None]
    <3>1. w \in Response /\ w.owner = None /\ w.type = r.type
      BY <2>3 DEF Response
    <3>2. z = [x EXCEPT !.pendingResponse = w]
      BY <1>3, <1>5 DEF ClientState
    <3> HIDE DEF w
    <3>3. [x EXCEPT !.pendingResponse = w] \in ClientState
      BY <1>3, <3>1 DEF ClientState
    <3>4. Only(x, z, {"pendingResponse"}) /\ z.pendingResponse = w
      BY <1>3, <3>2 DEF ClientState, Only, Fields
    <3> QED
      BY <3>1, <3>2, <3>3, <3>4
  <2> HIDE DEF z
  <2>5. /\ z.transport = x.transport /\ z.sock = x.sock /\ z.opening = x.opening
        /\ z.pendingAck = x.pendingAck /\ z.loop = x.loop /\ z.conn = x.conn
        /\ z.beat = x.beat /\ z.closer = x.closer /\ z.sender = x.sender
    BY <2>4 DEF Only, Fields
  <2>6. x.pendingResponse.owner = d /\ x.pendingResponse.type = "disconnect"
    BY <1>5, <1>7
  <2>7. d \notin ConnProc /\ d \notin Beats
    BY <2>1, NamesAssumption
  <2> HIDE DEF d, r
  <2>8. OwnerOfItsKind(z) /\ BindsAreOwned(z) /\ LoopConnects(z) /\ AckOwnerWaits(z)
    BY <1>3, <2>4, <2>5
       DEF Sound, OwnerOfItsKind, BindsAreOwned, LoopConnects, AckOwnerWaits
  <2>9. ConnectsAreServed(z) /\ HeartbeatsAreServed(z) /\ SenderIsServed(z)
    BY <1>3, <2>5, <2>6, <2>7
       DEF Sound, ConnectsAreServed, HeartbeatsAreServed, SenderIsServed
  <2>10. \A e \in Closers \ {d} :
           /\ z.closer[e] = "response" => z.pendingResponse.owner = e
           /\ z.closer[e] = "reconnecting" => z.loop # "none"
    BY <1>3, <2>5, <2>6 DEF Sound, ClosersAreServed
  <2>11. ResponseOwnerWaits(z)
    BY <2>4 DEF ResponseOwnerWaits
  <2>12. Leaving(z, d)
    BY <2>1, <2>4, <2>8, <2>9, <2>10, <2>11 DEF Leaving
  <2>13. Good(tc')
    BY <2>1, <2>2, <2>12, DisconnectFinallyGood
  <2>14. Frees(tc, tc')
    BY <1>4, <2>1, <2>2, <2>4, <2>5, DisconnectFinallyFrees DEF Frees
  <2>15. Room(tc')
    BY <1>1, <2>14, RoomKept
  <2>16. Only(tc, z, {"sock", "pendingResponse"})
    BY <1>2, <2>4 DEF Only
  <2> QED
    BY <1>2, <2>1, <2>2, <2>4, <2>5, <2>13, <2>15, <2>16
<1> QED
  BY <1>6, <1>7

\* The heartbeat is due.
LEMMA HeartbeatTickGood ==
  ASSUME IInv, NEW h \in Beats, HeartbeatTick(h)
  PROVE  /\ Good(tc') /\ Room(tc')
         /\ Only(tc, tc', {"pendingResponse", "beat"}) /\ tc.heartbeatTimer
<1>1. /\ Good(tc) /\ HasFree(tc) /\ tc.heartbeatTimer /\ tc.beat[h].pc = "idle"
      /\ tc' = HeartbeatAttempt(tc, h, 1)
  BY QuietSettled DEF IInv, HeartbeatTick
<1>2. 1 \in 0..HeartbeatMaxFailures
  BY OptionsAssumption
<1>3. Good(tc') /\ Only(tc, tc', {"pendingResponse", "beat"})
  BY <1>1, <1>2, HeartbeatAttemptGood
<1>4. Frees(tc, tc')
  BY <1>3 DEF Only, Fields, Frees
<1> QED
  BY <1>1, <1>3, <1>4, RoomKept

LEMMA RxConnectionStateResponseGood ==
  ASSUME IInv, NEW ok \in BOOLEAN, RxConnectionStateResponse(ok)
  PROVE  /\ Good(tc') /\ Room(tc')
         /\ Only(tc, tc', {"pendingResponse", "beat"})
         /\ \A g \in Beats : tc.beat[g].pc = "idle" => tc'.beat[g].pc = "idle"
<1> USE NoneIsNobody
<1> DEFINE h == tc.pendingResponse.owner
           x == [tc EXCEPT !.pendingResponse = NoResponse]
<1>1. /\ Good(tc) /\ Sound(tc) /\ tc \in ClientState /\ HasFree(tc)
      /\ tc.pendingResponse.type = "state"
      /\ tc' = CASE h = None       -> x
                 [] h # None /\ ok -> [x EXCEPT !.beat[h] = IdleBeat]
                 [] OTHER          -> [x EXCEPT !.beat[h].pc = "rejected"]
  BY QuietSettled DEF IInv, Good, Sound, RxConnectionStateResponse
<1>2. h \in Beats \cup {None}
  BY <1>1 DEF Sound, OwnerOfItsKind
<1>3. /\ x \in ClientState /\ Only(tc, x, {"pendingResponse"})
      /\ x.pendingResponse = NoResponse
  BY <1>1 DEF ClientState, Only, Fields
<1> HIDE DEF x
<1>4. x.conn = tc.conn /\ x.beat = tc.beat /\ x.closer = tc.closer /\ x.sock = tc.sock
  BY <1>3 DEF Only, Fields
<1>5. h \notin ConnProc /\ h \notin Closers
  BY <1>2, NamesAssumption
<1> HIDE DEF h
<1>6. CASE h = None
  <2>1. tc' = x
    BY <1>1, <1>6
  <2>2. Only(tc, tc', {"pendingResponse", "beat"})
    BY <1>3, <2>1 DEF Only
  <2>3. Only(tc, tc', {"pendingResponse", "conn", "beat", "closer"})
    BY <2>2 DEF Only
  <2>4. /\ tc' \in ClientState /\ tc'.pendingResponse = NoResponse
        /\ \A q \in ConnProc : tc'.conn[q] = IF q = h THEN "rejected" ELSE tc.conn[q]
        /\ \A g \in Beats : IF g = h THEN tc'.beat[g].pc \in {"idle", "rejected"}
                            ELSE tc'.beat[g].pc = tc.beat[g].pc
        /\ \A e \in Closers : tc'.closer[e] = IF e = h THEN "rejected" ELSE tc.closer[e]
    BY <1>3, <1>4, <1>5, <1>6, <2>1
  <2>5. Good(tc')
    <3>1. Good(tc) /\ h = tc.pendingResponse.owner
      BY <1>1 DEF h
    <3> QED
      BY <2>3, <2>4, <3>1, SlotEmptied
  <2>6. Room(tc')
    BY <1>1, <1>4, <2>1, RoomKept DEF Frees
  <2> QED
    BY <1>4, <2>1, <2>2, <2>5, <2>6
<1>7. CASE h # None
  <2> DEFINE v == IF ok THEN IdleBeat ELSE [x.beat[h] EXCEPT !.pc = "rejected"]
  <2>1. h \in Beats /\ x.beat[h] \in BeatState
    BY <1>2, <1>3, <1>7 DEF ClientState, BeatState
  <2>2. tc' = [x EXCEPT !.beat[h] = v]
    BY <1>1, <1>3, <1>7, <2>1 DEF ClientState
  <2>3. v \in BeatState /\ v.pc \in {"idle", "rejected"}
    BY <2>1, OptionsAssumption DEF BeatState, BeatPc, IdleBeat
  <2> HIDE DEF v
  <2>4. [x EXCEPT !.beat[h] = v] \in ClientState
    BY <1>3, <2>3 DEF ClientState, BeatState
  <2>5. Only(x, tc', {"beat"})
    BY <1>3, <2>2 DEF ClientState, Only, Fields
  <2>6. \A g \in Beats : tc'.beat[g] = IF g = h THEN v ELSE tc.beat[g]
    BY <1>3, <1>4, <2>2 DEF ClientState
  <2>7. tc' \in ClientState
    BY <2>2, <2>4
  <2>8. Only(tc, tc', {"pendingResponse", "beat"})
    BY <1>3, <2>5 DEF Only
  <2>9. Only(tc, tc', {"pendingResponse", "conn", "beat", "closer"})
    BY <2>8 DEF Only
  <2>10. /\ tc'.pendingResponse = NoResponse /\ tc'.conn = tc.conn
         /\ tc'.closer = tc.closer /\ tc'.sock = tc.sock
    BY <1>3, <1>4, <2>5 DEF Only, Fields
  <2>11. /\ \A q \in ConnProc : tc'.conn[q] = IF q = h THEN "rejected" ELSE tc.conn[q]
         /\ \A g \in Beats : IF g = h THEN tc'.beat[g].pc \in {"idle", "rejected"}
                             ELSE tc'.beat[g].pc = tc.beat[g].pc
         /\ \A e \in Closers : tc'.closer[e] = IF e = h THEN "rejected" ELSE tc.closer[e]
    BY <1>5, <2>3, <2>6, <2>10
  <2>12. Good(tc')
    <3>1. Good(tc) /\ h = tc.pendingResponse.owner
      BY <1>1 DEF h
    <3> QED
      BY <2>7, <2>9, <2>10, <2>11, <3>1, SlotEmptied
  <2>13. Room(tc')
    BY <1>1, <2>10, RoomKept DEF Frees
  <2>14. tc.beat[h].pc = "response"
    BY <1>1, <2>1 DEF Sound, ResponseOwnerWaits, h
  <2> QED
    BY <2>6, <2>8, <2>12, <2>13, <2>14
<1> QED
  BY <1>6, <1>7

\* The tunnel is lost by a function whose turn it is, or by a callback.
LEMMA OnTunnelLostRoom ==
  ASSUME NEW x, Good(x), NEW y, y = OnTunnelLost(x),
         x.loop = "none" => HasFree(x)
  PROVE  Good(y) /\ Room(y)
<1> DEFINE z == OnTunnelLost(x)
<1>1. Good(z) /\ (z.loop = x.loop \/ z.loop # "none") /\ (z.loop = "none" => Frees(x, z))
  BY OnTunnelLostGood
<1> HIDE DEF z
<1>2. y = z
  BY DEF z
<1> QED
  BY <1>1, <1>2 DEF HasFree, Frees, Room

\* A run of the heartbeat that does not await an answer goes on to such a point.
LEMMA BeatMoves ==
  ASSUME NEW x, Good(x), NEW h \in Beats, x.beat[h].pc # "response",
         NEW v \in BeatState, v.pc # "response", NEW y \in ClientState,
         Only(x, y, {"beat"}), \A g \in Beats : y.beat[g] = IF g = h THEN v ELSE x.beat[g]
  PROVE  Good(y)
<1>1. Sound(x)
  BY DEF Good
<1>2. /\ y.transport = x.transport /\ y.sock = x.sock /\ y.opening = x.opening
      /\ y.pendingAck = x.pendingAck /\ y.pendingResponse = x.pendingResponse
      /\ y.loop = x.loop /\ y.conn = x.conn /\ y.closer = x.closer /\ y.sender = x.sender
  BY DEF Only, Fields
<1>3. OwnerOfItsKind(y) /\ BindsAreOwned(y) /\ LoopConnects(y) /\ AckOwnerWaits(y)
  BY <1>1, <1>2 DEF Good, Sound, OwnerOfItsKind, BindsAreOwned, LoopConnects, AckOwnerWaits
<1>4. ConnectsAreServed(y) /\ ClosersAreServed(y) /\ SenderIsServed(y)
  BY <1>1, <1>2 DEF Sound, ConnectsAreServed, ClosersAreServed, SenderIsServed
<1>5. HeartbeatsAreServed(y) /\ ResponseOwnerWaits(y)
  BY <1>1, <1>2 DEF Sound, HeartbeatsAreServed, ResponseOwnerWaits
<1> QED
  BY <1>3, <1>4, <1>5 DEF Good, Sound

LEMMA HeartbeatBusyGood ==
  ASSUME IInv, NEW h \in Beats, HeartbeatBusy(h)
  PROVE  /\ Good(tc') /\ Room(tc')
         /\ Only(tc, tc', {"beat"}) /\ tc.beat[h].pc = "busy"
         /\ \A g \in Beats \ {h} : tc'.beat[g] = tc.beat[g]
<1> DEFINE v == [tc.beat[h] EXCEPT !.pc = "rejected"]
<1>1. /\ Good(tc) /\ tc \in ClientState /\ HasFree(tc) /\ tc.beat[h].pc = "busy"
      /\ tc' = [tc EXCEPT !.beat[h] = v]
  BY QuietSettled DEF IInv, Good, Sound, HeartbeatBusy, ClientState
<1>2. v \in BeatState /\ v.pc = "rejected"
  BY <1>1 DEF ClientState, BeatState, BeatPc
<1> HIDE DEF v
<1>3. /\ Good(tc') /\ Only(tc, tc', {"beat"})
      /\ \A g \in Beats : tc'.beat[g] = IF g = h THEN v ELSE tc.beat[g]
  <2>1. /\ tc' \in ClientState /\ Only(tc, tc', {"beat"})
        /\ \A g \in Beats : tc'.beat[g] = IF g = h THEN v ELSE tc.beat[g]
    <3>1. [tc EXCEPT !.beat[h] = v] \in ClientState
      BY <1>1, <1>2 DEF ClientState, BeatState
    <3>2. Only(tc, tc', {"beat"})
      BY <1>1 DEF ClientState, Only, Fields
    <3>3. \A g \in Beats : tc'.beat[g] = IF g = h THEN v ELSE tc.beat[g]
      BY <1>1 DEF ClientState
    <3> QED
      BY <1>1, <3>1, <3>2, <3>3
  <2>2. Good(tc) /\ tc.beat[h].pc # "response" /\ v.pc # "response"
    BY <1>1, <1>2
  <2> QED
    BY <1>2, <2>1, <2>2, BeatMoves
<1>4. Frees(tc, tc')
  BY <1>3 DEF Only, Fields, Frees
<1> QED
  BY <1>1, <1>3, <1>4, RoomKept

\* An attempt of the heartbeat has failed: another one, or the tunnel is lost.
LEMMA HeartbeatGoesOnGood ==
  ASSUME IInv, NEW h \in Beats, HeartbeatGoesOn(h)
  PROVE  /\ Good(tc') /\ Room(tc') /\ tc.beat[h].pc = "rejected"
         /\ \/ Only(tc, tc', {"pendingResponse", "beat"})
            \/ \E x : /\ Good(x) /\ Only(tc, x, {"beat"})
                      /\ x.loop = "none" => HasFree(x)
                      /\ tc' = OnTunnelLost(x)
<1> DEFINE n == tc.beat[h].n
           x == [tc EXCEPT !.beat[h] = IdleBeat]
<1>1. /\ Good(tc) /\ tc \in ClientState /\ Room(tc) /\ ~Settled(tc)
      /\ tc.beat[h].pc = "rejected"
      /\ tc' = IF n < HeartbeatMaxFailures THEN HeartbeatAttempt(tc, h, n + 1)
               ELSE OnTunnelLost(x)
  BY DEF IInv, Good, Sound, Settled, HeartbeatGoesOn
<1>2. n \in 0..HeartbeatMaxFailures
  BY <1>1 DEF ClientState
<1> HIDE DEF n
<1>3. CASE n < HeartbeatMaxFailures
  <2>1. n + 1 \in 0..HeartbeatMaxFailures
    BY <1>2, <1>3, OptionsAssumption
  <2>2. tc' = HeartbeatAttempt(tc, h, n + 1)
    BY <1>1, <1>3
  <2>3. Good(tc') /\ Only(tc, tc', {"pendingResponse", "beat"})
    BY <1>1, <2>1, <2>2, HeartbeatAttemptGood
  <2>4. tc'.loop = tc.loop /\ Frees(tc, tc')
    BY <2>3 DEF Only, Fields, Frees
  <2>5. Room(tc')
    BY <1>1, <2>4, RoomContinues
  <2> QED
    BY <1>1, <2>3, <2>5
<1>4. CASE ~(n < HeartbeatMaxFailures)
  <2>1. tc' = OnTunnelLost(x)
    BY <1>1, <1>4
  <2>2. IdleBeat \in BeatState /\ IdleBeat.pc = "idle"
    BY OptionsAssumption DEF IdleBeat, BeatState, BeatPc
  <2>3. Good(x) /\ Only(tc, x, {"beat"})
    <3>1. x \in ClientState
      BY <1>1, <2>2 DEF ClientState, BeatState
    <3>2. Only(tc, x, {"beat"})
      BY <1>1 DEF ClientState, Only, Fields
    <3>3. \A g \in Beats : x.beat[g] = IF g = h THEN IdleBeat ELSE tc.beat[g]
      BY <1>1 DEF ClientState
    <3>4. Good(tc) /\ tc.beat[h].pc # "response" /\ IdleBeat.pc # "response"
      BY <1>1, <2>2
    <3> HIDE DEF x
    <3> QED
      BY <2>2, <3>1, <3>2, <3>3, <3>4, BeatMoves
  <2> HIDE DEF x
  <2>4. x.loop = "none" => HasFree(x)
    BY <1>1, <2>3 DEF Only, Fields, Room, HasFree
  <2>5. Good(tc') /\ Room(tc')
    BY <2>1, <2>3, <2>4, OnTunnelLostRoom
  <2> QED
    BY <1>1, <2>1, <2>3, <2>4, <2>5
<1> QED
  BY <1>3, <1>4

\* The sender's wait is over, and the slot is not the sender's.
LEMMA AckSettled ==
  ASSUME NEW x, Good(x), NEW y \in ClientState, Only(x, y, {"pendingAck", "sender"}),
         y.pendingAck # "sender", y.sender.pc # "ack",
         y.sender.pc = "reconnecting" => x.loop # "none"
  PROVE  Good(y)
<1>1. Sound(x)
  BY DEF Good
<1>2. /\ y.transport = x.transport /\ y.sock = x.sock /\ y.opening = x.opening
      /\ y.pendingResponse = x.pendingResponse /\ y.loop = x.loop /\ y.conn = x.conn
      /\ y.beat = x.beat /\ y.closer = x.closer
  BY DEF Only, Fields
<1>3. OwnerOfItsKind(y) /\ BindsAreOwned(y) /\ LoopConnects(y) /\ ResponseOwnerWaits(y)
  BY <1>1, <1>2 DEF Good, Sound, OwnerOfItsKind, BindsAreOwned, LoopConnects,
                    ResponseOwnerWaits
<1>4. ConnectsAreServed(y) /\ HeartbeatsAreServed(y) /\ ClosersAreServed(y)
  BY <1>1, <1>2 DEF Sound, ConnectsAreServed, HeartbeatsAreServed, ClosersAreServed
<1>5. SenderIsServed(y) /\ AckOwnerWaits(y)
  BY <1>2 DEF SenderIsServed, AckOwnerWaits
<1> QED
  BY <1>3, <1>4, <1>5 DEF Good, Sound

LEMMA RejectAckGood ==
  ASSUME NEW x, Good(x), NEW y, y = RejectPendingAck(x)
  PROVE  /\ Good(y) /\ Only(x, y, {"pendingAck", "sender"})
         /\ y.sender.pc = IF x.pendingAck = "sender" THEN "rejected" ELSE x.sender.pc
<1>1. x \in ClientState /\ Sound(x)
  BY DEF Good, Sound
<1>2. /\ Only(x, y, {"pendingAck", "sender"}) /\ Sound(y)
      /\ y.sender.pc = IF x.pendingAck = "sender" THEN "rejected" ELSE x.sender.pc
  BY <1>1, RejectAckFields, RejectAckSound
<1>3. y.loop = x.loop /\ y.conn = x.conn
  BY <1>2 DEF Only, Fields
<1> QED
  BY <1>2, <1>3 DEF Good, LoopConnects

\* Whatever the sender does in a callback of its own.
LEMMA SenderCallbacksGood ==
  ASSUME IInv, SendCemi \/ SendBusy \/ AckTimeout \/ \E ok \in BOOLEAN : RxTunnellingAck(ok)
  PROVE  /\ Good(tc') /\ Room(tc')
         /\ Only(tc, tc', {"pendingAck", "sender"})
         /\ tc.sender.pc = "idle" =>
              tc'.sender.pc = "idle" \/ tc.state = "connected" \/ tc.loop # "none"
<1>1. /\ Good(tc) /\ Sound(tc) /\ tc \in ClientState /\ HasFree(tc)
  BY QuietSettled DEF IInv, Good, Sound, SendCemi, SendBusy, AckTimeout, RxTunnellingAck
<1>2. SUFFICES /\ Good(tc') /\ Only(tc, tc', {"pendingAck", "sender"})
               /\ tc.sender.pc = "idle" =>
                    tc'.sender.pc = "idle" \/ tc.state = "connected" \/ tc.loop # "none"
  <2>1. Only(tc, tc', {"pendingAck", "sender"}) => Frees(tc, tc')
    BY DEF Only, Fields, Frees
  <2> QED
    BY <1>1, <2>1, RoomKept
<1>3. CASE SendCemi
  <2>1. CASE tc.loop = "none"
    BY <1>1, <1>3, <2>1, SendBeginsGood DEF SendCemi
  <2>2. CASE tc.loop # "none"
    <3> DEFINE s == [pc |-> "reconnecting", attempt |-> 0]
    <3>1. s \in SenderState /\ s.pc = "reconnecting"
      BY DEF SenderState, SenderPc
    <3>2. tc' = [tc EXCEPT !.sender = s] /\ tc.sender.pc = "idle"
      BY <1>3, <2>2 DEF SendCemi
    <3> HIDE DEF s
    <3>3. Good(tc') /\ Only(tc, tc', {"sender"})
      BY <1>1, <2>2, <3>1, <3>2, SenderMoves
    <3>4. Only(tc, tc', {"pendingAck", "sender"})
      BY <3>3 DEF Only
    <3> QED
      BY <2>2, <3>3, <3>4
  <2> QED
    BY <2>1, <2>2
<1>4. CASE SendBusy
  <2> DEFINE s == [tc.sender EXCEPT !.pc = "rejected"]
  <2>1. tc.sender \in SenderState /\ tc.sender.pc = "busy"
    BY <1>1, <1>4 DEF ClientState, SenderState, SendBusy
  <2>2. s \in SenderState /\ s.pc = "rejected"
    BY <2>1 DEF SenderState, SenderPc
  <2>3. tc' = [tc EXCEPT !.sender = s]
    BY <1>1, <1>4 DEF SendBusy, ClientState
  <2> HIDE DEF s
  <2>4. Good(tc') /\ Only(tc, tc', {"sender"})
    BY <1>1, <2>1, <2>2, <2>3, SenderMoves
  <2>5. Only(tc, tc', {"pendingAck", "sender"})
    BY <2>4 DEF Only
  <2> QED
    BY <2>1, <2>4, <2>5
<1>5. ASSUME tc' = RejectPendingAck(tc)
      PROVE  /\ Good(tc') /\ Only(tc, tc', {"pendingAck", "sender"})
             /\ tc.sender.pc = "idle" => tc'.sender.pc = "idle"
  <2>1. /\ Good(tc') /\ Only(tc, tc', {"pendingAck", "sender"})
        /\ tc'.sender.pc = IF tc.pendingAck = "sender" THEN "rejected" ELSE tc.sender.pc
    BY <1>1, <1>5, RejectAckGood
  <2> QED
    BY <1>1, <2>1 DEF Sound, AckOwnerWaits
<1>6. CASE AckTimeout
  BY <1>5, <1>6 DEF AckTimeout
<1>7. CASE \E ok \in BOOLEAN : RxTunnellingAck(ok)
  <2>1. \/ tc' = RejectPendingAck(tc)
        \/ tc' = [tc EXCEPT !.pendingAck = "none", !.sender = IdleSender]
    BY <1>7 DEF RxTunnellingAck
  <2>2. CASE tc' = RejectPendingAck(tc)
    BY <1>5, <2>2
  <2>3. CASE tc' = [tc EXCEPT !.pendingAck = "none", !.sender = IdleSender]
    <3>1. [tc EXCEPT !.pendingAck = "none", !.sender = IdleSender] \in ClientState
      BY <1>1, IdleSenderType DEF ClientState, SenderState
    <3>2. /\ Only(tc, tc', {"pendingAck", "sender"}) /\ tc'.pendingAck = "none"
          /\ tc'.sender = IdleSender
      BY <1>1, <2>3 DEF ClientState, Only, Fields
    <3>3. tc' \in ClientState /\ tc'.sender.pc = "idle"
      BY <2>3, <3>1, <3>2, IdleSenderType
    <3>4. Good(tc')
      BY <1>1, <3>2, <3>3, AckSettled
    <3> QED
      BY <3>2, <3>3, <3>4
  <2> QED
    BY <2>1, <2>2, <2>3
<1> QED
  BY <1>3, <1>4, <1>6, <1>7

\* An attempt to send has failed.
LEMMA SendGoesOnGood ==
  ASSUME IInv, SendGoesOn
  PROVE  /\ Good(tc') /\ Room(tc') /\ tc.sender.pc = "rejected"
         /\ \/ Only(tc, tc', {"pendingAck", "sender"})
            \/ \E x : /\ Good(x) /\ Only(tc, x, {"sender"}) /\ x.sender.pc = "idle"
                      /\ x.loop = "none" => HasFree(x)
                      /\ Only(OnTunnelLost(x), tc', {"pendingAck", "sender"})
<1>1. /\ Good(tc) /\ tc \in ClientState /\ Room(tc) /\ ~Settled(tc)
      /\ tc.sender.pc = "rejected"
      /\ tc' = CASE tc.sender.attempt = 1 -> TunnellingRequestOnce(tc, 2)
                 [] tc.sender.attempt = 2 -> SendGivesUp(tc)
                 [] OTHER -> [tc EXCEPT !.sender = IdleSender]
  BY DEF IInv, Good, Sound, Settled, SendGoesOn
<1>2. ASSUME Good(tc'), Only(tc, tc', {"pendingAck", "sender"})
      PROVE  Good(tc') /\ Room(tc')
  <2>1. tc'.loop = tc.loop /\ Frees(tc, tc')
    BY <1>2 DEF Only, Fields, Frees
  <2> QED
    BY <1>1, <1>2, <2>1, RoomContinues
<1>3. CASE tc.sender.attempt = 1
  <2>1. tc' = TunnellingRequestOnce(tc, 2)
    BY <1>1, <1>3
  <2>2. Good(tc') /\ Only(tc, tc', {"pendingAck", "sender"})
    BY <1>1, <2>1, TunnellingRequestGood
  <2> QED
    BY <1>1, <1>2, <2>2
<1>4. CASE tc.sender.attempt \notin {1, 2}
  <2>1. tc' = [tc EXCEPT !.sender = IdleSender]
    BY <1>1, <1>4
  <2>2. Good(tc') /\ Only(tc, tc', {"sender"})
    BY <1>1, <2>1, IdleSenderType, SenderMoves
  <2>3. Only(tc, tc', {"pendingAck", "sender"})
    BY <2>2 DEF Only
  <2> QED
    BY <1>1, <1>2, <2>2, <2>3
<1>5. CASE tc.sender.attempt = 2
  <2> DEFINE x == [tc EXCEPT !.sender = IdleSender]
  <2>1. tc' = SendGivesUp(tc)
    BY <1>1, <1>5
  <2>2. tc.loop = "none" => HasFree(tc)
    BY <1>1 DEF Room
  <2>3. /\ Good(x) /\ Only(tc, x, {"sender"})
        /\ Good(tc') /\ Only(OnTunnelLost(x), tc', {"pendingAck", "sender"})
    BY <1>1, <2>1, <2>2, SendGivesUpGood
  <2>4. x.sender.pc = "idle"
    BY <1>1, IdleSenderType DEF ClientState
  <2> HIDE DEF x
  <2>5. x.loop = "none" => HasFree(x)
    BY <2>2, <2>3 DEF Only, Fields, HasFree
  <2>6. Room(tc')
    <3> DEFINE z == OnTunnelLost(x)
    <3>1. Good(z) /\ Room(z)
      BY <2>3, <2>5, OnTunnelLostRoom
    <3>2. z.loop = "none" => HasFree(z)
      <4>1. /\ z.loop = x.loop \/ z.loop # "none"
            /\ z.loop = "none" => Frees(x, z)
        BY <2>3, <2>5, OnTunnelLostGood
      <4> HIDE DEF z
      <4> QED
        BY <2>5, <4>1 DEF HasFree, Frees
    <3>3. Only(z, tc', {"pendingAck", "sender"})
      BY <2>3
    <3> HIDE DEF z
    <3> QED
      BY <3>2, <3>3 DEF Only, Fields, HasFree, Room
  <2> QED
    BY <1>1, <2>3, <2>4, <2>5, <2>6
<1> QED
  BY <1>3, <1>4, <1>5

LEMMA SendResumesGood ==
  ASSUME IInv, SendResumes
  PROVE  /\ Good(tc') /\ Room(tc') /\ tc.sender.pc = "resumed"
         /\ Only(tc, tc', {"pendingAck", "sender"})
<1>1. /\ Good(tc) /\ Room(tc) /\ ~Settled(tc) /\ tc.sender.pc = "resumed"
      /\ tc' = IF tc.sender.attempt = 0 THEN SendBegins(tc)
               ELSE TunnellingRequestOnce(tc, 3)
  BY DEF IInv, Settled, SendResumes
<1>2. Good(tc') /\ Only(tc, tc', {"pendingAck", "sender"})
  BY <1>1, SendBeginsGood, TunnellingRequestGood
<1>3. tc'.loop = tc.loop /\ Frees(tc, tc')
  BY <1>2 DEF Only, Fields, Frees
<1> QED
  BY <1>1, <1>2, <1>3, RoomContinues

\* A request arrives in order or out of order.
LEMMA RxTunnellingRequestGood ==
  ASSUME IInv, NEW inOrder \in BOOLEAN, RxTunnellingRequest(inOrder)
  PROVE  /\ Good(tc') /\ Room(tc')
         /\ Only(tc, tc', {"invalidSeqTimer"})
         /\ tc'.invalidSeqTimer => tc.invalidSeqTimer \/ tc.state = "connected" \/ StrayRequests
<1>1. /\ Good(tc) /\ Sound(tc) /\ tc \in ClientState /\ HasFree(tc)
      /\ tc.state = "connected" \/ StrayRequests
      /\ \/ tc' = [tc EXCEPT !.invalidSeqTimer = FALSE]
         \/ tc' = [tc EXCEPT !.invalidSeqTimer = TRUE]
         \/ tc' = tc
  BY QuietSettled DEF IInv, Good, Sound, RxTunnellingRequest
<1>2. tc' \in ClientState /\ Only(tc, tc', {"invalidSeqTimer"})
  BY <1>1 DEF ClientState, Only, Fields
<1>3. Only(tc, tc', {"autoReconnect", "overTcp", "state", "channelId", "heartbeatTimer",
                     "invalidSeqTimer", "reconnectAbort"})
  BY <1>2 DEF Only
<1>4. Good(tc')
  BY <1>1, <1>2, <1>3, PlainFieldsSound
<1>5. Frees(tc, tc')
  BY <1>2 DEF Only, Fields, Frees
<1> QED
  BY <1>1, <1>2, <1>4, <1>5, RoomKept

\* A DISCONNECT_REQUEST, or the timer of the out-of-order request: the tunnel is
\* lost.
LEMMA LossGood ==
  ASSUME IInv, RxDisconnectRequest \/ InvalidSeqTimeout
  PROVE  /\ Good(tc') /\ Room(tc')
         /\ \E x : /\ Good(x) /\ Only(tc, x, {"channelId", "invalidSeqTimer"})
                   /\ x.loop = "none" => HasFree(x)
                   /\ x.invalidSeqTimer => tc.invalidSeqTimer
                   /\ x.channelId # None => tc.channelId # None
                   /\ tc' = OnTunnelLost(x)
<1>1. /\ Good(tc) /\ Sound(tc) /\ tc \in ClientState /\ HasFree(tc)
  BY QuietSettled DEF IInv, Good, Sound, RxDisconnectRequest, InvalidSeqTimeout
<1>2. PICK x : /\ \/ x = [tc EXCEPT !.channelId = None]
                  \/ x = [tc EXCEPT !.invalidSeqTimer = FALSE]
               /\ tc' = OnTunnelLost(x)
  BY DEF RxDisconnectRequest, InvalidSeqTimeout
<1>3. /\ x \in ClientState /\ Only(tc, x, {"channelId", "invalidSeqTimer"})
      /\ x.invalidSeqTimer => tc.invalidSeqTimer
      /\ x.channelId # None => tc.channelId # None
  BY <1>1, <1>2 DEF ClientState, Only, Fields
<1>4. Only(tc, x, {"autoReconnect", "overTcp", "state", "channelId", "heartbeatTimer",
                   "invalidSeqTimer", "reconnectAbort"})
  BY <1>3 DEF Only
<1>5. Good(x)
  BY <1>1, <1>3, <1>4, PlainFieldsSound
<1>6. HasFree(x)
  BY <1>1, <1>3 DEF Only, Fields, HasFree
<1>7. tc' = OnTunnelLost(x)
  BY <1>2
<1>8. Good(tc') /\ Room(tc')
  BY <1>5, <1>6, <1>7, OnTunnelLostRoom
<1> QED
  BY <1>3, <1>5, <1>6, <1>7, <1>8

\* The response is late: who awaits it is rejected.
LEMMA ResponseTimeoutGood ==
  ASSUME IInv, ResponseTimeout
  PROVE  Good(tc') /\ Room(tc')
<1>1. /\ Good(tc) /\ Sound(tc) /\ LoopConnects(tc) /\ tc \in ClientState /\ HasFree(tc)
      /\ tc' = RejectPendingResponse(tc)
  BY QuietSettled DEF IInv, Good, Sound, ResponseTimeout
<1>2. /\ Sound(tc') /\ Only(tc, tc', {"pendingResponse", "conn", "beat", "closer"})
      /\ \A p \in ConnProc : tc'.conn[p] = IF p = tc.pendingResponse.owner THEN "rejected"
                                           ELSE tc.conn[p]
  BY <1>1, RejectResponseSound, RejectResponseFields
<1>3. tc'.loop = tc.loop /\ Frees(tc, tc')
  BY <1>2 DEF Only, Fields, Frees
<1>4. LoopConnects(tc')
  BY <1>1, <1>2, <1>3, NoneIsNobody DEF LoopConnects, Sound, ResponseOwnerWaits
<1> QED
  BY <1>1, <1>2, <1>3, <1>4, RoomKept DEF Good

-----------------------------------------------------------------------------
(* A client that is used in any way and order.                              *)

LEMMA InitIInv == Init => IInv
<1> SUFFICES ASSUME Init PROVE IInv
  OBVIOUS
<1> USE NoneIsNobody
<1>1. /\ tc \in ClientState
      /\ \A p \in ConnProc : tc.conn[p] = "idle" /\ tc.opening[p] = None
      /\ \A h \in Beats : tc.beat[h].pc = "idle"
      /\ \A d \in Closers : tc.closer[d] = "idle"
      /\ \A t \in Sockets : tc.sock[t] = "free"
      /\ tc.sender.pc = "idle" /\ tc.loop = "none" /\ tc.transport = None
      /\ tc.pendingResponse = NoResponse /\ tc.pendingAck = "none"
  <2>1. PICK auto \in AutoReconnect, tcp \in OverTcp :
          tc = [autoReconnect   |-> auto,
                overTcp         |-> tcp,
                state           |-> "disconnected",
                transport       |-> None,
                sock            |-> [t \in Sockets |-> "free"],
                opening         |-> [p \in ConnProc |-> None],
                channelId       |-> None,
                pendingAck      |-> "none",
                pendingResponse |-> NoResponse,
                heartbeatTimer  |-> FALSE,
                invalidSeqTimer |-> FALSE,
                reconnectAbort  |-> FALSE,
                loop            |-> "none",
                conn            |-> [p \in ConnProc |-> "idle"],
                beat            |-> [h \in Beats |-> IdleBeat],
                closer          |-> [d \in Closers |-> "idle"],
                sender          |-> IdleSender]
    BY DEF Init
  <2>2. [h \in Beats |-> IdleBeat] \in [Beats -> [pc : BeatPc, n : 0..HeartbeatMaxFailures]]
    BY OptionsAssumption DEF IdleBeat, BeatPc
  <2>3. IdleSender \in [pc : SenderPc, attempt : 0..3] /\ IdleSender.pc = "idle"
    BY DEF IdleSender, SenderPc
  <2>4. tc \in ClientState
    BY <2>1, <2>2, <2>3 DEF ClientState, TunnelState, ConnPc, CloserPc
  <2>5. \A h \in Beats : tc.beat[h].pc = "idle"
    BY <2>1 DEF IdleBeat
  <2> QED
    BY <2>1, <2>3, <2>4, <2>5
<1>2. OwnerOfItsKind(tc) /\ BindsAreOwned(tc) /\ LoopConnects(tc) /\ AckOwnerWaits(tc)
  BY <1>1 DEF OwnerOfItsKind, NoResponse, BindsAreOwned, LoopConnects, AckOwnerWaits
<1>3. /\ ConnectsAreServed(tc) /\ HeartbeatsAreServed(tc)
      /\ ClosersAreServed(tc) /\ SenderIsServed(tc)
  BY <1>1 DEF ConnectsAreServed, HeartbeatsAreServed, ClosersAreServed, SenderIsServed
<1>4. ResponseOwnerWaits(tc)
  BY <1>1 DEF ResponseOwnerWaits, NoResponse
<1>5. Room(tc)
  BY <1>1 DEF Room, Settled
<1>6. user \in [wants : {"up", "down"}, habit : Habits]
  BY DEF Init
<1> QED
  BY <1>1, <1>2, <1>3, <1>4, <1>5, <1>6 DEF IInv, Good, Sound

\* Every step of the client is one of its actions, and the user's part changes
\* with connect() and disconnect() only.
LEMMA StepGood ==
  ASSUME IInv, Next
  PROVE  Good(tc') /\ Room(tc')
<1>1. CASE OwnerCall
  BY <1>1, ConnectCallGood, DisconnectCallGood, SenderCallbacksGood DEF OwnerCall
<1>2. CASE FrameReceived
  <2>1. ASSUME NEW ok \in BOOLEAN, NEW ch \in Channels, RxConnectResponse(ok, ch)
        PROVE  Good(tc') /\ Room(tc')
    BY <2>1, RxConnectResponseGood
  <2> QED
    BY <1>2, <2>1, RxConnectionStateResponseGood, SenderCallbacksGood,
       RxTunnellingRequestGood, RxDisconnectResponseGood, LossGood DEF FrameReceived
<1>3. CASE SocketEvent
  <2>1. ASSUME NEW p \in ConnProc, BindSucceeds(p) \/ BindCutOff(p)
        PROVE  Good(tc') /\ Room(tc')
    BY <2>1, BindEndsGood DEF BindSucceeds, BindCutOff
  <2> QED
    BY <1>3, <2>1, BindFailsGood, ConnectBusyGood, ConnectClosedGood,
       DisconnectClosedGood, HeartbeatBusyGood, SenderCallbacksGood, PeerClosesGood,
       NetworkTurnsGood DEF SocketEvent
<1>4. CASE TimerFires
  BY <1>4, ResponseTimeoutGood, SenderCallbacksGood, LossGood, LoopRetriesGood,
     HeartbeatTickGood DEF TimerFires
<1>5. CASE Continuation
  BY <1>5, ConnectThrowsGood, DisconnectResumesGood, DisconnectToleratesGood,
     HeartbeatGoesOnGood, SendGoesOnGood, SendResumesGood DEF Continuation
<1> QED
  BY <1>1, <1>2, <1>3, <1>4, <1>5 DEF Next

\* connect() and disconnect() are what the owner does; everything else leaves
\* what it wants.
UserStep ==
  \/ user' = user
  \/ \E p \in Callers : ConnectCall(p) /\ user' = [user EXCEPT !.wants = "up"]
  \/ \E d \in Closers : DisconnectCall(d) /\ user' = [user EXCEPT !.wants = "down"]

LEMMA StepUser ==
  ASSUME Next
  PROVE  UserStep
<1>1. CASE OwnerCall
  BY <1>1 DEF OwnerCall, ConnectCall, DisconnectCall, SendCemi, UserStep
<1>2. CASE FrameReceived
  BY <1>2 DEF FrameReceived, RxConnectResponse, RxConnectionStateResponse,
              RxTunnellingAck, RxTunnellingRequest, RxDisconnectResponse,
              RxDisconnectRequest, UserStep
<1>3. CASE SocketEvent
  BY <1>3 DEF SocketEvent, BindSucceeds, BindCutOff, BindEnds, BindFails, ConnectBusy,
              ConnectClosed, DisconnectClosed, HeartbeatBusy, SendBusy, PeerCloses,
              NetworkFails, NetworkReturns, UserStep
<1>4. CASE TimerFires
  BY <1>4 DEF TimerFires, ResponseTimeout, AckTimeout, InvalidSeqTimeout, LoopRetries,
              HeartbeatTick, UserStep
<1>5. CASE Continuation
  BY <1>5 DEF Continuation, ConnectThrows, DisconnectResumes, DisconnectTolerates,
              HeartbeatGoesOn, SendGoesOn, SendResumes, UserStep
<1> QED
  BY <1>1, <1>2, <1>3, <1>4, <1>5 DEF Next

LEMMA NextIInv == IInv /\ [Next]_vars => IInv'
<1> SUFFICES ASSUME IInv, [Next]_vars PROVE IInv'
  OBVIOUS
<1>1. CASE Next
  <2>1. Good(tc') /\ Room(tc')
    BY <1>1, StepGood
  <2>2. user' \in [wants : {"up", "down"}, habit : Habits]
    BY <1>1, StepUser DEF UserStep, IInv
  <2> QED
    BY <2>1, <2>2 DEF IInv
<1>2. CASE UNCHANGED vars
  BY <1>2 DEF vars, IInv
<1> QED
  BY <1>1, <1>2

\* Good and Room hold in every state the client can reach, in whatever way and
\* order connect(), disconnect() and sendCemi() are called.
THEOREM ClientStaysGood == Spec => []IInv
<1> QED
  BY InitIInv, NextIInv, PTL DEF Spec

\* The fields and the suspended functions of TunnelClient keep their types.
THEOREM ClientTypes == Spec => []TypeOK
<1>1. IInv => TypeOK
  BY DEF IInv, Good, Sound, TypeOK
<1> QED
  BY <1>1, ClientStaysGood, PTL

\* No connect(), disconnect(), heartbeat or sendCemi() is left suspended on a
\* promise that nobody will settle (tunnel.ts, _pendingResponse, _pendingAck and
\* _reconnectPromise).
THEOREM ClientStrandsNobody == Spec => []NobodyStranded
<1>1. IInv => NobodyStranded
  BY DEF IInv, Good, Sound, NobodyStranded
<1> QED
  BY <1>1, ClientStaysGood, PTL

\* A frame or a timer that settles a slot wakes the function that took it, at
\* that await and at no other.
THEOREM ClientSlotOwnerWaits == Spec => []SlotOwnerWaits
<1>1. IInv => SlotOwnerWaits
  BY DEF IInv, Good, Sound, SlotOwnerWaits
<1> QED
  BY <1>1, ClientStaysGood, PTL

-----------------------------------------------------------------------------
(* A client whose owner is orderly and calls connect() on a client at rest, *)
(* and whose gateway sends no request to a client that is not connected.    *)

\* A connect() of the owner is alone: no loop, no heartbeat, no disconnect() and
\* no send runs beside it.
FreshConnect(x) ==
  \A p \in Callers : x.conn[p] # "idle" =>
    /\ x.state = "connecting" /\ x.loop = "none"
    /\ \A q \in ConnProc \ {p} : x.conn[q] = "idle"
    /\ \A h \in Beats : x.beat[h].pc = "idle"
    /\ \A d \in Closers : x.closer[d] = "idle"
    /\ x.sender.pc = "idle"

\* The client is up as a whole, timers and channel included, or not at all.
UpWhole(x) ==
  /\ x.state = "connected" => x.transport # None /\ (Beats # {} => x.heartbeatTimer)
  /\ x.state \in {"connected", "disconnecting"} =>
       x.loop = "none" /\ \A p \in ConnProc : x.conn[p] = "idle"
  /\ x.heartbeatTimer \/ x.invalidSeqTimer => x.state = "connected"
  /\ x.channelId # None => x.state \in {"connected", "disconnecting"}

\* An open socket is the client's transport; a transport is forgotten before its
\* close is awaited and before the next one is bound.
OneTransport(x) ==
  /\ \A t \in Sockets : x.sock[t] \in {"open", "dead"} => x.transport = t
  /\ \A p \in ConnProc : x.conn[p] \in {"binding", "closing"} => x.transport = None
  /\ \A d \in Closers : x.closer[d] = "closing" => x.transport = None
  /\ x.state = "disconnected" /\ x.transport # None =>
       \E p \in ConnProc : x.conn[p] \in {"response", "busy", "rejected"}

\* A disconnect() that closes the client has it for itself; one that waits for
\* the loop has told it to stop.
CloseAlone(x) ==
  \A d \in Closers :
    /\ x.closer[d] \in Closing =>
         /\ x.state \in {"disconnecting", "disconnected"} /\ x.loop = "none"
         /\ \A p \in ConnProc : x.conn[p] = "idle"
    /\ x.closer[d] = "reconnecting" => x.reconnectAbort
    /\ x.closer[d] = "resumed" =>
         /\ x.loop = "none"
         /\ x.reconnectAbort \/ x.state \in {"disconnecting", "disconnected"}

Calm(x) == FreshConnect(x) /\ UpWhole(x) /\ OneTransport(x) /\ CloseAlone(x)

\* In _onTunnelLost() the channel goes first, hence apart from UpWhole.
ChannelHeld(x) == x.state = "connected" => x.channelId # None

\* No connect() of the owner is running.
NoCaller(x) == \A p \in Callers : x.conn[p] = "idle"

\* No disconnect() is running.
NoCloser(x) == \A d \in Closers : x.closer[d] = "idle"

\* A client its owner wants down is down, or a disconnect() is on its way, which
\* has told the loop to stop.
HeadsDown(x) ==
  /\ x.loop # "none" => \E d \in Closers : x.closer[d] = "reconnecting"
  /\ x.loop = "none" /\ x.state # "disconnected" => \E d \in Closers : x.closer[d] # "idle"

\* The loop is told to stop by a disconnect() that is closing the client.
AbortOwned(x) == x.reconnectAbort => \E d \in Closers : x.closer[d] \in Closing

\* What a step from x to y keeps, and where it may lead.
Keeps(x, y) ==
  /\ Calm(y) /\ ChannelHeld(y)
  /\ y.autoReconnect = x.autoReconnect
  /\ ~x.autoReconnect /\ x.loop = "none" => y.loop = "none"
  /\ y.state = "connected" => \/ x.state \in {"connected", "connecting"}
                              \/ x.loop # "none"
  /\ x.state = "disconnecting" => y.state \in {"disconnecting", "disconnected"}

\* And, but for a call of the owner:
KeepsCourse(x, y) ==
  /\ NoCaller(x) => NoCaller(y)
  /\ HeadsDown(x) /\ NoCaller(x) => HeadsDown(y)
  /\ AbortOwned(x) => AbortOwned(y)
  /\ NoCloser(x) => /\ NoCloser(y)
                    /\ y.state = "disconnecting" => x.state = "disconnecting"
  /\ x.state = "connected" /\ y.state # "connected"
       /\ x.autoReconnect /\ ~x.reconnectAbort /\ NoCloser(x) => y.loop # "none"

\* The inductive invariant of an orderly owner: the less it asks of the client in
\* the middle of a reconnection, the more is known of the client.
OrderlyInv ==
  /\ Orderly =>
       /\ Calm(tc) /\ ChannelHeld(tc)
       /\ ~tc.autoReconnect => tc.loop = "none"
       /\ user.wants = "down" => NoCaller(tc)
  /\ user.habit \subseteq {"connected", "reconnecting"} /\ user.wants = "down"
       => HeadsDown(tc)
  /\ user.habit \subseteq {"connected"} => AbortOwned(tc)

\* A step that leaves the connection and its calls alone.
Plain == {"sock", "pendingAck", "pendingResponse", "beat", "sender", "invalidSeqTimer"}

LEMMA PlainKeeps ==
  ASSUME NEW x, NEW y, Calm(x), ChannelHeld(x), Only(x, y, Plain),
         \A t \in Sockets : y.sock[t] \in {"open", "dead"} => x.sock[t] \in {"open", "dead"},
         y.invalidSeqTimer => x.invalidSeqTimer \/ x.state = "connected",
         \/ NoCaller(x)
         \/ (\A h \in Beats : y.beat[h].pc = "idle") /\ y.sender.pc = "idle"
  PROVE  Keeps(x, y) /\ KeepsCourse(x, y)
<1>1. /\ y.autoReconnect = x.autoReconnect /\ y.state = x.state
      /\ y.transport = x.transport /\ y.channelId = x.channelId
      /\ y.heartbeatTimer = x.heartbeatTimer /\ y.reconnectAbort = x.reconnectAbort
      /\ y.loop = x.loop /\ y.conn = x.conn /\ y.closer = x.closer
  BY DEF Only, Fields, Plain
<1>2. FreshConnect(y)
  BY <1>1 DEF Calm, FreshConnect, NoCaller
<1>3. UpWhole(y)
  BY <1>1 DEF Calm, UpWhole
<1>4. OneTransport(y)
  BY <1>1 DEF Calm, OneTransport
<1>5. CloseAlone(y)
  BY <1>1 DEF Calm, CloseAlone
<1>6. Keeps(x, y)
  BY <1>1, <1>2, <1>3, <1>4, <1>5 DEF Keeps, Calm, ChannelHeld
<1>7. KeepsCourse(x, y)
  BY <1>1 DEF KeepsCourse, NoCloser, NoCaller, HeadsDown, AbortOwned
<1> QED
  BY <1>6, <1>7

\* Two connect() never run at once.
LEMMA OneConnects ==
  ASSUME NEW x, FreshConnect(x), NEW p \in ConnProc, x.conn[p] # "idle"
  PROVE  \A q \in ConnProc \ {p} : x.conn[q] = "idle"
BY DEF FreshConnect, ConnProc

\* A connect() goes on.
LEMMA ConnectStepKeeps ==
  ASSUME NEW x, NEW y, Calm(x), ChannelHeld(x), NEW p \in ConnProc, x.conn[p] # "idle",
         Only(x, y, {"transport", "opening", "sock", "conn", "pendingResponse"}),
         y.conn[p] # "idle", \A q \in ConnProc \ {p} : y.conn[q] = x.conn[q],
         OneTransport(y)
  PROVE  Keeps(x, y) /\ KeepsCourse(x, y)
<1>1. /\ y.autoReconnect = x.autoReconnect /\ y.state = x.state /\ y.channelId = x.channelId
      /\ y.heartbeatTimer = x.heartbeatTimer /\ y.invalidSeqTimer = x.invalidSeqTimer
      /\ y.reconnectAbort = x.reconnectAbort /\ y.loop = x.loop /\ y.closer = x.closer
      /\ y.beat = x.beat /\ y.sender = x.sender
  BY DEF Only, Fields
<1>2. \A q \in ConnProc : y.conn[q] = "idle" <=> x.conn[q] = "idle"
  OBVIOUS
<1>3. x.state \notin {"connected", "disconnecting"}
  BY DEF Calm, UpWhole
<1>4. FreshConnect(y)
  BY <1>1, <1>2 DEF Calm, FreshConnect, ConnProc
<1>5. UpWhole(y)
  BY <1>1, <1>3 DEF Calm, UpWhole
<1>6. CloseAlone(y)
  BY <1>1, <1>2 DEF Calm, CloseAlone
<1>7. Keeps(x, y)
  BY <1>1, <1>3, <1>4, <1>5, <1>6 DEF Keeps, Calm, ChannelHeld
<1>8. KeepsCourse(x, y)
  BY <1>1, <1>2 DEF KeepsCourse, NoCloser, NoCaller, HeadsDown, AbortOwned, ConnProc
<1> QED
  BY <1>7, <1>8

\* A connect() fails and is over.
LEMMA ConnectFailedKeeps ==
  ASSUME NEW x, NEW y, Calm(x), ChannelHeld(x), LoopConnects(x),
         NEW p \in ConnProc, x.conn[p] # "idle",
         Only(x, y, {"transport", "sock", "state", "conn", "opening", "loop"}),
         y.transport = None, \A t \in Sockets : y.sock[t] \notin {"open", "dead"},
         y.state = "disconnected", y.conn[p] = "idle",
         \A q \in ConnProc \ {p} : y.conn[q] = x.conn[q],
         IF p = Loop THEN y.loop = "delay" ELSE y.loop = x.loop
  PROVE  Keeps(x, y) /\ KeepsCourse(x, y)
<1> USE NoneIsNobody
<1>1. /\ y.autoReconnect = x.autoReconnect /\ y.channelId = x.channelId
      /\ y.heartbeatTimer = x.heartbeatTimer /\ y.invalidSeqTimer = x.invalidSeqTimer
      /\ y.reconnectAbort = x.reconnectAbort /\ y.closer = x.closer
      /\ y.beat = x.beat /\ y.sender = x.sender
  BY DEF Only, Fields
<1>2. \A q \in ConnProc : y.conn[q] = "idle"
  BY OneConnects DEF Calm
<1>3. x.state \notin {"connected", "disconnecting"}
  BY DEF Calm, UpWhole
<1>4. IF p = Loop THEN x.loop = "connecting"
      ELSE x.loop = "none" /\ p \in Callers /\ \A d \in Closers : x.closer[d] = "idle"
  BY DEF LoopConnects, Calm, FreshConnect, ConnProc
<1>5. FreshConnect(y)
  BY <1>2 DEF FreshConnect, ConnProc
<1>6. UpWhole(y)
  BY <1>1, <1>2, <1>3 DEF Calm, UpWhole
<1>7. OneTransport(y)
  <2>1. \A d \in Closers : y.closer[d] = "closing" => y.transport = None
    OBVIOUS
  <2> QED
    BY <2>1 DEF OneTransport
<1>8. CloseAlone(y)
  BY <1>1, <1>4 DEF Calm, CloseAlone, Closing
<1>9. Keeps(x, y)
  BY <1>1, <1>3, <1>4, <1>5, <1>6, <1>7, <1>8 DEF Keeps, Calm, ChannelHeld
<1>10. KeepsCourse(x, y)
  BY <1>1, <1>2, <1>3, <1>4 DEF KeepsCourse, NoCloser, NoCaller, HeadsDown, AbortOwned, ConnProc
<1> QED
  BY <1>9, <1>10

\* A connect() succeeds and is over.
LEMMA ConnectedKeeps ==
  ASSUME NEW x, NEW y, Calm(x), LoopConnects(x), ClosersAreServed(x), x.transport # None,
         NEW p \in ConnProc, x.conn[p] = "response",
         Only(x, y, {"pendingResponse", "channelId", "heartbeatTimer", "state", "conn",
                     "opening", "loop", "closer", "sender"}),
         y.channelId # None, y.state = "connected", Beats # {} => y.heartbeatTimer,
         \A q \in ConnProc : y.conn[q] = IF q = p THEN "idle" ELSE x.conn[q],
         \A d \in Closers : y.closer[d] = IF p = Loop /\ x.closer[d] = "reconnecting"
                                          THEN "resumed" ELSE x.closer[d],
         y.loop = IF p = Loop THEN "none" ELSE x.loop
  PROVE  Keeps(x, y) /\ KeepsCourse(x, y)
<1> USE NoneIsNobody
<1>1. /\ y.autoReconnect = x.autoReconnect /\ y.reconnectAbort = x.reconnectAbort
      /\ y.transport = x.transport /\ y.sock = x.sock
  BY DEF Only, Fields
<1>2. \A q \in ConnProc : y.conn[q] = "idle"
  BY OneConnects DEF Calm
<1>3. x.state \notin {"connected", "disconnecting"}
  BY DEF Calm, UpWhole
<1>4. IF p = Loop THEN x.loop = "connecting"
      ELSE /\ x.loop = "none" /\ x.state = "connecting" /\ p \in Callers
           /\ \A d \in Closers : x.closer[d] = "idle"
  BY DEF LoopConnects, Calm, FreshConnect, ConnProc
<1>5. y.loop = "none"
  BY <1>4
<1>6. FreshConnect(y)
  BY <1>2 DEF FreshConnect, ConnProc
<1>7. UpWhole(y)
  BY <1>1, <1>2, <1>5 DEF UpWhole
<1>8. \A d \in Closers : x.closer[d] \notin Closing
  BY DEF Calm, CloseAlone
<1>9. OneTransport(y)
  BY <1>1, <1>2, <1>8 DEF Calm, OneTransport, Closing
<1>10. CloseAlone(y)
  BY <1>1, <1>4, <1>5, <1>8 DEF Calm, CloseAlone, Closing
<1>11. Keeps(x, y)
  BY <1>1, <1>3, <1>4, <1>5, <1>6, <1>7, <1>9, <1>10 DEF Keeps, Calm, ChannelHeld
<1>12. KeepsCourse(x, y)
  BY <1>1, <1>2, <1>3, <1>4, <1>5, <1>8 DEF KeepsCourse, NoCloser, NoCaller, HeadsDown, AbortOwned, ConnProc
<1> QED
  BY <1>11, <1>12

\* The tunnel is lost.
LEMMA LossKeeps ==
  ASSUME NEW x, Good(x), Calm(x), NoCaller(x), x.loop = "none" => HasFree(x),
         NEW y, y = OnTunnelLost(x)
  PROVE  Keeps(x, y) /\ KeepsCourse(x, y) /\ NoCaller(y)
<1> USE NoneIsNobody
<1> DEFINE z == TunnelDown(x)
           o == x.pendingResponse.owner
<1>0. Sound(x) /\ x \in ClientState /\ LoopConnects(x)
  BY DEF Good, Sound
<1>1. /\ x.state \in {"disconnected", "disconnecting"} => y = x
      /\ x.state \notin {"disconnected", "disconnecting"} /\ ~Reconnects(x) => y = z
      /\ x.state \notin {"disconnected", "disconnecting"} /\ Reconnects(x) =>
           /\ Only(z, y, {"state", "sock", "conn", "opening", "loop"})
           /\ y.state = "connecting" /\ y.loop = "connecting"
           /\ \E t \in Sockets :
                /\ z.sock[t] = "free"
                /\ \A u \in Sockets : y.sock[u] = IF u = t THEN "binding" ELSE z.sock[u]
                /\ \A q \in ConnProc : y.opening[q] = IF q = Loop THEN t ELSE z.opening[q]
           /\ \A q \in ConnProc : y.conn[q] = IF q = Loop THEN "binding" ELSE z.conn[q]
  BY OnTunnelLostCases
<1>2. /\ Only(x, z, {"state", "transport", "sock", "channelId", "pendingAck",
                     "pendingResponse", "heartbeatTimer", "invalidSeqTimer", "conn",
                     "beat", "closer", "sender"})
      /\ z.state = "disconnected" /\ z.transport = None /\ z.channelId = None
      /\ ~z.heartbeatTimer /\ ~z.invalidSeqTimer
      /\ \A p \in ConnProc : z.conn[p] = IF p = o THEN "rejected" ELSE x.conn[p]
      /\ \A d \in Closers : z.closer[d] = IF d = o THEN "rejected" ELSE x.closer[d]
      /\ \A t \in Sockets : z.sock[t] = IF t = x.transport THEN "free" ELSE x.sock[t]
  BY <1>0, TunnelDownFields
<1>3. /\ z.autoReconnect = x.autoReconnect /\ z.reconnectAbort = x.reconnectAbort
      /\ z.loop = x.loop
  BY <1>2 DEF Only, Fields
<1> HIDE DEF z
<1>4. CASE x.state \in {"disconnected", "disconnecting"}
  BY <1>1, <1>4 DEF Keeps, KeepsCourse, NoCloser, ChannelHeld
<1> SUFFICES ASSUME x.state \notin {"disconnected", "disconnecting"}
             PROVE  Keeps(x, y) /\ KeepsCourse(x, y) /\ NoCaller(y)
  BY <1>4
<1>5. /\ \A d \in Closers : x.closer[d] \notin Closing /\ z.closer[d] = x.closer[d]
      /\ \A d \in Closers : /\ x.closer[d] = "reconnecting" => x.loop # "none"
                            /\ x.closer[d] = "resumed" => x.reconnectAbort
  <2>1. \A d \in Closers : x.closer[d] \notin Closing
    BY DEF Calm, CloseAlone
  <2>2. \A d \in Closers : d # o
    BY <1>0, <2>1 DEF Sound, ResponseOwnerWaits, Closing
  <2>3. \A d \in Closers : x.closer[d] = "reconnecting" => x.loop # "none"
    BY <1>0 DEF Sound, ClosersAreServed
  <2>4. \A d \in Closers : x.closer[d] = "resumed" => x.reconnectAbort
    BY DEF Calm, CloseAlone
  <2> QED
    BY <1>2, <2>1, <2>2, <2>3, <2>4
<1>6. NoCaller(z)
  <2>1. o \notin Callers
    BY <1>0 DEF NoCaller, Sound, ResponseOwnerWaits, ConnProc
  <2>2. \A p \in Callers : z.conn[p] = x.conn[p]
    BY <1>2, <2>1 DEF ConnProc
  <2> QED
    BY <2>2 DEF NoCaller
<1>7. \A t \in Sockets : z.sock[t] \notin {"open", "dead"}
  BY <1>2 DEF Calm, OneTransport
<1>8. CASE ~Reconnects(x)
  <2>1. y = z
    BY <1>1, <1>8
  <2>2. FreshConnect(y)
    BY <1>6, <2>1 DEF FreshConnect, NoCaller
  <2>3. UpWhole(y) /\ ChannelHeld(y)
    BY <1>2, <2>1 DEF UpWhole, ChannelHeld
  <2>4. OneTransport(y)
    BY <1>2, <1>7, <2>1 DEF OneTransport
  <2>5. CloseAlone(y)
    BY <1>2, <1>3, <1>5, <2>1 DEF Calm, CloseAlone
  <2>6. Keeps(x, y)
    BY <1>2, <1>3, <2>1, <2>2, <2>3, <2>4, <2>5 DEF Keeps, Calm
  <2>7. HeadsDown(x) => HeadsDown(y)
    BY <1>2, <1>3, <1>5, <2>1 DEF HeadsDown
  <2>8. AbortOwned(x) => AbortOwned(y)
    BY <1>3, <1>5, <2>1 DEF AbortOwned
  <2>9. x.state = "connected" /\ x.autoReconnect /\ ~x.reconnectAbort => FALSE
    BY <1>8 DEF Reconnects, Calm, UpWhole
  <2>10. /\ NoCloser(x) => NoCloser(y)
         /\ y.state = "disconnected"
    BY <1>2, <1>5, <2>1 DEF NoCloser
  <2> QED
    BY <1>6, <2>1, <2>6, <2>7, <2>8, <2>9, <2>10 DEF KeepsCourse
<1>9. CASE Reconnects(x)
  <2>1. /\ y.transport = None /\ y.channelId = None
        /\ ~y.heartbeatTimer /\ ~y.invalidSeqTimer
        /\ y.autoReconnect = x.autoReconnect /\ y.reconnectAbort = x.reconnectAbort
        /\ y.closer = z.closer /\ y.state = "connecting" /\ y.loop = "connecting"
    BY <1>1, <1>2, <1>3, <1>9 DEF Only, Fields
  <2>2. NoCaller(y)
    BY <1>1, <1>6, <1>9 DEF NoCaller, ConnProc
  <2>3. FreshConnect(y)
    BY <2>2 DEF FreshConnect, NoCaller
  <2>4. UpWhole(y) /\ ChannelHeld(y)
    BY <2>1 DEF UpWhole, ChannelHeld
  <2>5. OneTransport(y)
    <3>1. \A t \in Sockets : y.sock[t] \notin {"open", "dead"}
      BY <1>1, <1>7, <1>9
    <3> QED
      BY <2>1, <3>1 DEF OneTransport
  <2>6. CloseAlone(y)
    BY <1>5, <1>9, <2>1 DEF CloseAlone, Reconnects
  <2>7. Keeps(x, y)
    BY <1>9, <2>1, <2>3, <2>4, <2>5, <2>6 DEF Keeps, Calm, Reconnects
  <2>8. ~HeadsDown(x)
    <3>1. \A d \in Closers : x.closer[d] = "idle"
      <4>1. x.closer \in [Closers -> CloserPc]
        BY <1>0 DEF ClientState
      <4> QED
        BY <1>5, <1>9, <4>1 DEF Reconnects, CloserPc, Closing
    <3> QED
      BY <1>9, <3>1 DEF HeadsDown, Reconnects
  <2>9. AbortOwned(y)
    BY <1>9, <2>1 DEF AbortOwned, Reconnects
  <2>10. NoCloser(x) => NoCloser(y)
    BY <1>5, <2>1 DEF NoCloser
  <2> QED
    BY <2>1, <2>2, <2>7, <2>8, <2>9, <2>10 DEF KeepsCourse
<1> QED
  BY <1>8, <1>9

LEMMA LoopRetriesKeeps ==
  ASSUME IInv, Calm(tc), LoopRetries
  PROVE  Keeps(tc, tc') /\ KeepsCourse(tc, tc')
<1> USE NoneIsNobody
<1>1. /\ Good(tc) /\ Sound(tc) /\ tc \in ClientState /\ HasFree(tc) /\ tc.loop = "delay"
      /\ tc' = IF tc.reconnectAbort THEN LoopEnds(tc)
               ELSE Connect([tc EXCEPT !.loop = "connecting"], Loop)
  BY QuietSettled DEF IInv, Good, Sound, LoopRetries
<1>2. NoCaller(tc) /\ \A q \in ConnProc : tc.conn[q] = "idle"
  BY <1>1 DEF Calm, FreshConnect, NoCaller, Good, LoopConnects, ConnProc
<1>3. /\ tc.state \notin {"connected", "disconnecting"} /\ tc.channelId = None
      /\ ~tc.heartbeatTimer /\ ~tc.invalidSeqTimer
      /\ \A d \in Closers : tc.closer[d] \notin Closing
      /\ \A d \in Closers : tc.closer[d] = "reconnecting" => tc.reconnectAbort
      /\ \A d \in Closers : tc.closer[d] # "resumed"
  BY <1>1 DEF Calm, UpWhole, CloseAlone
<1>4. CASE tc.reconnectAbort
  <2>1. /\ Only(tc, tc', {"loop", "closer", "sender"}) /\ tc'.loop = "none"
        /\ \A d \in Closers : tc'.closer[d] = IF tc.closer[d] = "reconnecting" THEN "resumed"
                                              ELSE tc.closer[d]
    BY <1>1, <1>4, LoopEndsFields
  <2>2. /\ tc'.autoReconnect = tc.autoReconnect /\ tc'.state = tc.state
        /\ tc'.transport = tc.transport /\ tc'.sock = tc.sock
        /\ tc'.channelId = tc.channelId /\ tc'.heartbeatTimer = tc.heartbeatTimer
        /\ tc'.invalidSeqTimer = tc.invalidSeqTimer
        /\ tc'.reconnectAbort = tc.reconnectAbort /\ tc'.conn = tc.conn
    BY <2>1 DEF Only, Fields
  <2>3. NoCaller(tc') /\ FreshConnect(tc')
    BY <1>2, <2>2 DEF NoCaller, FreshConnect
  <2>4. UpWhole(tc') /\ ChannelHeld(tc')
    BY <1>3, <2>2 DEF UpWhole, ChannelHeld
  <2>5. OneTransport(tc')
    BY <1>3, <2>1, <2>2 DEF Calm, OneTransport, Closing
  <2>6. CloseAlone(tc')
    BY <1>3, <1>4, <2>1, <2>2 DEF CloseAlone, Closing
  <2>7. Keeps(tc, tc')
    BY <1>3, <2>1, <2>2, <2>3, <2>4, <2>5, <2>6 DEF Keeps, Calm
  <2>8. HeadsDown(tc) => HeadsDown(tc')
    BY <1>1, <2>1 DEF HeadsDown
  <2>9. ~AbortOwned(tc)
    BY <1>3, <1>4 DEF AbortOwned
  <2>10. NoCloser(tc) => NoCloser(tc')
    BY <2>1 DEF NoCloser
  <2> QED
    BY <1>3, <2>2, <2>3, <2>7, <2>8, <2>9, <2>10 DEF KeepsCourse
<1>5. CASE ~tc.reconnectAbort
  <2> DEFINE a == [tc EXCEPT !.loop = "connecting"]
  <2>1. /\ a \in ClientState /\ Only(tc, a, {"loop"}) /\ a.loop = "connecting"
    BY <1>1, LoopAttempts
  <2>2. tc' = Connect(a, Loop)
    BY <1>1, <1>5
  <2> HIDE DEF a
  <2>3. a.sock = tc.sock /\ a.state = tc.state
    BY <2>1 DEF Only, Fields
  <2>4. HasFree(a)
    BY <1>1, <2>3 DEF HasFree
  <2>5. /\ Only(tc, tc', {"state", "sock", "conn", "opening", "loop"})
        /\ tc'.state \notin {"connected", "disconnecting"} /\ tc'.loop # "none"
        /\ \A q \in Callers : tc'.conn[q] = "idle"
        /\ \A t \in Sockets : tc'.sock[t] \in {"open", "dead"} => tc.sock[t] \in {"open", "dead"}
        /\ tc.state = "disconnected" \/ (tc'.state = tc.state /\ tc'.conn[Loop] = "idle")
        /\ tc'.state # "disconnected"
    <3>1. CASE a.state = "disconnected"
      <4>1. /\ Only(a, tc', {"state", "sock", "conn", "opening"})
            /\ tc'.state = "connecting"
            /\ \E t \in Sockets :
                 \A u \in Sockets : tc'.sock[u] = IF u = t THEN "binding" ELSE a.sock[u]
            /\ \A q \in ConnProc : tc'.conn[q] = IF q = Loop THEN "binding" ELSE a.conn[q]
        BY <2>1, <2>2, <2>4, <3>1, ConnectFields
      <4>2. a.conn = tc.conn
        BY <2>1 DEF Only, Fields
      <4>3. Only(tc, tc', {"state", "sock", "conn", "opening", "loop"})
        BY <2>1, <4>1 DEF Only
      <4>4. tc'.loop = "connecting"
        BY <2>1, <4>1 DEF Only, Fields
      <4>5. \A q \in Callers : tc'.conn[q] = "idle"
        BY <1>2, <4>1, <4>2 DEF ConnProc
      <4> QED
        BY <2>3, <3>1, <4>1, <4>3, <4>4, <4>5
    <3>2. CASE a.state # "disconnected"
      <4> DEFINE ok == FALSE
      <4>1. tc' = ConnectEnds(a, Loop, ok)
        BY <1>3, <2>2, <2>3, <3>2 DEF Connect
      <4>2. ok \in BOOLEAN /\ ~ok
        OBVIOUS
      <4> HIDE DEF ok
      <4>3. /\ Only(a, tc', {"conn", "opening", "loop"}) /\ tc'.loop = "delay"
            /\ \A q \in ConnProc : tc'.conn[q] = IF q = Loop THEN "idle" ELSE a.conn[q]
        BY <2>1, <4>1, <4>2, ConnectEndsFields
      <4>4. a.conn = tc.conn /\ tc'.state = tc.state /\ tc'.sock = tc.sock
        BY <2>1, <2>3, <4>3 DEF Only, Fields
      <4>5. Only(tc, tc', {"state", "sock", "conn", "opening", "loop"})
        BY <2>1, <4>3 DEF Only
      <4>6. \A q \in Callers : tc'.conn[q] = "idle"
        BY <1>2, <4>3, <4>4 DEF ConnProc
      <4> QED
        BY <1>3, <2>3, <3>2, <4>3, <4>4, <4>5, <4>6
    <3> QED
      BY <3>1, <3>2
  <2>6. /\ tc'.autoReconnect = tc.autoReconnect /\ tc'.transport = tc.transport
        /\ tc'.channelId = tc.channelId /\ tc'.heartbeatTimer = tc.heartbeatTimer
        /\ tc'.invalidSeqTimer = tc.invalidSeqTimer
        /\ tc'.reconnectAbort = tc.reconnectAbort /\ tc'.closer = tc.closer
    BY <2>5 DEF Only, Fields
  <2>7. NoCaller(tc') /\ FreshConnect(tc')
    BY <2>5 DEF NoCaller, FreshConnect
  <2>8. UpWhole(tc') /\ ChannelHeld(tc')
    BY <1>3, <2>5, <2>6 DEF UpWhole, ChannelHeld
  <2>9. OneTransport(tc')
    <3>1. tc.state = "disconnected" => tc.transport = None
      BY <1>2 DEF Calm, OneTransport
    <3> QED
      BY <1>3, <2>5, <2>6, <3>1 DEF Calm, OneTransport, Closing, ConnProc
  <2>10. CloseAlone(tc')
    BY <1>3, <2>6 DEF CloseAlone
  <2>11. Keeps(tc, tc')
    BY <1>1, <1>3, <2>5, <2>6, <2>7, <2>8, <2>9, <2>10 DEF Keeps, Calm
  <2>12. ~HeadsDown(tc)
    BY <1>1, <1>3, <1>5 DEF HeadsDown
  <2>13. /\ NoCloser(tc) => NoCloser(tc')
         /\ tc'.state # "disconnecting"
    BY <2>5, <2>6 DEF NoCloser
  <2> QED
    BY <1>3, <1>5, <2>6, <2>7, <2>11, <2>12, <2>13 DEF KeepsCourse, AbortOwned
<1> QED
  BY <1>4, <1>5

\* A disconnect() that closes the client is done with its transport.
LEMMA ClosingKeeps ==
  ASSUME NEW x, NEW y, Calm(x),
         \A e \in Closers : x.closer[e] = "reconnecting" => x.loop # "none",
         NEW d \in Closers, x.closer[d] \in Closing,
         Only(x, y, {"channelId", "state", "reconnectAbort", "closer", "transport", "sock"}),
         y.transport = None, \A t \in Sockets : y.sock[t] \notin {"open", "dead"},
         \A e \in Closers \ {d} : y.closer[e] = x.closer[e],
         \/ /\ y.closer[d] = "closing" /\ y.state = x.state
            /\ y.reconnectAbort = x.reconnectAbort /\ y.channelId = x.channelId
         \/ /\ y.closer[d] = "idle" /\ y.state = "disconnected"
            /\ ~y.reconnectAbort /\ y.channelId = None
  PROVE  Keeps(x, y) /\ KeepsCourse(x, y)
<1>1. /\ y.autoReconnect = x.autoReconnect /\ y.conn = x.conn /\ y.loop = x.loop
      /\ y.heartbeatTimer = x.heartbeatTimer /\ y.invalidSeqTimer = x.invalidSeqTimer
  BY DEF Only, Fields
<1>2. /\ x.state \in {"disconnecting", "disconnected"} /\ x.loop = "none"
      /\ \A p \in ConnProc : x.conn[p] = "idle"
  BY DEF Calm, CloseAlone
<1>3. y.state \in {"disconnecting", "disconnected"}
  BY <1>2
<1>4. NoCaller(y) /\ FreshConnect(y)
  BY <1>1, <1>2 DEF NoCaller, FreshConnect, ConnProc
<1>5. UpWhole(y) /\ ChannelHeld(y)
  <2>1. ~y.heartbeatTimer /\ ~y.invalidSeqTimer
    BY <1>1, <1>2 DEF Calm, UpWhole
  <2>2. y.channelId # None => y.state \in {"connected", "disconnecting"}
    BY DEF Calm, UpWhole
  <2> QED
    BY <1>1, <1>2, <1>3, <2>1, <2>2 DEF UpWhole, ChannelHeld
<1>6. OneTransport(y)
  BY DEF OneTransport
<1>7. CloseAlone(y)
  BY <1>1, <1>2, <1>3 DEF CloseAlone, Closing
<1>8. Keeps(x, y)
  BY <1>1, <1>2, <1>3, <1>4, <1>5, <1>6, <1>7 DEF Keeps, Calm
<1>9. HeadsDown(y)
  BY <1>1, <1>2 DEF HeadsDown
<1>10. AbortOwned(x) => AbortOwned(y)
  BY DEF AbortOwned, Closing
<1>11. ~NoCloser(x)
  BY DEF NoCloser, Closing
<1> QED
  BY <1>2, <1>4, <1>8, <1>9, <1>10, <1>11 DEF KeepsCourse

\* disconnect() closes a client that is up.
LEMMA CloseDownKeeps ==
  ASSUME NEW x, Good(x), Calm(x), x.loop = "none", x.state # "disconnected",
         \A p \in ConnProc : x.conn[p] = "idle",
         NEW d \in Closers, x.closer[d] \in {"idle", "resumed"},
         NEW y, y = CloseDown(x, d)
  PROVE  /\ Keeps(x, y) /\ NoCaller(y) /\ HeadsDown(y) /\ AbortOwned(y)
         /\ x.channelId # None /\ x.transport # None => y.state = "disconnecting"
<1> USE NoneIsNobody
<1>1. /\ Good(y)
      /\ Only(x, y, {"state", "transport", "sock", "channelId", "pendingAck",
                     "pendingResponse", "heartbeatTimer", "invalidSeqTimer",
                     "reconnectAbort", "conn", "beat", "closer", "sender"})
      /\ ~y.heartbeatTimer /\ ~y.invalidSeqTimer
      /\ \A p \in ConnProc : y.conn[p] = x.conn[p]
                               \/ (x.conn[p] = "response" /\ y.conn[p] = "rejected")
      /\ \A e \in Closers \ {d} :
           y.closer[e] = x.closer[e]
             \/ (x.closer[e] = "response" /\ y.closer[e] = "rejected")
      /\ \/ y.closer[d] \in Closing /\ y.state = "disconnecting"
              /\ y.reconnectAbort = x.reconnectAbort
         \/ y.closer[d] = "idle" /\ y.state = "disconnected" /\ y.channelId = None
              /\ ~y.reconnectAbort
      /\ \/ /\ y.transport = x.transport /\ y.sock = x.sock
            /\ y.closer[d] \in {"response", "rejected"}
         \/ /\ y.transport = None
            /\ \A t \in Sockets : y.sock[t] = IF t = x.transport THEN "free"
                                              ELSE x.sock[t]
      /\ x.channelId # None /\ x.transport # None => y.closer[d] # "idle"
  BY CloseDownFields
<1>2. y.autoReconnect = x.autoReconnect /\ y.loop = "none"
  BY <1>1 DEF Only, Fields
<1>3. \A p \in ConnProc : y.conn[p] = "idle"
  BY <1>1
<1>4. NoCaller(y) /\ FreshConnect(y)
  BY <1>3 DEF NoCaller, FreshConnect, ConnProc
<1>5. UpWhole(y) /\ ChannelHeld(y)
  BY <1>1, <1>2, <1>3 DEF UpWhole, ChannelHeld
<1>6. OneTransport(y)
  <2>1. CASE y.transport = x.transport /\ y.sock = x.sock
                /\ y.closer[d] \in {"response", "rejected"}
    <3>1. \A e \in Closers : y.closer[e] = "closing" => x.closer[e] = "closing"
      BY <1>1, <2>1
    <3>2. y.state = "disconnecting"
      BY <1>1, <2>1
    <3> QED
      BY <1>3, <2>1, <3>1, <3>2 DEF Calm, OneTransport
  <2>2. CASE /\ y.transport = None
             /\ \A t \in Sockets : y.sock[t] = IF t = x.transport THEN "free" ELSE x.sock[t]
    <3>1. \A t \in Sockets : y.sock[t] \notin {"open", "dead"}
      BY <2>2 DEF Calm, OneTransport
    <3> QED
      BY <2>2, <3>1 DEF OneTransport
  <2> QED
    BY <1>1, <2>1, <2>2
<1>7. CloseAlone(y)
  <2>1. \A e \in Closers : y.closer[e] # "reconnecting"
    BY <1>1, <1>2 DEF Good, Sound, ClosersAreServed
  <2>2. y.state \in {"disconnecting", "disconnected"}
    BY <1>1
  <2> QED
    BY <1>2, <1>3, <2>1, <2>2 DEF CloseAlone
<1>8. Keeps(x, y)
  <2>1. y.state \in {"disconnecting", "disconnected"}
    BY <1>1
  <2> QED
    BY <1>2, <1>4, <1>5, <1>6, <1>7, <2>1 DEF Keeps, Calm
<1>9. HeadsDown(y) /\ AbortOwned(y)
  BY <1>1, <1>2 DEF HeadsDown, AbortOwned, Closing
<1>10. x.channelId # None /\ x.transport # None => y.state = "disconnecting"
  BY <1>1
<1> QED
  BY <1>4, <1>8, <1>9, <1>10

LEMMA ResponseTimeoutKeeps ==
  ASSUME IInv, Calm(tc), ChannelHeld(tc), ResponseTimeout
  PROVE  Keeps(tc, tc') /\ KeepsCourse(tc, tc')
<1> USE NoneIsNobody
<1> DEFINE o == tc.pendingResponse.owner
<1>1. Sound(tc) /\ tc \in ClientState /\ tc' = RejectPendingResponse(tc)
  BY DEF IInv, Good, Sound, ResponseTimeout
<1>2. /\ Only(tc, tc', {"pendingResponse", "conn", "beat", "closer"})
      /\ \A p \in ConnProc : tc'.conn[p] = IF p = o THEN "rejected" ELSE tc.conn[p]
      /\ \A h \in Beats : tc'.beat[h].pc = IF h = o THEN "rejected" ELSE tc.beat[h].pc
      /\ \A d \in Closers : tc'.closer[d] = IF d = o THEN "rejected" ELSE tc.closer[d]
  BY <1>1, RejectResponseFields
<1>3. /\ o \in ConnProc => tc.conn[o] = "response"
      /\ o \in Beats    => tc.beat[o].pc = "response"
      /\ o \in Closers  => tc.closer[o] = "response"
  BY <1>1 DEF Sound, ResponseOwnerWaits
<1> HIDE DEF o
<1>4. /\ \A p \in ConnProc : tc'.conn[p] = tc.conn[p]
                               \/ (tc.conn[p] = "response" /\ tc'.conn[p] = "rejected")
      /\ \A h \in Beats : tc.beat[h].pc = "idle" => tc'.beat[h].pc = "idle"
      /\ \A d \in Closers : tc'.closer[d] = tc.closer[d]
                              \/ (tc.closer[d] = "response" /\ tc'.closer[d] = "rejected")
  BY <1>2, <1>3
<1>5. /\ tc'.autoReconnect = tc.autoReconnect /\ tc'.state = tc.state
      /\ tc'.transport = tc.transport /\ tc'.sock = tc.sock
      /\ tc'.channelId = tc.channelId /\ tc'.heartbeatTimer = tc.heartbeatTimer
      /\ tc'.invalidSeqTimer = tc.invalidSeqTimer /\ tc'.loop = tc.loop
      /\ tc'.reconnectAbort = tc.reconnectAbort /\ tc'.sender = tc.sender
  BY <1>2 DEF Only, Fields
<1>6. FreshConnect(tc')
  <2> SUFFICES ASSUME NEW p \in Callers, tc'.conn[p] # "idle"
               PROVE  /\ tc'.state = "connecting" /\ tc'.loop = "none"
                      /\ \A q \in ConnProc \ {p} : tc'.conn[q] = "idle"
                      /\ \A h \in Beats : tc'.beat[h].pc = "idle"
                      /\ \A d \in Closers : tc'.closer[d] = "idle"
                      /\ tc'.sender.pc = "idle"
    BY DEF FreshConnect
  <2>1. tc.conn[p] # "idle"
    BY <1>4 DEF ConnProc
  <2>2. /\ tc.state = "connecting" /\ tc.loop = "none"
        /\ \A q \in ConnProc \ {p} : tc.conn[q] = "idle"
        /\ \A h \in Beats : tc.beat[h].pc = "idle"
        /\ \A d \in Closers : tc.closer[d] = "idle"
        /\ tc.sender.pc = "idle"
    BY <2>1 DEF Calm, FreshConnect
  <2> QED
    BY <1>4, <1>5, <2>2
<1>7. UpWhole(tc')
  BY <1>4, <1>5 DEF Calm, UpWhole
<1>8. OneTransport(tc')
  BY <1>4, <1>5 DEF Calm, OneTransport
<1>9. CloseAlone(tc')
  BY <1>4, <1>5 DEF Calm, CloseAlone, Closing
<1>10. Keeps(tc, tc')
  BY <1>5, <1>6, <1>7, <1>8, <1>9 DEF Keeps, Calm, ChannelHeld
<1>11. KeepsCourse(tc, tc')
  <2>1. NoCaller(tc) => NoCaller(tc')
    BY <1>4 DEF NoCaller, ConnProc
  <2>2. HeadsDown(tc) => HeadsDown(tc')
    <3>1. \A d \in Closers : /\ tc.closer[d] = "reconnecting" => tc'.closer[d] = "reconnecting"
                             /\ tc.closer[d] # "idle" => tc'.closer[d] # "idle"
      BY <1>4
    <3> QED
      BY <1>5, <3>1 DEF HeadsDown
  <2>3. AbortOwned(tc) => AbortOwned(tc')
    <3>1. \A d \in Closers : tc.closer[d] \in Closing => tc'.closer[d] \in Closing
      BY <1>4 DEF Closing
    <3> QED
      BY <1>5, <3>1 DEF AbortOwned
  <2>4. NoCloser(tc) => NoCloser(tc')
    BY <1>4 DEF NoCloser
  <2> QED
    BY <1>5, <2>1, <2>2, <2>3, <2>4 DEF KeepsCourse
<1> QED
  BY <1>10, <1>11

\* connect() called on a client at rest.
LEMMA ConnectCallKeeps ==
  ASSUME IInv, Calm(tc), AtRest, NEW p \in Callers, ConnectCall(p)
  PROVE  /\ Keeps(tc, tc') /\ (AbortOwned(tc) => AbortOwned(tc')) /\ NoCloser(tc')
         /\ tc.state = "disconnected" /\ tc'.state = "connecting"
<1> USE NoneIsNobody
<1>1. /\ Sound(tc) /\ tc \in ClientState /\ p \in ConnProc /\ p # Loop
      /\ tc' = Connect(tc, p) /\ HasFree(tc)
  BY QuietSettled DEF IInv, Good, Sound, ConnectCall, ConnProc
<1>2. /\ tc.state = "disconnected" /\ tc.loop = "none"
      /\ ~tc.heartbeatTimer /\ ~tc.invalidSeqTimer
      /\ \A q \in ConnProc : tc.conn[q] = "idle"
      /\ \A h \in Beats : tc.beat[h].pc = "idle"
      /\ \A d \in Closers : tc.closer[d] = "idle"
      /\ tc.sender.pc = "idle"
  BY DEF AtRest
<1>3. /\ Only(tc, tc', {"state", "sock", "conn", "opening"})
      /\ tc'.state = "connecting"
      /\ \E t \in Sockets :
           \A u \in Sockets : tc'.sock[u] = IF u = t THEN "binding" ELSE tc.sock[u]
      /\ \A q \in ConnProc : tc'.conn[q] = IF q = p THEN "binding" ELSE tc.conn[q]
  BY <1>1, <1>2, ConnectFields
<1>4. /\ tc'.autoReconnect = tc.autoReconnect /\ tc'.transport = tc.transport
      /\ tc'.channelId = tc.channelId /\ tc'.heartbeatTimer = tc.heartbeatTimer
      /\ tc'.invalidSeqTimer = tc.invalidSeqTimer /\ tc'.loop = tc.loop
      /\ tc'.reconnectAbort = tc.reconnectAbort /\ tc'.beat = tc.beat
      /\ tc'.closer = tc.closer /\ tc'.sender = tc.sender
  BY <1>3 DEF Only, Fields
<1>5. tc.transport = None /\ tc.channelId = None
  BY <1>2 DEF Calm, OneTransport, UpWhole
<1>6. FreshConnect(tc')
  BY <1>2, <1>3, <1>4 DEF FreshConnect, ConnProc
<1>7. UpWhole(tc') /\ ChannelHeld(tc')
  BY <1>2, <1>3, <1>4, <1>5 DEF UpWhole, ChannelHeld
<1>8. OneTransport(tc')
  <2>1. \A t \in Sockets : tc'.sock[t] \notin {"open", "dead"}
    BY <1>3, <1>5 DEF Calm, OneTransport
  <2> QED
    BY <1>4, <1>5, <2>1 DEF OneTransport
<1>9. CloseAlone(tc')
  BY <1>2, <1>4 DEF CloseAlone, Closing
<1>10. Keeps(tc, tc')
  BY <1>2, <1>3, <1>4, <1>6, <1>7, <1>8, <1>9 DEF Keeps, Calm
<1> QED
  BY <1>2, <1>3, <1>4, <1>10 DEF AbortOwned, NoCloser

\* The steps of a connect().
LEMMA ConnectMovesKeep ==
  ASSUME IInv, Calm(tc), ChannelHeld(tc), NEW p \in ConnProc,
         BindSucceeds(p) \/ BindCutOff(p) \/ BindFails(p) \/ ConnectBusy(p)
           \/ ConnectThrows(p) \/ ConnectClosed(p)
  PROVE  Keeps(tc, tc') /\ KeepsCourse(tc, tc')
<1> USE NoneIsNobody
<1>0. LoopConnects(tc)
  BY DEF IInv, Good
<1>1. tc.conn[p] # "idle"
  BY DEF BindSucceeds, BindCutOff, BindEnds, BindFails, ConnectBusy, ConnectThrows,
         ConnectClosed
<1>2. /\ \A q \in ConnProc \ {p} : tc.conn[q] = "idle"
      /\ \A d \in Closers : tc.closer[d] # "closing"
  BY <1>1, OneConnects DEF Calm, CloseAlone, Closing
<1>3. tc.conn[p] \in {"binding", "closing"} =>
        tc.transport = None /\ \A t \in Sockets : tc.sock[t] \notin {"open", "dead"}
  BY DEF Calm, OneTransport
<1>4. ASSUME NEW v \in {"open", "dead"}, BindEnds(p, v)
      PROVE  Keeps(tc, tc') /\ KeepsCourse(tc, tc')
  <2>1. tc.conn[p] = "binding"
    BY <1>4 DEF BindEnds
  <2>2. /\ Only(tc, tc', {"transport", "opening", "sock", "conn", "pendingResponse"})
        /\ tc'.transport = tc.opening[p]
        /\ \A t \in Sockets : tc'.sock[t] = IF t = tc.opening[p] THEN v ELSE tc.sock[t]
        /\ \A q \in ConnProc : q # p => tc'.conn[q] = tc.conn[q]
        /\ tc'.conn[p] \in {"response", "busy", "rejected"}
    BY <1>4, BindEndsGood
  <2>3. tc'.closer = tc.closer
    BY <2>2 DEF Only, Fields
  <2>4. OneTransport(tc')
    BY <1>2, <1>3, <2>1, <2>2, <2>3 DEF OneTransport
  <2> QED
    BY <1>1, <2>2, <2>4, ConnectStepKeeps
<1>5. CASE BindFails(p)
  <2>1. tc.conn[p] = "binding"
    BY <1>5 DEF BindFails
  <2>2. /\ Only(tc, tc', {"opening", "sock", "conn"})
        /\ \A t \in Sockets : tc'.sock[t] = IF t = tc.opening[p] THEN "free" ELSE tc.sock[t]
        /\ \A q \in ConnProc : tc'.conn[q] = IF q = p THEN "rejected" ELSE tc.conn[q]
    BY <1>5, BindFailsGood
  <2>3. /\ tc'.transport = tc.transport
        /\ Only(tc, tc', {"transport", "opening", "sock", "conn", "pendingResponse"})
    BY <2>2 DEF Only, Fields
  <2>4. OneTransport(tc')
    BY <1>3, <2>1, <2>2, <2>3 DEF OneTransport
  <2> QED
    BY <1>1, <2>2, <2>3, <2>4, ConnectStepKeeps
<1>6. CASE ConnectBusy(p)
  <2>1. /\ Only(tc, tc', {"conn"})
        /\ \A q \in ConnProc : tc'.conn[q] = IF q = p THEN "rejected" ELSE tc.conn[q]
    BY <1>6, ConnectBusyGood
  <2>2. /\ tc'.transport = tc.transport /\ tc'.sock = tc.sock /\ tc'.closer = tc.closer
        /\ Only(tc, tc', {"transport", "opening", "sock", "conn", "pendingResponse"})
    BY <2>1 DEF Only, Fields
  <2>3. OneTransport(tc')
    BY <1>2, <2>1, <2>2 DEF Calm, OneTransport
  <2> QED
    BY <1>1, <2>1, <2>2, <2>3, ConnectStepKeeps
<1>7. CASE ConnectThrows(p)
  <2>1. /\ Only(tc, tc', {"transport", "sock", "state", "conn", "opening", "loop"})
        /\ tc'.transport = None
        /\ \A t \in Sockets : tc'.sock[t] = IF t = tc.transport THEN "free" ELSE tc.sock[t]
        /\ \A q \in ConnProc \ {p} : tc'.conn[q] = tc.conn[q]
        /\ \/ tc'.conn[p] = "closing" /\ tc'.state = tc.state /\ tc'.loop = tc.loop
           \/ /\ tc'.conn[p] = "idle" /\ tc'.state = "disconnected"
              /\ IF p = Loop THEN tc'.loop = "delay" ELSE tc'.loop = tc.loop
    BY <1>7, ConnectThrowsGood
  <2>2. \A t \in Sockets : tc'.sock[t] \notin {"open", "dead"}
    BY <2>1 DEF Calm, OneTransport
  <2>3. CASE tc'.conn[p] = "closing" /\ tc'.state = tc.state /\ tc'.loop = tc.loop
    <3>1. OneTransport(tc')
      BY <2>1, <2>2 DEF OneTransport
    <3>2. Only(tc, tc', {"transport", "opening", "sock", "conn", "pendingResponse"})
      BY <2>1, <2>3 DEF Only, Fields
    <3> QED
      BY <1>1, <2>1, <2>3, <3>1, <3>2, ConnectStepKeeps
  <2>4. CASE /\ tc'.conn[p] = "idle" /\ tc'.state = "disconnected"
             /\ IF p = Loop THEN tc'.loop = "delay" ELSE tc'.loop = tc.loop
    BY <1>0, <1>1, <2>1, <2>2, <2>4, ConnectFailedKeeps
  <2> QED
    BY <2>1, <2>3, <2>4
<1>8. CASE ConnectClosed(p)
  <2>1. tc.conn[p] = "closing"
    BY <1>8 DEF ConnectClosed
  <2>2. /\ Only(tc, tc', {"state", "conn", "opening", "loop"})
        /\ tc'.state = "disconnected"
        /\ \A q \in ConnProc : tc'.conn[q] = IF q = p THEN "idle" ELSE tc.conn[q]
        /\ IF p = Loop THEN tc'.loop = "delay" ELSE tc'.loop = tc.loop
    BY <1>8, ConnectClosedGood
  <2>3. /\ tc'.transport = tc.transport /\ tc'.sock = tc.sock
        /\ Only(tc, tc', {"transport", "sock", "state", "conn", "opening", "loop"})
    BY <2>2 DEF Only, Fields
  <2>4. tc'.transport = None /\ \A t \in Sockets : tc'.sock[t] \notin {"open", "dead"}
    BY <1>3, <2>1, <2>3
  <2>5. tc'.conn[p] = "idle" /\ \A q \in ConnProc \ {p} : tc'.conn[q] = tc.conn[q]
    BY <2>2
  <2> QED
    BY <1>0, <1>1, <2>2, <2>3, <2>4, <2>5, ConnectFailedKeeps
<1>9. CASE BindSucceeds(p) \/ BindCutOff(p)
  BY <1>4, <1>9 DEF BindSucceeds, BindCutOff
<1> QED
  BY <1>5, <1>6, <1>7, <1>8, <1>9

\* The gateway's answer to it.
LEMMA ConnectResponseKeeps ==
  ASSUME IInv, Calm(tc), ChannelHeld(tc), NEW ok \in BOOLEAN, NEW ch \in Channels,
         RxConnectResponse(ok, ch)
  PROVE  Keeps(tc, tc') /\ KeepsCourse(tc, tc')
<1> USE NoneIsNobody
<1> DEFINE p == tc.pendingResponse.owner
<1>1. /\ LoopConnects(tc) /\ ClosersAreServed(tc)
      /\ p \in ConnProc => tc.conn[p] = "response"
      /\ p \in ConnProc \cup {None}
  BY DEF IInv, Good, Sound, ResponseOwnerWaits, OwnerOfItsKind, RxConnectResponse
<1>2. tc.transport # None
  BY DEF RxConnectResponse, Listening, Calm, OneTransport
<1>3. /\ p = None \/ ~ok =>
           /\ Only(tc, tc', {"pendingResponse", "conn"})
           /\ \A q \in ConnProc : tc'.conn[q] = IF q = p THEN "rejected" ELSE tc.conn[q]
      /\ p # None /\ ok =>
           /\ Only(tc, tc', {"pendingResponse", "channelId", "heartbeatTimer", "state",
                             "conn", "opening", "loop", "closer", "sender"})
           /\ tc'.channelId = ch /\ tc'.state = "connected"
           /\ Beats # {} <=> tc'.heartbeatTimer
           /\ \A q \in ConnProc : tc'.conn[q] = IF q = p THEN "idle" ELSE tc.conn[q]
           /\ \A d \in Closers : tc'.closer[d] =
                IF p = Loop /\ tc.closer[d] = "reconnecting" THEN "resumed"
                ELSE tc.closer[d]
           /\ tc'.loop = IF p = Loop THEN "none" ELSE tc.loop
  BY RxConnectResponseGood
<1> HIDE DEF p
<1>4. CASE p # None /\ ok
  <2>1. p \in ConnProc /\ tc.conn[p] = "response" /\ tc'.channelId # None
        /\ tc'.state = "connected" /\ (Beats # {} => tc'.heartbeatTimer)
    BY <1>1, <1>3, <1>4
  <2> QED
    BY <1>1, <1>2, <1>3, <1>4, <2>1, ConnectedKeeps
<1>5. CASE p = None \/ ~ok
  <2>1. /\ Only(tc, tc', {"pendingResponse", "conn"})
        /\ \A q \in ConnProc : tc'.conn[q] = IF q = p THEN "rejected" ELSE tc.conn[q]
    BY <1>3, <1>5
  <2>2. /\ tc'.transport = tc.transport /\ tc'.sock = tc.sock /\ tc'.closer = tc.closer
        /\ tc'.state = tc.state
        /\ Only(tc, tc', {"transport", "opening", "sock", "conn", "pendingResponse"})
    BY <2>1 DEF Only, Fields
  <2>3. CASE p \in ConnProc
    <3>1. OneTransport(tc')
      BY <1>1, <2>1, <2>2, <2>3 DEF Calm, OneTransport
    <3> QED
      BY <1>1, <2>1, <2>2, <2>3, <3>1, ConnectStepKeeps
  <2>4. CASE p = None
    <3>1. tc'.conn = tc.conn
      <4>1. tc.conn \in [ConnProc -> ConnPc] /\ tc'.conn \in [ConnProc -> ConnPc]
        BY RxConnectResponseGood DEF IInv, Good, Sound, ClientState
      <4>2. \A q \in ConnProc : tc'.conn[q] = tc.conn[q]
        BY <2>1, <2>4
      <4> QED
        BY <4>1, <4>2
    <3>2. Only(tc, tc', Plain)
      BY <2>1, <3>1 DEF Only, Fields, Plain
    <3>3. /\ tc'.invalidSeqTimer = tc.invalidSeqTimer
          /\ tc'.beat = tc.beat /\ tc'.sender = tc.sender
      BY <2>1 DEF Only, Fields
    <3>4. \/ NoCaller(tc)
          \/ (\A h \in Beats : tc'.beat[h].pc = "idle") /\ tc'.sender.pc = "idle"
      BY <3>3 DEF Calm, FreshConnect, NoCaller
    <3> QED
      BY <2>2, <3>2, <3>3, <3>4, PlainKeeps
  <2> QED
    BY <1>1, <2>3, <2>4
<1> QED
  BY <1>4, <1>5

\* A plain step before, or after, one that keeps its course.
LEMMA PlainBefore ==
  ASSUME NEW w, NEW x, NEW y, Only(w, x, Plain \cup {"channelId"}),
         Keeps(x, y), KeepsCourse(x, y)
  PROVE  Keeps(w, y) /\ KeepsCourse(w, y)
<1>1. /\ x.autoReconnect = w.autoReconnect /\ x.state = w.state /\ x.loop = w.loop
      /\ x.reconnectAbort = w.reconnectAbort /\ x.conn = w.conn /\ x.closer = w.closer
  BY DEF Only, Fields, Plain
<1>2. Keeps(w, y)
  BY <1>1 DEF Keeps
<1>3. KeepsCourse(w, y)
  BY <1>1 DEF KeepsCourse, NoCloser, NoCaller, HeadsDown, AbortOwned
<1> QED
  BY <1>2, <1>3

LEMMA PlainAfter ==
  ASSUME NEW x, NEW y, NEW z, Keeps(x, y), KeepsCourse(x, y), NoCaller(y),
         Only(y, z, {"pendingAck", "sender"})
  PROVE  Keeps(x, z) /\ KeepsCourse(x, z)
<1>1. /\ z.autoReconnect = y.autoReconnect /\ z.state = y.state /\ z.loop = y.loop
      /\ z.reconnectAbort = y.reconnectAbort /\ z.conn = y.conn /\ z.closer = y.closer
      /\ z.sock = y.sock /\ z.invalidSeqTimer = y.invalidSeqTimer
      /\ Only(y, z, Plain)
  BY DEF Only, Fields, Plain
<1>2. Calm(z) /\ ChannelHeld(z)
  BY <1>1, PlainKeeps DEF Keeps
<1>3. Keeps(x, z)
  BY <1>1, <1>2 DEF Keeps
<1>4. KeepsCourse(x, z)
  BY <1>1 DEF KeepsCourse, NoCloser, NoCaller, HeadsDown, AbortOwned
<1> QED
  BY <1>3, <1>4

\* The steps of a disconnect() that has set the state.
LEMMA FinallyKeeps ==
  ASSUME Good(tc), Calm(tc), NEW x \in ClientState, Calm(x),
         Only(tc, x, {"sock", "pendingResponse"}),
         NEW d \in Closers, tc.closer[d] \in Closing, NEW y, y = DisconnectFinally(x, d)
  PROVE  Keeps(x, y) /\ KeepsCourse(x, y)
<1>1. x.closer = tc.closer /\ x.loop = tc.loop
  BY DEF Only, Fields
<1>2. \A e \in Closers : x.closer[e] = "reconnecting" => x.loop # "none"
  BY <1>1 DEF Good, Sound, ClosersAreServed
<1>3. /\ Only(x, y, {"channelId", "state", "reconnectAbort", "closer", "transport", "sock"})
      /\ y.transport = None
      /\ \A t \in Sockets : y.sock[t] = IF t = x.transport THEN "free" ELSE x.sock[t]
      /\ \A e \in Closers \ {d} : y.closer[e] = x.closer[e]
      /\ \/ /\ y.closer[d] = "closing" /\ y.state = x.state
            /\ y.reconnectAbort = x.reconnectAbort /\ y.channelId = x.channelId
         \/ /\ y.closer[d] = "idle" /\ y.state = "disconnected"
            /\ ~y.reconnectAbort /\ y.channelId = None
  BY DisconnectFinallyFields
<1>4. \A t \in Sockets : y.sock[t] \notin {"open", "dead"}
  BY <1>3 DEF Calm, OneTransport
<1>5. x.closer[d] \in Closing
  BY <1>1
<1> QED
  BY <1>2, <1>3, <1>4, <1>5, ClosingKeeps

LEMMA DisconnectMovesKeep ==
  ASSUME IInv, Calm(tc), ChannelHeld(tc),
         \/ RxDisconnectResponse
         \/ \E t \in Sockets : PeerCloses(t) \/ NetworkFails(t) \/ NetworkReturns(t)
         \/ \E d \in Closers : DisconnectTolerates(d) \/ DisconnectClosed(d)
  PROVE  Keeps(tc, tc') /\ KeepsCourse(tc, tc')
<1>0. Good(tc) /\ tc \in ClientState
  BY DEF IInv, Good, Sound
<1>1. ASSUME NEW x \in ClientState, Only(tc, x, {"sock", "pendingResponse"}),
             \A t \in Sockets : x.sock[t] \in {"open", "dead"}
                                  => tc.sock[t] \in {"open", "dead"},
             \/ tc' = x
             \/ \E d \in Closers : /\ tc.closer[d] = "response"
                                   /\ tc' = DisconnectFinally(x, d)
      PROVE  Keeps(tc, tc') /\ KeepsCourse(tc, tc')
  <2>1. /\ Only(tc, x, Plain) /\ Only(tc, x, Plain \cup {"channelId"})
        /\ x.invalidSeqTimer = tc.invalidSeqTimer
        /\ x.beat = tc.beat /\ x.sender = tc.sender
    BY <1>1 DEF Only, Fields, Plain
  <2>2. \/ NoCaller(tc)
        \/ (\A h \in Beats : x.beat[h].pc = "idle") /\ x.sender.pc = "idle"
    BY <2>1 DEF Calm, FreshConnect, NoCaller
  <2>3. Keeps(tc, x) /\ KeepsCourse(tc, x)
    BY <1>1, <2>1, <2>2, PlainKeeps
  <2>4. CASE tc' = x
    BY <2>3, <2>4
  <2>5. ASSUME NEW d \in Closers, tc.closer[d] = "response", tc' = DisconnectFinally(x, d)
        PROVE  Keeps(tc, tc') /\ KeepsCourse(tc, tc')
    <3>1. Calm(x) /\ tc.closer[d] \in Closing
      BY <2>3, <2>5 DEF Keeps, Closing
    <3>2. Keeps(x, tc') /\ KeepsCourse(x, tc')
      BY <1>0, <1>1, <2>5, <3>1, FinallyKeeps
    <3> QED
      BY <2>1, <3>2, PlainBefore
  <2> QED
    BY <1>1, <2>4, <2>5
<1>2. CASE RxDisconnectResponse
  <2>1. PICK x \in ClientState :
          /\ Only(tc, x, {"pendingResponse"})
          /\ \/ tc' = x
             \/ \E d \in Closers : /\ tc.closer[d] = "response"
                                   /\ tc' = DisconnectFinally(x, d)
    BY <1>2, RxDisconnectResponseGood
  <2>2. Only(tc, x, {"sock", "pendingResponse"}) /\ x.sock = tc.sock
    BY <2>1 DEF Only, Fields
  <2> QED
    BY <1>1, <2>1, <2>2
<1>3. ASSUME NEW t \in Sockets, PeerCloses(t)
      PROVE  Keeps(tc, tc') /\ KeepsCourse(tc, tc')
  <2>1. PICK x \in ClientState :
          /\ Only(tc, x, {"sock", "pendingResponse"})
          /\ \A u \in Sockets : x.sock[u] = IF u = t THEN "dead" ELSE tc.sock[u]
          /\ \/ tc' = x
             \/ \E d \in Closers : /\ tc.closer[d] = "response"
                                   /\ tc' = DisconnectFinally(x, d)
    BY <1>3, PeerClosesGood
  <2>2. tc.sock[t] = "open"
    BY <1>3 DEF PeerCloses
  <2>3. \A u \in Sockets : x.sock[u] \in {"open", "dead"} => tc.sock[u] \in {"open", "dead"}
    BY <2>1, <2>2
  <2> QED
    BY <1>1, <2>1, <2>3
<1>6. ASSUME NEW t \in Sockets, NetworkFails(t) \/ NetworkReturns(t)
      PROVE  Keeps(tc, tc') /\ KeepsCourse(tc, tc')
  <2>1. /\ Good(tc') /\ Only(tc, tc', {"sock"})
        /\ \A u \in Sockets : tc'.sock[u] \in {"open", "dead"}
                              => tc.sock[u] \in {"open", "dead"}
    BY <1>6, NetworkTurnsGood
  <2>2. tc' \in ClientState /\ Only(tc, tc', {"sock", "pendingResponse"})
    BY <2>1 DEF Good, Sound, Only
  <2> QED
    BY <1>1, <2>1, <2>2
<1>4. ASSUME NEW d \in Closers, DisconnectTolerates(d)
      PROVE  Keeps(tc, tc') /\ KeepsCourse(tc, tc')
  <2>1. tc.closer[d] \in Closing /\ tc' = DisconnectFinally(tc, d)
    BY <1>4 DEF DisconnectTolerates, Closing
  <2>2. Only(tc, tc, {"sock", "pendingResponse"})
    BY DEF Only
  <2> QED
    BY <1>0, <2>1, <2>2, FinallyKeeps
<1>5. ASSUME NEW d \in Closers, DisconnectClosed(d)
      PROVE  Keeps(tc, tc') /\ KeepsCourse(tc, tc')
  <2>1. tc.closer[d] = "closing" /\ tc' = DisconnectEnds(tc, d)
    BY <1>5 DEF DisconnectClosed
  <2>2. /\ Only(tc, tc', {"channelId", "state", "reconnectAbort", "closer"})
        /\ tc'.channelId = None /\ tc'.state = "disconnected" /\ ~tc'.reconnectAbort
        /\ \A e \in Closers : tc'.closer[e] = IF e = d THEN "idle" ELSE tc.closer[e]
    BY <1>0, <2>1, DisconnectEndsFields
  <2>3. /\ tc'.transport = tc.transport /\ tc'.sock = tc.sock
        /\ Only(tc, tc', {"channelId", "state", "reconnectAbort", "closer",
                          "transport", "sock"})
    BY <2>2 DEF Only, Fields
  <2>4. tc'.transport = None /\ \A t \in Sockets : tc'.sock[t] \notin {"open", "dead"}
    BY <2>1, <2>3, NoneIsNobody DEF Calm, OneTransport
  <2>5. \A e \in Closers : tc.closer[e] = "reconnecting" => tc.loop # "none"
    BY <1>0 DEF Good, Sound, ClosersAreServed
  <2>6. tc.closer[d] \in Closing /\ tc'.closer[d] = "idle"
        /\ \A e \in Closers \ {d} : tc'.closer[e] = tc.closer[e]
    BY <2>1, <2>2 DEF Closing
  <2> QED
    BY <2>2, <2>3, <2>4, <2>5, <2>6, ClosingKeeps
<1> QED
  BY <1>2, <1>3, <1>4, <1>5, <1>6

\* The heartbeat, the sender, and what the gateway sends unasked.
LEMMA CallerAlone ==
  ASSUME NEW x, Calm(x), ~NoCaller(x)
  PROVE  /\ x.state = "connecting" /\ x.loop = "none"
         /\ \A h \in Beats : x.beat[h].pc = "idle"
         /\ x.sender.pc = "idle"
BY DEF Calm, FreshConnect, NoCaller

LEMMA HeartbeatKeeps ==
  ASSUME IInv, Calm(tc), ChannelHeld(tc), NEW h \in Beats,
         HeartbeatTick(h) \/ HeartbeatBusy(h) \/ HeartbeatGoesOn(h)
  PROVE  Keeps(tc, tc') /\ KeepsCourse(tc, tc')
<1>1. NoCaller(tc)
  <2>1. tc.heartbeatTimer => tc.state = "connected"
    BY DEF Calm, UpWhole
  <2>2. tc.heartbeatTimer \/ tc.beat[h].pc # "idle"
    BY DEF HeartbeatTick, HeartbeatBusy, HeartbeatGoesOn
  <2> QED
    BY <2>1, <2>2, CallerAlone
<1>2. \/ Only(tc, tc', {"pendingResponse", "beat"})
      \/ \E x : /\ Good(x) /\ Only(tc, x, {"beat"})
                /\ x.loop = "none" => HasFree(x)
                /\ tc' = OnTunnelLost(x)
  <2>1. CASE HeartbeatTick(h)
    BY <2>1, HeartbeatTickGood
  <2>2. CASE HeartbeatBusy(h)
    BY <2>2, HeartbeatBusyGood DEF Only
  <2>3. CASE HeartbeatGoesOn(h)
    BY <2>3, HeartbeatGoesOnGood
  <2> QED
    BY <2>1, <2>2, <2>3
<1>3. CASE Only(tc, tc', {"pendingResponse", "beat"})
  <2>1. Only(tc, tc', Plain) /\ tc'.sock = tc.sock /\ tc'.invalidSeqTimer = tc.invalidSeqTimer
    BY <1>3 DEF Only, Fields, Plain
  <2> QED
    BY <1>1, <2>1, PlainKeeps
<1>4. ASSUME NEW x, Good(x), Only(tc, x, {"beat"}), x.loop = "none" => HasFree(x),
             tc' = OnTunnelLost(x)
      PROVE  Keeps(tc, tc') /\ KeepsCourse(tc, tc')
  <2>1. /\ Only(tc, x, Plain) /\ Only(tc, x, Plain \cup {"channelId"})
        /\ x.sock = tc.sock /\ x.invalidSeqTimer = tc.invalidSeqTimer /\ x.conn = tc.conn
    BY <1>4 DEF Only, Fields, Plain
  <2>2. Calm(x) /\ NoCaller(x)
    BY <1>1, <2>1, PlainKeeps DEF Keeps, NoCaller
  <2>3. Keeps(x, tc') /\ KeepsCourse(x, tc')
    BY <1>4, <2>2, LossKeeps
  <2> QED
    BY <2>1, <2>3, PlainBefore
<1> QED
  BY <1>2, <1>3, <1>4

LEMMA ConnectionStateKeeps ==
  ASSUME IInv, Calm(tc), ChannelHeld(tc), NEW ok \in BOOLEAN, RxConnectionStateResponse(ok)
  PROVE  Keeps(tc, tc') /\ KeepsCourse(tc, tc')
<1>1. /\ Only(tc, tc', {"pendingResponse", "beat"})
      /\ \A g \in Beats : tc.beat[g].pc = "idle" => tc'.beat[g].pc = "idle"
  BY RxConnectionStateResponseGood
<1>2. /\ Only(tc, tc', Plain) /\ tc'.sock = tc.sock /\ tc'.sender = tc.sender
      /\ tc'.invalidSeqTimer = tc.invalidSeqTimer
  BY <1>1 DEF Only, Fields, Plain
<1>3. \/ NoCaller(tc)
      \/ (\A g \in Beats : tc'.beat[g].pc = "idle") /\ tc'.sender.pc = "idle"
  BY <1>1, <1>2, CallerAlone
<1> QED
  BY <1>2, <1>3, PlainKeeps

LEMMA SenderKeeps ==
  ASSUME IInv, Calm(tc), ChannelHeld(tc),
         \/ SendCemi \/ SendBusy \/ AckTimeout \/ \E ok \in BOOLEAN : RxTunnellingAck(ok)
         \/ SendGoesOn \/ SendResumes
  PROVE  Keeps(tc, tc') /\ KeepsCourse(tc, tc')
<1>1. ASSUME Only(tc, tc', {"pendingAck", "sender"}), NoCaller(tc) \/ tc'.sender.pc = "idle"
      PROVE  Keeps(tc, tc') /\ KeepsCourse(tc, tc')
  <2>1. /\ Only(tc, tc', Plain) /\ tc'.sock = tc.sock /\ tc'.beat = tc.beat
        /\ tc'.invalidSeqTimer = tc.invalidSeqTimer
    BY <1>1 DEF Only, Fields, Plain
  <2>2. NoCaller(tc) \/ ((\A g \in Beats : tc'.beat[g].pc = "idle") /\ tc'.sender.pc = "idle")
    BY <1>1, <2>1, CallerAlone
  <2> QED
    BY <2>1, <2>2, PlainKeeps
<1>2. CASE SendCemi \/ SendBusy \/ AckTimeout \/ \E ok \in BOOLEAN : RxTunnellingAck(ok)
  <2>1. /\ Only(tc, tc', {"pendingAck", "sender"})
        /\ tc.sender.pc = "idle" =>
             tc'.sender.pc = "idle" \/ tc.state = "connected" \/ tc.loop # "none"
    BY <1>2, SenderCallbacksGood
  <2>2. NoCaller(tc) \/ tc'.sender.pc = "idle"
    BY <2>1, CallerAlone
  <2> QED
    BY <1>1, <2>1, <2>2
<1>3. CASE SendGoesOn
  <2>1. /\ tc.sender.pc = "rejected"
        /\ \/ Only(tc, tc', {"pendingAck", "sender"})
           \/ \E x : /\ Good(x) /\ Only(tc, x, {"sender"})
                     /\ x.loop = "none" => HasFree(x)
                     /\ Only(OnTunnelLost(x), tc', {"pendingAck", "sender"})
    BY <1>3, SendGoesOnGood
  <2>2. NoCaller(tc)
    BY <2>1, CallerAlone
  <2>3. ASSUME NEW x, Good(x), Only(tc, x, {"sender"}), x.loop = "none" => HasFree(x),
               Only(OnTunnelLost(x), tc', {"pendingAck", "sender"})
        PROVE  Keeps(tc, tc') /\ KeepsCourse(tc, tc')
    <3> DEFINE y == OnTunnelLost(x)
    <3>1. /\ Only(tc, x, Plain) /\ Only(tc, x, Plain \cup {"channelId"})
          /\ x.sock = tc.sock /\ x.invalidSeqTimer = tc.invalidSeqTimer /\ x.conn = tc.conn
      BY <2>3 DEF Only, Fields, Plain
    <3>2. Calm(x) /\ NoCaller(x)
      BY <2>2, <3>1, PlainKeeps DEF Keeps, NoCaller
    <3>3. Keeps(x, y) /\ KeepsCourse(x, y) /\ NoCaller(y)
      BY <2>3, <3>2, LossKeeps
    <3>4. Only(y, tc', {"pendingAck", "sender"})
      BY <2>3
    <3> HIDE DEF y
    <3>5. Keeps(x, tc') /\ KeepsCourse(x, tc')
      BY <3>3, <3>4, PlainAfter
    <3> QED
      BY <3>1, <3>5, PlainBefore
  <2> QED
    BY <1>1, <2>1, <2>2, <2>3
<1>4. CASE SendResumes
  <2>1. Only(tc, tc', {"pendingAck", "sender"}) /\ tc.sender.pc = "resumed"
    BY <1>4, SendResumesGood
  <2> QED
    BY <1>1, <2>1, CallerAlone
<1> QED
  BY <1>2, <1>3, <1>4

LEMMA GatewayKeeps ==
  ASSUME IInv, Calm(tc), ChannelHeld(tc), ~StrayRequests,
         \/ \E inOrder \in BOOLEAN : RxTunnellingRequest(inOrder)
         \/ RxDisconnectRequest \/ InvalidSeqTimeout
  PROVE  Keeps(tc, tc') /\ KeepsCourse(tc, tc')
<1>1. CASE \E inOrder \in BOOLEAN : RxTunnellingRequest(inOrder)
  <2>1. /\ Only(tc, tc', {"invalidSeqTimer"})
        /\ tc'.invalidSeqTimer => tc.invalidSeqTimer \/ tc.state = "connected"
    BY <1>1, RxTunnellingRequestGood
  <2>2. /\ Only(tc, tc', Plain) /\ tc'.sock = tc.sock /\ tc'.beat = tc.beat
        /\ tc'.sender = tc.sender
    BY <2>1 DEF Only, Fields, Plain
  <2>3. \/ NoCaller(tc)
        \/ (\A g \in Beats : tc'.beat[g].pc = "idle") /\ tc'.sender.pc = "idle"
    BY <2>2, CallerAlone
  <2> QED
    BY <2>1, <2>2, <2>3, PlainKeeps
<1>2. CASE RxDisconnectRequest \/ InvalidSeqTimeout
  <2>1. PICK x : /\ Good(x) /\ Only(tc, x, {"channelId", "invalidSeqTimer"})
                 /\ x.loop = "none" => HasFree(x)
                 /\ x.invalidSeqTimer => tc.invalidSeqTimer
                 /\ x.channelId # None => tc.channelId # None
                 /\ tc' = OnTunnelLost(x)
    BY <1>2, LossGood
  <2>2. /\ Only(tc, x, Plain \cup {"channelId"})
        /\ x.state = tc.state /\ x.transport = tc.transport /\ x.sock = tc.sock
        /\ x.heartbeatTimer = tc.heartbeatTimer /\ x.reconnectAbort = tc.reconnectAbort
        /\ x.loop = tc.loop /\ x.conn = tc.conn /\ x.beat = tc.beat
        /\ x.closer = tc.closer /\ x.sender = tc.sender
    BY <2>1 DEF Only, Fields, Plain
  <2>3. Calm(x)
    <3>1. UpWhole(x)
      BY <2>1, <2>2 DEF Calm, UpWhole
    <3>2. FreshConnect(x) /\ OneTransport(x) /\ CloseAlone(x)
      BY <2>2 DEF Calm, FreshConnect, OneTransport, CloseAlone
    <3> QED
      BY <3>1, <3>2 DEF Calm
  <2>4. NoCaller(x)
    <3>1. tc.channelId # None \/ tc.invalidSeqTimer
      BY <1>2 DEF RxDisconnectRequest, InvalidSeqTimeout
    <3>2. \A p \in Callers : tc.conn[p] = "idle"
      BY <3>1 DEF Calm, UpWhole, ConnProc
    <3> QED
      BY <2>2, <3>2 DEF NoCaller
  <2>5. Keeps(x, tc') /\ KeepsCourse(x, tc')
    BY <2>1, <2>3, <2>4, LossKeeps
  <2> QED
    BY <2>2, <2>5, PlainBefore
<1> QED
  BY <1>1, <1>2

LEMMA DisconnectResumesKeeps ==
  ASSUME IInv, Calm(tc), ChannelHeld(tc), NEW d \in Closers, DisconnectResumes(d)
  PROVE  Keeps(tc, tc') /\ KeepsCourse(tc, tc')
<1>1. Good(tc) /\ tc.closer[d] = "resumed"
  BY DEF IInv, DisconnectResumes
<1>2. tc.loop = "none" /\ NoCaller(tc) /\ \A p \in ConnProc : tc.conn[p] = "idle"
  <2>1. tc.loop = "none"
    BY <1>1 DEF Calm, CloseAlone
  <2>2. NoCaller(tc)
    BY <1>1 DEF Calm, FreshConnect, NoCaller
  <2> QED
    BY <1>1, <2>1, <2>2 DEF Good, LoopConnects, NoCaller, ConnProc
<1>3. CASE tc.state = "disconnected"
  <2>1. /\ Only(tc, tc', {"closer"})
        /\ \A e \in Closers : tc'.closer[e] = IF e = d THEN "idle" ELSE tc.closer[e]
    BY <1>3, DisconnectResumesGood
  <2>2. /\ tc'.autoReconnect = tc.autoReconnect /\ tc'.state = tc.state
        /\ tc'.transport = tc.transport /\ tc'.sock = tc.sock
        /\ tc'.channelId = tc.channelId /\ tc'.heartbeatTimer = tc.heartbeatTimer
        /\ tc'.invalidSeqTimer = tc.invalidSeqTimer /\ tc'.loop = tc.loop
        /\ tc'.reconnectAbort = tc.reconnectAbort /\ tc'.conn = tc.conn
    BY <2>1 DEF Only, Fields
  <2>3. NoCaller(tc') /\ FreshConnect(tc')
    BY <1>2, <2>2 DEF NoCaller, FreshConnect
  <2>4. UpWhole(tc') /\ OneTransport(tc')
    BY <2>1, <2>2 DEF Calm, UpWhole, OneTransport
  <2>5. CloseAlone(tc')
    BY <2>1, <2>2 DEF Calm, CloseAlone, Closing
  <2>6. Keeps(tc, tc')
    BY <2>2, <2>3, <2>4, <2>5 DEF Keeps, Calm, ChannelHeld
  <2>7. HeadsDown(tc')
    BY <1>2, <1>3, <2>2 DEF HeadsDown
  <2>8. AbortOwned(tc) => AbortOwned(tc')
    BY <1>1, <2>1, <2>2 DEF AbortOwned, Closing
  <2>9. ~NoCloser(tc)
    BY <1>1 DEF NoCloser
  <2> QED
    BY <1>3, <2>3, <2>6, <2>7, <2>8, <2>9 DEF KeepsCourse
<1>4. CASE tc.state # "disconnected"
  <2>1. tc' = CloseDown(tc, d)
    BY <1>4 DEF DisconnectResumes
  <2>2. Keeps(tc, tc') /\ NoCaller(tc') /\ HeadsDown(tc') /\ AbortOwned(tc')
    BY <1>1, <1>2, <1>4, <2>1, CloseDownKeeps
  <2>3. ~ \A e \in Closers : tc.closer[e] = "idle"
    BY <1>1
  <2> QED
    BY <2>2, <2>3 DEF KeepsCourse, NoCloser
<1> QED
  BY <1>3, <1>4

\* disconnect() called by an orderly owner.
LEMMA DisconnectCallKeeps ==
  ASSUME IInv, Calm(tc), ChannelHeld(tc), NEW d \in Closers, DisconnectCall(d),
         Situation(tc) \in {"connected", "reconnecting", "retrying"}
  PROVE  /\ Keeps(tc, tc') /\ NoCaller(tc')
         /\ Situation(tc) # "retrying" => HeadsDown(tc')
         /\ Situation(tc) = "connected" => AbortOwned(tc') /\ tc'.state = "disconnecting"
         /\ tc.state = "connected" => Situation(tc) = "connected"
<1>1. Good(tc) /\ tc.closer[d] = "idle"
  BY DEF IInv, DisconnectCall
<1>2. tc.state = "connected" => tc.loop = "none"
  BY DEF Calm, UpWhole
<1>3. /\ tc.loop = "none" => tc.state = "connected" /\ Situation(tc) = "connected"
      /\ tc.loop # "none" =>
           /\ tc.state \in {"connecting", "disconnected"}
           /\ Situation(tc) = IF tc.state = "disconnected" THEN "retrying" ELSE "reconnecting"
  <2>1. tc.state \in TunnelState
    BY <1>1 DEF Good, Sound, ClientState
  <2>2. tc.loop # "none" => tc.state # "disconnecting"
    BY DEF Calm, UpWhole
  <2> QED
    BY <1>2, <2>1, <2>2 DEF Situation, TunnelState
<1>4. NoCaller(tc)
  BY <1>2, <1>3, CallerAlone
<1>5. CASE tc.state = "disconnected"
  <2>1. tc' = tc
    BY <1>5, DisconnectCallGood
  <2> QED
    BY <1>3, <1>4, <1>5, <2>1 DEF Keeps
<1>6. CASE tc.state # "disconnected" /\ tc.loop # "none"
  <2>1. /\ Only(tc, tc', {"reconnectAbort", "closer"})
        /\ tc'.reconnectAbort
        /\ \A e \in Closers : tc'.closer[e] = IF e = d THEN "reconnecting" ELSE tc.closer[e]
    BY <1>6, DisconnectCallGood
  <2>2. /\ tc'.autoReconnect = tc.autoReconnect /\ tc'.state = tc.state
        /\ tc'.transport = tc.transport /\ tc'.sock = tc.sock
        /\ tc'.channelId = tc.channelId /\ tc'.heartbeatTimer = tc.heartbeatTimer
        /\ tc'.invalidSeqTimer = tc.invalidSeqTimer /\ tc'.loop = tc.loop
        /\ tc'.conn = tc.conn
    BY <2>1 DEF Only, Fields
  <2>3. NoCaller(tc') /\ FreshConnect(tc')
    BY <1>4, <2>2 DEF NoCaller, FreshConnect
  <2>4. UpWhole(tc') /\ OneTransport(tc')
    BY <2>1, <2>2 DEF Calm, UpWhole, OneTransport
  <2>5. CloseAlone(tc')
    BY <1>6, <2>1, <2>2 DEF Calm, CloseAlone, Closing
  <2>6. Keeps(tc, tc')
    BY <1>2, <1>6, <2>2, <2>3, <2>4, <2>5 DEF Keeps, Calm, ChannelHeld
  <2>7. HeadsDown(tc')
    BY <1>6, <2>1, <2>2 DEF HeadsDown
  <2> QED
    BY <1>2, <1>3, <1>6, <2>3, <2>6, <2>7
<1>7. CASE tc.state # "disconnected" /\ tc.loop = "none"
  <2>1. PICK x : /\ Good(x) /\ Only(tc, x, {"reconnectAbort"}) /\ x.reconnectAbort
                 /\ tc' = CloseDown(x, d)
    BY <1>7, DisconnectCallGood
  <2>2. /\ x.autoReconnect = tc.autoReconnect /\ x.state = tc.state
        /\ x.transport = tc.transport /\ x.sock = tc.sock
        /\ x.channelId = tc.channelId /\ x.heartbeatTimer = tc.heartbeatTimer
        /\ x.invalidSeqTimer = tc.invalidSeqTimer /\ x.loop = tc.loop
        /\ x.conn = tc.conn /\ x.beat = tc.beat /\ x.closer = tc.closer
        /\ x.sender = tc.sender
    BY <2>1 DEF Only, Fields
  <2>3. Calm(x)
    <3>1. FreshConnect(x) /\ UpWhole(x) /\ OneTransport(x)
      BY <2>2 DEF Calm, FreshConnect, UpWhole, OneTransport
    <3>2. CloseAlone(x)
      BY <2>1, <2>2 DEF Calm, CloseAlone
    <3> QED
      BY <3>1, <3>2 DEF Calm
  <2>4. /\ x.loop = "none" /\ x.state = "connected" /\ x.closer[d] = "idle"
        /\ \A p \in ConnProc : x.conn[p] = "idle"
        /\ x.channelId # None /\ x.transport # None
    BY <1>1, <1>3, <1>7, <2>2 DEF Calm, UpWhole, ChannelHeld
  <2>5. /\ Keeps(x, tc') /\ NoCaller(tc') /\ HeadsDown(tc') /\ AbortOwned(tc')
        /\ tc'.state = "disconnecting"
    BY <2>1, <2>3, <2>4, CloseDownKeeps
  <2>6. Keeps(tc, tc')
    BY <2>2, <2>5 DEF Keeps
  <2> QED
    BY <1>3, <1>7, <2>5, <2>6
<1> QED
  BY <1>5, <1>6, <1>7

\* What the client does of its own, and a send.
LEMMA ClientStepKeeps ==
  ASSUME IInv, Calm(tc), ChannelHeld(tc), ~StrayRequests,
         SendCemi \/ FrameReceived \/ SocketEvent \/ TimerFires \/ Continuation
  PROVE  Keeps(tc, tc') /\ KeepsCourse(tc, tc') /\ user' = user
<1>1. CASE SendCemi
  BY <1>1, SenderKeeps DEF SendCemi
<1>2. CASE FrameReceived
  <2>1. user' = user
    BY <1>2 DEF FrameReceived, RxConnectResponse, RxConnectionStateResponse,
                RxTunnellingAck, RxTunnellingRequest, RxDisconnectResponse,
                RxDisconnectRequest
  <2>2. Keeps(tc, tc') /\ KeepsCourse(tc, tc')
    BY <1>2, ConnectResponseKeeps, ConnectionStateKeeps, SenderKeeps, GatewayKeeps,
       DisconnectMovesKeep DEF FrameReceived
  <2> QED
    BY <2>1, <2>2
<1>3. CASE SocketEvent
  <2>1. user' = user
    BY <1>3 DEF SocketEvent, BindSucceeds, BindCutOff, BindEnds, BindFails, ConnectBusy,
                ConnectClosed, DisconnectClosed, HeartbeatBusy, SendBusy, PeerCloses,
                NetworkFails, NetworkReturns
  <2>2. Keeps(tc, tc') /\ KeepsCourse(tc, tc')
    BY <1>3, ConnectMovesKeep, DisconnectMovesKeep, HeartbeatKeeps, SenderKeeps
       DEF SocketEvent
  <2> QED
    BY <2>1, <2>2
<1>4. CASE TimerFires
  <2>1. user' = user
    BY <1>4 DEF TimerFires, ResponseTimeout, AckTimeout, InvalidSeqTimeout, LoopRetries,
                HeartbeatTick
  <2>2. Keeps(tc, tc') /\ KeepsCourse(tc, tc')
    BY <1>4, ResponseTimeoutKeeps, SenderKeeps, GatewayKeeps, LoopRetriesKeeps,
       HeartbeatKeeps DEF TimerFires
  <2> QED
    BY <2>1, <2>2
<1>5. CASE Continuation
  <2>1. user' = user
    BY <1>5 DEF Continuation, ConnectThrows, DisconnectResumes, DisconnectTolerates,
                HeartbeatGoesOn, SendGoesOn, SendResumes
  <2>2. Keeps(tc, tc') /\ KeepsCourse(tc, tc')
    BY <1>5, ConnectMovesKeep, DisconnectResumesKeeps, DisconnectMovesKeep, HeartbeatKeeps,
       SenderKeeps DEF Continuation
  <2> QED
    BY <2>1, <2>2
<1> QED
  BY <1>1, <1>2, <1>3, <1>4, <1>5

\* Every step, of an orderly owner and a gateway that answers only.
Restrained == ~ConnectAnyTime /\ ~StrayRequests

LEMMA NextKeeps ==
  ASSUME IInv, Orderly, Calm(tc), ChannelHeld(tc), Restrained, Next
  PROVE  /\ Keeps(tc, tc')
         /\ \/ KeepsCourse(tc, tc') /\ user' = user
            \/ /\ AbortOwned(tc) => AbortOwned(tc')
               /\ tc.state # "connected"
               /\ user' = [user EXCEPT !.wants = "up"]
            \/ /\ NoCaller(tc')
               /\ Situation(tc) \in user.habit
               /\ Situation(tc) # "retrying" => HeadsDown(tc')
               /\ Situation(tc) = "connected" =>
                    AbortOwned(tc') /\ tc'.state = "disconnecting"
               /\ tc.state = "connected" => Situation(tc) = "connected"
               /\ user' = [user EXCEPT !.wants = "down"]
<1>1. CASE OwnerCall
  <2>1. ASSUME NEW p \in Callers, ConnectCall(p)
        PROVE  /\ Keeps(tc, tc') /\ (AbortOwned(tc) => AbortOwned(tc'))
               /\ tc.state # "connected" /\ user' = [user EXCEPT !.wants = "up"]
    <3>1. AtRest /\ user' = [user EXCEPT !.wants = "up"]
      BY <2>1 DEF ConnectCall, Restrained
    <3> QED
      BY <2>1, <3>1, ConnectCallKeeps
  <2>2. ASSUME NEW d \in Closers, DisconnectCall(d)
        PROVE  /\ Keeps(tc, tc') /\ NoCaller(tc') /\ Situation(tc) \in user.habit
               /\ Situation(tc) # "retrying" => HeadsDown(tc')
               /\ Situation(tc) = "connected" =>
                    AbortOwned(tc') /\ tc'.state = "disconnecting"
               /\ tc.state = "connected" => Situation(tc) = "connected"
               /\ user' = [user EXCEPT !.wants = "down"]
    <3>1. Situation(tc) \in user.habit /\ user' = [user EXCEPT !.wants = "down"]
      BY <2>2 DEF DisconnectCall
    <3>2. Situation(tc) \in {"connected", "reconnecting", "retrying"}
      BY <3>1 DEF Orderly
    <3> QED
      BY <2>2, <3>1, <3>2, DisconnectCallKeeps
  <2>3. CASE SendCemi
    BY <2>3, ClientStepKeeps DEF Restrained
  <2> QED
    BY <1>1, <2>1, <2>2, <2>3 DEF OwnerCall
<1>2. CASE FrameReceived \/ SocketEvent \/ TimerFires \/ Continuation
  BY <1>2, ClientStepKeeps DEF Restrained
<1> QED
  BY <1>1, <1>2 DEF Next

LEMMA HabitIsKept ==
  ASSUME IInv, Next
  PROVE  user'.habit = user.habit
<1>1. user \in [wants : {"up", "down"}, habit : Habits]
  BY DEF IInv
<1> QED
  BY <1>1, StepUser DEF UserStep

LEMMA InitOrderly == Init => OrderlyInv
<1> SUFFICES ASSUME Init PROVE OrderlyInv
  OBVIOUS
<1>1. /\ tc.state = "disconnected" /\ tc.transport = None /\ tc.channelId = None
      /\ ~tc.heartbeatTimer /\ ~tc.invalidSeqTimer /\ ~tc.reconnectAbort
      /\ tc.loop = "none"
      /\ \A t \in Sockets : tc.sock[t] = "free"
      /\ \A p \in ConnProc : tc.conn[p] = "idle"
      /\ \A d \in Closers : tc.closer[d] = "idle"
  BY DEF Init
<1>2. NoCaller(tc) /\ FreshConnect(tc)
  BY <1>1 DEF NoCaller, FreshConnect, ConnProc
<1>3. UpWhole(tc) /\ ChannelHeld(tc)
  BY <1>1 DEF UpWhole, ChannelHeld
<1>4. OneTransport(tc) /\ CloseAlone(tc)
  BY <1>1 DEF OneTransport, CloseAlone, Closing
<1>5. HeadsDown(tc) /\ AbortOwned(tc)
  BY <1>1 DEF HeadsDown, AbortOwned
<1> QED
  BY <1>1, <1>2, <1>3, <1>4, <1>5 DEF OrderlyInv, Calm

LEMMA NextOrderly ==
  ASSUME Restrained
  PROVE  IInv /\ OrderlyInv /\ [Next]_vars => OrderlyInv'
<1> SUFFICES ASSUME IInv, OrderlyInv, [Next]_vars PROVE OrderlyInv'
  OBVIOUS
<1>1. CASE UNCHANGED vars
  BY <1>1 DEF vars, OrderlyInv, Orderly, Calm, ChannelHeld, NoCaller, HeadsDown, AbortOwned,
              FreshConnect, UpWhole, OneTransport, CloseAlone
<1>2. CASE Next /\ ~Orderly
  <2>1. user'.habit = user.habit
    BY <1>2, HabitIsKept
  <2> QED
    BY <1>2, <2>1 DEF OrderlyInv, Orderly
<1>3. CASE Next /\ Orderly
  <2>1. /\ Calm(tc) /\ ChannelHeld(tc)
        /\ ~tc.autoReconnect => tc.loop = "none"
        /\ user.wants = "down" => NoCaller(tc)
    BY <1>3 DEF OrderlyInv
  <2>2. user \in [wants : {"up", "down"}, habit : Habits] /\ user'.habit = user.habit
    BY <1>3, HabitIsKept DEF IInv
  <2>3. /\ Keeps(tc, tc')
        /\ \/ KeepsCourse(tc, tc') /\ user' = user
           \/ /\ AbortOwned(tc) => AbortOwned(tc')
              /\ tc.state # "connected"
              /\ user' = [user EXCEPT !.wants = "up"]
           \/ /\ NoCaller(tc')
              /\ Situation(tc) \in user.habit
              /\ Situation(tc) # "retrying" => HeadsDown(tc')
              /\ Situation(tc) = "connected" =>
                   AbortOwned(tc') /\ tc'.state = "disconnecting"
              /\ tc.state = "connected" => Situation(tc) = "connected"
              /\ user' = [user EXCEPT !.wants = "down"]
    BY <1>3, <2>1, NextKeeps
  <2>4. /\ Calm(tc') /\ ChannelHeld(tc')
        /\ ~tc'.autoReconnect => tc'.loop = "none"
    BY <2>1, <2>3 DEF Keeps
  <2>5. user'.wants = "down" => NoCaller(tc')
    BY <2>1, <2>2, <2>3 DEF KeepsCourse, NoCloser
  <2>6. user.habit \subseteq {"connected", "reconnecting"} /\ user'.wants = "down"
          => HeadsDown(tc')
    BY <2>1, <2>2, <2>3 DEF KeepsCourse, NoCloser, OrderlyInv
  <2>7. user.habit \subseteq {"connected"} => AbortOwned(tc')
    BY <2>3 DEF KeepsCourse, NoCloser, OrderlyInv
  <2>8. /\ (ChannelHeld(tc))' <=> ChannelHeld(tc')
        /\ (NoCaller(tc))' <=> NoCaller(tc')
        /\ (HeadsDown(tc))' <=> HeadsDown(tc')
        /\ (AbortOwned(tc))' <=> AbortOwned(tc')
    BY DEF ChannelHeld, NoCaller, HeadsDown, AbortOwned
  <2>9. (Calm(tc))' <=> Calm(tc')
    BY DEF Calm, FreshConnect, UpWhole, OneTransport, CloseAlone
  <2> QED
    BY <2>2, <2>4, <2>5, <2>6, <2>7, <2>8, <2>9 DEF OrderlyInv
<1> QED
  BY <1>1, <1>2, <1>3

\* The invariant holds throughout, of the owner and the gateway Restrained means.
THEOREM OrderlyClientStaysCalm ==
  ASSUME Restrained
  PROVE  Spec => [](IInv /\ OrderlyInv)
<1>1. Init => IInv /\ OrderlyInv
  BY InitIInv, InitOrderly
<1>2. (IInv /\ OrderlyInv) /\ [Next]_vars => (IInv /\ OrderlyInv)'
  BY NextIInv, NextOrderly
<1> QED
  BY <1>1, <1>2, PTL DEF Spec

\* No socket is left open behind the client of an orderly owner: every open one is
\* its transport, every one being bound belongs to a connect() in flight.
THEOREM ClientOwnsItsSockets ==
  ASSUME Restrained
  PROVE  Spec => [](Orderly => SocketsOwned)
<1>1. IInv /\ OrderlyInv => (Orderly => SocketsOwned)
  <2> SUFFICES ASSUME IInv, OrderlyInv, Orderly, NEW t \in Sockets
               PROVE  /\ tc.sock[t] \in {"open", "dead"} => tc.transport = t
                      /\ tc.sock[t] = "binding" =>
                           \E p \in ConnProc : tc.conn[p] = "binding" /\ tc.opening[p] = t
    BY DEF SocketsOwned
  <2>1. OneTransport(tc) /\ BindsAreOwned(tc)
    BY DEF OrderlyInv, Calm, IInv, Good, Sound
  <2> QED
    BY <2>1, NoneIsNobody DEF OneTransport, BindsAreOwned
<1> QED
  BY <1>1, OrderlyClientStaysCalm, PTL

\* A connected client of an orderly owner has its channel, its transport and its
\* heartbeat, and the heartbeat timer does not outlive the connection.
THEOREM ConnectedClientIsWhole ==
  ASSUME Restrained
  PROVE  Spec => [](Orderly => ConnectedIsWhole)
<1>1. IInv /\ OrderlyInv => (Orderly => ConnectedIsWhole)
  BY DEF OrderlyInv, Calm, UpWhole, ChannelHeld, ConnectedIsWhole
<1> QED
  BY <1>1, OrderlyClientStaysCalm, PTL

\* Once disconnect() has returned the client is down and no loop brings it up
\* again, of an owner that never calls it in the delay between two attempts.
THEOREM DisconnectIsFinalUnlessRetrying ==
  ASSUME Restrained
  PROVE  Spec => []DisconnectStopsAttempts
<1>1. IInv /\ OrderlyInv => DisconnectStopsAttempts
  BY DEF OrderlyInv, HeadsDown, DisconnectStopsAttempts, DisconnectIsFinal, Released
<1> QED
  BY <1>1, OrderlyClientStaysCalm, PTL

\* Without automatic reconnection, connected is entered from connecting only and
\* disconnecting is left for disconnected only.
THEOREM LifecycleHolds ==
  ASSUME Restrained
  PROVE  Spec => Lifecycle
<1> DEFINE Step == Orderly /\ ~tc.autoReconnect =>
             /\ tc'.state = "connected" => tc.state \in {"connected", "connecting"}
             /\ tc.state = "disconnecting" =>
                  tc'.state \in {"disconnecting", "disconnected"}
<1>1. IInv /\ OrderlyInv /\ [Next]_vars => [Step]_vars
  <2> SUFFICES ASSUME IInv, OrderlyInv, Next, Orderly, ~tc.autoReconnect
               PROVE  /\ tc'.state = "connected" => tc.state \in {"connected", "connecting"}
                      /\ tc.state = "disconnecting" =>
                           tc'.state \in {"disconnecting", "disconnected"}
    OBVIOUS
  <2>1. Calm(tc) /\ ChannelHeld(tc) /\ tc.loop = "none"
    BY DEF OrderlyInv
  <2>2. Keeps(tc, tc')
    BY <2>1, NextKeeps
  <2> QED
    BY <2>1, <2>2 DEF Keeps
<1> QED
  BY <1>1, OrderlyClientStaysCalm, PTL DEF Spec, Lifecycle

\* A tunnel that goes down while its owner wants it, with no disconnect() on its
\* way, is being reconnected in the same step, of an owner whose disconnect()
\* never meets a reconnect loop: the abort flag cannot have been left set.
THEOREM LossStartsReconnect ==
  ASSUME Restrained
  PROVE  Spec => LossOfQuietOwnerStartsReconnect
<1> DEFINE Step == TunnelGoesDown /\ user.habit \subseteq {"connected"}
                     => tc'.loop # "none" \/ tc'.state = "disconnecting"
<1>1. IInv /\ OrderlyInv /\ [Next]_vars => [Step]_vars
  <2> SUFFICES ASSUME IInv, OrderlyInv, Next, TunnelGoesDown,
                      user.habit \subseteq {"connected"}
               PROVE  tc'.loop # "none" \/ tc'.state = "disconnecting"
    OBVIOUS
  <2>1. Orderly
    BY DEF Orderly
  <2>2. Calm(tc) /\ ChannelHeld(tc) /\ AbortOwned(tc)
    BY <2>1 DEF OrderlyInv
  <2>3. ~tc.reconnectAbort
    BY <2>2 DEF TunnelGoesDown, AbortOwned, Closing
  <2>4. \/ KeepsCourse(tc, tc')
        \/ tc.state # "connected"
        \/ /\ Situation(tc) = "connected" => tc'.state = "disconnecting"
           /\ tc.state = "connected" => Situation(tc) = "connected"
    BY <2>1, <2>2, NextKeeps
  <2> QED
    BY <2>3, <2>4 DEF TunnelGoesDown, KeepsCourse, NoCloser
<1> QED
  BY <1>1, OrderlyClientStaysCalm, PTL DEF Spec, LossOfQuietOwnerStartsReconnect

-----------------------------------------------------------------------------
(* The config node uses its client as an owner may.                         *)

LEMMA NodeStepIsClients == [NodeNext]_nodeVars => [Next]_vars
<1> SUFFICES ASSUME [NodeNext]_nodeVars PROVE [Next]_vars
  OBVIOUS
<1>1. CASE UNCHANGED nodeVars
  BY <1>1 DEF nodeVars
<1>2. ASSUME NEW c \in Children, Attach(c) PROVE [Next]_vars
  BY <1>2 DEF Attach, Next, OwnerCall
<1>3. ASSUME NEW c \in Children, Detach(c) PROVE [Next]_vars
  BY <1>3 DEF Detach, Next, OwnerCall
<1>4. CASE Close
  BY <1>4 DEF Close, Next, OwnerCall
<1>5. CASE ClientStep
  BY <1>5 DEF ClientStep, Next, OwnerCall
<1> QED
  BY <1>1, <1>2, <1>3, <1>4, <1>5 DEF NodeNext

\* Whatever its children do, attach(), detach() and the close handler call the
\* client as TunnelClient's owner does: every property of the client holds of
\* the client of a node.
THEOREM NodeIsAnOwner == NodeSpec => Spec
<1>1. NodeInit => Init
  BY DEF NodeInit
<1> QED
  BY <1>1, NodeStepIsClients, PTL DEF NodeSpec, Spec

-----------------------------------------------------------------------------
(* The tunnel follows the children.                                         *)

\* The last child to leave does not do so in the delay between two attempts to
\* reconnect, nor during the first bind.
LeavesInTime == \A habit \in Habits : habit \subseteq {"connected", "reconnecting"}

\* A node without children wants no tunnel; one with children has no
\* disconnect() running.
NodeInv ==
  /\ refs = {} => user.wants = "down"
  /\ refs # {} => NoCloser(tc)

LEMMA LeavesInTimeIsOrderly ==
  ASSUME LeavesInTime, IInv
  PROVE  Orderly /\ user.habit \subseteq {"connected", "reconnecting"}
BY DEF LeavesInTime, IInv, Orderly

LEMMA NextNodeInv ==
  ASSUME Restrained, LeavesInTime
  PROVE  IInv /\ OrderlyInv /\ NodeInv /\ [NodeNext]_nodeVars => NodeInv'
<1> SUFFICES ASSUME IInv, OrderlyInv, NodeInv, [NodeNext]_nodeVars PROVE NodeInv'
  OBVIOUS
<1>0. /\ user \in [wants : {"up", "down"}, habit : Habits]
      /\ Calm(tc) /\ ChannelHeld(tc)
  BY LeavesInTimeIsOrderly DEF OrderlyInv, IInv
<1>1. CASE UNCHANGED nodeVars
  BY <1>1 DEF nodeVars, vars, NodeInv, NoCloser
<1>2. ASSUME NEW c \in Children, Attach(c) PROVE NodeInv'
  <2>1. refs' # {}
    BY <1>2 DEF Attach
  <2>2. CASE refs = {}
    <3>1. PICK p \in Callers : ConnectCall(p)
      BY <1>2, <2>2 DEF Attach
    <3>2. AtRest
      BY <3>1 DEF ConnectCall, Restrained
    <3>3. NoCloser(tc')
      BY <1>0, <3>1, <3>2, ConnectCallKeeps
    <3> QED
      BY <2>1, <3>3 DEF NodeInv, NoCloser
  <2>3. CASE refs # {}
    BY <1>2, <2>1, <2>3 DEF Attach, NodeInv, NoCloser, vars
  <2> QED
    BY <2>2, <2>3
<1>3. ASSUME NEW c \in Children, Detach(c) PROVE NodeInv'
  <2>1. CASE refs \subseteq {c}
    <3>1. PICK d \in Closers : DisconnectCall(d)
      BY <1>3, <2>1 DEF Detach
    <3>2. user'.wants = "down" /\ refs' = {}
      BY <1>0, <1>3, <2>1, <3>1 DEF Detach, DisconnectCall
    <3> QED
      BY <3>2 DEF NodeInv
  <2>2. CASE ~(refs \subseteq {c})
    <3>1. refs' # {} /\ refs # {} /\ tc' = tc
      BY <1>3, <2>2 DEF Detach, vars
    <3> QED
      BY <3>1 DEF NodeInv, NoCloser
  <2> QED
    BY <2>1, <2>2
<1>4. CASE Close
  <2>1. PICK d \in Closers : DisconnectCall(d)
    BY <1>4 DEF Close
  <2>2. user'.wants = "down" /\ refs' = {}
    BY <1>0, <1>4, <2>1 DEF Close, DisconnectCall
  <2> QED
    BY <2>2 DEF NodeInv
<1>5. CASE ClientStep
  <2>1. refs' = refs
    BY <1>5 DEF ClientStep
  <2>2. KeepsCourse(tc, tc') /\ user' = user
    BY <1>0, <1>5, ClientStepKeeps DEF ClientStep, Restrained
  <2>3. NoCloser(tc) => NoCloser(tc')
    BY <2>2 DEF KeepsCourse
  <2> QED
    BY <2>1, <2>2, <2>3 DEF NodeInv, NoCloser
<1> QED
  BY <1>1, <1>2, <1>3, <1>4, <1>5 DEF NodeNext

\* The invariants of the client and of the node, together.
THEOREM NodeStaysCalm ==
  ASSUME Restrained, LeavesInTime
  PROVE  NodeSpec => [](IInv /\ OrderlyInv /\ NodeInv)
<1>1. NodeInit => NodeInv
  BY DEF NodeInit, NodeInv, Init
<1> QED
  BY <1>1, NextNodeInv, NodeIsAnOwner, OrderlyClientStaysCalm, PTL DEF NodeSpec

\* config.ts:3-4, "last detach disconnects": a node without children whose calls
\* have returned has no tunnel and is not reconnecting one.
THEOREM DetachedNodeIsDown ==
  ASSUME Restrained, LeavesInTime
  PROVE  NodeSpec => []DetachedIsDown
<1>1. IInv /\ OrderlyInv /\ NodeInv => DetachedIsDown
  <2> SUFFICES ASSUME IInv, OrderlyInv, NodeInv, refs = {}, CallsReturned
               PROVE  tc.state = "disconnected" /\ tc.loop = "none"
    BY DEF DetachedIsDown
  <2>1. HeadsDown(tc)
    BY LeavesInTimeIsOrderly DEF OrderlyInv, NodeInv
  <2> QED
    BY <2>1 DEF HeadsDown, CallsReturned
<1> QED
  BY <1>1, NodeStaysCalm, PTL
=============================================================================
