---------------------------- MODULE TunnelClient ----------------------------
(***************************************************************************)
(* The connection side of src/io/tunnel.ts: class TunnelClient with its    *)
(* connect(), disconnect() and sendCemi() calls, the heartbeat, the        *)
(* reconnect loop, the inbound handlers and the timers.                    *)
(*                                                                         *)
(* The client is one JavaScript object.  Its fields, and the place where   *)
(* each of its running async functions is suspended, form one record (a    *)
(* ClientState); a method is an operator from the record before to the     *)
(* record after, so that a handler that calls another one is written as    *)
(* the composition of the two.                                             *)
(*                                                                         *)
(* Node runs one callback at a time (a frame, a timer, a call of the API,  *)
(* a socket event: the "macrotasks") and, after it, every async function   *)
(* whose awaited promise has settled, before the next callback.  Functions *)
(* in such a position have the pc "rejected" or "resumed"; macrotasks wait *)
(* until there is none (Quiet).  A continuation that is alone in its       *)
(* callback is part of that callback's action.                             *)
(*                                                                         *)
(* Sequence counters are abstracted to what the lifecycle sees of them:    *)
(* an ACK that matches the pending one, an inbound request that is in      *)
(* order or not.  TunnelSend and TunnelReceive model them.                 *)
(***************************************************************************)
EXTENDS Naturals

CONSTANTS
  Callers,               \* calls of connect() in flight, one per element
  Closers,               \* calls of disconnect() in flight
  Beats,                 \* runs of _heartbeat() that overlap; {} when disabled
  Sockets,               \* Transport objects; a closed one is reused (bound)
  Channels,              \* communication channel ids of the gateway
  HeartbeatMaxFailures,  \* HEARTBEAT_MAX_FAILURES
  AutoReconnect,         \* the values of opts.autoReconnect, \subseteq BOOLEAN
  OverTcp,               \* the values of _isOverTcp(), \subseteq BOOLEAN
  ConnectAnyTime,        \* FALSE: connect() is called on a client at rest only
  Habits,                \* sets of situations in which an owner disconnects
  StrayRequests,         \* requests arrive while the client is not connected
  Loop, None

ConnProc == Callers \cup {Loop}
Owners   == ConnProc \cup Closers \cup Beats

ASSUME NamesAssumption ==
  /\ Loop \notin Callers \cup Closers \cup Beats
  /\ None \notin Owners \cup Sockets \cup Channels
  /\ ConnProc \cap Closers = {} /\ ConnProc \cap Beats = {} /\ Closers \cap Beats = {}
  /\ Sockets # {}

ASSUME OptionsAssumption ==
  /\ HeartbeatMaxFailures \in Nat \ {0}
  /\ AutoReconnect \subseteq BOOLEAN
  /\ OverTcp \subseteq BOOLEAN
  /\ StrayRequests \in BOOLEAN
  /\ ConnectAnyTime \in BOOLEAN

TunnelState == {"disconnected", "connecting", "connected", "disconnecting"}

\* What the owner may find when it calls disconnect(): the state, told apart
\* by whether a reconnect loop is running.
Situation(x) ==
  CASE x.loop # "none" /\ x.state = "connecting"   -> "reconnecting"
    [] x.loop # "none" /\ x.state = "disconnected" -> "retrying"
    [] OTHER -> x.state

Situations == TunnelState \cup {"reconnecting", "retrying"}

ASSUME HabitsAssumption == Habits \subseteq SUBSET Situations

VARIABLES
  tc,      \* the TunnelClient
  user     \* its user: whether it wants the tunnel, "up" after its last connect()
           \* and "down" after disconnect(), and its habit

vars == <<tc, user>>

-----------------------------------------------------------------------------
(* Types.                                                                   *)

\* The single correlation slot _pendingResponse.  The owner is the function
\* that awaits the response, None when that function has moved on.
Response == [type : {"connect", "state", "disconnect"},
             owner : Owners \cup {None}, via : Sockets]
NoResponse == [type |-> "none", owner |-> None, via |-> None]

ConnPc   == {"idle", "binding", "response", "busy", "rejected", "closing"}
BeatPc   == {"idle", "response", "busy", "rejected"}
CloserPc == {"idle", "reconnecting", "resumed", "response", "rejected",
             "closing"}
SenderPc == {"idle", "reconnecting", "resumed", "ack", "busy", "rejected"}

ClientState ==
  [autoReconnect  : AutoReconnect,
   overTcp        : OverTcp,
   state          : TunnelState,
   transport      : Sockets \cup {None},
   sock           : [Sockets -> {"free", "binding", "open", "dead"}],
   opening        : [ConnProc -> Sockets \cup {None}],
   channelId      : Channels \cup {None},
   pendingAck     : {"none", "sender", "orphan"},
   pendingResponse: Response \cup {NoResponse},
   heartbeatTimer : BOOLEAN,
   invalidSeqTimer: BOOLEAN,
   reconnectAbort : BOOLEAN,
   loop           : {"none", "connecting", "delay"},
   conn           : [ConnProc -> ConnPc],
   beat           : [Beats -> [pc : BeatPc, n : 0..HeartbeatMaxFailures]],
   closer         : [Closers -> CloserPc],
   sender         : [pc : SenderPc, attempt : 0..3]]

IdleBeat   == [pc |-> "idle", n |-> 0]
IdleSender == [pc |-> "idle", attempt |-> 0]

Init ==
  /\ \E auto \in AutoReconnect, tcp \in OverTcp :
     tc = [autoReconnect   |-> auto,
           overTcp         |-> tcp,
           state           |-> "disconnected",
           transport       |-> None,
           sock            |-> [t \in Sockets |-> "free"],
           opening         |-> [p \in ConnProc |-> None],
           channelId       |-> None,
           pendingAck      |-> "none",
           pendingResponse |-> NoResponse,
           heartbeatTimer  |-> FALSE,
           invalidSeqTimer |-> FALSE,
           reconnectAbort  |-> FALSE,
           loop            |-> "none",
           conn            |-> [p \in ConnProc |-> "idle"],
           beat            |-> [h \in Beats |-> IdleBeat],
           closer          |-> [d \in Closers |-> "idle"],
           sender          |-> IdleSender]
  /\ user \in [wants : {"down"}, habit : Habits]

\* No async function is waiting for its turn, and the pool has a socket left
\* for each connect() the next callback can start (the bound on Sockets).
Quiet ==
  /\ \A p \in ConnProc : tc.conn[p] # "rejected"
  /\ \A h \in Beats : tc.beat[h].pc # "rejected"
  /\ \A d \in Closers : tc.closer[d] \notin {"rejected", "resumed"}
  /\ tc.sender.pc \notin {"rejected", "resumed"}
  /\ \E t \in Sockets : tc.sock[t] = "free"

Listening == \E t \in Sockets : tc.sock[t] = "open"

-----------------------------------------------------------------------------
(* Correlation slots.                                                       *)

\* send() on a socket that is dead rejects; otherwise the caller goes on to await
\* its promise, which has already rejected when the slot was taken.
AwaitPc(x, taken, waiting) ==
  CASE x.sock[x.transport] # "open" -> "rejected"
    [] x.sock[x.transport] = "open" /\ taken -> "busy"
    [] OTHER -> waiting

\* _awaitResponse() followed by the send of the request: the slot afterwards.
\* When the send rejects, the slot stays occupied until its timer fires.
AwaitResponse(x, type, owner) ==
  IF x.pendingResponse # NoResponse THEN x.pendingResponse
  ELSE [type |-> type, via |-> x.transport,
        owner |-> IF x.sock[x.transport] = "open" THEN owner ELSE None]

ResponsePc(x) == AwaitPc(x, x.pendingResponse # NoResponse, "response")

AwaitAck(x) ==
  IF x.pendingAck # "none" THEN x.pendingAck
  ELSE IF x.sock[x.transport] = "open" THEN "sender" ELSE "orphan"

\* Mutated form: the function that waits is forgotten.
DropPendingResponse(x) == [x EXCEPT !.pendingResponse = NoResponse]

RejectPendingResponse(x) ==
  LET o == x.pendingResponse.owner
  IN  [x EXCEPT
        !.pendingResponse = NoResponse,
        !.conn   = [p \in ConnProc |->
                      IF p = o THEN "rejected" ELSE x.conn[p]],
        !.beat   = [h \in Beats |->
                      IF h = o THEN [pc |-> "rejected", n |-> x.beat[h].n]
                      ELSE x.beat[h]],
        !.closer = [d \in Closers |->
                      IF d = o THEN "rejected" ELSE x.closer[d]]]

RejectPendingAck(x) ==
  IF x.pendingAck = "sender"
  THEN [x EXCEPT !.pendingAck = "none", !.sender.pc = "rejected"]
  ELSE [x EXCEPT !.pendingAck = "none"]

-----------------------------------------------------------------------------
(* Opening and closing.                                                     *)

\* Mutated form: the transport is forgotten without being closed.
ForgetTransport(x) == [x EXCEPT !.transport = None]

\* The socket stops delivering frames when its listeners are removed, so it is
\* back in the pool at the call of close().
TeardownTransport(x) ==
  IF x.transport = None THEN x
  ELSE [x EXCEPT !.sock[x.transport] = "free", !.transport = None]

\* A TCP socket whose peer has closed is closed already.
CloseTakesTime(x) ==
  x.transport # None /\ (x.overTcp => x.sock[x.transport] = "open")

\* The reconnect loop ends: _reconnectPromise resolves and is forgotten, those
\* who await it get their turn.
LoopEnds(x) ==
  [x EXCEPT
     !.loop   = "none",
     !.closer = [d \in Closers |->
                   IF x.closer[d] = "reconnecting" THEN "resumed"
                   ELSE x.closer[d]],
     !.sender = IF x.sender.pc # "reconnecting" THEN x.sender
                ELSE [pc |-> "resumed", attempt |-> x.sender.attempt]]

\* Mutated form: the reconnect loop leaves after a failed attempt.
ConnectEndsLoop(x, p, ok) ==
  LET y == [x EXCEPT !.conn[p] = "idle", !.opening[p] = None]
  IN  IF p = Loop THEN LoopEnds(y) ELSE y

\* connect() called by p returns (ok) or throws: a caller's promise settles,
\* the loop leaves or sleeps.
ConnectEnds(x, p, ok) ==
  LET y == [x EXCEPT !.conn[p] = "idle", !.opening[p] = None]
  IN  CASE p # Loop       -> y
        [] p = Loop /\ ok -> LoopEnds(y)
        [] OTHER          -> [y EXCEPT !.loop = "delay"]

FreeSocket(x) ==
  CHOOSE t \in Sockets :
    (\E u \in Sockets : x.sock[u] = "free") => x.sock[t] = "free"

\* connect(), up to the bind of the new transport.
Connect(x, p) ==
  CASE x.state = "connected"    -> ConnectEnds(x, p, TRUE)
    [] x.state = "disconnected" ->
         LET t == FreeSocket(x)
         IN  [x EXCEPT !.state = "connecting", !.sock[t] = "binding",
                       !.conn[p] = "binding", !.opening[p] = t]
    [] OTHER -> ConnectEnds(x, p, FALSE)

\* Mutated form: the timers survive the loss of the tunnel.
OnTunnelLostNoStop(x) ==
  IF x.state \in {"disconnected", "disconnecting"} THEN x
  ELSE LET y == TeardownTransport(RejectPendingResponse(RejectPendingAck(x)))
           z == [y EXCEPT !.channelId = None, !.state = "disconnected"]
       IN  IF ~x.autoReconnect \/ x.reconnectAbort \/ x.loop # "none" THEN z
           ELSE Connect([z EXCEPT !.loop = "connecting"], Loop)

\* What is lost with the tunnel: its timers, its requests, its transport.
TunnelDown(x) ==
  LET y == TeardownTransport(RejectPendingResponse(RejectPendingAck(
             [x EXCEPT !.heartbeatTimer = FALSE, !.invalidSeqTimer = FALSE])))
  IN  [y EXCEPT !.channelId = None, !.state = "disconnected"]

\* Mutated form: the tunnel is torn down and stays down.
OnTunnelLostNoRetry(x) ==
  IF x.state \in {"disconnected", "disconnecting"} THEN x ELSE TunnelDown(x)

\* _onTunnelLost(): runs up to the bind of the loop's first connect().
OnTunnelLost(x) ==
  LET z == TunnelDown(x)
  IN  CASE x.state \in {"disconnected", "disconnecting"} -> x
        [] x.state \notin {"disconnected", "disconnecting"}
             /\ (~x.autoReconnect \/ x.reconnectAbort \/ x.loop # "none") -> z
        [] OTHER -> Connect([z EXCEPT !.loop = "connecting"], Loop)

-----------------------------------------------------------------------------
(* connect().                                                               *)

\* Nothing of an earlier connection is running, pending or armed.
AtRest ==
  /\ tc.state = "disconnected"
  /\ tc.loop = "none"
  /\ tc.pendingResponse = NoResponse /\ tc.pendingAck = "none"
  /\ ~tc.heartbeatTimer /\ ~tc.invalidSeqTimer
  /\ \A p \in ConnProc : tc.conn[p] = "idle"
  /\ \A h \in Beats : tc.beat[h].pc = "idle"
  /\ \A d \in Closers : tc.closer[d] = "idle"
  /\ tc.sender.pc = "idle"

ConnectCall(p) ==
  /\ Quiet
  /\ tc.conn[p] = "idle"
  /\ ConnectAnyTime \/ AtRest
  /\ tc' = Connect(tc, p)
  /\ user' = [user EXCEPT !.wants = "up"]

\* _openTransport() resumes after bind(): only here the transport becomes a
\* field of the client.  _sendConnectRequest() follows without a break.
BindEnds(p, sock) ==
  /\ Quiet
  /\ tc.conn[p] = "binding"
  /\ LET x == [tc EXCEPT !.transport = tc.opening[p], !.opening[p] = None,
                         !.sock[tc.opening[p]] = sock]
     IN  tc' = [x EXCEPT !.conn[p] = ResponsePc(x),
                         !.pendingResponse = AwaitResponse(x, "connect", p)]
  /\ UNCHANGED user

BindSucceeds(p) == BindEnds(p, "open")

\* A UDP socket binds without a network, which refuses the CONNECT_REQUEST.
BindCutOff(p) == ~tc.overTcp /\ BindEnds(p, "dead")

BindFails(p) ==
  /\ Quiet
  /\ tc.conn[p] = "binding"
  /\ tc' = [tc EXCEPT !.conn[p] = "rejected", !.opening[p] = None,
                      !.sock[tc.opening[p]] = "free"]
  /\ UNCHANGED user

\* The send of a request that found the slot taken completes.
ConnectBusy(p) ==
  /\ Quiet
  /\ tc.conn[p] = "busy"
  /\ tc' = [tc EXCEPT !.conn[p] = "rejected"]
  /\ UNCHANGED user

\* Mutated form: a CONNECT_RESPONSE that nobody awaits is accepted.
RxConnectResponseUnasked(ok, ch) ==
  /\ Quiet
  /\ Listening
  /\ ok
  /\ LET x == [tc EXCEPT !.channelId = ch, !.heartbeatTimer = Beats # {},
                         !.state = "connected",
                         !.pendingResponse = NoResponse]
     IN  tc' = IF tc.pendingResponse.type = "connect"
               THEN ConnectEnds(x, tc.pendingResponse.owner, TRUE) ELSE x
  /\ UNCHANGED user

RxConnectResponse(ok, ch) ==
  /\ Quiet
  /\ Listening
  /\ tc.pendingResponse.type = "connect"
  /\ LET p == tc.pendingResponse.owner
         x == [tc EXCEPT !.pendingResponse = NoResponse]
     IN  tc' = CASE p = None -> x
                 [] p # None /\ ok ->
                      ConnectEnds([x EXCEPT !.channelId = ch,
                                            !.heartbeatTimer = Beats # {},
                                            !.state = "connected"], p, TRUE)
                 [] OTHER -> [x EXCEPT !.conn[p] = "rejected"]
  /\ UNCHANGED user

\* Mutated form: the failure is swallowed, the promise stays pending.
ConnectFailedSilently(x, p) ==
  [x EXCEPT !.state = "disconnected", !.conn[p] = "closing"]

ConnectFailed(x, p) ==
  ConnectEnds([x EXCEPT !.state = "disconnected"], p, FALSE)

\* connect()'s catch: tear down, and once the socket is closed give up.
ConnectThrows(p) ==
  /\ tc.conn[p] = "rejected"
  /\ tc' = IF CloseTakesTime(tc)
           THEN [TeardownTransport(tc) EXCEPT !.conn[p] = "closing"]
           ELSE ConnectFailed(TeardownTransport(tc), p)
  /\ UNCHANGED user

ConnectClosed(p) ==
  /\ Quiet
  /\ tc.conn[p] = "closing"
  /\ tc' = ConnectFailed(tc, p)
  /\ UNCHANGED user

\* Mutated form: _reconnectAbort is not looked at.
LoopRetriesRegardless ==
  /\ Quiet
  /\ tc.loop = "delay"
  /\ tc' = Connect([tc EXCEPT !.loop = "connecting"], Loop)
  /\ UNCHANGED user

\* The delay between two attempts of the reconnect loop is over.
LoopRetries ==
  /\ Quiet
  /\ tc.loop = "delay"
  /\ tc' = IF tc.reconnectAbort THEN LoopEnds(tc)
           ELSE Connect([tc EXCEPT !.loop = "connecting"], Loop)
  /\ UNCHANGED user

-----------------------------------------------------------------------------
(* disconnect().                                                            *)

DisconnectEnds(x, d) ==
  [x EXCEPT !.channelId = None, !.state = "disconnected",
            !.reconnectAbort = FALSE, !.closer[d] = "idle"]

\* The finally block.
DisconnectFinally(x, d) ==
  IF CloseTakesTime(x)
  THEN [TeardownTransport(x) EXCEPT !.closer[d] = "closing"]
  ELSE DisconnectEnds(TeardownTransport(x), d)

\* disconnect() from setState('disconnecting') to its DISCONNECT_REQUEST.
CloseDown(x, d) ==
  LET y == RejectPendingResponse(RejectPendingAck(
             [x EXCEPT !.state = "disconnecting",
                       !.heartbeatTimer = FALSE, !.invalidSeqTimer = FALSE]))
  IN  IF y.channelId = None \/ y.transport = None THEN DisconnectFinally(y, d)
      ELSE [y EXCEPT !.pendingResponse = AwaitResponse(y, "disconnect", d),
                     !.closer[d] = IF y.sock[y.transport] = "open"
                                   THEN "response" ELSE "rejected"]

\* Mutated form: the reconnect loop is not awaited.
DisconnectCallNoWait(d) ==
  /\ Quiet
  /\ tc.closer[d] = "idle"
  /\ Situation(tc) \in user.habit
  /\ tc' = IF tc.state = "disconnected" THEN tc
           ELSE CloseDown([tc EXCEPT !.reconnectAbort = TRUE], d)
  /\ user' = [user EXCEPT !.wants = "down"]

DisconnectCall(d) ==
  /\ Quiet
  /\ tc.closer[d] = "idle"
  /\ Situation(tc) \in user.habit
  /\ LET x == [tc EXCEPT !.reconnectAbort = TRUE]
     IN  tc' = CASE tc.state = "disconnected" -> tc
                 [] tc.state # "disconnected" /\ tc.loop # "none" ->
                      [x EXCEPT !.closer[d] = "reconnecting"]
                 [] OTHER -> CloseDown(x, d)
  /\ user' = [user EXCEPT !.wants = "down"]

\* The early return leaves _reconnectAbort set.
DisconnectResumes(d) ==
  /\ tc.closer[d] = "resumed"
  /\ tc' = IF tc.state = "disconnected" THEN [tc EXCEPT !.closer[d] = "idle"]
           ELSE CloseDown(tc, d)
  /\ UNCHANGED user

RxDisconnectResponse ==
  /\ Quiet
  /\ Listening
  /\ tc.pendingResponse.type = "disconnect"
  /\ LET d == tc.pendingResponse.owner
         x == [tc EXCEPT !.pendingResponse = NoResponse]
     IN  tc' = IF d = None THEN x ELSE DisconnectFinally(x, d)
  /\ UNCHANGED user

\* No response in time, or the send rejected: tolerated.
DisconnectTolerates(d) ==
  /\ tc.closer[d] = "rejected"
  /\ tc' = DisconnectFinally(tc, d)
  /\ UNCHANGED user

DisconnectClosed(d) ==
  /\ Quiet
  /\ tc.closer[d] = "closing"
  /\ tc' = DisconnectEnds(tc, d)
  /\ UNCHANGED user

\* Mutated form: the slot keeps the name of the disconnect() that went on.
PeerClosesOwned(t) ==
  /\ Quiet
  /\ tc.overTcp
  /\ tc.sock[t] = "open"
  /\ LET r == tc.pendingResponse
         x == [tc EXCEPT !.sock[t] = "dead"]
     IN  tc' = IF r.type = "disconnect" /\ r.via = t /\ r.owner # None
               THEN DisconnectFinally(x, r.owner)
               ELSE x
  /\ UNCHANGED user

\* The peer closes the TCP connection.  Only disconnect() listens for that, and
\* it goes on without freeing the response slot.
PeerCloses(t) ==
  /\ Quiet
  /\ tc.overTcp
  /\ tc.sock[t] = "open"
  /\ LET r == tc.pendingResponse
         x == [tc EXCEPT !.sock[t] = "dead"]
     IN  tc' = IF r.type = "disconnect" /\ r.via = t /\ r.owner # None
               THEN DisconnectFinally(
                      [x EXCEPT !.pendingResponse.owner = None], r.owner)
               ELSE x
  /\ UNCHANGED user

\* The network refuses what a UDP socket sends, and delivers nothing, ...
NetworkFails(t) ==
  /\ Quiet
  /\ ~tc.overTcp
  /\ tc.sock[t] = "open"
  /\ tc' = [tc EXCEPT !.sock[t] = "dead"]
  /\ UNCHANGED user

\* ... until it is there again.
NetworkReturns(t) ==
  /\ Quiet
  /\ ~tc.overTcp
  /\ tc.sock[t] = "dead"
  /\ tc' = [tc EXCEPT !.sock[t] = "open"]
  /\ UNCHANGED user

-----------------------------------------------------------------------------
(* The heartbeat.                                                           *)

\* One turn of the loop in _heartbeat(): _sendConnectionStateRequest().
HeartbeatAttempt(x, h, n) ==
  IF x.transport = None \/ x.channelId = None
  THEN [x EXCEPT !.beat[h] = [pc |-> "rejected", n |-> n]]
  ELSE [x EXCEPT !.pendingResponse = AwaitResponse(x, "state", h),
                 !.beat[h] = [pc |-> ResponsePc(x), n |-> n]]

HeartbeatTick(h) ==
  /\ Quiet
  /\ tc.heartbeatTimer
  /\ tc.beat[h].pc = "idle"
  /\ tc' = HeartbeatAttempt(tc, h, 1)
  /\ UNCHANGED user

RxConnectionStateResponse(ok) ==
  /\ Quiet
  /\ Listening
  /\ tc.pendingResponse.type = "state"
  /\ LET h == tc.pendingResponse.owner
         x == [tc EXCEPT !.pendingResponse = NoResponse]
     IN  tc' = CASE h = None       -> x
                 [] h # None /\ ok -> [x EXCEPT !.beat[h] = IdleBeat]
                 [] OTHER          -> [x EXCEPT !.beat[h].pc = "rejected"]
  /\ UNCHANGED user

\* Mutated form: one attempt too many.
HeartbeatGoesFurther(h) ==
  /\ tc.beat[h].pc = "rejected"
  /\ tc' = IF tc.beat[h].n <= HeartbeatMaxFailures
           THEN HeartbeatAttempt(tc, h, tc.beat[h].n + 1)
           ELSE OnTunnelLost([tc EXCEPT !.beat[h] = IdleBeat])
  /\ UNCHANGED user

\* An attempt has failed: the next one, or the tunnel is lost.
HeartbeatGoesOn(h) ==
  /\ tc.beat[h].pc = "rejected"
  /\ tc' = IF tc.beat[h].n < HeartbeatMaxFailures
           THEN HeartbeatAttempt(tc, h, tc.beat[h].n + 1)
           ELSE OnTunnelLost([tc EXCEPT !.beat[h] = IdleBeat])
  /\ UNCHANGED user

HeartbeatBusy(h) ==
  /\ Quiet
  /\ tc.beat[h].pc = "busy"
  /\ tc' = [tc EXCEPT !.beat[h].pc = "rejected"]
  /\ UNCHANGED user

-----------------------------------------------------------------------------
(* sendCemi(): the task at the head of the send queue.                      *)

\* _tunnellingRequestOnce(), attempt k.
TunnellingRequestOnce(x, k) ==
  IF x.transport = None \/ x.channelId = None
  THEN [x EXCEPT !.sender = [pc |-> "rejected", attempt |-> k]]
  ELSE [x EXCEPT !.pendingAck = AwaitAck(x),
                 !.sender = [pc |-> AwaitPc(x, x.pendingAck # "none", "ack"),
                             attempt |-> k]]

SendBegins(x) ==
  IF x.state = "connected" THEN TunnellingRequestOnce(x, 1)
  ELSE [x EXCEPT !.sender = IdleSender]

SendCemi ==
  /\ Quiet
  /\ tc.sender.pc = "idle"
  /\ tc' = IF tc.loop = "none" THEN SendBegins(tc)
           ELSE [tc EXCEPT !.sender = [pc |-> "reconnecting", attempt |-> 0]]
  /\ UNCHANGED user

RxTunnellingAck(ok) ==
  /\ Quiet
  /\ Listening
  /\ tc.pendingAck # "none"
  /\ tc' = CASE tc.pendingAck = "orphan" -> RejectPendingAck(tc)
             [] tc.pendingAck # "orphan" /\ ok ->
                  [tc EXCEPT !.pendingAck = "none", !.sender = IdleSender]
             [] OTHER -> RejectPendingAck(tc)
  /\ UNCHANGED user

\* After two failed attempts the tunnel is declared lost.
SendGivesUp(x) ==
  LET y == OnTunnelLost([x EXCEPT !.sender = IdleSender])
  IN  CASE ~x.autoReconnect -> y
        [] x.autoReconnect /\ y.loop # "none" ->
             [y EXCEPT !.sender = [pc |-> "reconnecting", attempt |-> 2]]
        [] OTHER -> TunnellingRequestOnce(y, 3)

\* Mutated form: the retries are not counted.
SendGoesOnForever ==
  /\ tc.sender.pc = "rejected"
  /\ tc' = TunnellingRequestOnce(tc, 1)
  /\ UNCHANGED user

\* An attempt has failed.
SendGoesOn ==
  /\ tc.sender.pc = "rejected"
  /\ tc' = CASE tc.sender.attempt = 1 -> TunnellingRequestOnce(tc, 2)
             [] tc.sender.attempt = 2 -> SendGivesUp(tc)
             [] OTHER -> [tc EXCEPT !.sender = IdleSender]
  /\ UNCHANGED user

\* The reconnect loop it waited for has ended.
SendResumes ==
  /\ tc.sender.pc = "resumed"
  /\ tc' = IF tc.sender.attempt = 0 THEN SendBegins(tc)
           ELSE TunnellingRequestOnce(tc, 3)
  /\ UNCHANGED user

SendBusy ==
  /\ Quiet
  /\ tc.sender.pc = "busy"
  /\ tc' = [tc EXCEPT !.sender.pc = "rejected"]
  /\ UNCHANGED user

-----------------------------------------------------------------------------
(* Other frames, and the timers.                                            *)

\* A TUNNELLING_REQUEST of this channel, or of any while there is none.  Over
\* TCP, and for a duplicate, it leaves this part of the client as it is.
RxTunnellingRequest(inOrder) ==
  /\ Quiet
  /\ Listening
  /\ ~tc.overTcp
  /\ tc.state = "connected" \/ StrayRequests
  /\ tc' = CASE inOrder -> [tc EXCEPT !.invalidSeqTimer = FALSE]
             [] ~inOrder /\ tc.loop = "none" ->
                  [tc EXCEPT !.invalidSeqTimer = TRUE]
             [] OTHER -> tc
  /\ UNCHANGED user

\* A DISCONNECT_REQUEST for this channel.
RxDisconnectRequest ==
  /\ Quiet
  /\ Listening
  /\ tc.transport # None
  /\ tc.channelId # None
  /\ tc' = OnTunnelLost([tc EXCEPT !.channelId = None])
  /\ UNCHANGED user

ResponseTimeout ==
  /\ Quiet
  /\ tc.pendingResponse # NoResponse
  /\ tc' = RejectPendingResponse(tc)
  /\ UNCHANGED user

AckTimeout ==
  /\ Quiet
  /\ tc.pendingAck # "none"
  /\ tc' = RejectPendingAck(tc)
  /\ UNCHANGED user

InvalidSeqTimeout ==
  /\ Quiet
  /\ tc.invalidSeqTimer
  /\ tc' = OnTunnelLost([tc EXCEPT !.invalidSeqTimer = FALSE])
  /\ UNCHANGED user

-----------------------------------------------------------------------------

OwnerCall ==
  \/ \E p \in Callers : ConnectCall(p)
  \/ \E d \in Closers : DisconnectCall(d)
  \/ SendCemi

FrameReceived ==
  \/ \E ok \in BOOLEAN, ch \in Channels : RxConnectResponse(ok, ch)
  \/ \E ok \in BOOLEAN : RxConnectionStateResponse(ok)
  \/ \E ok \in BOOLEAN : RxTunnellingAck(ok)
  \/ \E inOrder \in BOOLEAN : RxTunnellingRequest(inOrder)
  \/ RxDisconnectResponse
  \/ RxDisconnectRequest

SocketEvent ==
  \/ \E p \in ConnProc : \/ BindSucceeds(p) \/ BindCutOff(p) \/ BindFails(p)
                         \/ ConnectBusy(p)  \/ ConnectClosed(p)
  \/ \E d \in Closers : DisconnectClosed(d)
  \/ \E h \in Beats : HeartbeatBusy(h)
  \/ SendBusy
  \/ \E t \in Sockets : PeerCloses(t) \/ NetworkFails(t) \/ NetworkReturns(t)

TimerFires ==
  \/ ResponseTimeout
  \/ AckTimeout
  \/ InvalidSeqTimeout
  \/ LoopRetries
  \/ \E h \in Beats : HeartbeatTick(h)

Continuation ==
  \/ \E p \in ConnProc : ConnectThrows(p)
  \/ \E d \in Closers : DisconnectResumes(d) \/ DisconnectTolerates(d)
  \/ \E h \in Beats : HeartbeatGoesOn(h)
  \/ SendGoesOn
  \/ SendResumes

Next == OwnerCall \/ FrameReceived \/ SocketEvent \/ TimerFires \/ Continuation

Spec == Init /\ [][Next]_vars

-----------------------------------------------------------------------------
(* Fairness.  Sockets report, timers fire and suspended functions get their  *)
(* turn.  A timer or a socket event is disabled while a continuation is due, *)
(* so strong fairness is what the event loop, which polls each of its phases *)
(* on every turn, gives them.  Nothing is assumed of the gateway.            *)

ClientFairness ==
  /\ WF_vars(Continuation)
  /\ SF_vars(ResponseTimeout) /\ SF_vars(AckTimeout) /\ SF_vars(LoopRetries)
  /\ SF_vars(SendBusy)
  /\ \A p \in ConnProc :
       SF_vars(BindSucceeds(p) \/ BindCutOff(p) \/ BindFails(p) \/ ConnectBusy(p)
               \/ ConnectClosed(p))
  /\ \A d \in Closers : SF_vars(DisconnectClosed(d))
  /\ \A h \in Beats : SF_vars(HeartbeatBusy(h))

\* A gateway that is there again and again: the socket binds, the CONNECT_REQUEST
\* goes out and is accepted while it is awaited, infinitely often if that is
\* possible infinitely often.
GatewayFairness ==
  /\ \A p \in ConnProc : SF_vars(BindSucceeds(p) /\ tc'.conn[p] = "response")
  /\ SF_vars(\E ch \in Channels : RxConnectResponse(TRUE, ch) /\ tc'.state = "connected")

FairSpec == Spec /\ ClientFairness

-----------------------------------------------------------------------------
(* Properties.                                                              *)

\* The client's fields and suspended functions have their types.
TypeOK ==
  /\ tc \in ClientState
  /\ user \in [wants : {"up", "down"}, habit : Habits]

ConnectsAreServed(x) ==
  \A p \in ConnProc : x.conn[p] = "response" => x.pendingResponse.owner = p
HeartbeatsAreServed(x) ==
  \A h \in Beats : x.beat[h].pc = "response" => x.pendingResponse.owner = h
ClosersAreServed(x) ==
  \A d \in Closers :
    /\ x.closer[d] = "response" => x.pendingResponse.owner = d
    /\ x.closer[d] = "reconnecting" => x.loop # "none"
SenderIsServed(x) ==
  /\ x.sender.pc = "ack" => x.pendingAck = "sender"
  /\ x.sender.pc = "reconnecting" => x.loop # "none"

\* Whoever awaits a promise holds the slot, or awaits the loop, that will settle
\* it: no call of _onTunnelLost(), disconnect() or a second request leaves a
\* function suspended for ever (RejectPendingResponse, RejectPendingAck, the
\* loop's end).
NobodyStranded ==
  /\ ConnectsAreServed(tc)
  /\ HeartbeatsAreServed(tc)
  /\ ClosersAreServed(tc)
  /\ SenderIsServed(tc)

ResponseOwnerWaits(x) ==
  LET o == x.pendingResponse.owner
  IN  /\ o \in ConnProc => x.conn[o] = "response"
      /\ o \in Beats    => x.beat[o].pc = "response"
      /\ o \in Closers  => x.closer[o] = "response"
AckOwnerWaits(x) == x.pendingAck = "sender" => x.sender.pc = "ack"

\* The converse: the frame or timer that settles a slot wakes the function that
\* took it, which is still at that await and at no other.
SlotOwnerWaits == ResponseOwnerWaits(tc) /\ AckOwnerWaits(tc)

\* Every socket that is open is the client's transport, and every one being
\* bound belongs to a connect() in flight: none is left open behind it.
SocketsOwned ==
  \A t \in Sockets :
    /\ tc.sock[t] \in {"open", "dead"} => tc.transport = t
    /\ tc.sock[t] = "binding" =>
         \E p \in ConnProc : tc.conn[p] = "binding" /\ tc.opening[p] = t

\* A connected client has a channel, a transport and a running heartbeat, and
\* a client that is not connected runs no heartbeat timer.
ConnectedIsWhole ==
  /\ tc.state = "connected" => /\ tc.transport # None
                               /\ tc.channelId # None
                               /\ Beats # {} => tc.heartbeatTimer
  /\ tc.heartbeatTimer => tc.state = "connected"

Released ==
  user.wants = "down" /\ \A d \in Closers : tc.closer[d] = "idle"

\* config.ts:3-4, "last detach disconnects": once disconnect() has returned,
\* and until connect() is called, the client is neither connected nor on its
\* way there.
DisconnectIsFinal ==
  Released => tc.state = "disconnected" /\ tc.loop = "none"

\* The same of an owner whose disconnect() meets a tunnel that is up, or an
\* attempt to reconnect it, but never the delay between two attempts.
DisconnectStopsAttempts ==
  user.habit \subseteq {"connected", "reconnecting"} => DisconnectIsFinal

\* An owner that does not call disconnect() before its connect() has returned.
Orderly == user.habit \subseteq {"connected", "reconnecting", "retrying"}

\* tunnel.ts:3, the lifecycle, of orderly owners without automatic reconnection:
\* connected is entered from connecting only, and disconnecting is left for
\* disconnected only.
Lifecycle ==
  [][ Orderly /\ ~tc.autoReconnect =>
        /\ tc'.state = "connected" => tc.state \in {"connected", "connecting"}
        /\ tc.state = "disconnecting" =>
             tc'.state \in {"disconnecting", "disconnected"} ]_vars

TunnelGoesDown ==
  /\ tc.state = "connected" /\ tc'.state # "connected"
  /\ tc.autoReconnect /\ user.wants = "up"
  /\ \A d \in Closers : tc.closer[d] = "idle"

\* tunnel.ts:117, "Auto-reconnect on tunnel loss": a tunnel that goes down while
\* its owner wants it up, with no disconnect() running, is being reconnected.
\* Stated of an owner whose disconnect() never meets a reconnect loop, because
\* the return at tunnel.ts:356 leaves the abort flag set.
LossOfQuietOwnerStartsReconnect ==
  [][ TunnelGoesDown /\ user.habit \subseteq {"connected"}
        => tc'.loop # "none" \/ tc'.state = "disconnecting" ]_vars

\* disconnect() always returns, whatever the gateway does.
DisconnectSettles ==
  \A d \in Closers : tc.closer[d] # "idle" ~> tc.closer[d] = "idle"

\* connect() always returns, whatever the gateway does.
ConnectSettles ==
  \A p \in Callers : tc.conn[p] # "idle" ~> tc.conn[p] = "idle"

\* sendCemi() settles its promise (tunnel.ts:382-383), if the gateway is there
\* again and again or automatic reconnection is off.
SendSettles ==
  /\ tc.sender.pc # "idle" /\ ~tc.autoReconnect ~> tc.sender.pc = "idle"
  /\ GatewayFairness => (tc.sender.pc # "idle" ~> tc.sender.pc = "idle")

\* With a gateway that answers again, a tunnel being reconnected comes up
\* unless its owner closes it.
Recovers ==
  GatewayFairness =>
    ( (user.wants = "up" /\ tc.loop # "none")
        ~> (tc.state = "connected" \/ user.wants = "down") )
=============================================================================
