--------------------------- MODULE SecureSession ---------------------------
(***************************************************************************)
(* One KNX/IP Secure connection: src/io/secureSession.ts on top of         *)
(* src/io/tcpTransport.ts, from the bind() of its owner, the TunnelClient, *)
(* to the end of the socket.                                               *)
(*                                                                         *)
(* The objects of the client form one record (a Session); methods are      *)
(* operators on it.  TCP delivers what the gateway sent, in order, but in  *)
(* chunks of its own choosing: all complete frames of a chunk are handled  *)
(* in one turn (_onData), before any awaiting function goes on.            *)
(*                                                                         *)
(* Keys and MACs are abstracted to whether they agree: a SESSION_RESPONSE  *)
(* whose MAC fails, a rejected user.  Frames of a foreign session, or that *)
(* do not decrypt, are dropped without effect and left out.                *)
(***************************************************************************)
EXTENDS Integers, Sequences

CONSTANTS
  MaxSequenceId,   \* the last sequence id of a wrapper, 2^48 - 1 in the code
  MaxInFlight,     \* bound: frames of the gateway on their way
  MaxSent,         \* bound: no frame or keepalive is sent after so many ids
  Keepalive        \* BOOLEAN: keepaliveMs > 0

ASSUME SecureAssumption ==
  /\ MaxSequenceId \in Nat
  /\ MaxInFlight \in Nat
  /\ MaxSent \in Nat
  /\ Keepalive \in BOOLEAN

VARIABLES
  ss,        \* the session, its transport and its owner's call of bind()
  inbound,   \* frames on their way to the client
  chunk,     \* how many of them the chunk being handled still has
  gateway    \* what the gateway has decided about the session

sessionVars == <<ss, inbound, chunk, gateway>>

-----------------------------------------------------------------------------
(* Types.                                                                   *)

\* "badResponse" fails the MAC check; "success" and "failure" are
\* SESSION_STATUS, "close" the one that closes the session; "telegram" and
\* "disconnect" (a DISCONNECT_REQUEST) are wrapped frames for the owner.
Frame == {"response", "badResponse", "success", "failure", "close",
          "telegram", "disconnect"}

SessionState == {"idle", "requesting", "authenticating", "authenticated",
                 "closing", "closed"}

\* owner: "resolved" when bind() has settled but its awaiter has not run yet.
\* listening: the owner's listeners are attached.  pending: open() has not
\* settled, its timer is armed.  tcp: "ending" after the call of close().
\* closer: where close() is suspended.  crashed: an 'error' event that nobody
\* listened to was thrown out of a socket's callback.
Session ==
  [owner     : {"new", "binding", "resolved", "up", "failed", "down"},
   listening : BOOLEAN,
   state     : SessionState,
   key       : BOOLEAN,
   seq       : Nat,
   sent      : Seq(0 .. MaxSequenceId),
   keepalive : BOOLEAN,
   pending   : BOOLEAN,
   closer    : {"none", "status", "inner"},
   tcp       : {"none", "connecting", "open", "ending", "closed"},
   crashed   : BOOLEAN]

SessionInit ==
  /\ ss = [owner |-> "new", listening |-> FALSE, state |-> "idle",
           key |-> FALSE, seq |-> 0, sent |-> <<>>, keepalive |-> FALSE,
           pending |-> FALSE, closer |-> "none", tcp |-> "none",
           crashed |-> FALSE]
  /\ inbound = <<>>
  /\ chunk = 0
  /\ gateway = "none"

-----------------------------------------------------------------------------
(* Methods.                                                                 *)

\* An 'error' event of the session.
EmitError(x) == IF x.listening THEN x ELSE [x EXCEPT !.crashed = TRUE]

\* Mutated form: ids too large to be encoded are sent.
WrapWide(x) ==
  [x EXCEPT !.seq  = x.seq + 1,
            !.sent = IF x.tcp = "open" THEN Append(x.sent, x.seq) ELSE x.sent]

\* Encrypts and hands the wrapper to the socket.  The id is spent even if the
\* socket is closed, or the id too large to be encoded.
Wrap(x) ==
  [x EXCEPT !.seq  = x.seq + 1,
            !.sent = IF x.tcp = "open" /\ x.seq <= MaxSequenceId
                     THEN Append(x.sent, x.seq) ELSE x.sent]

\* Mutated form: the id is not spent when the session sends on its own behalf.
SendStatusAgain(x) ==
  IF x.key THEN [Wrap(x) EXCEPT !.seq = x.seq] ELSE x

\* _sendStatus(): without the check of send().
SendStatus(x) == IF x.key THEN Wrap(x) ELSE x

\* send(): throws when the session is not authenticated, or after the last id.
Send(x) ==
  CASE x.state # "authenticated" -> x
    [] x.state = "authenticated" /\ x.seq + 1 > MaxSequenceId ->
         [x EXCEPT !.seq = x.seq + 1]
    [] OTHER -> Wrap(x)

\* TcpTransport.close().
CloseTcp(x) == IF x.tcp = "open" THEN [x EXCEPT !.tcp = "ending"] ELSE x

\* Mutated form: the keepalive goes on.
CloseTicking(x) ==
  IF x.state \in {"closed", "closing"} THEN CloseTcp(x)
  ELSE LET y == [x EXCEPT !.state = "closing"]
       IN  IF x.key THEN [SendStatus(y) EXCEPT !.closer = "status"]
           ELSE [CloseTcp(y) EXCEPT !.closer = "inner"]

\* close(), up to its first await.
Close(x) ==
  IF x.state \in {"closed", "closing"} THEN CloseTcp(x)
  ELSE LET y == [x EXCEPT !.state = "closing", !.keepalive = FALSE]
       IN  IF x.key THEN [SendStatus(y) EXCEPT !.closer = "status"]
           ELSE [CloseTcp(y) EXCEPT !.closer = "inner"]

\* The promise of open(), and with it that of bind(), settles.
SettleBind(x, outcome) ==
  IF x.pending THEN [x EXCEPT !.pending = FALSE, !.owner = outcome] ELSE x

FailHandshake(x) ==
  EmitError([SettleBind(x, "failed") EXCEPT !.state = "closed"])

CompleteHandshake(x) ==
  [SettleBind(x, "resolved") EXCEPT !.state = "authenticated",
                                !.keepalive = Keepalive]

\* The owner drops the transport: removeAllListeners() and close().
Teardown(x) == Close([x EXCEPT !.owner = "down", !.listening = FALSE])

\* Derives the key and sends the wrapped SESSION_AUTHENTICATE.
OnSessionResponse(x, valid) ==
  CASE x.state # "requesting"            -> x
    [] x.state = "requesting" /\ ~valid  -> FailHandshake(x)
    [] OTHER -> Wrap([x EXCEPT !.key = TRUE, !.state = "authenticating"])

\* Mutated form: a status that comes late still counts.
OnStatusLate(x, code) ==
  CASE ~x.key -> x
    [] x.key /\ code = "success" -> CompleteHandshake(x)
    [] x.key /\ code # "success" /\ x.state = "authenticating" -> FailHandshake(x)
    [] x.key /\ code = "close" /\ x.state # "authenticating" -> Close(EmitError(x))
    [] OTHER -> x

\* A SESSION_STATUS: the outcome of the handshake while it lasts, afterwards
\* only CLOSE matters.  When its 'error' event throws, close() is not called
\* and _onInnerFrame() takes the exception for a failed handshake.
OnStatus(x, code) ==
  CASE x.key /\ x.state = "authenticating" ->
         IF code = "success" THEN CompleteHandshake(x) ELSE FailHandshake(x)
    [] x.key /\ x.state # "authenticating" /\ code = "close" ->
         IF x.listening THEN Close(EmitError(x)) ELSE FailHandshake(x)
    [] OTHER -> x

\* The owner's listener: _handleInboundDisconnect(), which answers first.
OnDisconnectRequest(x) ==
  IF x.key /\ x.listening /\ x.owner = "up" THEN Teardown(Send(x)) ELSE x

\* _onInnerFrame() for one frame.  A telegram changes nothing here.
OnFrame(x, f) ==
  CASE f \in {"response", "badResponse"} ->
         OnSessionResponse(x, f = "response")
    [] f \in {"success", "failure", "close"} -> OnStatus(x, f)
    [] f = "disconnect" -> OnDisconnectRequest(x)
    [] OTHER -> x

\* bind()'s awaiter runs once the callback is over.
Awaited(x) == IF x.owner = "resolved" THEN [x EXCEPT !.owner = "up"] ELSE x

\* Mutated form: open() is forgotten when the socket closes.
OnInnerCloseForgetting(x) ==
  [x EXCEPT !.tcp = "closed", !.keepalive = FALSE, !.state = "closed",
            !.pending = FALSE]

\* The socket's 'close' event.  A pending handshake is left to its timer.
OnInnerClose(x) ==
  [x EXCEPT !.tcp = "closed", !.keepalive = FALSE, !.state = "closed"]

-----------------------------------------------------------------------------
(* The owner.                                                               *)

\* The process lives, and is not in the middle of a chunk.
BetweenCallbacks == ~ss.crashed /\ chunk = 0

Bind ==
  /\ BetweenCallbacks
  /\ ss.owner = "new"
  /\ ss' = [ss EXCEPT !.owner = "binding", !.listening = TRUE,
                      !.tcp = "connecting"]
  /\ UNCHANGED <<inbound, chunk, gateway>>

SendFrame ==
  /\ BetweenCallbacks
  /\ ss.owner = "up"
  /\ ss.seq < MaxSent
  /\ ss' = Send(ss)
  /\ UNCHANGED <<inbound, chunk, gateway>>

\* disconnect(), or the loss of the tunnel for another reason than a frame.
OwnerTearsDown ==
  /\ BetweenCallbacks
  /\ ss.owner = "up"
  /\ ss' = Teardown(ss)
  /\ UNCHANGED <<inbound, chunk, gateway>>

-----------------------------------------------------------------------------
(* Sockets and timers.                                                      *)

\* Connected: bind() calls open(), which sends the SESSION_REQUEST.
TcpConnects ==
  /\ BetweenCallbacks
  /\ ss.tcp = "connecting"
  /\ ss' = [ss EXCEPT !.tcp = "open", !.state = "requesting", !.pending = TRUE]
  /\ gateway' = "asked"
  /\ UNCHANGED <<inbound, chunk>>

\* Refused, or not answered within connectTimeoutMs: the socket is destroyed.
TcpConnectFails ==
  /\ BetweenCallbacks
  /\ ss.tcp = "connecting"
  /\ ss' = OnInnerClose([ss EXCEPT !.owner = "failed"])
  /\ UNCHANGED <<inbound, chunk, gateway>>

\* A chunk with the next k frames arrives.
TcpData(k) ==
  /\ BetweenCallbacks
  /\ ss.tcp \in {"open", "ending"}
  /\ chunk' = k
  /\ UNCHANGED <<ss, inbound, gateway>>

\* _onData() takes one frame after the other, with nothing in between.
HandleFrame ==
  /\ ~ss.crashed
  /\ chunk > 0
  /\ chunk' = chunk - 1
  /\ inbound' = Tail(inbound)
  /\ LET x == OnFrame(ss, Head(inbound))
     IN  ss' = IF chunk = 1 THEN Awaited(x) ELSE x
  /\ UNCHANGED gateway

HandshakeTimeout ==
  /\ BetweenCallbacks
  /\ ss.pending
  /\ ss' = FailHandshake(ss)
  /\ UNCHANGED <<inbound, chunk, gateway>>

KeepaliveTick ==
  /\ BetweenCallbacks
  /\ ss.keepalive
  /\ ss.seq < MaxSent
  /\ ss' = SendStatus(ss)
  /\ UNCHANGED <<inbound, chunk, gateway>>

\* Mutated form: close() ends without closing the socket.
StatusWrittenOnly ==
  /\ BetweenCallbacks
  /\ ss.closer = "status"
  /\ ss' = [ss EXCEPT !.closer = "inner"]
  /\ UNCHANGED <<inbound, chunk, gateway>>

\* close() goes on when its SESSION_STATUS is written.  It closes the socket, or
\* finds that another call has and ends.
StatusWritten ==
  /\ BetweenCallbacks
  /\ ss.closer = "status"
  /\ ss' = IF ss.tcp = "open"
           THEN [CloseTcp(ss) EXCEPT !.closer = "inner"]
           ELSE [ss EXCEPT !.closer = "none", !.state = "closed"]
  /\ UNCHANGED <<inbound, chunk, gateway>>

\* The socket is destroyed after our FIN, what had not arrived is lost; or it
\* was closed before.  The close() that waits for it ends.
TcpDestroyed ==
  /\ BetweenCallbacks
  /\ \/ ss.tcp = "ending"
     \/ ss.closer = "inner" /\ ss.tcp = "closed"
  /\ ss' = [OnInnerClose(ss) EXCEPT
              !.closer = IF ss.closer = "inner" THEN "none" ELSE ss.closer]
  /\ inbound' = <<>>
  /\ UNCHANGED <<chunk, gateway>>

\* The gateway closes the connection, after what it has sent.
PeerCloses ==
  /\ BetweenCallbacks
  /\ ss.tcp \in {"open", "ending"}
  /\ inbound = <<>>
  /\ ss' = OnInnerClose(ss)
  /\ gateway' = "gone"
  /\ UNCHANGED <<inbound, chunk>>

\* The connection breaks: 'error', then 'close'.
TcpResets ==
  /\ BetweenCallbacks
  /\ ss.tcp \in {"open", "ending"}
  /\ ss' = OnInnerClose(IF ss.pending THEN FailHandshake(ss) ELSE EmitError(ss))
  /\ inbound' = <<>>
  /\ gateway' = "gone"
  /\ UNCHANGED chunk

-----------------------------------------------------------------------------
(* The gateway.                                                             *)

GatewaySends(f) ==
  /\ ss.tcp \in {"open", "ending"}
  /\ Len(inbound) < MaxInFlight
  /\ inbound' = Append(inbound, f)
  /\ UNCHANGED <<ss, chunk>>

GatewayResponds(f) ==
  /\ gateway = "asked"
  /\ f \in {"response", "badResponse"}
  /\ GatewaySends(f)
  /\ gateway' = "responded"

\* It has the SESSION_AUTHENTICATE, the first wrapper, and decides.
GatewayDecides(f) ==
  /\ gateway = "responded"
  /\ ss.sent # <<>>
  /\ f \in {"success", "failure"}
  /\ GatewaySends(f)
  /\ gateway' = IF f = "success" THEN "accepted" ELSE "refused"

GatewayTalks(f) ==
  /\ gateway = "accepted"
  /\ f \in {"telegram", "disconnect"}
  /\ GatewaySends(f)
  /\ UNCHANGED gateway

\* It closes the session, or lets it time out during the handshake.
GatewayEnds ==
  /\ gateway \in {"responded", "accepted"}
  /\ GatewaySends("close")
  /\ gateway' = "ended"

-----------------------------------------------------------------------------

OwnerStep == Bind \/ SendFrame \/ OwnerTearsDown

SocketStep ==
  \/ TcpConnects
  \/ TcpConnectFails
  \/ \E k \in 1 .. Len(inbound) : TcpData(k)
  \/ HandleFrame
  \/ StatusWritten
  \/ TcpDestroyed
  \/ PeerCloses
  \/ TcpResets

TimerStep == HandshakeTimeout \/ KeepaliveTick

GatewayStep ==
  \/ \E f \in Frame : GatewayResponds(f) \/ GatewayDecides(f) \/ GatewayTalks(f)
  \/ GatewayEnds

SessionNext == OwnerStep \/ SocketStep \/ TimerStep \/ GatewayStep

SessionSpec == SessionInit /\ [][SessionNext]_sessionVars

\* Connecting has a timeout, an armed timer fires, and the socket reports what
\* was written and when it is destroyed.  A chunk disables them for an instant,
\* hence strong fairness.  Nothing is assumed of the gateway.
SessionFairness ==
  /\ WF_sessionVars(TcpConnects \/ TcpConnectFails)
  /\ SF_sessionVars(HandshakeTimeout)
  /\ SF_sessionVars(StatusWritten)
  /\ SF_sessionVars(TcpDestroyed)
  /\ WF_sessionVars(HandleFrame)

SessionFairSpec == SessionSpec /\ SessionFairness

-----------------------------------------------------------------------------
(* Properties.                                                              *)

Stage == [idle |-> 0, requesting |-> 1, authenticating |-> 2,
          authenticated |-> 3, closing |-> 4, closed |-> 5]

\* The session, the frames on their way and the gateway have their types.
SessionTypeOK ==
  /\ ss \in Session
  /\ inbound \in Seq(Frame)
  /\ chunk \in 0 .. Len(inbound)
  /\ gateway \in {"none", "asked", "responded", "accepted", "refused", "ended",
                  "gone"}

\* wrapper.ts:9, "monotonic": no two wrappers of a session carry the same
\* sequence id, and they grow, whoever sends: the handshake, the owner, the
\* keepalive or close(), up to the end of the counter (secureSession.ts:213).
SequenceIdsGrow ==
  \A i, j \in 1 .. Len(ss.sent) : i < j => ss.sent[i] < ss.sent[j]

\* secureSession.ts:11-15, the lifecycle: the state only moves forward, so that
\* a late status after a timeout or a close() opens nothing, and it becomes
\* authenticated only when the gateway has accepted this session.
Lifecycle ==
  [][ /\ Stage[ss.state] <= Stage[ss'.state]
      /\ ss'.state = "authenticated" =>
           ss'.key /\ gateway' \in {"accepted", "ended", "gone"} ]_sessionVars

\* The keepalive timer runs only while the session is authenticated and its
\* socket open: close(), a closing gateway and a lost socket all stop it.
KeepaliveStops ==
  ss.keepalive => ss.state = "authenticated" /\ ss.tcp \in {"open", "ending"}

\* bind() settles whatever the gateway does, a connection closed in the middle
\* of the handshake included.
BindSettles == ss.owner = "binding" ~> ss.owner \in {"up", "failed"}

\* A session its owner has torn down gives its socket back.
TeardownEndsConnection == ss.owner = "down" ~> (ss.tcp = "closed" \/ ss.crashed)

\* udpTransport.ts:66, "crashes the process on async errors with no listener":
\* no 'error' event is emitted when the owner's listener is gone.
ErrorsAreHeard == ~ss.crashed

\* secureSession.ts:156, "Drop-in replacement for UdpTransport.bind()": a bind()
\* that is rejected leaves no socket behind, since its caller has nothing to
\* close.
FailedBindLeavesNoSocket ==
  ss.owner = "failed" => ss.tcp \notin {"connecting", "open"}
=============================================================================
