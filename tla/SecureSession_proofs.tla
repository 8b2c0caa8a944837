------------------------ MODULE SecureSession_proofs ------------------------
(***************************************************************************)
(* Proofs about SecureSession, for every bound: the types, the growth of   *)
(* the sequence ids, the lifecycle, and that the keepalive stops.          *)
(*                                                                         *)
(* Good is what every method of the session preserves; one lemma says so   *)
(* of each, and the proof of a step composes them.                         *)
(***************************************************************************)
EXTENDS SecureSession, TLAPS

-----------------------------------------------------------------------------
(* The inductive invariant.                                                 *)

IdsGrow(x) ==
  /\ \A i, j \in 1 .. Len(x.sent) : i < j => x.sent[i] < x.sent[j]
  /\ \A i \in 1 .. Len(x.sent) : x.sent[i] < x.seq

Linked(x) == x.tcp \in {"open", "ending"}

\* An armed keepalive belongs to an authenticated session on a live socket, a
\* handshake that is pending to one that is not authenticated, and both stages
\* have a key.
Armed(x) ==
  /\ x.keepalive => x.state = "authenticated" /\ Linked(x)
  /\ x.pending => x.state # "authenticated"
  /\ x.state \in {"authenticating", "authenticated"} => x.key

\* Before the socket is connected nothing has begun, and then it has; close()
\* is suspended only in a session that is closing or closed.
Begun(x) ==
  /\ x.owner = "new" => x.tcp = "none"
  /\ x.state = "idle" => x.tcp \in {"none", "connecting"}
  /\ x.tcp \in {"none", "connecting"} =>
       /\ x.state = "idle"
       /\ ~x.pending
       /\ x.owner \in {"new", "binding"}
       /\ x.tcp = "connecting" => x.listening
  /\ x.closer # "none" => x.state \in {"closing", "closed"}

\* An owner that has gone has called close().
Released(x) == ~x.listening => x.state \in {"idle", "closing", "closed"}

\* The state moves forward, and does not become authenticated.
Forward(x, y) ==
  /\ Stage[x.state] <= Stage[y.state]
  /\ y.state = "authenticated" => x.state = "authenticated"

Good(x) == x \in Session /\ IdsGrow(x) /\ Armed(x) /\ Begun(x)

IInv ==
  /\ Good(ss)
  /\ Released(ss)
  /\ SessionTypeOK
  /\ chunk > 0 => Linked(ss)

-----------------------------------------------------------------------------
(* The methods.                                                             *)

LEMMA Stages ==
  \A s \in SessionState :
    /\ Stage[s] \in Nat
    /\ Stage[s] <= Stage["closed"]
    /\ s # "closed" => Stage[s] <= Stage["closing"]
BY DEF Stage, SessionState

\* A wrapper takes the next id, above all that were sent.
LEMMA WrapGood ==
  ASSUME SecureAssumption, NEW x, Good(x)
  PROVE  /\ Good(Wrap(x))
         /\ \A f \in {"owner", "listening", "state", "key", "keepalive",
                      "pending", "closer", "tcp", "crashed"} : Wrap(x)[f] = x[f]
<1> DEFINE y == Wrap(x)
<1>1. /\ x \in Session /\ x.seq \in Nat /\ x.sent \in Seq(0 .. MaxSequenceId)
      /\ MaxSequenceId \in Nat
  BY DEF Good, Session, SecureAssumption
<1>2. CASE x.tcp = "open" /\ x.seq <= MaxSequenceId
  <2>1. y = [x EXCEPT !.seq = x.seq + 1, !.sent = Append(x.sent, x.seq)]
    BY <1>2 DEF Wrap
  <2>2. x.seq \in 0 .. MaxSequenceId
    BY <1>1, <1>2
  <2>3. Append(x.sent, x.seq) \in Seq(0 .. MaxSequenceId)
    BY <1>1, <2>2
  <2>4. y \in Session
    <3> DEFINE n == x.seq + 1
               w == Append(x.sent, x.seq)
    <3>1. n \in Nat
      BY <1>1
    <3> HIDE DEF n, w
    <3>2. y = [x EXCEPT !.seq = n, !.sent = w]
      BY <2>1 DEF n, w
    <3>3. w \in Seq(0 .. MaxSequenceId)
      BY <2>3 DEF w
    <3> HIDE DEF y
    <3> QED
      BY <1>1, <3>1, <3>2, <3>3 DEF Session
  <2>5. y.seq = x.seq + 1 /\ y.sent = Append(x.sent, x.seq)
    BY <1>1, <2>1 DEF Session
  <2>6. /\ Len(y.sent) = Len(x.sent) + 1
        /\ \A i \in 1 .. Len(x.sent) : y.sent[i] = x.sent[i]
        /\ y.sent[Len(x.sent) + 1] = x.seq
        /\ Len(x.sent) \in Nat
    BY <1>1, <2>2, <2>5
  <2>7. \A i \in 1 .. Len(x.sent) : x.sent[i] \in 0 .. MaxSequenceId
    BY <1>1
  <2>8. IdsGrow(y)
    <3> HIDE DEF y
    <3>1. \A i \in 1 .. Len(x.sent) : y.sent[i] < x.seq /\ y.sent[i] \in Nat
      BY <2>6, <2>7 DEF Good, IdsGrow
    <3>2. \A i \in 1 .. Len(y.sent) : y.sent[i] < y.seq
      BY <1>1, <2>5, <2>6, <3>1
    <3>3. ASSUME NEW i \in 1 .. Len(y.sent), NEW j \in 1 .. Len(y.sent), i < j
          PROVE  y.sent[i] < y.sent[j]
      <4>1. CASE j = Len(x.sent) + 1
        BY <2>6, <3>1, <3>3, <4>1
      <4>2. CASE j # Len(x.sent) + 1
        BY <2>6, <3>3, <4>2 DEF Good, IdsGrow
      <4> QED
        BY <4>1, <4>2
    <3> QED
      BY <3>2, <3>3 DEF IdsGrow
  <2>9. \A f \in {"owner", "listening", "state", "key", "keepalive",
                  "pending", "closer", "tcp", "crashed"} : y[f] = x[f]
    BY <1>1, <2>1 DEF Session
  <2>10. Armed(y) /\ Begun(y)
    BY <2>9 DEF Good, Armed, Begun, Linked
  <2> QED
    BY <2>4, <2>8, <2>9, <2>10 DEF Good
<1>3. CASE ~(x.tcp = "open" /\ x.seq <= MaxSequenceId)
  <2>1. y = [x EXCEPT !.seq = x.seq + 1, !.sent = x.sent]
    BY <1>3 DEF Wrap
  <2>2. y \in Session /\ y.seq = x.seq + 1 /\ y.sent = x.sent
    <3> DEFINE n == x.seq + 1
    <3>1. n \in Nat
      BY <1>1
    <3> HIDE DEF n
    <3>2. y = [x EXCEPT !.seq = n, !.sent = x.sent]
      BY <2>1 DEF n
    <3>3. n = x.seq + 1
      BY DEF n
    <3> HIDE DEF y
    <3>4. y \in Session /\ y.seq = n /\ y.sent = x.sent
      BY <1>1, <3>1, <3>2 DEF Session
    <3> QED
      BY <3>3, <3>4
  <2>3. \A i \in 1 .. Len(x.sent) : x.sent[i] \in 0 .. MaxSequenceId
    BY <1>1
  <2>4. IdsGrow(y)
    <3> HIDE DEF y
    <3>1. \A i \in 1 .. Len(y.sent) : y.sent[i] < x.seq /\ y.sent[i] \in Nat
      BY <1>1, <2>2, <2>3 DEF Good, IdsGrow
    <3>2. \A i \in 1 .. Len(y.sent) : y.sent[i] < y.seq
      BY <1>1, <2>2, <3>1
    <3> QED
      BY <2>2, <3>2 DEF Good, IdsGrow
  <2>5. \A f \in {"owner", "listening", "state", "key", "keepalive",
                  "pending", "closer", "tcp", "crashed"} : y[f] = x[f]
    BY <1>1, <2>1 DEF Session
  <2>6. Armed(y) /\ Begun(y)
    BY <2>5 DEF Good, Armed, Begun, Linked
  <2> QED
    BY <2>2, <2>4, <2>5, <2>6 DEF Good
<1> QED
  BY <1>2, <1>3

LEMMA SendStatusGood ==
  ASSUME SecureAssumption, NEW x, Good(x)
  PROVE  /\ Good(SendStatus(x))
         /\ \A f \in {"owner", "listening", "state", "key", "keepalive",
                      "pending", "closer", "tcp", "crashed"} :
              SendStatus(x)[f] = x[f]
BY WrapGood DEF SendStatus

LEMMA CloseTcpGood ==
  ASSUME NEW x, Good(x)
  PROVE  Good(CloseTcp(x))
BY DEF Good, CloseTcp, Session, IdsGrow, Armed, Begun, Linked

LEMMA SendGood ==
  ASSUME SecureAssumption, NEW x, Good(x)
  PROVE  /\ Good(Send(x))
         /\ Send(x).tcp = x.tcp /\ Send(x).state = x.state
         /\ Send(x).listening = x.listening
<1>1. CASE x.state # "authenticated"
  BY <1>1 DEF Send
<1>2. CASE x.state = "authenticated" /\ x.seq + 1 > MaxSequenceId
  <2> DEFINE n == x.seq + 1
             y == [x EXCEPT !.seq = n]
  <2>1. n \in Nat /\ n > x.seq
    BY DEF Good, Session
  <2>2. Send(x) = y
    BY <1>2 DEF Send
  <2> HIDE DEF n
  <2>3. x \in Session
    BY DEF Good
  <2>4. y \in Session /\ y.seq = n /\ y.sent = x.sent
    BY <2>1, <2>3 DEF Session
  <2>5. \A f \in {"owner", "listening", "state", "key", "keepalive",
                  "pending", "closer", "tcp", "crashed"} : y[f] = x[f]
    BY <2>3 DEF Session
  <2>6. \A i \in 1 .. Len(x.sent) : x.sent[i] \in 0 .. MaxSequenceId
    BY <2>3 DEF Session
  <2>7. IdsGrow(y)
    <3> HIDE DEF y
    <3>1. \A i \in 1 .. Len(y.sent) : y.sent[i] < x.seq /\ y.sent[i] \in Nat
      BY <2>4, <2>6 DEF Good, IdsGrow, SecureAssumption
    <3>2. x.seq \in Nat
      BY <2>3 DEF Session
    <3>3. \A i \in 1 .. Len(y.sent) : y.sent[i] < y.seq
      BY <2>1, <2>4, <3>1, <3>2
    <3> QED
      BY <2>4, <3>3 DEF Good, IdsGrow
  <2>8. Armed(y) /\ Begun(y)
    BY <2>5 DEF Good, Armed, Begun, Linked
  <2> QED
    BY <2>2, <2>4, <2>5, <2>7, <2>8 DEF Good
<1>3. CASE x.state = "authenticated" /\ ~(x.seq + 1 > MaxSequenceId)
  <2>1. Send(x) = Wrap(x)
    BY <1>3 DEF Send
  <2> QED
    BY <2>1, WrapGood
<1> QED
  BY <1>1, <1>2, <1>3

\* Where close() is suspended concerns nothing else.
LEMMA CloserGood ==
  ASSUME NEW x, Good(x), x.tcp \notin {"none", "connecting"},
         NEW c \in {"none", "status", "inner"},
         x.state \in {"closing", "closed"}
  PROVE  /\ Good([x EXCEPT !.closer = c])
         /\ \A f \in {"owner", "listening", "state", "key", "keepalive",
                      "pending", "tcp", "crashed"} :
              [x EXCEPT !.closer = c][f] = x[f]
<1> DEFINE y == [x EXCEPT !.closer = c]
<1>1. x \in Session
  BY DEF Good
<1>2. y \in Session /\ y.sent = x.sent /\ y.seq = x.seq
  BY <1>1 DEF Session
<1>3. \A f \in {"owner", "listening", "state", "key", "keepalive",
                "pending", "tcp", "crashed"} : y[f] = x[f]
  BY <1>1 DEF Session
<1> HIDE DEF y
<1>4. IdsGrow(y)
  BY <1>2 DEF Good, IdsGrow
<1>5. Armed(y) /\ Begun(y)
  BY <1>3 DEF Good, Armed, Begun, Linked
<1>6. Good(y)
  BY <1>2, <1>4, <1>5 DEF Good
<1> QED
  BY <1>3, <1>6 DEF y

LEMMA EmitErrorGood ==
  ASSUME NEW x, Good(x)
  PROVE  /\ Good(EmitError(x))
         /\ EmitError(x).tcp = x.tcp /\ EmitError(x).state = x.state
<1>1. CASE x.listening
  BY <1>1 DEF EmitError
<1>2. CASE ~x.listening
  <2> DEFINE y == EmitError(x)
  <2>1. x \in Session /\ y = [x EXCEPT !.crashed = TRUE]
    BY <1>2 DEF Good, EmitError
  <2> HIDE DEF y
  <2>2. y \in Session /\ y.sent = x.sent /\ y.seq = x.seq
    BY <2>1 DEF Session
  <2>3. \A f \in {"owner", "listening", "state", "key", "keepalive",
                  "pending", "closer", "tcp"} : y[f] = x[f]
    BY <2>1 DEF Session
  <2>4. IdsGrow(y)
    BY <2>2 DEF Good, IdsGrow
  <2>5. Armed(y) /\ Begun(y)
    BY <2>3 DEF Good, Armed, Begun, Linked
  <2>6. Good(y)
    BY <2>2, <2>4, <2>5 DEF Good
  <2> QED
    BY <2>3, <2>6 DEF y
<1> QED
  BY <1>1, <1>2

LEMMA CloseGood ==
  ASSUME SecureAssumption, NEW x, Good(x), x.tcp \notin {"none", "connecting"}
  PROVE  /\ Good(Close(x))
         /\ Close(x).state \in {"closing", "closed"}
         /\ Close(x).tcp = x.tcp \/ Close(x).tcp = "ending"
         /\ x.tcp # "closed" => Linked(Close(x))
         /\ Forward(x, Close(x))
<1> x.state \in SessionState
  BY DEF Good, Session
<1> USE DEF Forward
<1>1. CASE x.state \in {"closed", "closing"}
  <2>1. Close(x) = CloseTcp(x)
    BY <1>1 DEF Close
  <2>2. /\ CloseTcp(x).state = x.state
        /\ CloseTcp(x).tcp = x.tcp \/ CloseTcp(x).tcp = "ending"
        /\ x.tcp # "closed" => Linked(CloseTcp(x))
    BY DEF CloseTcp, Good, Session, Linked
  <2> QED
    BY <1>1, <2>1, <2>2, CloseTcpGood, Stages
<1>2. CASE x.state \notin {"closed", "closing"}
  <2> DEFINE y == [x EXCEPT !.state = "closing", !.keepalive = FALSE]
  <2>1. /\ Good(y)
        /\ y.state = "closing" /\ y.tcp = x.tcp /\ y.key = x.key
    BY <1>2 DEF Good, Session, SessionState, IdsGrow, Armed, Begun, Linked
  <2>2. Close(x) = IF y.key THEN [SendStatus(y) EXCEPT !.closer = "status"]
                   ELSE [CloseTcp(y) EXCEPT !.closer = "inner"]
    BY <1>2, <2>1 DEF Close
  <2> HIDE DEF y
  <2>3. CASE y.key
    <3> DEFINE z == SendStatus(y)
    <3>1. Good(z) /\ z.state = "closing" /\ z.tcp = x.tcp
      BY <2>1, SendStatusGood
    <3>2. Close(x) = [z EXCEPT !.closer = "status"]
      BY <2>2, <2>3
    <3> HIDE DEF z
    <3>3. z.tcp \notin {"none", "connecting"}
      BY <3>1
    <3>4. /\ Good(Close(x)) /\ Close(x).state = "closing"
          /\ Close(x).tcp = z.tcp
      BY <3>1, <3>2, <3>3, CloserGood
    <3> QED
      BY <1>2, <3>1, <3>4, Stages DEF Linked, Good, Session
  <2>4. CASE ~y.key
    <3> DEFINE z == CloseTcp(y)
    <3>1. Good(z) /\ z.state = "closing"
          /\ (z.tcp = x.tcp \/ z.tcp = "ending")
          /\ (x.tcp # "closed" => Linked(z))
      BY <2>1, CloseTcpGood DEF CloseTcp, Good, Session, Linked
    <3>2. Close(x) = [z EXCEPT !.closer = "inner"]
      BY <2>2, <2>4
    <3> HIDE DEF z
    <3>3. z.tcp \notin {"none", "connecting"}
      BY <3>1
    <3>4. /\ Good(Close(x)) /\ Close(x).state = "closing"
          /\ Close(x).tcp = z.tcp
      BY <3>1, <3>2, <3>3, CloserGood
    <3> QED
      BY <1>2, <3>1, <3>4, Stages DEF Linked, Good, Session
  <2> QED
    BY <2>3, <2>4
<1> QED
  BY <1>1, <1>2

LEMMA FailHandshakeGood ==
  ASSUME NEW x, Good(x), ~x.keepalive, x.tcp \notin {"none", "connecting"}
  PROVE  /\ Good(FailHandshake(x))
         /\ FailHandshake(x).state = "closed"
         /\ FailHandshake(x).tcp = x.tcp
         /\ Forward(x, FailHandshake(x))
<1>1. x.state \in SessionState
  BY DEF Good, Session
<1> DEFINE y == [SettleBind(x, "failed") EXCEPT !.state = "closed"]
<1>2. /\ x \in Session
      /\ y = IF x.pending
              THEN [x EXCEPT !.pending = FALSE, !.owner = "failed",
                             !.state = "closed"]
              ELSE [x EXCEPT !.state = "closed"]
  BY DEF Good, SettleBind, Session
<1>3. FailHandshake(x) = EmitError(y)
  BY DEF FailHandshake
<1> HIDE DEF y
<1>4. y \in Session /\ y.sent = x.sent /\ y.seq = x.seq
  BY <1>2 DEF Session, SessionState
<1>5. /\ y.state = "closed" /\ y.tcp = x.tcp /\ y.keepalive = x.keepalive
      /\ y.owner \in {x.owner, "failed"}
  BY <1>2 DEF Session
<1>6. IdsGrow(y)
  BY <1>4 DEF Good, IdsGrow
<1>7. Armed(y) /\ Begun(y)
  BY <1>5 DEF Good, Armed, Begun, Linked
<1>8. Good(y)
  BY <1>4, <1>6, <1>7 DEF Good
<1>9. /\ Good(FailHandshake(x))
      /\ FailHandshake(x).state = "closed"
      /\ FailHandshake(x).tcp = x.tcp
  BY <1>3, <1>5, <1>8, EmitErrorGood
<1> QED
  BY <1>1, <1>9, Stages DEF Forward

LEMMA CompleteHandshakeGood ==
  ASSUME SecureAssumption, NEW x, Good(x), Linked(x),
         x.state = "authenticating"
  PROVE  /\ Good(CompleteHandshake(x))
         /\ CompleteHandshake(x).state = "authenticated"
         /\ CompleteHandshake(x).listening = x.listening
         /\ CompleteHandshake(x).tcp = x.tcp
BY DEF Good, CompleteHandshake, SettleBind, Session, SessionState, IdsGrow, Armed,
       Begun, Linked, SecureAssumption

LEMMA OnInnerCloseGood ==
  ASSUME NEW x, Good(x), x.tcp # "none"
  PROVE  /\ Good(OnInnerClose(x))
         /\ OnInnerClose(x).state = "closed"
         /\ Forward(x, OnInnerClose(x))
<1>1. x.state \in SessionState
  BY DEF Good, Session
<1>2. Good(OnInnerClose(x)) /\ OnInnerClose(x).state = "closed"
  BY DEF Good, OnInnerClose, Session, SessionState, IdsGrow, Armed, Begun,
         Linked
<1> QED
  BY <1>1, <1>2, Stages DEF Forward

LEMMA TeardownGood ==
  ASSUME SecureAssumption, NEW x, Good(x), x.tcp \notin {"none", "connecting"}
  PROVE  /\ Good(Teardown(x))
         /\ Released(Teardown(x))
         /\ x.tcp # "closed" => Linked(Teardown(x))
         /\ Forward(x, Teardown(x))
<1> DEFINE y == [x EXCEPT !.owner = "down", !.listening = FALSE]
<1>1. Good(y) /\ y.tcp = x.tcp /\ y.state = x.state
  BY DEF Good, Session, IdsGrow, Armed, Begun, Linked
<1>2. Teardown(x) = Close(y)
  BY DEF Teardown
<1> HIDE DEF y
<1> QED
  BY <1>1, <1>2, CloseGood DEF Released, Forward

\* One frame keeps the invariant, and only a SESSION_STATUS of success, while
\* the handshake lasts, authenticates the session.
LEMMA OnFrameGood ==
  ASSUME SecureAssumption, NEW x, Good(x), Released(x), Linked(x),
         NEW f \in Frame
  PROVE  /\ Good(OnFrame(x, f)) /\ Released(OnFrame(x, f))
         /\ Linked(OnFrame(x, f))
         /\ Stage[x.state] <= Stage[OnFrame(x, f).state]
         /\ OnFrame(x, f).state = "authenticated" =>
              x.state = "authenticated" \/ f = "success"
<1> DEFINE y == OnFrame(x, f)
<1>1. x.state \in SessionState /\ x.tcp \notin {"none", "connecting", "closed"}
      /\ x.listening \in BOOLEAN
  BY DEF Good, Session, Linked
<1>2. CASE y = x
  BY <1>1, <1>2 DEF Stage, SessionState
<1>3. CASE ~x.keepalive /\ y = FailHandshake(x)
  BY <1>1, <1>3, FailHandshakeGood DEF Forward, Released, Linked
<1>4. CASE f \in {"response", "badResponse"} /\ x.state = "requesting"
  <2>1. ~x.keepalive
    BY <1>4 DEF Good, Armed
  <2>2. CASE f = "badResponse"
    <3>1. y = FailHandshake(x)
      BY <1>4, <2>2 DEF OnFrame, OnSessionResponse
    <3> QED
      BY <1>3, <2>1, <3>1
  <2>3. CASE f = "response"
    <3> DEFINE z == [x EXCEPT !.key = TRUE, !.state = "authenticating"]
    <3>1. /\ Good(z) /\ z.state = "authenticating"
          /\ z.tcp = x.tcp /\ z.listening = x.listening
      BY <1>1, <1>4 DEF Good, Session, SessionState, IdsGrow, Armed, Begun,
                       Linked
    <3>2. y = Wrap(z)
      BY <1>4, <2>3 DEF OnFrame, OnSessionResponse
    <3> HIDE DEF z
    <3>3. /\ Good(y) /\ y.state = "authenticating"
          /\ y.tcp = x.tcp /\ y.listening = x.listening
      BY <3>1, <3>2, WrapGood
    <3>4. x.listening
      BY <1>1, <1>4 DEF Released
    <3>5. Stage["requesting"] <= Stage["authenticating"]
      BY DEF Stage
    <3> QED
      BY <1>1, <1>4, <3>3, <3>4, <3>5 DEF Released, Linked
  <2> QED
    BY <1>4, <2>2, <2>3
<1>5. CASE f = "success" /\ x.key /\ x.state = "authenticating"
  <2>1. y = CompleteHandshake(x)
    BY <1>5 DEF OnFrame, OnStatus
  <2>2. x.listening
    BY <1>1, <1>5 DEF Released
  <2> QED
    BY <1>1, <1>5, <2>1, <2>2, CompleteHandshakeGood
    DEF Released, Linked, Stage
<1>6. CASE /\ f \in {"failure", "close"}
           /\ x.key /\ x.state = "authenticating"
  <2>1. y = FailHandshake(x)
    BY <1>6 DEF OnFrame, OnStatus
  <2>2. ~x.keepalive
    BY <1>6 DEF Good, Armed
  <2> QED
    BY <1>3, <2>1, <2>2
<1>7. CASE f = "close" /\ x.key /\ x.state # "authenticating"
  <2>1. CASE x.listening
    <3>1. y = Close(x)
      BY <1>7, <2>1 DEF OnFrame, OnStatus, EmitError
    <3> QED
      BY <1>1, <3>1, CloseGood DEF Forward, Released
  <2>2. CASE ~x.listening
    <3>1. y = FailHandshake(x)
      BY <1>7, <2>2 DEF OnFrame, OnStatus
    <3>2. ~x.keepalive
      BY <2>2 DEF Good, Armed, Released
    <3> QED
      BY <1>3, <3>1, <3>2
  <2> QED
    BY <2>1, <2>2
<1>8. CASE f = "disconnect" /\ x.key /\ x.listening /\ x.owner = "up"
  <2> DEFINE z == Send(x)
  <2>1. Good(z) /\ z.tcp = x.tcp /\ z.state = x.state
    BY SendGood
  <2>2. y = Teardown(z)
    BY <1>8 DEF OnFrame, OnDisconnectRequest
  <2> HIDE DEF z
  <2> QED
    BY <1>1, <2>1, <2>2, TeardownGood DEF Forward
<1>9. CASE f = "telegram"
  BY <1>2, <1>9 DEF OnFrame
<1>10. CASE /\ ~(f \in {"response", "badResponse"} /\ x.state = "requesting")
            /\ ~(f = "success" /\ x.key /\ x.state = "authenticating")
            /\ ~(f \in {"failure", "close"} /\ x.key /\ x.state = "authenticating")
            /\ ~(f = "close" /\ x.key /\ x.state # "authenticating")
            /\ ~(f = "disconnect" /\ x.key /\ x.listening /\ x.owner = "up")
            /\ f # "telegram"
  <2>1. CASE f \in {"response", "badResponse"}
    BY <1>2, <1>10, <2>1 DEF OnFrame, OnSessionResponse
  <2>2. CASE f \in {"success", "failure", "close"}
    BY <1>2, <1>10, <2>2 DEF OnFrame, OnStatus
  <2>3. CASE f = "disconnect"
    BY <1>2, <1>10, <2>3 DEF OnFrame, OnDisconnectRequest
  <2> QED
    BY <1>10, <2>1, <2>2, <2>3 DEF Frame
<1> QED
  BY <1>4, <1>5, <1>6, <1>7, <1>8, <1>9, <1>10

-----------------------------------------------------------------------------
(* The steps.                                                               *)

LEMMA InitIInv == SessionInit => IInv
BY DEF SessionInit, IInv, SessionTypeOK, Good, Released, Session, SessionState, IdsGrow,
       Armed, Begun, Linked

LEMMA OwnerStepIInv ==
  ASSUME SecureAssumption, IInv, OwnerStep
  PROVE  IInv'
<1>1. CASE Bind
  <2>1. /\ ss.owner = "new" /\ Good(ss) /\ ss \in Session
        /\ ss' = [ss EXCEPT !.owner = "binding", !.listening = TRUE,
                            !.tcp = "connecting"]
    BY <1>1 DEF Bind, IInv, Good
  <2>2. ss.tcp = "none" /\ ss.state = "idle"
    BY <2>1 DEF Good, Begun
  <2>3. Good(ss') /\ Released(ss')
    BY <2>1, <2>2 DEF Good, Released, Session, IdsGrow, Armed, Begun, Linked
  <2> QED
    BY <1>1, <2>3 DEF Bind, BetweenCallbacks, IInv, SessionTypeOK, Good
<1>2. CASE SendFrame
  <2>1. Good(ss) /\ Released(ss) /\ ss' = Send(ss)
    BY <1>2 DEF SendFrame, IInv
  <2>2. Good(ss') /\ Released(ss')
    BY <2>1, SendGood DEF Released
  <2> QED
    BY <1>2, <2>2 DEF SendFrame, BetweenCallbacks, IInv, SessionTypeOK, Good
<1>3. CASE OwnerTearsDown
  <2>1. ss.tcp \notin {"none", "connecting"}
    BY <1>3 DEF OwnerTearsDown, IInv, Good, Begun
  <2>2. Good(ss') /\ Released(ss') /\ ss' \in Session
    BY <1>3, <2>1, TeardownGood DEF OwnerTearsDown, IInv, Good
  <2> QED
    BY <1>3, <2>2 DEF OwnerTearsDown, BetweenCallbacks, IInv, SessionTypeOK
<1> QED
  BY <1>1, <1>2, <1>3 DEF OwnerStep

LEMMA SocketStepIInv ==
  ASSUME SecureAssumption, IInv, SocketStep
  PROVE  IInv'
<1>1. CASE TcpConnects
  <2>1. Good(ss') /\ Released(ss')
    BY <1>1 DEF TcpConnects, IInv, Good, Released, Session, SessionState,
               IdsGrow, Armed, Begun, Linked
  <2> QED
    BY <1>1, <2>1 DEF TcpConnects, BetweenCallbacks, IInv, SessionTypeOK, Good
<1>2. CASE TcpConnectFails
  <2> DEFINE x == [ss EXCEPT !.owner = "failed"]
  <2>1. /\ ss' = OnInnerClose(x) /\ ss.tcp = "connecting" /\ Good(ss)
        /\ ss \in Session
    BY <1>2 DEF TcpConnectFails, IInv, Good
  <2>2. Good(ss')
    BY <2>1 DEF OnInnerClose, Good, Session, SessionState, IdsGrow, Armed,
               Begun, Linked
  <2>3. ss'.state = "closed"
    BY <2>1 DEF OnInnerClose, Session
  <2> QED
    BY <1>2, <2>2, <2>3 DEF TcpConnectFails, BetweenCallbacks, IInv, SessionTypeOK, Good,
                            Released
<1>3. ASSUME NEW k \in 1 .. Len(inbound), TcpData(k) PROVE IInv'
  BY <1>3 DEF TcpData, IInv, SessionTypeOK, Good, Released, Linked
<1>4. CASE HandleFrame
  <2>1. /\ chunk \in Nat /\ chunk > 0 /\ inbound \in Seq(Frame)
        /\ chunk <= Len(inbound) /\ Linked(ss) /\ Good(ss) /\ Released(ss)
    BY <1>4 DEF HandleFrame, IInv, SessionTypeOK
  <2>2. Head(inbound) \in Frame /\ Tail(inbound) \in Seq(Frame)
        /\ Len(Tail(inbound)) = Len(inbound) - 1
    BY <2>1
  <2> DEFINE x == OnFrame(ss, Head(inbound))
  <2>3. Good(x) /\ Released(x) /\ Linked(x)
    BY <2>1, <2>2, OnFrameGood
  <2>4. ss' = x \/ ss' = Awaited(x)
    BY <1>4 DEF HandleFrame
  <2> HIDE DEF x
  <2>5. Good(Awaited(x)) /\ Released(Awaited(x)) /\ Linked(Awaited(x))
    <3>1. CASE x.owner = "resolved"
      <4>1. Awaited(x) = [x EXCEPT !.owner = "up"]
        BY <3>1 DEF Awaited
      <4> QED
        BY <2>3, <4>1 DEF Good, Session, IdsGrow, Armed, Begun, Linked, Released
    <3>2. CASE x.owner # "resolved"
      BY <2>3, <3>2 DEF Awaited
    <3> QED
      BY <3>1, <3>2
  <2>6. Good(ss') /\ Released(ss') /\ Linked(ss')
    BY <2>3, <2>4, <2>5
  <2> QED
    BY <1>4, <2>1, <2>2, <2>6 DEF HandleFrame, IInv, SessionTypeOK, Good
<1>5. CASE StatusWritten
  <2>1. /\ Good(ss) /\ Released(ss) /\ ss \in Session /\ ss.closer = "status"
        /\ ss.state \in {"closing", "closed"}
        /\ ss.tcp \notin {"none", "connecting"}
    BY <1>5 DEF StatusWritten, IInv, Good, Begun
  <2>2. ASSUME ss.tcp = "open" PROVE Good(ss') /\ Released(ss')
    <3> DEFINE x == CloseTcp(ss)
    <3>1. Good(x)
      BY <2>1, CloseTcpGood
    <3>2. /\ x.state = ss.state /\ x.listening = ss.listening
          /\ x.tcp = "ending"
      BY <2>1, <2>2 DEF CloseTcp, Session
    <3>3. ss' = [x EXCEPT !.closer = "inner"]
      BY <1>5, <2>2 DEF StatusWritten
    <3> HIDE DEF x
    <3>4. /\ Good(ss') /\ ss'.state = ss.state
          /\ ss'.listening = ss.listening
      BY <2>1, <3>1, <3>2, <3>3, CloserGood
    <3> QED
      BY <2>1, <3>4 DEF Released
  <2>3. ASSUME ss.tcp # "open" PROVE Good(ss') /\ Released(ss')
    <3>1. ss' = [ss EXCEPT !.closer = "none", !.state = "closed"]
      BY <1>5, <2>3 DEF StatusWritten
    <3>2. /\ ss' \in Session /\ ss'.sent = ss.sent /\ ss'.seq = ss.seq
          /\ ss'.state = "closed" /\ ss'.closer = "none"
      BY <2>1, <3>1 DEF Session, SessionState
    <3>3. \A f \in {"owner", "keepalive", "tcp"} : ss'[f] = ss[f]
      BY <2>1, <3>1 DEF Session
    <3>4. IdsGrow(ss')
      BY <2>1, <3>2 DEF Good, IdsGrow
    <3>5. Armed(ss') /\ Begun(ss')
      BY <2>1, <3>2, <3>3 DEF Good, Armed, Begun
    <3> QED
      BY <3>2, <3>4, <3>5 DEF Good, Released
  <2>4. Good(ss') /\ Released(ss')
    BY <2>2, <2>3
  <2> QED
    BY <1>5, <2>4 DEF StatusWritten, BetweenCallbacks, IInv, SessionTypeOK, Good
<1>6. CASE TcpDestroyed
  <2> DEFINE x == OnInnerClose(ss)
  <2>0. ss.tcp # "none"
    BY <1>6 DEF TcpDestroyed
  <2>1. Good(x) /\ x.state = "closed" /\ x.tcp = "closed"
    BY <2>0, OnInnerCloseGood DEF IInv, OnInnerClose, Good, Session
  <2>2. PICK c \in {"none", "status", "inner"} : ss' = [x EXCEPT !.closer = c]
    BY <1>6 DEF TcpDestroyed, IInv, Good, Session
  <2> HIDE DEF x
  <2>3. Good([x EXCEPT !.closer = c]) /\ [x EXCEPT !.closer = c].state = x.state
    BY <2>1, CloserGood
  <2>4. Good(ss') /\ ss'.state = "closed"
    BY <2>1, <2>2, <2>3
  <2> QED
    BY <1>6, <2>4 DEF TcpDestroyed, BetweenCallbacks, IInv, SessionTypeOK, Good, Released
<1>7. CASE PeerCloses
  <2>1. Good(ss') /\ Released(ss')
    BY <1>7, OnInnerCloseGood DEF PeerCloses, IInv, Released
  <2> QED
    BY <1>7, <2>1 DEF PeerCloses, BetweenCallbacks, IInv, SessionTypeOK, Good
<1>8. CASE TcpResets
  <2>1. /\ Good(ss)
        /\ ss' = OnInnerClose(IF ss.pending THEN FailHandshake(ss)
                              ELSE EmitError(ss))
        /\ ss.tcp \notin {"none", "connecting"}
    BY <1>8 DEF TcpResets, IInv
  <2>2. ASSUME ss.pending
        PROVE  Good(FailHandshake(ss)) /\ FailHandshake(ss).tcp = ss.tcp
    <3>1. ~ss.keepalive
      BY <2>1, <2>2 DEF Good, Armed
    <3> QED
      BY <2>1, <3>1, FailHandshakeGood
  <2>3. Good(EmitError(ss)) /\ EmitError(ss).tcp = ss.tcp
    BY <2>1, EmitErrorGood
  <2> DEFINE x == IF ss.pending THEN FailHandshake(ss) ELSE EmitError(ss)
  <2>4. Good(x) /\ x.tcp # "none"
    BY <2>1, <2>2, <2>3
  <2>5. ss' = OnInnerClose(x)
    BY <2>1
  <2> HIDE DEF x
  <2>6. Good(ss') /\ Released(ss')
    BY <2>4, <2>5, OnInnerCloseGood DEF Released
  <2> QED
    BY <1>8, <2>6 DEF TcpResets, BetweenCallbacks, IInv, SessionTypeOK, Good
<1> QED
  BY <1>1, <1>2, <1>3, <1>4, <1>5, <1>6, <1>7, <1>8 DEF SocketStep

LEMMA TimerStepIInv ==
  ASSUME SecureAssumption, IInv, TimerStep
  PROVE  IInv'
<1>1. CASE HandshakeTimeout
  <2>1. /\ Good(ss) /\ ss' = FailHandshake(ss)
        /\ ~ss.keepalive /\ ss.tcp \notin {"none", "connecting"}
    BY <1>1 DEF HandshakeTimeout, IInv, Good, Armed, Begun
  <2>2. Good(ss') /\ ss'.state = "closed"
    BY <2>1, FailHandshakeGood
  <2> QED
    BY <1>1, <2>2 DEF HandshakeTimeout, BetweenCallbacks, IInv, SessionTypeOK, Good, Released
<1>2. CASE KeepaliveTick
  <2>1. Good(ss') /\ Released(ss')
    BY <1>2, SendStatusGood DEF KeepaliveTick, IInv, Released
  <2> QED
    BY <1>2, <2>1 DEF KeepaliveTick, BetweenCallbacks, IInv, SessionTypeOK, Good
<1> QED
  BY <1>1, <1>2 DEF TimerStep

LEMMA GatewayStepIInv ==
  ASSUME IInv, GatewayStep
  PROVE  IInv'
<1>1. /\ ss' = ss /\ chunk' = chunk
      /\ \E f \in Frame : inbound' = Append(inbound, f)
      /\ gateway' \in {"none", "asked", "responded", "accepted", "refused",
                       "ended", "gone"}
  BY DEF GatewayStep, GatewayResponds, GatewayDecides, GatewayTalks,
         GatewayEnds, GatewaySends, Frame, IInv, SessionTypeOK
<1>2. inbound' \in Seq(Frame) /\ Len(inbound') = Len(inbound) + 1
  BY <1>1 DEF IInv, SessionTypeOK
<1> QED
  BY <1>1, <1>2 DEF IInv, SessionTypeOK, Good, Released

LEMMA NextIInv ==
  ASSUME SecureAssumption, IInv, [SessionNext]_sessionVars
  PROVE  IInv'
<1>1. CASE UNCHANGED sessionVars
  BY <1>1 DEF sessionVars, IInv, SessionTypeOK, Good, Released, Linked
<1> QED
  BY <1>1, OwnerStepIInv, SocketStepIInv, TimerStepIInv, GatewayStepIInv
  DEF SessionNext

LEMMA AlwaysIInv == SessionSpec => []IInv
BY InitIInv, NextIInv, SecureAssumption, PTL DEF SessionSpec

-----------------------------------------------------------------------------
(* The lifecycle, with what the gateway has decided.                        *)

\* Only after the gateway's acceptance is its SESSION_STATUS on the way or the
\* session authenticated, and nothing is on the way before the socket is
\* connected.
Accepted ==
  /\ (ss.state = "authenticated" \/ \E i \in 1 .. Len(inbound) :
                                        inbound[i] = "success")
       => gateway \in {"accepted", "ended", "gone"}
  /\ ss.state = "idle" => inbound = <<>>

\* A step moves the state forward, and authenticates the session only with the
\* SESSION_STATUS it handles.
Progress ==
  /\ Stage[ss.state] <= Stage[ss'.state]
  /\ ss'.state = "authenticated" /\ ss.state # "authenticated" =>
       \E i \in 1 .. Len(inbound) : inbound[i] = "success"

LEMMA Unmoved ==
  ASSUME IInv, ss'.state = ss.state
  PROVE  Progress
BY Stages DEF Progress, IInv, Good, Session, Stage, SessionState

LEMMA OwnerStepProgress ==
  ASSUME SecureAssumption, IInv, OwnerStep
  PROVE  Progress
<1>1. CASE Bind
  <2>1. ss'.state = ss.state
    BY <1>1 DEF Bind, IInv, Good, Session
  <2> QED
    BY <2>1, Unmoved
<1>2. CASE SendFrame
  <2>1. ss'.state = ss.state
    BY <1>2, SendGood DEF SendFrame, IInv
  <2> QED
    BY <2>1, Unmoved
<1>3. CASE OwnerTearsDown
  <2>1. ss.tcp \notin {"none", "connecting"} /\ Good(ss)
    BY <1>3 DEF OwnerTearsDown, IInv, Good, Begun
  <2>2. Forward(ss, ss')
    BY <1>3, <2>1, TeardownGood DEF OwnerTearsDown
  <2> QED
    BY <2>2 DEF Forward, Progress
<1> QED
  BY <1>1, <1>2, <1>3 DEF OwnerStep

LEMMA SocketStepProgress ==
  ASSUME SecureAssumption, IInv, SocketStep
  PROVE  Progress
<1>1. CASE TcpConnects
  <2>1. ss.state = "idle" /\ ss'.state = "requesting"
    BY <1>1 DEF TcpConnects, IInv, Good, Begun, Session
  <2> QED
    BY <2>1 DEF Progress, Stage
<1>2. CASE TcpConnectFails
  <2>1. ss'.state = "closed" /\ ss.state \in SessionState
    BY <1>2 DEF TcpConnectFails, OnInnerClose, IInv, Good, Session
  <2> QED
    BY <2>1, Stages DEF Progress
<1>3. ASSUME NEW k \in 1 .. Len(inbound), TcpData(k) PROVE Progress
  BY <1>3, Unmoved DEF TcpData
<1>4. CASE HandleFrame
  <2> DEFINE x == OnFrame(ss, Head(inbound))
  <2>1. /\ chunk \in Nat /\ chunk > 0 /\ inbound \in Seq(Frame)
        /\ chunk <= Len(inbound) /\ Linked(ss) /\ Good(ss) /\ Released(ss)
    BY <1>4 DEF HandleFrame, IInv, SessionTypeOK
  <2>2. /\ Head(inbound) \in Frame /\ Head(inbound) = inbound[1]
        /\ 1 \in 1 .. Len(inbound)
    BY <2>1
  <2>3. /\ Good(x)
        /\ Stage[ss.state] <= Stage[x.state]
        /\ x.state = "authenticated" =>
             ss.state = "authenticated" \/ Head(inbound) = "success"
    BY <2>1, <2>2, OnFrameGood
  <2>4. ss' = x \/ ss' = Awaited(x)
    BY <1>4 DEF HandleFrame
  <2> HIDE DEF x
  <2>5. ss'.state = x.state
    BY <2>3, <2>4 DEF Awaited, Good, Session
  <2> QED
    BY <2>2, <2>3, <2>5 DEF Progress
<1>5. CASE StatusWritten
  <2>1. ss \in Session
    BY DEF IInv, Good
  <2>2. ss'.state = ss.state \/ ss'.state = "closed"
    BY <1>5, <2>1 DEF StatusWritten, CloseTcp, Session
  <2>3. CASE ss'.state = "closed"
    BY <2>1, <2>3, Stages DEF Progress, Session
  <2> QED
    BY <2>2, <2>3, Unmoved
<1>6. CASE TcpDestroyed \/ PeerCloses \/ TcpResets
  <2>1. /\ ss'.state = "closed" /\ ss.state \in SessionState
    BY <1>6 DEF TcpDestroyed, PeerCloses, TcpResets, OnInnerClose,
                FailHandshake, EmitError, SettleBind, IInv, Good, Session
  <2> QED
    BY <2>1, Stages DEF Progress
<1> QED
  BY <1>1, <1>2, <1>3, <1>4, <1>5, <1>6 DEF SocketStep

LEMMA NextProgress ==
  ASSUME SecureAssumption, IInv, [SessionNext]_sessionVars
  PROVE  Progress
<1>1. CASE UNCHANGED sessionVars
  BY <1>1, Unmoved DEF sessionVars
<1>2. CASE OwnerStep
  BY <1>2, OwnerStepProgress
<1>3. CASE SocketStep
  BY <1>3, SocketStepProgress
<1>4. CASE HandshakeTimeout
  <2>1. /\ Good(ss) /\ ss' = FailHandshake(ss)
        /\ ~ss.keepalive /\ ss.tcp \notin {"none", "connecting"}
    BY <1>4 DEF HandshakeTimeout, IInv, Good, Armed, Begun
  <2> QED
    BY <2>1, FailHandshakeGood DEF Forward, Progress
<1>5. CASE KeepaliveTick
  <2>1. ss'.state = ss.state
    BY <1>5, SendStatusGood DEF KeepaliveTick, IInv
  <2> QED
    BY <2>1, Unmoved
<1>6. CASE GatewayStep
  <2>1. ss' = ss
    BY <1>6 DEF GatewayStep, GatewayResponds, GatewayDecides, GatewayTalks,
                GatewayEnds, GatewaySends
  <2> QED
    BY <2>1, Unmoved
<1> QED
  BY <1>1, <1>2, <1>3, <1>4, <1>5, <1>6 DEF SessionNext, TimerStep

LEMMA NextAccepted ==
  ASSUME SecureAssumption, IInv, Accepted, [SessionNext]_sessionVars
  PROVE  Accepted'
<1>1. IInv' /\ Progress
  BY NextIInv, NextProgress
<1>2. /\ inbound \in Seq(Frame) /\ Good(ss) /\ ss.state \in SessionState
      /\ ss'.state = "idle" => ss.state = "idle"
  BY <1>1 DEF IInv, SessionTypeOK, Good, Session, SessionState, Progress, Stage
<1>3. ASSUME gateway' \in {gateway, "gone"},
             \A i \in 1 .. Len(inbound') :
               \E j \in 1 .. Len(inbound) : inbound'[i] = inbound[j],
             inbound = <<>> => inbound' = <<>>
      PROVE  Accepted'
  BY <1>1, <1>2, <1>3 DEF Accepted, Progress
<1>4. CASE \/ UNCHANGED sessionVars
           \/ OwnerStep
           \/ TcpConnectFails
           \/ \E k \in 1 .. Len(inbound) : TcpData(k)
           \/ StatusWritten
           \/ PeerCloses
           \/ TimerStep
  <2>1. inbound' = inbound /\ gateway' \in {gateway, "gone"}
    BY <1>4 DEF sessionVars, OwnerStep, Bind, SendFrame, OwnerTearsDown,
                TcpConnectFails, TcpData, StatusWritten, PeerCloses, TimerStep,
                HandshakeTimeout, KeepaliveTick
  <2> QED
    BY <1>3, <2>1
<1>5. CASE TcpDestroyed \/ TcpResets
  <2>1. inbound' = <<>> /\ gateway' \in {gateway, "gone"}
    BY <1>5 DEF TcpDestroyed, TcpResets
  <2> QED
    BY <1>3, <2>1
<1>6. CASE HandleFrame
  <2>1. inbound' = Tail(inbound) /\ gateway' = gateway /\ Len(inbound) > 0
    BY <1>6 DEF HandleFrame, IInv, SessionTypeOK
  <2>2. inbound # <<>> /\ Len(Tail(inbound)) = Len(inbound) - 1
        /\ \A i \in 1 .. Len(Tail(inbound)) : Tail(inbound)[i] = inbound[i + 1]
    BY <1>2, <2>1
  <2>3. \A i \in 1 .. Len(inbound') :
          i + 1 \in 1 .. Len(inbound) /\ inbound'[i] = inbound[i + 1]
    BY <1>2, <2>1, <2>2
  <2> QED
    BY <1>3, <2>1, <2>2, <2>3
<1>7. CASE TcpConnects
  <2>1. ss.state = "idle" /\ ss'.state = "requesting" /\ inbound' = <<>>
    BY <1>2, <1>7 DEF TcpConnects, Good, Begun, Session, Accepted
  <2> QED
    BY <2>1 DEF Accepted
<1>8. CASE GatewayStep
  <2>1. PICK f \in Frame :
          /\ inbound' = Append(inbound, f) /\ ss' = ss /\ Linked(ss)
          /\ \/ /\ gateway \in {"asked", "responded"}
                /\ gateway' \in {"responded", "refused", "ended"}
                /\ f # "success"
             \/ gateway' = "accepted"
             \/ gateway' = gateway /\ f # "success"
             \/ gateway' = "ended"
    BY <1>8 DEF GatewayStep, GatewayResponds, GatewayDecides, GatewayTalks,
                GatewayEnds, GatewaySends, Linked, Frame
  <2>2. ss'.state # "idle"
    BY <1>2, <2>1 DEF Good, Begun, Linked
  <2>3. \A i \in 1 .. Len(inbound') :
          \/ inbound'[i] = f
          \/ i \in 1 .. Len(inbound) /\ inbound'[i] = inbound[i]
    BY <1>2, <2>1
  <2> QED
    BY <2>1, <2>2, <2>3 DEF Accepted
<1> QED
  BY <1>4, <1>5, <1>6, <1>7, <1>8 DEF SessionNext, SocketStep

LEMMA InitAccepted == SessionInit => Accepted
BY DEF SessionInit, Accepted

LEMMA AlwaysAccepted == SessionSpec => [](IInv /\ Accepted)
BY InitIInv, InitAccepted, NextIInv, NextAccepted, SecureAssumption, PTL
DEF SessionSpec

-----------------------------------------------------------------------------
(* The theorems.                                                            *)

\* The session, the frames on their way and the gateway keep their types.
THEOREM TypeCorrect == SessionSpec => []SessionTypeOK
<1>1. IInv => SessionTypeOK
  BY DEF IInv
<1> QED
  BY <1>1, AlwaysIInv, PTL

\* No two wrappers of a session carry the same sequence id, and they grow.
THEOREM NoIdTwice == SessionSpec => []SequenceIdsGrow
<1>1. IInv => SequenceIdsGrow
  BY DEF IInv, Good, IdsGrow, SequenceIdsGrow
<1> QED
  BY <1>1, AlwaysIInv, PTL

\* The keepalive timer runs only in an authenticated session on a live socket.
THEOREM NoStrayKeepalive == SessionSpec => []KeepaliveStops
<1>1. IInv => KeepaliveStops
  BY DEF IInv, Good, Armed, Linked, KeepaliveStops
<1> QED
  BY <1>1, AlwaysIInv, PTL

\* The state of the session only moves forward, and it is authenticated only
\* with a key and after the gateway's acceptance.
THEOREM Onward == SessionSpec => Lifecycle
<1>1. ASSUME IInv, Accepted, [SessionNext]_sessionVars
      PROVE  [ /\ Stage[ss.state] <= Stage[ss'.state]
               /\ ss'.state = "authenticated" =>
                    /\ ss'.key
                    /\ gateway' \in {"accepted", "ended", "gone"} ]_sessionVars
  <2>1. IInv' /\ Accepted' /\ Progress
    BY <1>1, NextIInv, NextAccepted, NextProgress, SecureAssumption
  <2> QED
    BY <2>1 DEF IInv, Good, Armed, Accepted, Progress
<1> QED
  BY <1>1, AlwaysAccepted, PTL DEF SessionSpec, Lifecycle
=============================================================================
