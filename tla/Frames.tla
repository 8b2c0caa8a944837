------------------------------- MODULE Frames -------------------------------
(***************************************************************************)
(* The KNXnet/IP frames of src/core/knxipHeader.ts, knxipFrame.ts, hpai.ts,*)
(* cri.ts and src/core/bodies/.  A buffer is a sequence of bytes.  For each*)
(* structure X there is XOut(m), the bytes of toKnx(), and XIn(b) for      *)
(* fromKnx(b): the set of what is read, empty where fromKnx throws         *)
(* CouldNotParseKNXIP.  The offset of a body is always that behind the     *)
(* header, so a body is read from what follows it.                         *)
(***************************************************************************)
EXTENDS Integers, Sequences

CONSTANT Absent   \* null or undefined

ASSUME AbsentAssumption == Absent \notin Int   \* which are no numbers

U16(n) == <<n \div 256, n % 256>>
U16At(b, at) == 256 * b[at + 1] + b[at + 2]
Bytes(b, at, n) == SubSeq(b, at + 1, at + n)
Rest(b, at) == SubSeq(b, at + 1, Len(b))

\* A uint48 does not fit TLC's integers: it is three digits to the base 2^16,
\* two of which are the low word of the code.
U48(n) == U16(n[1]) \o U16(n[2]) \o U16(n[3])
U48At(b, at) == <<U16At(b, at), U16At(b, at + 2), U16At(b, at + 4)>>

-----------------------------------------------------------------------------
\* The structures inside the bodies.

RouteBack(protocol) == [ip |-> <<0, 0, 0, 0>>, port |-> 0, protocol |-> protocol]

HpaiOut(h) == <<8, h.protocol>> \o h.ip \o U16(h.port)
HpaiIn(b, at) ==
  IF Len(b) - at >= 8 /\ b[at + 1] = 8 /\ b[at + 2] \in {1, 2}
  THEN {[ip |-> Bytes(b, at + 2, 4), port |-> U16At(b, at + 6), protocol |-> b[at + 2]]}
  ELSE {}

TunnelConnection == 4
DataLinkLayer == 2

\* Connection request information; only that of a tunnel has more than a type.
CriLength(c) ==
  IF c.type # TunnelConnection THEN 2 ELSE IF c.address = Absent THEN 4 ELSE 6

CriOut(c) ==
  <<CriLength(c), c.type>> \o (IF c.type = TunnelConnection THEN <<c.layer, 0>> ELSE <<>>)
    \o (IF CriLength(c) = 6 THEN U16(c.address) ELSE <<>>)

CriIn(b, at) ==
  IF /\ Len(b) - at >= 2
     /\ Len(b) - at >= b[at + 1]
     /\ b[at + 1] \in IF b[at + 2] = TunnelConnection THEN {4, 6} ELSE {2}
  THEN {[type |-> b[at + 2],
         layer |-> IF b[at + 1] = 2 THEN DataLinkLayer ELSE b[at + 3],
         address |-> IF b[at + 1] = 6 THEN U16At(b, at + 4) ELSE Absent]}
  ELSE {}

\* Connection response data: the same with the assigned address.
CrdLength(c) == IF c.type = TunnelConnection THEN 4 ELSE 2

CrdOut(c) ==
  <<CrdLength(c), c.type>> \o
    (IF c.type # TunnelConnection THEN <<>>
     ELSE U16(IF c.address = Absent THEN 0 ELSE c.address))

CrdIn(b, at) ==
  IF /\ Len(b) - at >= 2
     /\ Len(b) - at >= b[at + 1]
     /\ b[at + 1] = IF b[at + 2] = TunnelConnection THEN 4 ELSE 2
  THEN {[type |-> b[at + 2],
         address |-> IF b[at + 1] = 4 THEN U16At(b, at + 2) ELSE Absent]}
  ELSE {}

\* The name of a device ends at its first zero byte, or after 30.
Padded(name) == name \o [i \in 1..30 - Len(name) |-> 0]
Unpadded(s) ==
  LET zeros == {i \in 1..Len(s) : s[i] = 0}
  IN  SubSeq(s, 1, (CHOOSE n \in 0..Len(s) :
                      /\ \A i \in 1..n : i \notin zeros
                      /\ n = Len(s) \/ n + 1 \in zeros))

DeviceInfoLength == 54
DeviceInfoOut(d) ==
  <<DeviceInfoLength, 1, d.medium, d.status>> \o U16(d.address) \o U16(d.installation)
    \o d.serial \o d.multicast \o d.mac \o Padded(d.name)
DeviceInfoIn(b, at) ==
  IF Len(b) - at >= DeviceInfoLength /\ b[at + 1] = DeviceInfoLength /\ b[at + 2] = 1
  THEN {[medium |-> b[at + 3], status |-> b[at + 4], address |-> U16At(b, at + 4),
         installation |-> U16At(b, at + 6), serial |-> Bytes(b, at + 8, 6),
         multicast |-> Bytes(b, at + 14, 4), mac |-> Bytes(b, at + 18, 6),
         name |-> Unpadded(Bytes(b, at + 24, 30))]}
  ELSE {}

-----------------------------------------------------------------------------
\* The bodies.

ConnectRequestOut(m) == HpaiOut(m.control) \o HpaiOut(m.data) \o CriOut(m.cri)
ConnectRequestIn(b) ==
  {[service |-> "CONNECT_REQUEST", control |-> c, data |-> d, cri |-> i] :
     c \in HpaiIn(b, 0), d \in HpaiIn(b, 8), i \in CriIn(b, 16)}

\* A response with an error has neither endpoint nor CRD.
ConnectResponseOut(m) ==
  <<m.channel, m.status>> \o
    (IF m.status # 0 THEN <<>> ELSE HpaiOut(m.data) \o CrdOut(m.crd))
ConnectResponseIn(b) ==
  IF Len(b) < 2 THEN {}
  ELSE {[service |-> "CONNECT_RESPONSE", channel |-> b[1], status |-> b[2],
         data |-> d, crd |-> c] :
          d \in IF b[2] = 0 THEN HpaiIn(b, 2) ELSE {RouteBack(1)},
          c \in IF b[2] = 0 THEN CrdIn(b, 10)
                ELSE {[type |-> TunnelConnection, address |-> Absent]}}

ConnectionStateRequestOut(m) == <<m.channel, 0>> \o HpaiOut(m.control)
ConnectionStateRequestIn(b) ==
  {[service |-> "CONNECTIONSTATE_REQUEST", channel |-> b[1], control |-> c] :
     c \in HpaiIn(b, 2)}

ConnectionStateResponseOut(m) == <<m.channel, m.status>>
ConnectionStateResponseIn(b) ==
  IF Len(b) < 2 THEN {}
  ELSE {[service |-> "CONNECTIONSTATE_RESPONSE", channel |-> b[1], status |-> b[2]]}

DisconnectRequestOut(m) == <<m.channel, 0>> \o HpaiOut(m.control)
DisconnectRequestIn(b) ==
  {[service |-> "DISCONNECT_REQUEST", channel |-> b[1], control |-> c] : c \in HpaiIn(b, 2)}

DisconnectResponseOut(m) == <<m.channel, m.status>>
DisconnectResponseIn(b) ==
  IF Len(b) < 2 THEN {}
  ELSE {[service |-> "DISCONNECT_RESPONSE", channel |-> b[1], status |-> b[2]]}

SearchRequestOut(m) == HpaiOut(m.control)
SearchRequestIn(b) ==
  {[service |-> "SEARCH_REQUEST", control |-> c] : c \in HpaiIn(b, 0)}

\* The device info is optional; the blocks behind it are kept as bytes.
SearchResponseOut(m) ==
  HpaiOut(m.control) \o (IF m.device = Absent THEN <<>> ELSE DeviceInfoOut(m.device))
    \o m.trailing
SearchResponseIn(b) ==
  LET device == DeviceInfoIn(b, 8)
  IN  {[service |-> "SEARCH_RESPONSE", control |-> c,
        device |-> IF device = {} THEN Absent ELSE CHOOSE d \in device : TRUE,
        trailing |-> Rest(b, IF device = {} THEN 8 ELSE 8 + DeviceInfoLength)] :
         c \in HpaiIn(b, 0)}

SecureWrapperOut(m) ==
  U16(m.session) \o U48(m.sequence) \o U48(m.serial) \o U16(m.tag) \o m.encrypted \o m.mac
SecureWrapperIn(b) ==
  IF Len(b) < 32 THEN {}
  ELSE {[service |-> "SECURE_WRAPPER", session |-> U16At(b, 0), sequence |-> U48At(b, 2),
         serial |-> U48At(b, 8), tag |-> U16At(b, 14),
         encrypted |-> Bytes(b, 16, Len(b) - 32), mac |-> Rest(b, Len(b) - 16)]}

SessionRequestOut(m) == HpaiOut(m.control) \o m.key
SessionRequestIn(b) ==
  IF Len(b) < 40 THEN {}
  ELSE {[service |-> "SESSION_REQUEST", control |-> c, key |-> Bytes(b, 8, 32)] :
          c \in HpaiIn(b, 0)}

SessionResponseOut(m) == U16(m.session) \o m.key \o m.mac
SessionResponseIn(b) ==
  IF Len(b) < 50 THEN {}
  ELSE {[service |-> "SESSION_RESPONSE", session |-> U16At(b, 0),
         key |-> Bytes(b, 2, 32), mac |-> Bytes(b, 34, 16)]}

\* The constructor throws a RangeError for other users; see FrameIn.
UserInRange(b) == b[2] \in 1..127
SessionAuthenticateOut(m) == <<0, m.user>> \o m.mac
SessionAuthenticateIn(b) ==
  IF Len(b) < 18 THEN {}
  ELSE {[service |-> "SESSION_AUTHENTICATE", user |-> b[2], mac |-> Bytes(b, 2, 16)]}

SessionStatusOut(m) == <<m.status>>
SessionStatusIn(b) ==
  IF Len(b) < 1 THEN {} ELSE {[service |-> "SESSION_STATUS", status |-> b[1]]}

TimerNotifyOut(m) == U48(m.timer) \o U48(m.serial) \o U16(m.tag) \o m.mac
TimerNotifyIn(b) ==
  IF Len(b) < 30 THEN {}
  ELSE {[service |-> "TIMER_NOTIFY", timer |-> U48At(b, 0), serial |-> U48At(b, 6),
         tag |-> U16At(b, 12), mac |-> Bytes(b, 14, 16)]}

\* The cEMI frame stays bytes until the tunnel has acknowledged the request.
TunnellingRequestOut(m) == <<4, m.channel, m.seq, 0>> \o m.cemi
TunnellingRequestIn(b) ==
  IF Len(b) < 4 THEN {}
  ELSE {[service |-> "TUNNELLING_REQUEST", channel |-> b[2], seq |-> b[3],
         cemi |-> Rest(b, 4)] : len \in {b[1]} \cap {4}}

TunnellingAckOut(m) == <<4, m.channel, m.seq, m.status>>
TunnellingAckIn(b) ==
  IF Len(b) < 4 THEN {}
  ELSE {[service |-> "TUNNELLING_ACK", channel |-> b[2], seq |-> b[3], status |-> b[4]] :
          len \in {b[1]} \cap {4}}

-----------------------------------------------------------------------------
\* The frame: header and body.

ServiceType ==
  [SEARCH_REQUEST |-> 513, SEARCH_RESPONSE |-> 514,
   CONNECT_REQUEST |-> 517, CONNECT_RESPONSE |-> 518,
   CONNECTIONSTATE_REQUEST |-> 519, CONNECTIONSTATE_RESPONSE |-> 520,
   DISCONNECT_REQUEST |-> 521, DISCONNECT_RESPONSE |-> 522,
   TUNNELLING_REQUEST |-> 1056, TUNNELLING_ACK |-> 1057,
   SECURE_WRAPPER |-> 2384, SESSION_REQUEST |-> 2385, SESSION_RESPONSE |-> 2386,
   SESSION_AUTHENTICATE |-> 2387, SESSION_STATUS |-> 2388, TIMER_NOTIFY |-> 2389]

Services == DOMAIN ServiceType

BodyOut(m) ==
  CASE m.service = "CONNECT_REQUEST" -> ConnectRequestOut(m)
    [] m.service = "CONNECT_RESPONSE" -> ConnectResponseOut(m)
    [] m.service = "CONNECTIONSTATE_REQUEST" -> ConnectionStateRequestOut(m)
    [] m.service = "CONNECTIONSTATE_RESPONSE" -> ConnectionStateResponseOut(m)
    [] m.service = "DISCONNECT_REQUEST" -> DisconnectRequestOut(m)
    [] m.service = "DISCONNECT_RESPONSE" -> DisconnectResponseOut(m)
    [] m.service = "SEARCH_REQUEST" -> SearchRequestOut(m)
    [] m.service = "SEARCH_RESPONSE" -> SearchResponseOut(m)
    [] m.service = "SECURE_WRAPPER" -> SecureWrapperOut(m)
    [] m.service = "SESSION_REQUEST" -> SessionRequestOut(m)
    [] m.service = "SESSION_RESPONSE" -> SessionResponseOut(m)
    [] m.service = "SESSION_AUTHENTICATE" -> SessionAuthenticateOut(m)
    [] m.service = "SESSION_STATUS" -> SessionStatusOut(m)
    [] m.service = "TIMER_NOTIFY" -> TimerNotifyOut(m)
    [] m.service = "TUNNELLING_REQUEST" -> TunnellingRequestOut(m)
    [] m.service = "TUNNELLING_ACK" -> TunnellingAckOut(m)

BodyIn(service, b) ==
  CASE service = "CONNECT_REQUEST" -> ConnectRequestIn(b)
    [] service = "CONNECT_RESPONSE" -> ConnectResponseIn(b)
    [] service = "CONNECTIONSTATE_REQUEST" -> ConnectionStateRequestIn(b)
    [] service = "CONNECTIONSTATE_RESPONSE" -> ConnectionStateResponseIn(b)
    [] service = "DISCONNECT_REQUEST" -> DisconnectRequestIn(b)
    [] service = "DISCONNECT_RESPONSE" -> DisconnectResponseIn(b)
    [] service = "SEARCH_REQUEST" -> SearchRequestIn(b)
    [] service = "SEARCH_RESPONSE" -> SearchResponseIn(b)
    [] service = "SECURE_WRAPPER" -> SecureWrapperIn(b)
    [] service = "SESSION_REQUEST" -> SessionRequestIn(b)
    [] service = "SESSION_RESPONSE" -> SessionResponseIn(b)
    [] service = "SESSION_AUTHENTICATE" -> SessionAuthenticateIn(b)
    [] service = "SESSION_STATUS" -> SessionStatusIn(b)
    [] service = "TIMER_NOTIFY" -> TimerNotifyIn(b)
    [] service = "TUNNELLING_REQUEST" -> TunnellingRequestIn(b)
    [] service = "TUNNELLING_ACK" -> TunnellingAckIn(b)

\* calculatedLength() of a body, which the code computes apart from toKnx().
FixedLength ==
  [CONNECTIONSTATE_REQUEST |-> 10, CONNECTIONSTATE_RESPONSE |-> 2,
   DISCONNECT_REQUEST |-> 10, DISCONNECT_RESPONSE |-> 2, SEARCH_REQUEST |-> 8,
   SESSION_REQUEST |-> 40, SESSION_RESPONSE |-> 50, SESSION_AUTHENTICATE |-> 18,
   SESSION_STATUS |-> 1, TIMER_NOTIFY |-> 30, TUNNELLING_ACK |-> 4]

CalculatedLength(m) ==
  CASE m.service = "CONNECT_REQUEST" -> 16 + CriLength(m.cri)
    [] m.service = "CONNECT_RESPONSE" -> 10 + CrdLength(m.crd)
    [] m.service = "SEARCH_RESPONSE" ->
         8 + (IF m.device = Absent THEN 0 ELSE DeviceInfoLength) + Len(m.trailing)
    [] m.service = "SECURE_WRAPPER" -> 32 + Len(m.encrypted)
    [] m.service = "TUNNELLING_REQUEST" -> 4 + Len(m.cemi)
    [] OTHER -> FixedLength[m.service]

HeaderLength == 6
HeaderOut(code, total) == <<HeaderLength, 16>> \o U16(code) \o U16(total)

\* KNXIPHeader.fromKnx throws CouldNotParseKNXIP; six bytes are there.
HeaderFails(raw) == raw[1] # HeaderLength \/ raw[2] # 16
TotalLength(raw) == U16At(raw, 4)

\* KNXIPFrame.fromBody(m).toKnx()
FrameOut(m) ==
  HeaderOut(ServiceType[m.service], HeaderLength + CalculatedLength(m)) \o BodyOut(m)

\* KNXIPFrame.fromKnx(raw) as the transports use it: the event they emit.
\* Three kinds of exception make it 'raw'; any other, the RangeError for a user
\* out of range, makes it 'error'.
Emitted(event, body) == [event |-> event, body |-> body]

FrameIn(raw) ==
  LET b == Rest(raw, HeaderLength)
      service == {s \in Services : ServiceType[s] = U16At(raw, 2)}
      body == UNION {BodyIn(s, b) : s \in service}
  IN  IF Len(raw) < HeaderLength THEN Emitted("raw", Absent)
      ELSE IF HeaderFails(raw) \/ TotalLength(raw) > Len(raw) \/ body = {}
        THEN Emitted("raw", Absent)
      ELSE IF service = {"SESSION_AUTHENTICATE"} /\ ~UserInRange(b)
        THEN Emitted("error", Absent)
      ELSE Emitted("message", CHOOSE m \in body : TRUE)
=============================================================================
