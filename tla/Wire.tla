-------------------------------- MODULE Wire --------------------------------
(***************************************************************************)
(* The way of a value from the bus to a node, over the bytes of one        *)
(* transport: datapoint, APDU, cEMI frame, KNXnet/IP frame, chunks or      *)
(* datagrams, and back, to what a listener and the nodes behind it send.   *)
(* This module gives Transports the streams to carry: all kinds of frames, *)
(* telegrams with values at the borders of their types, and what is none.  *)
(***************************************************************************)
EXTENDS Translators, Transports

\* What is Absent is no DPT, no value on its way and no request that carries one.
ASSUME NothingAssumption ==
  /\ Absent \notin RegisteredDpts
  /\ Absent \notin [kind : {"GroupValueResponse", "GroupValueWrite"},
                    data : [small : BOOLEAN, value : Seq(0..255)]]
  /\ Absent \notin [service : {"TUNNELLING_REQUEST"}, channel : 0..255, seq : 0..255,
                    cemi : Seq(0..255)]

Source == 4354    \* 1.1.2

-----------------------------------------------------------------------------
\* Units.

Unit(m) == [bytes |-> FrameOut(m), body |-> m, telegram |-> Absent]
Stray(b) == [bytes |-> b, body |-> Absent, telegram |-> Absent]

\* A telegram on its way from the gateway, with the value it carries.
TelegramUnit(f, dpt, v) ==
  LET m == [service |-> "TUNNELLING_REQUEST", channel |-> 7, seq |-> 255, cemi |-> CemiOut(f)]
  IN  [bytes |-> FrameOut(m), body |-> m, telegram |-> f, carries |-> <<dpt, v>>]

ValueUnits(kind, dst, dpt, v) ==
  {TelegramUnit(GroupCemi(L_DATA_IND, dst, Source, GroupValue(kind, apdu)), dpt, v) :
     apdu \in DptOut(dpt, v)}

Fill(n, byte) == [i \in 1..n |-> byte]
Endpoint == [ip |-> <<192, 168, 1, 20>>, port |-> 3671, protocol |-> 1]
TunnelCri == [type |-> TunnelConnection, layer |-> DataLinkLayer, address |-> Absent]
Gateway == [medium |-> 32, status |-> 0, address |-> 65535, installation |-> 258,
            serial |-> Fill(6, 16), multicast |-> <<224, 0, 23, 12>>, mac |-> Fill(6, 6),
            name |-> <<75, 78, 88>>]

\* One or more of each service, the lengths at their limits where they vary.
Bodies ==
  {[service |-> "CONNECT_REQUEST", control |-> Endpoint, data |-> RouteBack(2), cri |-> c] :
     c \in {TunnelCri, [TunnelCri EXCEPT !.address = 65535], [TunnelCri EXCEPT !.type = 3]}}
  \cup
  {[service |-> "CONNECT_RESPONSE", channel |-> 7, status |-> 0, data |-> Endpoint, crd |-> c] :
     c \in {[type |-> 4, address |-> 4353], [type |-> 3, address |-> Absent]}}
  \cup
  {[service |-> s, channel |-> 255, control |-> Endpoint] :
     s \in {"CONNECTIONSTATE_REQUEST", "DISCONNECT_REQUEST"}}
  \cup
  {[service |-> s, channel |-> 7, status |-> 38] :
     s \in {"CONNECTIONSTATE_RESPONSE", "DISCONNECT_RESPONSE"}}
  \cup
  {[service |-> "SEARCH_REQUEST", control |-> RouteBack(1)],
   [service |-> "TUNNELLING_ACK", channel |-> 7, seq |-> 255, status |-> 41],
   [service |-> "SESSION_REQUEST", control |-> RouteBack(2), key |-> Fill(32, 6)],
   [service |-> "SESSION_RESPONSE", session |-> 65535, key |-> Fill(32, 16), mac |-> Fill(16, 6)],
   [service |-> "SESSION_AUTHENTICATE", user |-> 127, mac |-> Fill(16, 16)],
   [service |-> "SESSION_STATUS", status |-> 5],
   [service |-> "TIMER_NOTIFY", timer |-> <<6, 4096, 65535>>, serial |-> <<0, 1, 2>>,
    tag |-> 258, mac |-> Fill(16, 255)],
   [service |-> "SECURE_WRAPPER", session |-> 1, sequence |-> <<0, 0, 65535>>,
    serial |-> <<250, 0, 1>>, tag |-> 0, encrypted |-> HeaderOut(2388, 8), mac |-> Fill(16, 6)]}
  \cup
  {[service |-> "SEARCH_RESPONSE", control |-> Endpoint, device |-> d, trailing |-> t] :
     d \in {Absent, Gateway, [Gateway EXCEPT !.name = Fill(30, 65)]}, t \in {<<>>, <<4, 2, 2, 1>>}}

\* Bytes that are no frame: they are passed over one by one (stray header bytes
\* among them), or with the frame they are in.
NoFrames ==
  {<<6>>, <<0, 16, 6, 0>>,
   HeaderOut(1056, 5),                                      \* shorter than its header
   HeaderOut(544, 8) \o <<6, 16>>,                          \* a service without a body
   HeaderOut(1057, 10) \o <<5, 1, 0, 0>>,                   \* not four bytes of header
   HeaderOut(517, 16) \o HpaiOut(Endpoint) \o <<2, 4>>,     \* too short
   HeaderOut(2387, 24) \o <<0, 0>> \o Fill(16, 1)}          \* user 0

\* What a gateway sends that refuses: the connect response without endpoint.
Refusal ==
  [bytes |-> HeaderOut(518, 8) \o <<0, 36>>, telegram |-> Absent,
   body |-> [service |-> "CONNECT_RESPONSE", channel |-> 0, status |-> 36,
             data |-> RouteBack(1), crd |-> [type |-> TunnelConnection, address |-> Absent]]]

-----------------------------------------------------------------------------
\* Values.

Moments ==
  {[year |-> y, month |-> 12, day |-> 31, hour |-> h, dayOfWeek |-> 7, minutes |-> 59,
    seconds |-> 59, fault |-> f, workingDay |-> ~f, workingDayValid |-> f,
    summerTime |-> ~f, unsynchronised |-> f] :
     y \in {1900, 2155}, h \in {0, 24}, f \in BOOLEAN}

Values ==
  {<<<<1, 1>>, v>> : v \in BOOLEAN} \cup
  {<<<<2, 1>>, [control |-> c, value |-> v]>> : c, v \in BOOLEAN} \cup
  {<<<<3, 7>>, [control |-> c, stepCode |-> s]>> : c \in BOOLEAN, s \in {0, 7}} \cup
  {<<<<4, 1>>, <<127>>>>, <<<<4, 2>>, <<233>>>>} \cup
  {<<<<5, 1>>, v>> : v \in {0, 49, 50, 12750, 12801, 25500}} \cup
  {<<<<5, 3>>, v>> : v \in {179, 180, 45900, 91800}} \cup
  {<<dpt, v>> : dpt \in {<<5, 10>>, <<20, 102>>}, v \in {<<0>>, <<255>>}} \cup
  {<<<<6, 10>>, v>> : v \in {<<-128>>, <<-1>>, <<127>>}} \cup
  {<<<<7, 1>>, <<255, 255>>>>, <<<<12, 1>>, <<255, 0, 0, 255>>>>, <<<<17, 1>>, <<63>>>>} \cup
  {<<<<8, 1>>, v>> : v \in {<<-128, 0>>, <<-1, 255>>, <<127, 255>>}} \cup
  {<<<<9, 1>>, v>> :
     v \in {0, 2, -2, 3, 8600, -12004, 8188, 8190, -8192, -8194, FloatMin, FloatMax}} \cup
  {<<<<14, 68>>, [negative |-> n, exponent |-> e, fraction |-> f]>> :
     n \in BOOLEAN, e \in {0, 127, 254}, f \in {<<0, 0, 0>>, <<127, 255, 255>>}} \cup
  {<<<<10, 1>>, [day |-> d, hour |-> 23, minutes |-> 59, seconds |-> 59]>> : d \in {0, 7}} \cup
  {<<<<11, 1>>, [day |-> 31, month |-> 12, year |-> y]>> : y \in {1990, 1999, 2000, 2089}} \cup
  {<<<<13, 10>>, <<-1, 255, 255, 255>>>>, <<<<29, 10>>, <<-128>> \o Fill(7, 0)>>} \cup
  {<<<<16, 1>>, v>> : v \in {<<>>, <<233, 0, 65>>, Fill(14, 255)}} \cup
  {<<<<16, 0>>, <<75, 78, 88>>>>, <<<<28, 1>>, <<75, 195, 169>>>>} \cup
  {<<dpt, [scene |-> s, flag |-> f]>> :
     dpt \in {<<18, 1>>, <<26, 1>>}, s \in {0, 63}, f \in BOOLEAN} \cup
  {<<<<19, 1>>, v>> : v \in Moments} \cup
  {<<<<232, 600>>, <<255, 0, 16>>>>} \cup
  {<<<<235, 1>>, [energy |-> <<-1, 0, 0, 16>>, tariff |-> 254, energyValid |-> e,
                  tariffValid |-> ~e]>> : e \in BOOLEAN} \cup
  {<<<<251, 600>>, [channels |-> <<1, 2, 3, 255>>, valid |-> <<e, ~e, e, TRUE>>]>> :
     e \in BOOLEAN}

\* Two values are responses, to the broadcast address and to the last one.
ValueTelegrams ==
  UNION {ValueUnits("GroupValueWrite", 2563, v[1], v[2]) : v \in Values}
    \cup UNION {ValueUnits("GroupValueResponse", dst, <<1, 1>>, TRUE) : dst \in {0, 65535}}

\* What the scene and the color node send, with the value it is to mean.
SceneTelegrams ==
  UNION {{TelegramUnit(GroupCemi(L_DATA_IND, 2564, Source, GroupValue("GroupValueWrite", o.apdu)),
                       o.dpt, IF o.dpt = <<17, 1>> THEN <<n>>
                              ELSE [scene |-> n, flag |-> control = "learn"]) :
            o \in SceneOutOf(mode, n, control)} :
           n \in {0, 63, 64}, control \in {"activate", "learn", Absent},
           mode \in {"auto", <<17, 1>>, <<18, 1>>}}

ColorTelegrams ==
  UNION {{TelegramUnit(GroupCemi(L_DATA_IND, 2565, Source, GroupValue("GroupValueWrite", o.apdu)),
                       o.dpt, IF mode = "rgb" THEN rgb
                              ELSE [channels |-> rgb \o <<IF w = Absent THEN 0 ELSE w>>,
                                    valid |-> [i \in 1..4 |-> TRUE]]) :
            o \in ColorOutOf(mode, rgb, w)} :
           mode \in {"rgb", "rgbw"}, rgb \in {<<255, 0, 6>>, <<0, 256, 16>>},
           w \in {Absent, 255, 256}}

\* Telegrams without a value: a read, another service, those of a connection.
Direct(tpci, payload) ==
  [code |-> L_DATA_IND, info |-> <<3, 1, 5>>,
   data |-> [flags |-> OutgoingGroupFlags - GroupFlag, src |-> Source, dst |-> 4353,
             tpci |-> tpci, payload |-> payload]]

PlainTelegrams ==
  {TelegramUnit(f, Absent, Absent) :
     f \in {GroupCemi(L_DATA_CON, 2563, Source, GroupValueRead),
            Direct(Tpci("TConnect"), Absent), Direct(Tpci("TDisconnect"), Absent),
            Direct(Numbered("TAck", 15), Absent), Direct(Numbered("TNak", 1), Absent),
            Direct(Numbered("TDataConnected", 15),
                   [kind |-> "Unknown", service |-> 768, raw |-> <<3, 0>>]),
            Direct(Tpci("TDataIndividual"),
                   [kind |-> "Unknown", service |-> 727, raw |-> <<2, 215, 1, 2>>])}}

-----------------------------------------------------------------------------
\* Every unit by itself, and pairs and triples around one frame.

Ack == Unit([service |-> "TUNNELLING_ACK", channel |-> 6, seq |-> 16, status |-> 0])
SomeTelegram == CHOOSE u \in ValueTelegrams : u.carries[1] = <<10, 1>>

WireStreams ==
  {[kind |-> k, units |-> <<u>>] :
     k \in {"tcp", "udp"},
     u \in ValueTelegrams \cup SceneTelegrams \cup ColorTelegrams \cup PlainTelegrams
           \cup {Unit(m) : m \in Bodies} \cup {Refusal}}
  \cup
  {[kind |-> "tcp", units |-> s] :
     s \in UNION {{<<Stray(b), Ack>>, <<Ack, Stray(b), SomeTelegram>>,
                   <<SomeTelegram, Stray(b), Stray(b), Ack>>} : b \in NoFrames}}
  \cup
  {[kind |-> "udp", units |-> <<Ack, Stray(b), SomeTelegram, Refusal>>] : b \in NoFrames}

-----------------------------------------------------------------------------
\* What _handleInboundTunnelling makes of the body of a message: a telegram, if it
\* can be read.
TelegramsOf(body) ==
  IF body = Absent THEN {}
  ELSE IF body.service # "TUNNELLING_REQUEST" THEN {}
  ELSE CemiIn(body.cemi)

TelegramOf(body) ==
  IF TelegramsOf(body) = {} THEN Absent ELSE CHOOSE t \in TelegramsOf(body) : TRUE

-----------------------------------------------------------------------------
\* How close a value comes back: a scaled byte within half of its step, a float
\* within half a hundredth or half of its last mantissa bit, others exactly.
Near(v, w) == IF v > w THEN v - w ELSE w - v

Faithful(dpt, v, w) ==
  CASE dpt \in {<<5, 1>>, <<5, 3>>} -> 2 * Near(v, w) <= ScaledMax(dpt[2])
    [] dpt[1] = 9 -> Near(v, w) <= 2 \/ 2047 * Near(v, w) <= Near(w, 0)
    [] OTHER -> v = w

\* An address is the same in each notation, and a pattern finds it.
SameAddress(raw) ==
  /\ \A style \in {"long", "short", "free"} : GroupAddress(GroupText(raw, style)) = {raw}
  /\ IndividualAddress(IndividualText(raw)) = {raw}
  /\ LET pattern == [GroupText(raw, "long") EXCEPT ![2] = Star]
     IN  Compiles(pattern) /\ Matches(pattern, raw) /\ ~Matches(pattern, (raw + 1) % 65536)

\* A listener and the nodes behind it show the value that was sent: the listener
\* with a DPT of its own, the ets node and mqtt-publish by the project.  The ets
\* node turns it back into a telegram that reads the same, and passes on what
\* the project does not know as it came; mqtt-publish drops it.
ShownAs(unit, f) ==
  LET dpt == unit.carries[1]
      map == [raw \in {f.data.dst} |-> [dpt |-> dpt]]
  IN  \A m \in ListenerOut({}, Absent, f) :
        \E w \in DptIn(dpt, f.data.payload.data) :
          LET out == [m EXCEPT !.payload = AValue(w)]
          IN  /\ Faithful(dpt, unit.carries[2], w)
              /\ ListenerOut({f.data.dst}, dpt, f) = {out}
              /\ EtsOut(map, "auto", m) = [first |-> {out}, second |-> {}]
              /\ \E back \in EtsOut(map, "auto", out).first :
                   DptIn(dpt, back.payload.value) = {w}
              /\ MqttOut(map, FALSE, m) = {AValue(w)}
              /\ EtsOut(<<>>, "auto", m) = [first |-> {}, second |-> {m}]
              /\ MqttOut(<<>>, FALSE, m) = {} /\ MqttOut(<<>>, TRUE, m) = {m.payload}

\* The bytes of a unit have become a telegram: its address is one in each
\* notation, and what is sent for it means what it carries.
Means(unit) ==
  LET sends == ListenerOut({}, Absent, unit.telegram) # {}
  IN  /\ SameAddress(unit.telegram.data.dst)
      /\ IF unit.carries[1] = Absent THEN ~sends ELSE sends /\ ShownAs(unit, unit.telegram)

\* Each telegram that has arrived is read as it was sent, in its order, with the
\* value it was sent with, for each kind of datapoint type and whatever the
\* chunks were: the encoders and decoders of four layers fit each other.
ArrivedUnits == [k \in 1..Len(link.arrived) |-> link.units[link.arrived[k]]]

ValuesArrive ==
  /\ Agree([i \in 1..Len(link.out) |-> TelegramOf(Received(link.out)[i])],
           [k \in 1..Len(ArrivedUnits) |-> ArrivedUnits[k].telegram])
  /\ \A k \in 1..Len(ArrivedUnits) : ArrivedUnits[k].telegram # Absent => Means(ArrivedUnits[k])
=============================================================================
