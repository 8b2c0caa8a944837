---------------------------- MODULE Translators -----------------------------
(***************************************************************************)
(* The nodes that make a message of a telegram or of another message and   *)
(* keep no state: listener, ets, mqtt-publish, scene and color, each as    *)
(* the set of what it sends.  A payload is a value or an APDU value; a     *)
(* project is a function from addresses to entries (EtsImport's map).      *)
(***************************************************************************)
EXTENDS Datapoints

AValue(v) == [kind |-> "value", value |-> v]
AnApdu(a) == [kind |-> "apdu", value |-> a]

ValuePayloads(values) == {AValue(v) : v \in values}
ApduPayloads(values) == {AnApdu(a) : a \in values}

\* The first set that is not empty: what is decoded, or else the raw payload.
OrElse(first, second) == IF first # {} THEN first ELSE second

-----------------------------------------------------------------------------
\* onCemi() of listener.ts.  A filter without addresses lets all pass, a DPT
\* that the registry does not have is none.
ListenerOut(filter, dpt, f) ==
  IF \/ f.code # L_DATA_IND
     \/ ~ToGroup(f.data.flags)
     \/ filter # {} /\ f.data.dst \notin filter
     \/ f.data.payload = Absent
     \/ f.data.payload.kind \notin {"GroupValueWrite", "GroupValueResponse"}
  THEN {}
  ELSE LET apdu == f.data.payload.data
           decoded == IF HasDpt(dpt) THEN ValuePayloads(DptIn(dpt, apdu)) ELSE {}
       IN  {[topic |-> GroupText(f.data.dst, "long"), payload |-> p,
             source |-> IndividualText(f.data.src), raw |-> apdu,
             isResponse |-> f.data.payload.kind = "GroupValueResponse",
             priority |-> Priority(f.data.flags)] : p \in OrElse(decoded, {AnApdu(apdu)})}

-----------------------------------------------------------------------------
\* onInput() of ets.ts: the first output has the message translated, the second
\* one the message as it came.  What a codec makes of an APDU value that it is
\* given for a value, in the mode "encode", is left out.

EntriesAt(map, topic) == {map[raw] : raw \in GroupAddress(topic) \cap DOMAIN map}

Translated(mode, dpt, payload) ==
  CASE mode \in {"auto", "decode"} /\ payload.kind = "apdu" -> ValuePayloads(DptIn(dpt, payload.value))
    [] mode \in {"auto", "encode"} /\ payload.kind = "value" -> ApduPayloads(DptOut(dpt, payload.value))
    [] OTHER -> {}

EtsOut(map, mode, message) ==
  LET translated ==
        UNION {{[message EXCEPT !.payload = p] : p \in Translated(mode, e.dpt, message.payload)} :
                 e \in {known \in EntriesAt(map, message.topic) : HasDpt(known.dpt)}}
  IN  [first |-> translated, second |-> IF translated = {} THEN {message} ELSE {}]

-----------------------------------------------------------------------------
\* The input of mqttPublish.ts: what the project does not know is dropped or
\* forwarded as it is; an APDU value is decoded if that is possible.  The topic
\* and the shape of the payload, text made of a template, are left out.
MqttOut(map, forwardUnknown, message) ==
  LET entries == EntriesAt(map, message.topic)
      decoded == IF message.payload.kind # "apdu" THEN {}
                 ELSE UNION {ValuePayloads(DptIn(e.dpt, message.payload.value)) :
                               e \in {d \in entries : HasDpt(d.dpt)}}
  IN  IF entries = {} /\ ~forwardUnknown THEN {}
      ELSE OrElse(decoded, {message.payload})

-----------------------------------------------------------------------------
\* scene.ts: control is "activate", "learn" or Absent.  What comes out is an
\* APDU value with its DPT.

SceneDpt(mode, control) ==
  IF mode = "auto" THEN (IF control = Absent THEN <<17, 1>> ELSE <<18, 1>>) ELSE mode

SceneOutOf(mode, scene, control) ==
  LET dpt == SceneDpt(mode, control)
  IN  {[dpt |-> dpt, apdu |-> a] :
         a \in IF scene \notin 0..63 THEN {}
               ELSE IF dpt = <<17, 1>> THEN DptOut(dpt, <<scene>>)
               ELSE DptOut(dpt, [scene |-> scene, flag |-> control = "learn"])}

\* color.ts: white is Absent or a byte, and dropped in the mode "rgb".
ColorOutOf(mode, rgb, white) ==
  LET dpt == IF mode = "rgb" THEN <<232, 600>> ELSE <<251, 600>>
      channels == Append(rgb, IF white = Absent THEN 0 ELSE white)
  IN  {[dpt |-> dpt, apdu |-> a] :
         a \in IF \E i \in 1..4 : channels[i] \notin 0..255 THEN {}
               ELSE IF mode = "rgb" THEN DptOut(dpt, rgb)
               ELSE DptOut(dpt, [channels |-> channels, valid |-> [i \in 1..4 |-> TRUE]])}
=============================================================================
