------------------------------- MODULE Writer -------------------------------
(***************************************************************************)
(* The writer node of src/nodes/writer/writer.ts: onInput() finds the      *)
(* address and the APDU value of a message, drops repeats if told to, and  *)
(* awaits the tunnel, which sends in the order of the calls and may fail.  *)
(* Messages come in while others are awaited.                              *)
(***************************************************************************)
EXTENDS Datapoints, Clock

CONSTANTS
  WriterConfigs,   \* [ga, dpt, ets, window]: the node's settings; ets maps raw
                   \* addresses to datapoint types
  WriterMessages,  \* [topic, payload, dpt, read]; a payload is [type, value]
  MaxPending       \* bound: calls of the tunnel that are awaited at once

VARIABLE writer

WriterOf(c) ==
  [config |-> c,
   lastWrites |-> [raw \in {} |-> Absent],   \* [apdu, ts]
   pending |-> <<>>,                         \* the calls of the tunnel
   asked |-> [raw \in {} |-> Absent],        \* the last value asked for
   onBus |-> [raw \in {} |-> Absent],        \* the last value sent
   failed |-> {}]                            \* the addresses whose last call failed

WriterInit == \E c \in WriterConfigs : writer = WriterOf(c)

Put(f, key, value) == [k \in DOMAIN f \cup {key} |-> IF k = key THEN value ELSE f[k]]

\* coerceApdu(): the value of a payload without a datapoint type.
CoerceApdu(payload) ==
  CASE payload.type = "buffer" -> {BytesValue(payload.value)}
    [] payload.type = "boolean" -> {SmallValue(Flag(1, payload.value))}
    [] payload.type = "number" /\ payload.value \in 0..63 -> {SmallValue(payload.value)}
    [] OTHER -> {}

\* msg.dpt, the node's own, that of the ETS project, in this order.
DptFor(msg, raw) ==
  LET c == writer.config
  IN  CASE msg.dpt # Absent -> msg.dpt
        [] msg.dpt = Absent /\ c.dpt # Absent -> c.dpt
        [] OTHER -> IF raw \in DOMAIN c.ets THEN c.ets[raw] ELSE Absent

\* Empty where onInput() ends with an error.
ApduFor(msg, raw) ==
  LET dpt == DptFor(msg, raw)
  IN  CASE msg.payload.type = "apdu" -> {msg.payload.value}
        [] msg.payload.type # "apdu" /\ dpt = Absent -> CoerceApdu(msg.payload)
        [] OTHER -> IF HasDpt(dpt) THEN DptOut(dpt, msg.payload.value) ELSE {}

Target(msg) ==
  LET topic == IF msg.topic = Absent THEN writer.config.ga ELSE msg.topic
  IN  IF topic = Absent THEN {} ELSE GroupAddress(topic)

\* Mutated form: the bytes are compared and not the form.
ApduEqualsLoosely(a, b) == a.value = b.value

ApduEquals(a, b) == a.small = b.small /\ a.value = b.value

Suppressed(raw, apdu) ==
  /\ writer.config.window > 0
  /\ raw \in DOMAIN writer.lastWrites
  /\ now - writer.lastWrites[raw].ts < writer.config.window
  /\ ApduEquals(writer.lastWrites[raw].apdu, apdu)

IsRead(msg) == msg.read \/ msg.payload = Absent

WriterReads ==
  /\ Len(writer.pending) < MaxPending
  /\ \E msg \in {m \in WriterMessages : IsRead(m)} : \E raw \in Target(msg) :
       writer' = [writer EXCEPT !.pending = Append(@, [raw |-> raw, apdu |-> Absent])]

\* The time of a repeat is not noted; that of a write is before it is sent.
WriterWrites ==
  /\ Len(writer.pending) < MaxPending
  /\ \E msg \in {m \in WriterMessages : ~IsRead(m)} : \E raw \in Target(msg) :
       \E apdu \in ApduFor(msg, raw) :
         writer' =
           IF Suppressed(raw, apdu)
           THEN [writer EXCEPT !.asked = Put(@, raw, apdu)]
           ELSE [writer EXCEPT
                   !.asked = Put(@, raw, apdu),
                   !.lastWrites = IF writer.config.window = 0 THEN @
                                  ELSE Put(@, raw, [apdu |-> apdu, ts |-> now]),
                   !.pending = Append(@, [raw |-> raw, apdu |-> apdu])]

\* The call that was first is answered.
WriterCallEnds ==
  /\ writer.pending # <<>>
  /\ \E ok \in BOOLEAN :
       LET call == Head(writer.pending)
           rest == [writer EXCEPT !.pending = Tail(@)]
       IN  writer' =
             CASE call.apdu = Absent -> rest
               [] call.apdu # Absent /\ ok ->
                    [rest EXCEPT !.onBus = Put(@, call.raw, call.apdu),
                                 !.failed = @ \ {call.raw}]
               [] OTHER -> [rest EXCEPT !.failed = @ \cup {call.raw}]

WriterNext ==
  \/ (WriterReads \/ WriterWrites \/ WriterCallEnds) /\ UNCHANGED now
  \/ Tick /\ UNCHANGED writer

WriterSpec == ClockInit /\ WriterInit /\ [][WriterNext]_<<now, writer>>

-----------------------------------------------------------------------------
\* When all calls are answered, the last value that reached the bus for an
\* address is the last one asked for, unless sending that one failed: dropping
\* repeats, across notations of the address, forms of the payload and
\* overlapping calls, never keeps an old value on the bus.
LastWriteWins ==
  writer.pending = <<>> =>
    \A raw \in DOMAIN writer.asked \ writer.failed :
      raw \in DOMAIN writer.onBus /\ writer.onBus[raw] = writer.asked[raw]
=============================================================================
