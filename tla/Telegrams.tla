----------------------------- MODULE Telegrams -----------------------------
(***************************************************************************)
(* Addresses, TPCI, APCI, cEMI frames, telegrams and group address         *)
(* patterns: src/core/address.ts, tpci.ts, apci.ts, cemi.ts, telegram.ts   *)
(* and gaMatcher.ts.  An address in text is the tuple of its numbers: 1/2/3*)
(* is <<1, 2, 3>>.  As in Frames, XIn returns the set of what is read,     *)
(* empty where the code throws.                                            *)
(***************************************************************************)
EXTENDS Frames

Address == 0..65535

-----------------------------------------------------------------------------
\* address.ts

IndividualAddress(t) ==
  CASE Len(t) = 1 -> {t[1]} \cap Address
    [] Len(t) = 3 /\ t[1] \in 0..15 /\ t[2] \in 0..15 /\ t[3] \in 0..255 ->
         {4096 * t[1] + 256 * t[2] + t[3]}
    [] OTHER -> {}

IndividualText(raw) == <<raw \div 4096, (raw \div 256) % 16, raw % 256>>

GroupAddress(t) ==
  CASE Len(t) = 1 -> {t[1]} \cap Address
    [] Len(t) = 2 /\ t[1] \in 0..31 /\ t[2] \in 0..2047 -> {2048 * t[1] + t[2]}
    [] Len(t) = 3 /\ t[1] \in 0..31 /\ t[2] \in 0..7 /\ t[3] \in 0..255 ->
         {2048 * t[1] + 256 * t[2] + t[3]}
    [] OTHER -> {}

GroupText(raw, style) ==
  CASE style = "long" -> <<raw \div 2048, (raw \div 256) % 8, raw % 256>>
    [] style = "short" -> <<raw \div 2048, raw % 2048>>
    [] style = "free" -> <<raw>>

-----------------------------------------------------------------------------
\* gaMatcher.ts.  A pattern is an address in text, or three segments some of
\* which are Star.

Star == -1
SegmentLimits == <<31, 7, 255>>
HasStar(pattern) == \E i \in 1..Len(pattern) : pattern[i] = Star

Compiles(pattern) ==
  IF ~HasStar(pattern) THEN GroupAddress(pattern) # {}
  ELSE Len(pattern) = 3 /\ \A i \in 1..3 : pattern[i] \in {Star} \cup 0..SegmentLimits[i]

Matches(pattern, raw) ==
  IF ~HasStar(pattern) THEN raw \in GroupAddress(pattern)
  ELSE \A i \in 1..3 : pattern[i] \in {Star, GroupText(raw, "long")[i]}

-----------------------------------------------------------------------------
\* tpci.ts

Tpci(kind) == [kind |-> kind, seq |-> 0]
Numbered(kind, seq) == [kind |-> kind, seq |-> seq]

IsControl(tpci) == tpci.kind \in {"TConnect", "TDisconnect", "TAck", "TNak"}

TpciOut(tpci) ==
  CASE tpci.kind = "TDataTagGroup" -> 4
    [] tpci.kind = "TDataConnected" -> 64 + 4 * tpci.seq
    [] tpci.kind = "TConnect" -> 128
    [] tpci.kind = "TDisconnect" -> 129
    [] tpci.kind = "TAck" -> 194 + 4 * tpci.seq
    [] tpci.kind = "TNak" -> 195 + 4 * tpci.seq
    [] OTHER -> 0

\* The rules for an individual address.
UnicastTpci(control, numbered, seq, flags) ==
  CASE ~control /\ numbered -> {Numbered("TDataConnected", seq)}
    [] ~control /\ ~numbered -> {Tpci("TDataIndividual")}
    [] control /\ ~numbered /\ flags = 0 -> {Tpci("TConnect")}
    [] control /\ ~numbered /\ flags = 1 -> {Tpci("TDisconnect")}
    [] control /\ numbered /\ flags = 2 -> {Numbered("TAck", seq)}
    [] control /\ numbered /\ flags = 3 -> {Numbered("TNak", seq)}
    [] OTHER -> {}

\* A group frame with a sequence number above 1 falls through to the rules for
\* individual addresses, which refuse it.
TpciIn(byte, toGroup, toZero) ==
  LET control == byte >= 128
      numbered == (byte \div 64) % 2 = 1
      seq == (byte \div 4) % 16
      flags == byte % 4
      grouped == toGroup /\ (control \/ numbered \/ seq \in {0, 1})
  IN  CASE grouped -> IF control \/ numbered THEN {}
                      ELSE {Tpci(IF seq = 1 THEN "TDataTagGroup"
                                 ELSE IF toZero THEN "TDataBroadcast" ELSE "TDataGroup")}
        [] ~grouped /\ ~numbered /\ seq # 0 -> {}
        [] OTHER -> UnicastTpci(control, numbered, seq, flags)

-----------------------------------------------------------------------------
\* apci.ts.  An APDU value is small, six bits, or a sequence of bytes.

SmallValue(n) == [small |-> TRUE, value |-> <<n>>]
BytesValue(b) == [small |-> FALSE, value |-> b]

ApciService == [GroupValueRead |-> 0, GroupValueResponse |-> 64, GroupValueWrite |-> 128]

GroupValueRead == [kind |-> "GroupValueRead"]
GroupValue(kind, value) == [kind |-> kind, data |-> value]

NpduLength(apci) ==
  CASE apci.kind = "GroupValueRead" -> 1
    [] apci.kind = "Unknown" -> IF Len(apci.raw) > 2 THEN Len(apci.raw) - 1 ELSE 1
    [] OTHER -> IF apci.data.small THEN 1 ELSE 1 + Len(apci.data.value)

ApciOut(apci) ==
  CASE apci.kind = "GroupValueRead" -> <<0, 0>>
    [] apci.kind = "Unknown" -> apci.raw
    [] OTHER -> IF apci.data.small THEN <<0, ApciService[apci.kind] + (apci.data.value[1] % 64)>>
                ELSE <<0, ApciService[apci.kind]>> \o apci.data.value

ApciIn(apdu) ==
  IF Len(apdu) < 2 THEN {}
  ELSE LET code == U16At(apdu, 0) % 1024
           data == IF Len(apdu) = 2 THEN SmallValue(apdu[2] % 64)
                   ELSE BytesValue(Rest(apdu, 2))
       IN  {CASE code \div 64 = 0 -> GroupValueRead
              [] code \div 64 = 1 -> GroupValue("GroupValueResponse", data)
              [] code \div 64 = 2 -> GroupValue("GroupValueWrite", data)
              [] OTHER -> [kind |-> "Unknown", service |-> code, raw |-> apdu]}

-----------------------------------------------------------------------------
\* cemi.ts.  The destination is a group address if bit 7 of the flags says so.

L_DATA_REQ == 17
L_DATA_IND == 41
L_DATA_CON == 46

GroupFlag == 128
\* The flags of groupValueWrite: standard frame, do not repeat, broadcast,
\* hop count 6, group address, low priority.
OutgoingGroupFlags == 32768 + 8192 + 4096 + 96 + GroupFlag + 3072
ToGroup(flags) == (flags \div GroupFlag) % 2 = 1
Hops(flags) == (flags \div 16) % 8
Priority(flags) == <<"system", "normal", "urgent", "low">>[1 + ((flags \div 1024) % 4)]

\* calculatedLength throws; the other encoders cannot.
LDataFits(d) == IsControl(d.tpci) <=> d.payload = Absent

\* The first byte of the APDU leaves the six bits of the TPCI zero, so that
\* OR is a sum.  An Unknown APDU of less than two bytes is filled up.
TpduOut(d) ==
  IF IsControl(d.tpci) THEN <<0, TpciOut(d.tpci)>>
  ELSE LET npdu == NpduLength(d.payload)
           apdu == ApciOut(d.payload) \o <<0, 0>>
       IN  <<npdu % 256, apdu[1] + TpciOut(d.tpci)>> \o SubSeq(apdu, 2, npdu + 1)

LDataOut(d) == U16(d.flags) \o U16(d.src) \o U16(d.dst) \o TpduOut(d)

LDataIn(b) ==
  IF Len(b) < 8 THEN {}
  ELSE LET toGroup == ToGroup(U16At(b, 0))
           payload(t) ==
             CASE IsControl(t) -> IF b[7] = 0 THEN {Absent} ELSE {}
               [] OTHER -> IF Len(b) - 7 < b[7] + 1 THEN {}
                           ELSE ApciIn(<<b[8] % 4>> \o Bytes(b, 8, b[7]))
       IN  {[flags |-> U16At(b, 0), src |-> U16At(b, 2), dst |-> U16At(b, 4),
             tpci |-> pair[1], payload |-> pair[2]] :
               pair \in UNION {{t} \X payload(t) :
                                 t \in TpciIn(b[8], toGroup, U16At(b, 4) = 0)}}

CemiOut(f) == <<f.code, Len(f.info) % 256>> \o f.info \o LDataOut(f.data)

CemiIn(b) ==
  IF Len(b) < 2 \/ b[1] \notin {L_DATA_REQ, L_DATA_IND, L_DATA_CON} \/ Len(b) < 2 + b[2]
    THEN {}
    ELSE {[code |-> b[1], info |-> Bytes(b, 2, b[2]), data |-> d] :
            d \in LDataIn(Rest(b, 2 + b[2]))}

-----------------------------------------------------------------------------
\* The default of telegram.ts, and the frame of groupValueWrite and
\* groupValueRead in tunnel.ts.

DefaultTpci(toGroup, raw) ==
  Tpci(CASE ~toGroup -> "TDataIndividual"
         [] raw = 0 -> "TDataBroadcast"
         [] OTHER -> "TDataGroup")

GroupCemi(code, dst, src, payload) ==
  [code |-> code, info |-> <<>>,
   data |-> [flags |-> OutgoingGroupFlags, src |-> src, dst |-> dst,
             tpci |-> DefaultTpci(TRUE, dst), payload |-> payload]]
=============================================================================
