----------------------------- MODULE Datapoints -----------------------------
(***************************************************************************)
(* The datapoint types of src/dpt/: how a value becomes an APDU value and  *)
(* back.  DptOut(dpt, v) is the set of what encode(v) returns and          *)
(* DptIn(dpt, a) of what decode(a) returns, empty where they throw.  A DPT *)
(* id is <<main, sub>>.                                                    *)
(*                                                                         *)
(* An integer is the sequence of its digits to the base 256, the most      *)
(* significant first and, in a signed type, negative for a negative number:*)
(* it has as many digits as the type has bytes.  A character is its code,  *)
(* a string a sequence of them.                                            *)
(***************************************************************************)
EXTENDS Telegrams

Flag(bit, set) == IF set THEN bit ELSE 0
FlagOf(byte, bit) == (byte \div bit) % 2 = 1
IsBytes(a, n) == ~a.small /\ Len(a.value) = n

\* A field that is missing passes `v < low || v > high`, and is stored as 0.
Between(v, low, high) == v = Absent \/ v \in low..high
Stored(v) == IF v = Absent THEN 0 ELSE v

-----------------------------------------------------------------------------
\* Integers: DPT 5 (but for the scaled ones), 6, 7, 8, 12, 13, 17, 20 and 29: the
\* number of digits, the range of the first, and the sub-types.

Integer(n, signed, top, subs) == [n |-> n, signed |-> signed, top |-> top, subs |-> subs]

Dpt5 == Integer(1, FALSE, 255, 4..6 \cup {10})
Dpt6 == Integer(1, TRUE, 127, {1, 10})
Dpt7 == Integer(2, FALSE, 255, 1..7 \cup 11..13 \cup {600})
Dpt8 == Integer(2, TRUE, 127, 1..7 \cup 10..12)
Dpt12 == Integer(4, FALSE, 255, {1, 100, 101, 102, 1200, 1201})
Dpt13 == Integer(4, TRUE, 127, {1, 2, 100} \cup 10..16)
Dpt17 == Integer(1, FALSE, 63, {1})
Dpt20 == Integer(1, FALSE, 255, 102..105 \cup 108..112)
Dpt29 == Integer(8, TRUE, 127, 10..12)

IntegerType(main) ==
  CASE main = 5 -> Dpt5 [] main = 6 -> Dpt6 [] main = 7 -> Dpt7 [] main = 8 -> Dpt8
    [] main = 12 -> Dpt12 [] main = 13 -> Dpt13 [] main = 17 -> Dpt17
    [] main = 20 -> Dpt20 [] main = 29 -> Dpt29

IntegerOut(t, v) ==
  IF v[1] \in (IF t.signed THEN -128 ELSE 0)..t.top
  THEN {BytesValue([v EXCEPT ![1] = @ % 256])} ELSE {}

IntegerIn(t, a) ==
  IF ~IsBytes(a, t.n) THEN {}
  ELSE {[a.value EXCEPT ![1] = CASE t.signed /\ @ > 127 -> @ - 256
                                 [] t.top = 63 -> @ % 64
                                 [] OTHER -> @]}

-----------------------------------------------------------------------------
\* Scaled bytes, 5.001 (0..100) and 5.003 (0..360).  Values in 255ths.

ScaledMax(sub) == IF sub = 1 THEN 100 ELSE 360

ScaledOut(max, v) ==
  LET raw == (2 * v + max) \div (2 * max)
  IN  IF raw \in 0..255 THEN {BytesValue(<<raw>>)} ELSE {}
ScaledIn(max, a) == IF IsBytes(a, 1) THEN {a.value[1] * max} ELSE {}

-----------------------------------------------------------------------------
\* The two-byte float of DPT 9.  Values in 400ths, so that a quarter of the
\* hundredths that the mantissa counts can be told apart.

FloatMin == -268435456
FloatMax == 268304384

FloatOut(v) ==
  LET unit(e) == 4 * 2^e
      exponent == CHOOSE e \in 0..15 :
                    /\ v \in -2048 * unit(e)..2047 * unit(e)
                    /\ e = 0 \/ v \notin -2048 * unit(e - 1)..2047 * unit(e - 1)
      mantissa == ((2 * v + unit(exponent)) \div (2 * unit(exponent))) % 2048
  IN  CASE v \notin FloatMin..FloatMax -> {}
        [] (2 * v + 4) \div 8 = 0 -> {BytesValue(<<0, 0>>)}
        [] OTHER -> {BytesValue(<<Flag(128, v < 0) + 8 * exponent + mantissa \div 256,
                                  mantissa % 256>>)}

\* Mutated form: the sign is not read.
FloatInUnsigned(a) ==
  IF ~IsBytes(a, 2) THEN {}
  ELSE LET data == U16At(a.value, 0)
       IN  {(data % 2048) * 4 * 2^((data \div 2048) % 16)} \cap FloatMin..FloatMax

FloatIn(a) ==
  IF ~IsBytes(a, 2) THEN {}
  ELSE LET data == U16At(a.value, 0)
           significand == (data % 2048) - Flag(2048, data >= 32768)
       IN  {significand * 4 * 2^((data \div 2048) % 16)} \cap FloatMin..FloatMax

\* The IEEE single of DPT 14, as its sign, its biased exponent and the bytes of
\* its fraction, of which the first has seven bits.  An infinity or none at all,
\* exponent 255, is read but not written; numbers between two singles are left out.
SingleOut(v) ==
  IF v.exponent = 255 THEN {}
  ELSE {BytesValue(<<Flag(128, v.negative) + v.exponent \div 2,
                     128 * (v.exponent % 2) + v.fraction[1], v.fraction[2], v.fraction[3]>>)}
SingleIn(a) ==
  IF ~IsBytes(a, 4) THEN {}
  ELSE {[negative |-> FlagOf(a.value[1], 128),
         exponent |-> 2 * (a.value[1] % 128) + a.value[2] \div 128,
         fraction |-> <<a.value[2] % 128, a.value[3], a.value[4]>>]}

-----------------------------------------------------------------------------
\* Bits and scenes: DPT 1, 2, 3, 18 and 26.

SmallOrFirst(a) == IF a.small \/ a.value # <<>> THEN {a.value[1]} ELSE {}

BitOut(v) == {SmallValue(Flag(1, v))}
BitIn(a) == {FlagOf(raw, 1) : raw \in SmallOrFirst(a)}

ControlledBitOut(v) == {SmallValue(Flag(2, v.control) + Flag(1, v.value))}
ControlledBitIn(a) ==
  {[control |-> FlagOf(raw, 2), value |-> FlagOf(raw, 1)] : raw \in SmallOrFirst(a)}

StepOut(v) ==
  IF v.stepCode \in 0..7 THEN {SmallValue(Flag(8, v.control) + v.stepCode)} ELSE {}
StepIn(a) ==
  {[control |-> FlagOf(raw, 8), stepCode |-> raw % 8] : raw \in SmallOrFirst(a)}

\* The flag beside the scene number: learn in DPT 18, active in DPT 26.
SceneFlag(main) == IF main = 18 THEN 128 ELSE 64
SceneOut(main, v) ==
  IF v.scene \in 0..63 THEN {BytesValue(<<Flag(SceneFlag(main), v.flag) + v.scene>>)} ELSE {}
SceneIn(main, a) ==
  IF ~IsBytes(a, 1) THEN {}
  ELSE {[flag |-> FlagOf(a.value[1], SceneFlag(main)), scene |-> a.value[1] % 64]}

-----------------------------------------------------------------------------
\* Time, date, and both: DPT 10, 11 and 19.

TimeOut(v) ==
  IF Between(v.hour, 0, 23) /\ Between(v.minutes, 0, 59) /\ Between(v.seconds, 0, 59)
  THEN {BytesValue(<<32 * v.day + Stored(v.hour), Stored(v.minutes), Stored(v.seconds)>>)}
  ELSE {}
TimeIn(a) ==
  IF ~IsBytes(a, 3) THEN {}
  ELSE {[day |-> a.value[1] \div 32, hour |-> a.value[1] % 32,
         minutes |-> a.value[2] % 64, seconds |-> a.value[3] % 64]}

DateOut(v) ==
  IF Between(v.day, 1, 31) /\ Between(v.month, 1, 12) /\ v.year \in 1990..2089
  THEN {BytesValue(<<Stored(v.day), Stored(v.month), v.year % 100>>)} ELSE {}
DateIn(a) ==
  IF ~IsBytes(a, 3) THEN {}
  ELSE LET day == a.value[1] % 32
           month == a.value[2] % 16
           year == a.value[3] % 128
       IN  IF day \in 1..31 /\ month \in 1..12
           THEN {[year |-> year + (IF year >= 90 THEN 1900 ELSE 2000),
                  month |-> month, day |-> day]} ELSE {}

MomentOut(v) ==
  IF /\ Between(v.year, 1900, 2155) /\ Between(v.month, 1, 12) /\ Between(v.day, 1, 31)
     /\ Between(v.hour, 0, 24) /\ Between(v.minutes, 0, 59) /\ Between(v.seconds, 0, 59)
  THEN {BytesValue(<<IF v.year = Absent THEN 0 ELSE v.year - 1900,
                     Stored(v.month), Stored(v.day), 32 * v.dayOfWeek + Stored(v.hour),
                     Stored(v.minutes), Stored(v.seconds),
                     Flag(128, v.fault) + Flag(64, v.workingDay)
                       + Flag(32, v.workingDayValid) + Flag(1, v.summerTime),
                     Flag(128, v.unsynchronised)>>)}
  ELSE {}
MomentIn(a) ==
  IF ~IsBytes(a, 8) THEN {}
  ELSE LET b == a.value
       IN {[year |-> 1900 + b[1], month |-> b[2] % 16, day |-> b[3] % 32,
            hour |-> b[4] % 32, dayOfWeek |-> b[4] \div 32,
            minutes |-> b[5] % 64, seconds |-> b[6] % 64,
            fault |-> FlagOf(b[7], 128), workingDay |-> FlagOf(b[7], 64),
            workingDayValid |-> FlagOf(b[7], 32), summerTime |-> FlagOf(b[7], 1),
            unsynchronised |-> FlagOf(b[8], 128)]}

-----------------------------------------------------------------------------
\* Characters and strings: DPT 4, 16 and 28.  Sub-type 1 of DPT 4 and 0 of
\* DPT 16 are ASCII: Node's decoder clears the top bit, its encoder does not.

IsAscii(dpt) == dpt \in {<<4, 1>>, <<16, 0>>}
Read8(ascii, b) == [i \in 1..Len(b) |-> IF ascii THEN b[i] % 128 ELSE b[i]]

CharOut(ascii, v) ==
  IF Len(v) = 1 /\ v[1] \in 0..(IF ascii THEN 127 ELSE 255) THEN {BytesValue(v)} ELSE {}
CharIn(ascii, a) == IF IsBytes(a, 1) THEN {Read8(ascii, a.value)} ELSE {}

\* The bytes are those of Latin-1 for 16.000 as well: no character above 127 is
\* dropped, although dpt16.ts:2 says so.
StringLength == 14
StringOut(v) ==
  IF Len(v) > StringLength THEN {}
  ELSE {BytesValue([i \in 1..StringLength |-> IF i <= Len(v) THEN v[i] % 256 ELSE 0])}
StringIn(ascii, a) ==
  IF ~IsBytes(a, StringLength) THEN {}
  ELSE LET end == CHOOSE n \in 0..StringLength :
                    /\ \A i \in n + 1..StringLength : a.value[i] = 0
                    /\ n = 0 \/ a.value[n] # 0
       IN  {Read8(ascii, SubSeq(a.value, 1, end))}

\* DPT 28: the characters of v are the bytes of its UTF-8 form.
Utf8Out(v) == IF \E i \in 1..Len(v) : v[i] = 0 THEN {} ELSE {BytesValue(Append(v, 0))}
Utf8In(a) == IF a.small THEN {} ELSE {Unpadded(a.value)}

-----------------------------------------------------------------------------
\* Colours and tariffs: DPT 232, 251 and 235.

RgbOut(v) == IF \A i \in 1..3 : v[i] \in 0..255 THEN {BytesValue(v)} ELSE {}
RgbIn(a) == IF IsBytes(a, 3) THEN {a.value} ELSE {}

RgbwOut(v) ==
  IF \A i \in 1..4 : v.channels[i] \in 0..255
  THEN {BytesValue(v.channels \o <<0, Flag(8, v.valid[1]) + Flag(4, v.valid[2])
                                       + Flag(2, v.valid[3]) + Flag(1, v.valid[4])>>)}
  ELSE {}
RgbwIn(a) ==
  IF ~IsBytes(a, 6) THEN {}
  ELSE {[channels |-> SubSeq(a.value, 1, 4),
         valid |-> [i \in 1..4 |-> FlagOf(a.value[6], <<8, 4, 2, 1>>[i])]]}

TariffOut(v) ==
  IF v.tariff \notin 0..254 THEN {}
  ELSE {BytesValue(energy.value \o
          <<v.tariff, Flag(1, v.energyValid) + Flag(2, v.tariffValid)>>) :
            energy \in IntegerOut(Dpt13, v.energy)}
TariffIn(a) ==
  IF ~IsBytes(a, 6) THEN {}
  ELSE {[energy |-> e, tariff |-> a.value[5], energyValid |-> FlagOf(a.value[6], 1),
         tariffValid |-> FlagOf(a.value[6], 2)] :
           e \in IntegerIn(Dpt13, BytesValue(SubSeq(a.value, 1, 4)))}

-----------------------------------------------------------------------------
\* The registry: all ids that src/dpt/ registers, and the codec of each.

Subs(main, subs) == {main} \X subs
IntegerIds == UNION {Subs(main, IntegerType(main).subs) : main \in {5, 6, 7, 8, 12, 13, 17, 20, 29}}

BitIds == Subs(1, 1..19 \cup {100})
ControlledBitIds == Subs(2, 1..12)
StepIds == Subs(3, {7, 8})
FloatIds == Subs(9, 1..8 \cup {10, 11} \cup 20..30)
\* The generic 14.xxx has the sub-type -1 here.
SingleIds ==
  Subs(14, {-1, 0, 1, 5, 7, 8, 27, 39, 43, 65, 66, 74} \cup 17..20 \cup 31..33
             \cup 51..52 \cup 56..58 \cup 68..70 \cup 76..80)

RegisteredDpts ==
  IntegerIds \cup BitIds \cup ControlledBitIds \cup StepIds \cup FloatIds \cup SingleIds \cup
  UNION
    {Subs(4, {1, 2}), Subs(5, {1, 3}), Subs(10, {1}), Subs(11, {1}), Subs(16, {0, 1}),
     Subs(18, {1}), Subs(19, {1}), Subs(26, {1}), Subs(28, {1}),
     Subs(232, {600}), Subs(235, {1}), Subs(251, {600})}

HasDpt(dpt) == dpt \in RegisteredDpts

DptOut(dpt, v) ==
  LET main == dpt[1]
  IN  CASE main = 1 -> BitOut(v)
        [] main = 2 -> ControlledBitOut(v)
        [] main = 3 -> StepOut(v)
        [] main = 4 -> CharOut(IsAscii(dpt), v)
        [] dpt \in {<<5, 1>>, <<5, 3>>} -> ScaledOut(ScaledMax(dpt[2]), v)
        [] main = 9 -> FloatOut(v)
        [] main = 10 -> TimeOut(v)
        [] main = 11 -> DateOut(v)
        [] main = 14 -> SingleOut(v)
        [] main = 16 -> StringOut(v)
        [] main \in {18, 26} -> SceneOut(main, v)
        [] main = 19 -> MomentOut(v)
        [] main = 28 -> Utf8Out(v)
        [] main = 232 -> RgbOut(v)
        [] main = 235 -> TariffOut(v)
        [] main = 251 -> RgbwOut(v)
        [] OTHER -> IntegerOut(IntegerType(main), v)

DptIn(dpt, a) ==
  LET main == dpt[1]
  IN  CASE main = 1 -> BitIn(a)
        [] main = 2 -> ControlledBitIn(a)
        [] main = 3 -> StepIn(a)
        [] main = 4 -> CharIn(IsAscii(dpt), a)
        [] dpt \in {<<5, 1>>, <<5, 3>>} -> ScaledIn(ScaledMax(dpt[2]), a)
        [] main = 9 -> FloatIn(a)
        [] main = 10 -> TimeIn(a)
        [] main = 11 -> DateIn(a)
        [] main = 14 -> SingleIn(a)
        [] main = 16 -> StringIn(IsAscii(dpt), a)
        [] main \in {18, 26} -> SceneIn(main, a)
        [] main = 19 -> MomentIn(a)
        [] main = 28 -> Utf8In(a)
        [] main = 232 -> RgbIn(a)
        [] main = 235 -> TariffIn(a)
        [] main = 251 -> RgbwIn(a)
        [] OTHER -> IntegerIn(IntegerType(main), a)
=============================================================================
