--------------------------- MODULE FlowNodes_proofs -------------------------
(***************************************************************************)
(* What the nodes of a flow promise, for every value of their settings and *)
(* every message: dedupe (NoChangeLost), watchdog (AlarmsFollowSilence),   *)
(* rate-limit (RateHolds), the writer (LastWriteWins), the schedule        *)
(* (CronFiresEachMatch), the streams of the bus monitor (StreamExact) and  *)
(* the state store (StoreHoldsLatest).                                     *)
(***************************************************************************)
EXTENDS MessageFilters, Watchdog, Writer, Schedule, BusMonitor, StateStore,
        CounterArithmetic, FiniteSetTheorems, SequenceTheorems, WellFoundedInduction, TLAPS

-----------------------------------------------------------------------------
\* DEDUPE

NoDates == \A p \in Payloads : p.type # "date"

Slots == {NoSlot} \cup [used : {TRUE}, ts : Nat, payload : Payloads]

DedupeType ==
  /\ now \in Nat
  /\ dedupe \in [last : [Keys -> Slots], received : [Keys -> Slots], passed : [Keys -> Slots]]

\* What a slot remembers is what passed last.
RemembersPassed(k) ==
  dedupe.last[k].used =>
    dedupe.passed[k].used /\ dedupe.passed[k].payload = dedupe.last[k].payload

Shown(k) ==
  dedupe.received[k].used =>
    dedupe.passed[k].used /\ Same(dedupe.passed[k].payload, dedupe.received[k].payload)

DedupeInv == DedupeType /\ \A k \in Keys : RemembersPassed(k) /\ Shown(k)

-----------------------------------------------------------------------------

\* The canonical forms of two payloads tell them apart, but for the order of
\* the keys of an object.
LEMMA CanonTellsApart ==
  ASSUME NoDates, NEW a \in Payloads, NEW b \in Payloads, PayloadsEqual(a, b)
  PROVE  Same(a, b)
<1>1. CASE a = b
  BY <1>1 DEF Same
<1>2. CASE Canon(a) = Canon(b)
  <2>1. a.type # "date" /\ b.type # "date"
    BY DEF NoDates
  <2>2. \A p \in {a, b} : Canon(p) = IF p.type = "object" THEN <<"object", Contents(p)>>
                                     ELSE <<p.type, p.content>>
    BY <2>1 DEF Canon
  <2>3. CASE a.type = "object" /\ b.type = "object"
    <3>1. <<"object", Contents(a)>> = <<"object", Contents(b)>>
      BY <1>2, <2>2, <2>3
    <3>2. Contents(a) = Contents(b)
      BY <3>1
    <3> QED
      BY <2>3, <3>2 DEF Same
  <2>4. CASE a.type = "object" /\ b.type # "object"
    <3>1. <<"object", Contents(a)>> = <<b.type, b.content>>
      BY <1>2, <2>2, <2>4
    <3> QED
      BY <3>1, <2>4
  <2>5. CASE a.type # "object" /\ b.type = "object"
    <3>1. <<a.type, a.content>> = <<"object", Contents(b)>>
      BY <1>2, <2>2, <2>5
    <3> QED
      BY <3>1, <2>5
  <2>6. CASE a.type # "object" /\ b.type # "object"
    <3>1. <<a.type, a.content>> = <<b.type, b.content>>
      BY <1>2, <2>2, <2>6
    <3>2. a.type = b.type /\ a.content = b.content
      BY <3>1
    <3> QED
      BY <2>6, <3>2 DEF Same
  <2> QED
    BY <2>3, <2>4, <2>5, <2>6
<1> QED
  BY <1>1, <1>2 DEF PayloadsEqual

LEMMA SameAsItself == \A p : Same(p, p)
BY DEF Same

LEMMA SlotType ==
  ASSUME now \in Nat, NEW p \in Payloads
  PROVE  Slot(p) \in Slots /\ Slot(p).used /\ Slot(p).payload = p
BY DEF Slot, Slots

\* A message, a repeat or not.
LEMMA DedupeInputKeeps ==
  ASSUME NoDates, DedupeInv, DedupeInput, now' = now
  PROVE  DedupeInv'
<1>1. PICK topic \in Topics, p \in Payloads :
        dedupe' =
          [dedupe EXCEPT
             !.received[Key(topic)] = Slot(p),
             !.last[Key(topic)] = IF Repeats(Key(topic), p) THEN [@ EXCEPT !.ts = now]
                                  ELSE Slot(p),
             !.passed[Key(topic)] = IF Repeats(Key(topic), p) THEN @ ELSE Slot(p)]
  BY DEF DedupeInput
<1> DEFINE k == Key(topic)
           old == dedupe.last[k]
           last == IF Repeats(k, p) THEN [old EXCEPT !.ts = now] ELSE Slot(p)
           passed == IF Repeats(k, p) THEN dedupe.passed[k] ELSE Slot(p)
<1>2. k \in Keys
  BY DEF Key, Keys
<1>3. DedupeType /\ now \in Nat
  BY DEF DedupeInv, DedupeType
<1>4. old \in Slots /\ dedupe.passed[k] \in Slots
  BY <1>2, <1>3 DEF DedupeType
<1>5. Slot(p) \in Slots /\ Slot(p).used /\ Slot(p).payload = p
  BY <1>3, SlotType
<1>6. /\ last \in Slots /\ passed \in Slots /\ passed.used
      /\ passed.payload = last.payload /\ Same(passed.payload, p)
  <2>1. CASE Repeats(k, p)
    <3>1. old.used /\ PayloadsEqual(old.payload, p)
      BY <2>1 DEF Repeats
    <3>2. old \in [used : {TRUE}, ts : Nat, payload : Payloads]
      <4>1. ~NoSlot.used
        BY DEF NoSlot
      <4>2. old # NoSlot
        BY <3>1, <4>1
      <4> QED
        BY <1>4, <4>2 DEF Slots
    <3>3. [old EXCEPT !.ts = now] \in Slots /\ [old EXCEPT !.ts = now].payload = old.payload
      BY <3>2, <1>3 DEF Slots
    <3>4. dedupe.passed[k].used /\ dedupe.passed[k].payload = old.payload
      BY <1>2, <3>1 DEF DedupeInv, RemembersPassed
    <3>5. Same(old.payload, p)
      BY <3>1, <3>2, CanonTellsApart
    <3> QED
      BY <1>4, <2>1, <3>3, <3>4, <3>5
  <2>2. CASE ~Repeats(k, p)
    BY <1>5, <2>2, SameAsItself
  <2> QED
    BY <2>1, <2>2
<1>7. /\ dedupe' = [last |-> [dedupe.last EXCEPT ![k] = last],
                    received |-> [dedupe.received EXCEPT ![k] = Slot(p)],
                    passed |-> [dedupe.passed EXCEPT ![k] = passed]]
  BY <1>1, <1>3 DEF DedupeType
<1> HIDE DEF k, last, passed
<1>8. DedupeType'
  BY <1>3, <1>5, <1>6, <1>7 DEF DedupeType
<1>9. /\ dedupe'.last[k] = last /\ dedupe'.received[k] = Slot(p) /\ dedupe'.passed[k] = passed
      /\ \A h \in Keys \ {k} :
           /\ dedupe'.last[h] = dedupe.last[h] /\ dedupe'.received[h] = dedupe.received[h]
           /\ dedupe'.passed[h] = dedupe.passed[h]
  BY <1>2, <1>3, <1>7 DEF DedupeType
<1>10. RemembersPassed(k)' /\ Shown(k)'
  BY <1>5, <1>6, <1>9 DEF RemembersPassed, Shown
<1>11. ASSUME NEW h \in Keys \ {k} PROVE RemembersPassed(h)' /\ Shown(h)'
  BY <1>9 DEF DedupeInv, RemembersPassed, Shown
<1> QED
  BY <1>8, <1>10, <1>11 DEF DedupeInv

\* A deploy forgets what was remembered.
LEMMA DedupeCloseKeeps ==
  ASSUME DedupeInv, DedupeClose, now' = now
  PROVE  DedupeInv'
<1>1. /\ dedupe'.received = dedupe.received /\ dedupe'.passed = dedupe.passed
      /\ \A k \in Keys : dedupe'.last[k] = NoSlot
  BY DEF DedupeClose, DedupeInv, DedupeType
<1>2. DedupeType'
  BY DEF DedupeClose, DedupeInv, DedupeType, Slots
<1>3. ASSUME NEW k \in Keys PROVE RemembersPassed(k)' /\ Shown(k)'
  BY <1>1 DEF DedupeInv, RemembersPassed, Shown, NoSlot
<1> QED
  BY <1>2, <1>3 DEF DedupeInv

LEMMA DedupeInvariant == ASSUME NoDates PROVE DedupeSpec => []DedupeInv
<1>1. ClockInit /\ DedupeInit => DedupeInv
  BY DEF ClockInit, DedupeInit, DedupeInv, DedupeType, Slots, NoSlot, RemembersPassed, Shown
<1>2. DedupeInv /\ [DedupeNext]_<<now, dedupe>> => DedupeInv'
  <2> SUFFICES ASSUME DedupeInv, [DedupeNext]_<<now, dedupe>> PROVE DedupeInv'
    OBVIOUS
  <2>1. CASE DedupeInput /\ UNCHANGED now
    BY <2>1, DedupeInputKeeps
  <2>2. CASE DedupeClose /\ UNCHANGED now
    BY <2>2, DedupeCloseKeeps
  <2>3. CASE UNCHANGED dedupe /\ (Tick \/ UNCHANGED now)
    <3>1. now' \in Nat
      BY <2>3 DEF DedupeInv, DedupeType, Tick
    <3> QED
      BY <2>3, <3>1 DEF DedupeInv, DedupeType, RemembersPassed, Shown
  <2> QED
    BY <2>1, <2>2, <2>3 DEF DedupeNext
<1> QED
  BY <1>1, <1>2, PTL DEF DedupeSpec

\* dedupe.ts drops repeats only: the nodes behind it saw last what came last.
THEOREM ChangesPass == ASSUME NoDates PROVE DedupeSpec => []NoChangeLost
<1>1. DedupeInv => NoChangeLost
  BY DEF DedupeInv, Shown, NoChangeLost
<1> QED
  BY <1>1, DedupeInvariant, PTL

-----------------------------------------------------------------------------
\* WATCHDOG

Messages == {"alarm", "recovery"}

WatchType ==
  /\ now \in Nat
  /\ watch \in [lastSeen : [Watched -> Int], alarmed : [Watched -> BOOLEAN], due : Int,
                out : [Watched -> Seq(Messages)], heard : [Watched -> Int]]

\* The timer is set one interval ahead at most, and at most MaxLate late.
WatchTimerRuns ==
  /\ watch.due <= now + Interval
  /\ watch.due # Never => now <= watch.due + MaxLate

\* An address that is not in alarm was not silent too long at the last check,
\* which was at watch.due - Interval, or there was none since the deploy.
Timely(g) ==
  /\ watch.heard[g] = watch.lastSeen[g]
  /\ watch.lastSeen[g] \in {Never} \cup (0..now)
  /\ watch.alarmed[g] => Silent(g)
  /\ ~watch.alarmed[g] =>
       IF watch.lastSeen[g] = Never THEN watch.due <= Interval
       ELSE watch.due - Interval - watch.lastSeen[g] <= Timeout

InTurn(g) ==
  /\ Alternating(watch.out[g])
  /\ watch.alarmed[g] <=> Len(watch.out[g]) % 2 = 1

WatchInv ==
  /\ WatchType
  /\ WatchTimerRuns
  /\ \A g \in Watched : Timely(g)
  /\ \A g \in Watched : InTurn(g)

-----------------------------------------------------------------------------

LEMMA Parity == \A n \in Nat : n % 2 = 0 \/ n % 2 = 1
OBVIOUS

LEMMA Words == "alarm" \in Messages /\ "recovery" \in Messages
BY DEF Messages

\* A message that differs from the last one keeps a sequence alternating.
LEMMA AppendAlternates ==
  ASSUME NEW s \in Seq(Messages), Alternating(s), NEW m \in Messages,
         m = (IF Len(s) % 2 = 0 THEN "alarm" ELSE "recovery")
  PROVE  /\ Alternating(Append(s, m))
         /\ Len(Append(s, m)) % 2 # Len(s) % 2
<1> DEFINE t == Append(s, m)
<1>1. Len(s) \in Nat /\ Len(t) = Len(s) + 1
  OBVIOUS
<1>2. \A i \in 1..Len(s) : t[i] = s[i]
  OBVIOUS
<1>3. t[Len(s) + 1] = m
  OBVIOUS
<1>4. (Len(s) + 1) % 2 # Len(s) % 2 /\ Len(s) % 2 \in {0, 1}
  BY <1>1
<1>5. ASSUME NEW i \in 1..Len(t)
      PROVE  t[i] = IF i % 2 = 1 THEN "alarm" ELSE "recovery"
  <2>1. CASE i \in 1..Len(s)
    BY <2>1, <1>2 DEF Alternating
  <2>2. CASE i = Len(s) + 1
    BY <2>2, <1>1, <1>3, <1>4
  <2> QED
    BY <1>1, <2>1, <2>2
<1> QED
  BY <1>1, <1>4, <1>5 DEF Alternating

LEMMA InitWatch == ClockInit /\ WatchdogInit => WatchInv
<1> SUFFICES ASSUME ClockInit, NEW seed \in BOOLEAN, watch = WatchOf(seed)
             PROVE  WatchInv
  BY DEF WatchdogInit
<1> USE WatchdogAssumption
<1>1. WatchType
  BY DEF WatchType, ClockInit, WatchOf, Never, Messages
<1>2. WatchTimerRuns
  BY DEF WatchTimerRuns, ClockInit, WatchOf
<1>3. ASSUME NEW g \in Watched PROVE Timely(g) /\ InTurn(g)
  BY DEF Timely, InTurn, ClockInit, WatchOf, Never, Alternating
<1> QED
  BY <1>1, <1>2, <1>3 DEF WatchInv

\* A telegram.
LEMMA WatchTelegramKeeps ==
  ASSUME WatchInv, WatchdogTelegram, now' = now
  PROVE  WatchInv'
<1> USE WatchdogAssumption
<1>1. PICK g \in Watched, code \in {"L_DATA_IND", "L_DATA_CON"},
         kind \in {"GroupValueRead", "GroupValueWrite", "GroupValueResponse"} :
        watch' = [watch EXCEPT
            !.heard[g] = IF SignOfLife(code, kind) THEN now ELSE @,
            !.lastSeen[g] = IF Alive(code, kind) THEN now ELSE @,
            !.alarmed[g] = @ /\ ~Alive(code, kind),
            !.out[g] = IF watch.alarmed[g] /\ Alive(code, kind) THEN Append(@, "recovery")
                       ELSE @]
  BY DEF WatchdogTelegram
<1>2. SignOfLife(code, kind) <=> Alive(code, kind)
  BY DEF SignOfLife, Alive
<1>3. WatchType
  BY DEF WatchInv
<1> DEFINE seen == IF Alive(code, kind) THEN now ELSE watch.lastSeen[g]
           heard == IF SignOfLife(code, kind) THEN now ELSE watch.heard[g]
           alarm == watch.alarmed[g] /\ ~Alive(code, kind)
           sent == IF watch.alarmed[g] /\ Alive(code, kind)
                   THEN Append(watch.out[g], "recovery") ELSE watch.out[g]
<1>4. watch' = [lastSeen |-> [watch.lastSeen EXCEPT ![g] = seen],
                alarmed |-> [watch.alarmed EXCEPT ![g] = alarm],
                due |-> watch.due, out |-> [watch.out EXCEPT ![g] = sent],
                heard |-> [watch.heard EXCEPT ![g] = heard]]
  BY <1>1, <1>3 DEF WatchType
<1>5. /\ watch.lastSeen \in [Watched -> Int] /\ watch.heard \in [Watched -> Int]
      /\ watch.alarmed \in [Watched -> BOOLEAN] /\ watch.due \in Int /\ now \in Nat
      /\ watch.out \in [Watched -> Seq(Messages)]
  BY <1>3 DEF WatchType
<1>6. /\ watch'.due = watch.due
      /\ \A h \in Watched \ {g} :
           /\ watch'.heard[h] = watch.heard[h] /\ watch'.lastSeen[h] = watch.lastSeen[h]
           /\ watch'.alarmed[h] = watch.alarmed[h] /\ watch'.out[h] = watch.out[h]
  BY <1>4, <1>5
<1>7. /\ watch'.heard[g] = heard /\ watch'.lastSeen[g] = seen
      /\ watch'.alarmed[g] = alarm /\ watch'.out[g] = sent
  BY <1>4, <1>5
<1>8. seen \in Int /\ heard \in Int /\ alarm \in BOOLEAN /\ sent \in Seq(Messages)
  BY <1>5 DEF Messages
<1>9. WatchType'
  <2> HIDE DEF seen, heard, alarm, sent
  <2> QED
    BY <1>4, <1>5, <1>8 DEF WatchType
<1>10. WatchTimerRuns'
  BY <1>6 DEF WatchInv, WatchTimerRuns
<1>11. ASSUME NEW h \in Watched \ {g} PROVE Timely(h)' /\ InTurn(h)'
  <2>1. Timely(h) /\ InTurn(h)
    BY DEF WatchInv
  <2>2. Timely(h)'
    BY <1>6, <2>1 DEF Timely, Silent
  <2>3. InTurn(h)'
    BY <1>6, <2>1 DEF InTurn
  <2> QED
    BY <2>2, <2>3
<1>12. CASE ~Alive(code, kind)
  <2>1. /\ watch'.heard[g] = watch.heard[g] /\ watch'.lastSeen[g] = watch.lastSeen[g]
        /\ (watch'.alarmed[g] <=> watch.alarmed[g]) /\ watch'.out[g] = watch.out[g]
    BY <1>2, <1>7, <1>12
  <2>2. Timely(g) /\ InTurn(g)
    BY DEF WatchInv
  <2>3. Timely(g)'
    BY <1>6, <2>1, <2>2 DEF Timely, Silent
  <2>4. InTurn(g)'
    BY <2>1, <2>2 DEF InTurn
  <2> QED
    BY <1>9, <1>10, <1>11, <2>3, <2>4 DEF WatchInv
<1>13. CASE Alive(code, kind)
  <2>1. /\ watch'.heard[g] = now /\ watch'.lastSeen[g] = now
        /\ ~watch'.alarmed[g]
        /\ watch'.out[g] = IF watch.alarmed[g] THEN Append(watch.out[g], "recovery")
                           ELSE watch.out[g]
    BY <1>2, <1>7, <1>13
  <2>2. watch.out[g] \in Seq(Messages) /\ InTurn(g)
    BY <1>5 DEF WatchInv
  <2>4. Timely(g)'
    <3>1. watch.due - Interval - now <= Timeout /\ now # Never
      BY <1>5 DEF WatchInv, WatchTimerRuns, Never
    <3>2. now \in {Never} \cup (0..now)
      BY <1>5
    <3> QED
      BY <1>6, <2>1, <3>1, <3>2 DEF Timely
  <2>5. InTurn(g)'
    <3>1. CASE watch.alarmed[g]
      <4>1. Len(watch.out[g]) % 2 = 1 /\ Alternating(watch.out[g])
        BY <3>1, <2>2 DEF InTurn
      <4>2. /\ Alternating(Append(watch.out[g], "recovery"))
            /\ Len(Append(watch.out[g], "recovery")) % 2 # 1
        <5>1. "recovery" = IF Len(watch.out[g]) % 2 = 0 THEN "alarm" ELSE "recovery"
          BY <4>1, 1 # 0
        <5> QED
          BY <4>1, <5>1, <2>2, Words, AppendAlternates, Zenon
      <4> QED
        BY <4>2, <2>1, <3>1 DEF InTurn
    <3>2. CASE ~watch.alarmed[g]
      BY <3>2, <2>1, <2>2 DEF InTurn
    <3> QED
      BY <3>1, <3>2
  <2> QED
    BY <1>9, <1>10, <1>11, <2>4, <2>5 DEF WatchInv
<1> QED
  BY <1>12, <1>13

\* A check.
LEMMA WatchCheckKeeps ==
  ASSUME WatchInv, WatchdogCheck, now' = now
  PROVE  WatchInv'
<1> USE WatchdogAssumption
<1>1. WatchType
  BY DEF WatchInv
<1>2. /\ watch'.due = now + Interval
      /\ watch'.heard = watch.heard /\ watch'.lastSeen = watch.lastSeen
      /\ \A g \in Watched :
           /\ watch'.alarmed[g] = (watch.alarmed[g] \/ g \in Alarming)
           /\ watch'.out[g] = IF g \in Alarming THEN Append(watch.out[g], "alarm")
                              ELSE watch.out[g]
  BY <1>1 DEF WatchdogCheck, WatchType
<1>3. WatchType'
  <2> DEFINE alarms == [g \in Watched |-> watch.alarmed[g] \/ g \in Alarming]
             sent == [g \in Watched |-> IF g \in Alarming THEN Append(watch.out[g], "alarm")
                                        ELSE watch.out[g]]
  <2>1. alarms \in [Watched -> BOOLEAN]
    OBVIOUS
  <2>2. \A g \in Watched : watch.out[g] \in Seq(Messages)
    BY <1>1 DEF WatchType
  <2>3. sent \in [Watched -> Seq(Messages)]
    BY <2>2 DEF Messages
  <2>4. watch' = [watch EXCEPT !.alarmed = alarms, !.out = sent, !.due = now + Interval]
    BY DEF WatchdogCheck
  <2> HIDE DEF alarms, sent
  <2>5. now + Interval \in Int
    BY <1>1 DEF WatchType
  <2> QED
    BY <1>1, <2>1, <2>3, <2>4, <2>5 DEF WatchType
<1>4. WatchTimerRuns'
  BY <1>1, <1>2 DEF WatchTimerRuns, WatchType
<1>5. ASSUME NEW g \in Watched PROVE Timely(g)'
  <2>1. Timely(g) /\ watch.lastSeen[g] \in Int
    BY <1>1 DEF WatchInv, WatchType
  <2>2. watch'.alarmed[g] <=> watch.alarmed[g] \/ Silent(g)
    BY <1>2 DEF Alarming
  <2> QED
    BY <1>1, <1>2, <2>1, <2>2 DEF Timely, Silent, WatchType, Never
<1>6. ASSUME NEW g \in Watched PROVE InTurn(g)'
  <2>1. watch.out[g] \in Seq(Messages) /\ InTurn(g)
    BY <1>1 DEF WatchType, WatchInv
  <2>2. CASE g \in Alarming
    <3>1. ~watch.alarmed[g]
      BY <2>2 DEF Alarming
    <3>2. ~(Len(watch.out[g]) % 2 = 1) /\ Alternating(watch.out[g])
      BY <2>1, <3>1 DEF InTurn
    <3>3. Len(watch.out[g]) \in Nat
      BY <2>1
    <3>4. Len(watch.out[g]) % 2 = 0
      BY <3>2, <3>3, Parity, Zenon
    <3>5. /\ Alternating(Append(watch.out[g], "alarm"))
          /\ Len(Append(watch.out[g], "alarm")) % 2 # 0
      <4>1. "alarm" = IF Len(watch.out[g]) % 2 = 0 THEN "alarm" ELSE "recovery"
        BY <3>4
      <4>2. ~(Len(Append(watch.out[g], "alarm")) % 2 = Len(watch.out[g]) % 2)
        BY <3>2, <4>1, <2>1, Words, AppendAlternates, Zenon
      <4> QED
        BY <3>2, <3>4, <4>1, <4>2, <2>1, Words, AppendAlternates, Zenon
    <3>6. Append(watch.out[g], "alarm") \in Seq(Messages)
      BY <2>1 DEF Messages
    <3>7. Len(Append(watch.out[g], "alarm")) \in Nat
      BY <3>6
    <3>8. Len(Append(watch.out[g], "alarm")) % 2 = 1
      BY <3>5, <3>7, Parity, Zenon
    <3> QED
      BY <3>5, <3>8, <1>2, <2>2 DEF InTurn
  <2>3. CASE g \notin Alarming
    BY <1>2, <2>1, <2>3 DEF InTurn
  <2> QED
    BY <2>2, <2>3
<1> QED
  BY <1>3, <1>4, <1>5, <1>6 DEF WatchInv

\* The timer is cleared; time passes.
LEMMA WatchCloseKeeps ==
  ASSUME WatchInv, WatchdogClose, now' = now
  PROVE  WatchInv'
<1>1. /\ WatchType /\ watch'.due = Never
      /\ watch'.heard = watch.heard /\ watch'.lastSeen = watch.lastSeen
      /\ watch'.alarmed = watch.alarmed /\ watch'.out = watch.out
  BY DEF WatchInv, WatchType, WatchdogClose
<1>2. WatchType'
  <2>1. watch' = [watch EXCEPT !.due = Never] /\ now' \in Nat
    BY <1>1 DEF WatchType, WatchdogClose
  <2>2. Never \in Int
    BY DEF Never
  <2> QED
    BY <1>1, <2>1, <2>2 DEF WatchType
<1>3. ASSUME NEW g \in Watched PROVE Timely(g)' /\ InTurn(g)'
  <2>1. Timely(g) /\ InTurn(g)
    BY DEF WatchInv
  <2>2. InTurn(g)'
    BY <1>1, <2>1 DEF InTurn
  <2>3. watch.lastSeen[g] \in Int /\ now \in Nat
    BY <1>1 DEF WatchType
  <2>4. ~watch.alarmed[g] =>
          IF watch.lastSeen[g] = Never THEN Never <= Interval
          ELSE Never - Interval - watch.lastSeen[g] <= Timeout
    BY <2>1, <2>3, WatchdogAssumption DEF Timely, Never
  <2>5. Timely(g)'
    BY <1>1, <2>1, <2>4 DEF Timely, Silent
  <2> QED
    BY <2>2, <2>5
<1>4. Never <= now + Interval
  BY <1>1, WatchdogAssumption DEF WatchType, Never
<1> QED
  BY <1>1, <1>2, <1>3, <1>4 DEF WatchInv, WatchTimerRuns

LEMMA WatchTickKeeps ==
  ASSUME WatchInv, watch.due # Never, now < watch.due + MaxLate, Tick, UNCHANGED watch
  PROVE  WatchInv'
<1>1. WatchType /\ WatchType' /\ now' = now + 1
  BY DEF WatchInv, WatchType, Tick
<1>2. WatchTimerRuns'
  BY <1>1, WatchdogAssumption DEF WatchInv, WatchTimerRuns, WatchType
<1>3. ASSUME NEW g \in Watched PROVE Timely(g)' /\ InTurn(g)'
  <2>1. Timely(g) /\ InTurn(g)
    BY DEF WatchInv
  <2>2. InTurn(g)'
    BY <2>1 DEF InTurn
  <2>3. watch.lastSeen[g] \in Int /\ now \in Nat
    BY <1>1 DEF WatchType
  <2>4. Silent(g) => Silent(g)'
    BY <1>1, <2>3, WatchdogAssumption DEF Silent
  <2>5. watch.lastSeen[g] \in {Never} \cup (0..now) => watch.lastSeen[g] \in {Never} \cup (0..now')
    BY <1>1, <2>3
  <2>6. Timely(g)'
    BY <2>1, <2>4, <2>5 DEF Timely
  <2> QED
    BY <2>2, <2>6
<1> QED
  BY <1>1, <1>2, <1>3 DEF WatchInv

\* An address is in alarm when and only when it has been silent for too long, up
\* to the interval of the checks and the lateness of the timer, and alarms and
\* recoveries are sent in turn.
THEOREM AlarmsAreRight == WatchdogSpec => []AlarmsFollowSilence
<1>1. WatchInv /\ [WatchdogNext]_<<now, watch>> => WatchInv'
  <2> SUFFICES ASSUME WatchInv, [WatchdogNext]_<<now, watch>> PROVE WatchInv'
    OBVIOUS
  <2>1. CASE UNCHANGED <<now, watch>>
    BY <2>1 DEF WatchInv, WatchType, WatchTimerRuns, Timely, InTurn, Silent, Alternating
  <2> QED
    BY <2>1, WatchTelegramKeeps, WatchCheckKeeps, WatchCloseKeeps, WatchTickKeeps DEF WatchdogNext
<1>2. WatchInv => AlarmsFollowSilence
  <2> SUFFICES ASSUME WatchInv, watch.due # Never, NEW g \in Watched
               PROVE  LET silence == IF watch.heard[g] = Never THEN Timeout + now
                                     ELSE now - watch.heard[g]
                      IN  /\ watch.alarmed[g] => watch.heard[g] = Never \/ silence > Timeout
                          /\ ~watch.alarmed[g] => silence <= Timeout + Interval + MaxLate
                          /\ Alternating(watch.out[g])
                          /\ watch.alarmed[g] <=> Len(watch.out[g]) % 2 = 1
    BY DEF AlarmsFollowSilence
  <2> USE WatchdogAssumption
  <2>1. Timely(g) /\ InTurn(g) /\ WatchTimerRuns
    BY DEF WatchInv
  <2>2. /\ now \in Nat /\ watch.due \in Int /\ watch.lastSeen[g] \in Int
        /\ watch.heard[g] = watch.lastSeen[g]
    BY <2>1 DEF WatchInv, WatchType, Timely
  <2>3. watch.alarmed[g] => watch.heard[g] = Never \/ now - watch.heard[g] > Timeout
    BY <2>1, <2>2 DEF Timely, Silent
  <2>4. ~watch.alarmed[g] /\ watch.heard[g] = Never => Timeout + now <= Timeout + Interval + MaxLate
    BY <2>1, <2>2 DEF Timely, WatchTimerRuns
  <2>5. ~watch.alarmed[g] /\ watch.heard[g] # Never =>
          now - watch.heard[g] <= Timeout + Interval + MaxLate
    BY <2>1, <2>2 DEF Timely, WatchTimerRuns
  <2> QED
    BY <2>1, <2>3, <2>4, <2>5 DEF InTurn
<1> QED
  BY <1>1, <1>2, InitWatch, PTL DEF WatchdogSpec

-----------------------------------------------------------------------------
\* RATE LIMIT

\* What a bucket b is, at the time t, to the times p of all that passed since
\* the node was made and the times d at which something was dropped.

Ascends(p) ==
  \A i, j \in 1..Len(p) : i <= j => p[i] <= p[j]

\* A bucket is the end of what passed: what came before it is out of the window.
IsTheEnd(b, p, t) ==
  /\ Len(b) <= Len(p)
  /\ \A i \in 1..Len(b) : b[i] = p[Len(p) - Len(b) + i]
  /\ \A i \in 1..Len(p) - Len(b) : p[i] < t - Window

\* Messages that are MaxPerWindow apart do not share a window.
Spread(p) ==
  \A i \in 1..Len(p) : i + MaxPerWindow <= Len(p) => p[i] < p[i + MaxPerWindow] - Window

\* Where a message was dropped, MaxPerWindow others had passed.
DroppedWhenFull(p, d) ==
  \A u \in d : \E i \in 1..Len(p) : /\ i + MaxPerWindow - 1 <= Len(p)
                                    /\ p[i] >= u - Window
                                    /\ p[i + MaxPerWindow - 1] <= u

BucketGood(b, p, d, t) ==
  /\ b \in Seq(Nat) /\ p \in Seq(Nat) /\ d \subseteq 0..t
  /\ \A i \in 1..Len(p) : p[i] <= t
  /\ Len(b) <= MaxPerWindow
  /\ Ascends(p) /\ IsTheEnd(b, p, t) /\ Spread(p) /\ DroppedWhenFull(p, d)

LimiterInv ==
  /\ now \in Nat
  /\ limiter \in [buckets : [Keys -> Seq(Nat)], passed : [Keys -> Seq(Nat)],
                  dropped : [Keys -> SUBSET Nat]]
  /\ \A k \in Keys : BucketGood(limiter.buckets[k], limiter.passed[k], limiter.dropped[k], now)

\* The loop that shifts stops, with all that is old shifted off.
LEMMA ShiftStops ==
  ASSUME NEW b \in Seq(Nat), NEW c \in Int
  PROVE  /\ FirstKept(b, c) \in 1..Len(b) + 1
         /\ \A i \in 1..FirstKept(b, c) - 1 : b[i] < c
         /\ FirstKept(b, c) <= Len(b) => b[FirstKept(b, c)] >= c
<1> DEFINE T == {n \in 1..Len(b) + 1 : n <= Len(b) => b[n] >= c}
<1>1. Len(b) \in Nat /\ \A i \in 1..Len(b) : b[i] \in Nat
  OBVIOUS
<1>2. Len(b) + 1 \in T /\ T \in SUBSET Nat
  BY <1>1
<1>3. PICK n \in T : \A m \in T : n <= m
  <2> HIDE DEF T
  <2> QED
    BY <1>2, LeastExists
<1>4. \A i \in 1..n - 1 : b[i] < c
  <2> SUFFICES ASSUME NEW i \in 1..n - 1 PROVE b[i] < c
    OBVIOUS
  <2>1. i \notin T
    BY <1>3, <1>1
  <2> QED
    BY <2>1, <1>1, <1>3
<1>5. \E m \in 1..Len(b) + 1 : /\ \A i \in 1..m - 1 : b[i] < c
                               /\ m <= Len(b) => b[m] >= c
  BY <1>3, <1>4
<1> QED
  BY <1>5 DEF FirstKept

\* The end of a bucket, from the first time that is not too old, is the end of
\* what passed, and all of it is in the window.
LEMMA EvictedIsTheEnd ==
  ASSUME NEW t \in Nat, NEW b \in Seq(Nat), NEW p \in Seq(Nat), FilterAssumption,
         Ascends(p), IsTheEnd(b, p, t)
  PROVE  LET e == SubSeq(b, FirstKept(b, t - Window), Len(b))
         IN  /\ e \in Seq(Nat)
             /\ \A i \in 1..Len(e) : e[i] >= t - Window
             /\ IsTheEnd(e, p, t)
<1> DEFINE c == t - Window
           g == FirstKept(b, c)
           e == SubSeq(b, g, Len(b))
           lb == Len(b)
           lp == Len(p)
           le == Len(e)
<1>1. c \in Int /\ lp \in Nat /\ lb \in Nat
  BY DEF FilterAssumption
<1>2. \A i \in 1..lp : p[i] \in Nat
  OBVIOUS
<1>3. g \in 1..lb + 1
  BY <1>1, ShiftStops
<1>4. /\ \A i \in 1..g - 1 : b[i] < c
      /\ g <= lb => b[g] >= c
  BY <1>1, ShiftStops
<1>5. lb <= lp
  BY DEF IsTheEnd
<1>6. \A i \in 1..lb : b[i] = p[lp - lb + i]
  BY DEF IsTheEnd
<1>7. \A i \in 1..lp - lb : p[i] < c
  BY DEF IsTheEnd
<1>8. \A i, j \in 1..lp : i <= j => p[i] <= p[j]
  BY DEF Ascends
<1>9. e \in Seq(Nat) /\ le = lb - g + 1 /\ \A i \in 1..le : e[i] = b[g + i - 1]
  <2> HIDE DEF c, g
  <2> QED
    BY <1>1, <1>3
<1>10. le \in Nat /\ le <= lp
  <2> HIDE DEF c, g, e, lb, lp, le
  <2> QED
    BY <1>1, <1>3, <1>5, <1>9
<1> HIDE DEF c, g, e, lb, lp, le
<1>11. ASSUME NEW i \in 1..le
       PROVE  e[i] = p[lp - le + i] /\ e[i] >= c
  <2>1. /\ g + i - 1 \in 1..lb /\ g \in 1..lb
        /\ lp - lb + (g + i - 1) = lp - le + i
        /\ lp - lb + (g + i - 1) \in 1..lp
        /\ lp - lb + g \in 1..lp
        /\ lp - lb + g <= lp - lb + (g + i - 1)
    BY <1>1, <1>3, <1>5, <1>9
  <2>2. e[i] = p[lp - lb + (g + i - 1)] /\ b[g] = p[lp - lb + g]
    BY <2>1, <1>6, <1>9
  <2>3. e[i] >= b[g]
    BY <2>1, <2>2, <1>8
  <2>4. b[g] >= c
    BY <2>1, <1>4
  <2>5. b[g] \in Nat /\ e[i] \in Nat
    BY <2>1, <2>2, <1>2
  <2>6. e[i] >= c
    BY <2>3, <2>4, <2>5, <1>1
  <2> QED
    BY <2>1, <2>2, <2>6
<1>12. ASSUME NEW i \in 1..lp - le PROVE p[i] < c
  <2>1. CASE i \in 1..lp - lb
    BY <2>1, <1>7
  <2>2. CASE i \notin 1..lp - lb
    <3> DEFINE j == i - (lp - lb)
    <3>1. j \in 1..g - 1 /\ j \in 1..lb /\ i = lp - lb + j
      BY <2>2, <1>1, <1>3, <1>5, <1>9
    <3> QED
      BY <3>1, <1>4, <1>6
  <2> QED
    BY <2>1, <2>2
<1>13. /\ e \in Seq(Nat)
       /\ \A i \in 1..Len(e) : e[i] >= c
       /\ IsTheEnd(e, p, t)
  BY <1>9, <1>10, <1>11, <1>12 DEF IsTheEnd, lp, le, c
<1> QED
  BY <1>13 DEF e, g, c

\* A message that comes to a full bucket, here e: nothing passes.
LEMMA DropKeeps ==
  ASSUME FilterAssumption, NEW t \in Nat, NEW b, NEW p, NEW d, BucketGood(b, p, d, t),
         NEW e \in Seq(Nat), IsTheEnd(e, p, t), \A i \in 1..Len(e) : e[i] >= t - Window,
         Len(e) = MaxPerWindow
  PROVE  BucketGood(e, p, d \cup {t}, t)
<1>1. /\ p \in Seq(Nat) /\ d \subseteq 0..t
      /\ \A i \in 1..Len(p) : p[i] <= t
      /\ Ascends(p) /\ Spread(p) /\ DroppedWhenFull(p, d)
  BY DEF BucketGood
<1>2. MaxPerWindow \in Nat \ {0} /\ Window \in Nat
  BY DEF FilterAssumption
<1>3. Len(p) \in Nat /\ MaxPerWindow <= Len(p)
  BY <1>1 DEF IsTheEnd
<1>4. \A i \in 1..Len(e) : e[i] = p[Len(p) - MaxPerWindow + i]
  BY DEF IsTheEnd
<1> DEFINE f == Len(p) - MaxPerWindow + 1
<1>5. f \in 1..Len(p) /\ f + MaxPerWindow - 1 = Len(p) /\ Len(p) \in 1..Len(p)
  BY <1>2, <1>3
<1>6. p[f] >= t - Window
  <2>1. 1 \in 1..Len(e)
    BY <1>2
  <2> QED
    BY <2>1, <1>4
<1>7. p[Len(p)] <= t
  BY <1>1, <1>5
<1>8. \E i \in 1..Len(p) : /\ i + MaxPerWindow - 1 <= Len(p)
                           /\ p[i] >= t - Window
                           /\ p[i + MaxPerWindow - 1] <= t
  <2> HIDE DEF f
  <2>1. f + MaxPerWindow - 1 <= Len(p) /\ p[f + MaxPerWindow - 1] <= t
    BY <1>3, <1>5, <1>7
  <2> QED
    BY <2>1, <1>5, <1>6
<1>9. DroppedWhenFull(p, d \cup {t})
  BY <1>1, <1>8 DEF DroppedWhenFull
<1>10. d \cup {t} \subseteq 0..t
  BY <1>1
<1> QED
  BY <1>1, <1>2, <1>9, <1>10 DEF BucketGood

\* A message that passes, e being what is kept of the bucket.
LEMMA PassKeeps ==
  ASSUME FilterAssumption, NEW t \in Nat, NEW b, NEW p, NEW d, BucketGood(b, p, d, t),
         NEW e \in Seq(Nat), IsTheEnd(e, p, t), Len(e) < MaxPerWindow
  PROVE  BucketGood(Append(e, t), Append(p, t), d, t)
<1> DEFINE q == Append(p, t)
           n == Append(e, t)
           lp == Len(p)
           le == Len(e)
<1>1. /\ p \in Seq(Nat) /\ d \subseteq 0..t
      /\ \A i \in 1..Len(p) : p[i] <= t
      /\ Ascends(p) /\ Spread(p) /\ DroppedWhenFull(p, d)
  BY DEF BucketGood
<1>2. MaxPerWindow \in Nat \ {0} /\ Window \in Nat
  BY DEF FilterAssumption
<1>3. lp \in Nat /\ le \in Nat /\ le <= lp /\ le < MaxPerWindow
  BY <1>1 DEF IsTheEnd
<1>4. /\ \A i \in 1..le : e[i] = p[lp - le + i]
      /\ \A i \in 1..lp - le : p[i] < t - Window
  BY DEF IsTheEnd
<1>5. \A i \in 1..lp : p[i] \in Nat /\ p[i] <= t
  BY <1>1
<1>6. /\ q \in Seq(Nat) /\ Len(q) = lp + 1
      /\ q[lp + 1] = t /\ \A i \in 1..lp : q[i] = p[i]
  BY <1>1
<1>7. /\ n \in Seq(Nat) /\ Len(n) = le + 1
      /\ n[le + 1] = t /\ \A i \in 1..le : n[i] = e[i]
  OBVIOUS
<1>8. \A i, j \in 1..lp : i <= j => p[i] <= p[j]
  BY <1>1 DEF Ascends
<1>9. \A i \in 1..lp : i + MaxPerWindow <= lp => p[i] < p[i + MaxPerWindow] - Window
  BY <1>1 DEF Spread
<1>10. \A u \in d : \E i \in 1..lp : /\ i + MaxPerWindow - 1 <= lp
                                     /\ p[i] >= u - Window
                                     /\ p[i + MaxPerWindow - 1] <= u
  BY <1>1 DEF DroppedWhenFull
<1> HIDE DEF q, n, lp, le
<1>11. \A i \in 1..lp + 1 : i \in 1..lp \/ i = lp + 1
  BY <1>3
<1>12. \A i \in 1..lp + 1 : q[i] <= t /\ q[i] \in Nat
  <2> SUFFICES ASSUME NEW i \in 1..lp + 1 PROVE q[i] <= t /\ q[i] \in Nat
    OBVIOUS
  <2>1. CASE i \in 1..lp
    BY <2>1, <1>5, <1>6
  <2>2. CASE i = lp + 1
    BY <2>2, <1>6
  <2> QED
    BY <2>1, <2>2, <1>11
<1>13. ASSUME NEW i \in 1..lp + 1, NEW j \in 1..lp + 1, i <= j PROVE q[i] <= q[j]
  <2>1. CASE j \in 1..lp
    <3>1. i \in 1..lp
      BY <2>1, <1>13, <1>3
    <3> QED
      BY <3>1, <2>1, <1>13, <1>6, <1>8
  <2>2. CASE j = lp + 1
    BY <2>2, <1>6, <1>12
  <2> QED
    BY <2>1, <2>2, <1>11
<1>14. ASSUME NEW i \in 1..le + 1 PROVE n[i] = q[lp - le + i]
  <2>1. CASE i \in 1..le
    <3>1. lp - le + i \in 1..lp
      BY <2>1, <1>3
    <3> QED
      BY <3>1, <2>1, <1>4, <1>6, <1>7
  <2>2. CASE i = le + 1
    <3>1. lp - le + i = lp + 1
      BY <2>2, <1>3
    <3> QED
      BY <3>1, <2>2, <1>6, <1>7
  <2> QED
    BY <2>1, <2>2, <1>3
<1>15. ASSUME NEW i \in 1..lp - le PROVE q[i] < t - Window
  <2>1. i \in 1..lp
    BY <1>3
  <2> QED
    BY <2>1, <1>4, <1>6
<1>16. ASSUME NEW i \in 1..lp + 1, i + MaxPerWindow <= lp + 1
       PROVE  q[i] < q[i + MaxPerWindow] - Window
  <2>1. i \in 1..lp
    BY <1>16, <1>2, <1>3
  <2>2. CASE i + MaxPerWindow <= lp
    <3>1. i + MaxPerWindow \in 1..lp
      BY <2>2, <2>1, <1>2, <1>3
    <3> QED
      BY <2>1, <2>2, <3>1, <1>6, <1>9
  <2>3. CASE ~(i + MaxPerWindow <= lp)
    <3>1. i + MaxPerWindow = lp + 1
      BY <2>3, <1>16, <1>2, <1>3
    <3>2. i \in 1..lp - le
      BY <3>1, <2>1, <1>2, <1>3
    <3> QED
      BY <3>1, <3>2, <1>6, <1>15
  <2> QED
    BY <2>2, <2>3
<1>17. ASSUME NEW u \in d
       PROVE  \E i \in 1..lp + 1 : /\ i + MaxPerWindow - 1 <= lp + 1
                                    /\ q[i] >= u - Window
                                    /\ q[i + MaxPerWindow - 1] <= u
  <2>1. PICK i \in 1..lp : /\ i + MaxPerWindow - 1 <= lp
                           /\ p[i] >= u - Window
                           /\ p[i + MaxPerWindow - 1] <= u
    BY <1>10
  <2>2. i \in 1..lp + 1 /\ i + MaxPerWindow - 1 <= lp + 1 /\ i + MaxPerWindow - 1 \in 1..lp
    BY <2>1, <1>2, <1>3
  <2>3. q[i] = p[i] /\ q[i + MaxPerWindow - 1] = p[i + MaxPerWindow - 1]
    BY <2>2, <1>6
  <2> QED
    BY <2>1, <2>2, <2>3
<1>18. Len(n) <= MaxPerWindow /\ Len(n) <= Len(q) /\ Len(q) - Len(n) = lp - le
  BY <1>2, <1>3, <1>6, <1>7
<1>19. Ascends(q) /\ Spread(q) /\ DroppedWhenFull(q, d)
  BY <1>6, <1>13, <1>16, <1>17 DEF Ascends, Spread, DroppedWhenFull
<1>20. IsTheEnd(n, q, t)
  BY <1>7, <1>14, <1>15, <1>18 DEF IsTheEnd
<1>21. BucketGood(n, q, d, t)
  BY <1>1, <1>6, <1>7, <1>12, <1>18, <1>19, <1>20 DEF BucketGood
<1> QED
  BY <1>21 DEF n, q

LEMMA NewBucketIsGood ==
  ASSUME FilterAssumption, NEW t \in Nat PROVE BucketGood(<<>>, <<>>, {}, t)
BY DEF BucketGood, Ascends, IsTheEnd, Spread, DroppedWhenFull, FilterAssumption

\* Time goes on: less is in the window.
LEMMA LaterIsGood ==
  ASSUME FilterAssumption, NEW t \in Nat, NEW u \in Nat, t <= u,
         NEW b, NEW p, NEW d, BucketGood(b, p, d, t)
  PROVE  BucketGood(b, p, d, u)
<1>1. /\ b \in Seq(Nat) /\ p \in Seq(Nat) /\ d \subseteq 0..u /\ Len(b) <= MaxPerWindow
      /\ Ascends(p) /\ Spread(p) /\ DroppedWhenFull(p, d)
  BY DEF BucketGood
<1>2. Len(b) \in Nat /\ Len(p) \in Nat /\ \A i \in 1..Len(p) : p[i] \in Nat
  BY <1>1
<1>3. \A i \in 1..Len(p) : p[i] <= u
  BY <1>2 DEF BucketGood
<1>4. IsTheEnd(b, p, u)
  <2>1. IsTheEnd(b, p, t)
    BY DEF BucketGood
  <2>2. \A i \in 1..Len(p) - Len(b) : p[i] \in Nat
    BY <1>2
  <2> QED
    BY <2>1, <2>2 DEF IsTheEnd, FilterAssumption
<1> QED
  BY <1>1, <1>3, <1>4 DEF BucketGood

LEMMA LimiterInvariant == ASSUME FilterAssumption PROVE LimiterSpec => []LimiterInv
<1> DEFINE Limiters == [buckets : [Keys -> Seq(Nat)], passed : [Keys -> Seq(Nat)],
                        dropped : [Keys -> SUBSET Nat]]
<1>1. ClockInit /\ LimiterInit => LimiterInv
  <2> SUFFICES ASSUME ClockInit, LimiterInit PROVE LimiterInv
    OBVIOUS
  <2>1. \A k \in Keys : /\ limiter.passed[k] = <<>> /\ limiter.buckets[k] = <<>>
                        /\ limiter.dropped[k] = {}
    BY DEF LimiterInit
  <2>2. limiter \in Limiters /\ now \in Nat
    BY DEF LimiterInit, ClockInit
  <2> QED
    BY <2>1, <2>2, NewBucketIsGood DEF LimiterInv
<1>2. LimiterInv /\ [LimiterNext]_<<now, limiter>> => LimiterInv'
  <2> SUFFICES ASSUME LimiterInv, [LimiterNext]_<<now, limiter>> PROVE LimiterInv'
    OBVIOUS
  <2>1. /\ now \in Nat /\ limiter \in Limiters
        /\ \A k \in Keys :
             BucketGood(limiter.buckets[k], limiter.passed[k], limiter.dropped[k], now)
    BY DEF LimiterInv
  <2>2. CASE LimiterInput /\ UNCHANGED now
    <3>1. PICK topic \in Topics :
            LET k == Key(topic)
                bucket == Evicted(limiter.buckets[k])
                full == Len(bucket) >= MaxPerWindow
            IN  limiter' =
                  [limiter EXCEPT
                     !.buckets[k] = IF full THEN bucket ELSE Append(bucket, now),
                     !.passed[k] = IF full THEN @ ELSE Append(@, now),
                     !.dropped[k] = IF full THEN @ \cup {now} ELSE @]
      BY <2>2 DEF LimiterInput
    <3> DEFINE k == Key(topic)
               b == limiter.buckets[k]
               p == limiter.passed[k]
               d == limiter.dropped[k]
               e == Evicted(b)
               full == Len(e) >= MaxPerWindow
               newb == IF full THEN e ELSE Append(e, now)
               newp == IF full THEN p ELSE Append(p, now)
               newd == IF full THEN d \cup {now} ELSE d
    <3>2. k \in Keys
      BY DEF Key, Keys
    <3>3. limiter' = [limiter EXCEPT !.buckets[k] = newb, !.passed[k] = newp, !.dropped[k] = newd]
      BY <3>1
    <3>4. e = SubSeq(b, FirstKept(b, now - Window), Len(b))
      BY DEF Evicted
    <3>5. BucketGood(b, p, d, now)
      BY <2>1, <3>2
    <3>6. BucketGood(newb, newp, newd, now)
      <4> HIDE DEF b, p, d, e
      <4>1. /\ b \in Seq(Nat) /\ p \in Seq(Nat) /\ Len(b) <= MaxPerWindow
            /\ Ascends(p) /\ IsTheEnd(b, p, now)
        BY <3>5 DEF BucketGood
      <4>2. /\ e \in Seq(Nat)
            /\ \A i \in 1..Len(e) : e[i] >= now - Window
            /\ IsTheEnd(e, p, now)
        BY <4>1, <3>4, <2>1, EvictedIsTheEnd
      <4>3. Len(e) <= Len(b)
        <5>1. FirstKept(b, now - Window) \in 1..Len(b) + 1
          <6>1. now - Window \in Int
            BY <2>1 DEF FilterAssumption
          <6> QED
            BY <6>1, <4>1, ShiftStops
        <5> QED
          BY <5>1, <4>1, <3>4
      <4>4. CASE full
        <5>1. Len(e) = MaxPerWindow
          BY <4>1, <4>2, <4>3, <4>4 DEF FilterAssumption
        <5> QED
          BY <5>1, <4>2, <4>4, <2>1, <3>5, DropKeeps
      <4>5. CASE ~full
        <5>1. Len(e) < MaxPerWindow
          BY <4>2, <4>5 DEF FilterAssumption
        <5> QED
          BY <5>1, <4>2, <4>5, <2>1, <3>5, PassKeeps
      <4> QED
        BY <4>4, <4>5
    <3> HIDE DEF newb, newp, newd, k, e, full
    <3>7. newb \in Seq(Nat) /\ newp \in Seq(Nat) /\ newd \in SUBSET Nat
      BY <3>6, <2>1 DEF BucketGood
    <3>8. limiter' \in Limiters
      <4>1. /\ limiter.buckets \in [Keys -> Seq(Nat)] /\ limiter.passed \in [Keys -> Seq(Nat)]
            /\ limiter.dropped \in [Keys -> SUBSET Nat]
        BY <2>1
      <4> DEFINE fb == [limiter.buckets EXCEPT ![k] = newb]
                 fp == [limiter.passed EXCEPT ![k] = newp]
                 fd == [limiter.dropped EXCEPT ![k] = newd]
      <4>2. fb \in [Keys -> Seq(Nat)] /\ fp \in [Keys -> Seq(Nat)] /\ fd \in [Keys -> SUBSET Nat]
        BY <4>1, <3>7
      <4>3. limiter' = [buckets |-> fb, passed |-> fp, dropped |-> fd]
        BY <2>1, <3>3
      <4> HIDE DEF fb, fp, fd
      <4> QED
        BY <4>2, <4>3
    <3>9. /\ limiter'.buckets[k] = newb /\ limiter'.passed[k] = newp /\ limiter'.dropped[k] = newd
          /\ \A x \in Keys \ {k} : /\ limiter'.buckets[x] = limiter.buckets[x]
                                   /\ limiter'.passed[x] = limiter.passed[x]
                                   /\ limiter'.dropped[x] = limiter.dropped[x]
      BY <2>1, <3>2, <3>3
    <3>10. \A x \in Keys :
             BucketGood(limiter'.buckets[x], limiter'.passed[x], limiter'.dropped[x], now)
      BY <2>1, <3>6, <3>9
    <3> QED
      BY <2>1, <2>2, <3>8, <3>10 DEF LimiterInv, Keys
  <2>3. CASE LimiterClose /\ UNCHANGED now
    <3>1. \A k \in Keys : /\ limiter'.passed[k] = <<>> /\ limiter'.buckets[k] = <<>>
                          /\ limiter'.dropped[k] = {}
      BY <2>1, <2>3 DEF LimiterClose
    <3>2. limiter' \in Limiters
      <4> DEFINE fb == [k \in Keys |-> <<>>]
                 fd == [k \in Keys |-> {}]
      <4>1. /\ fb \in [Keys -> Seq(Nat)] /\ fd \in [Keys -> SUBSET Nat]
        OBVIOUS
      <4>2. limiter' = [buckets |-> fb, passed |-> fb, dropped |-> fd]
        BY <2>1, <2>3 DEF LimiterClose
      <4> HIDE DEF fb, fd
      <4> QED
        BY <4>1, <4>2
    <3> QED
      BY <2>1, <2>3, <3>1, <3>2, NewBucketIsGood DEF LimiterInv, Keys
  <2>4. CASE UNCHANGED limiter /\ (Tick \/ UNCHANGED now)
    <3>1. now' \in Nat /\ now <= now'
      BY <2>1, <2>4 DEF Tick
    <3>2. \A k \in Keys :
            BucketGood(limiter.buckets[k], limiter.passed[k], limiter.dropped[k], now')
      BY <2>1, <3>1, LaterIsGood
    <3> QED
      BY <2>1, <2>4, <3>1, <3>2 DEF LimiterInv, Keys
  <2> QED
    BY <2>2, <2>3, <2>4 DEF LimiterNext
<1> QED
  BY <1>1, <1>2, PTL DEF LimiterSpec

\* rateLimit.ts: no window holds more than the allowed number of messages, and
\* none is dropped from one that holds fewer.
THEOREM RateIsKept == LimiterSpec => []RateHolds
<1>1. ASSUME LimiterInv, NEW k \in Keys, NEW t \in 0..now
      PROVE  /\ Cardinality(PassedWithin(k, t)) <= MaxPerWindow
             /\ t \in limiter.dropped[k] => Cardinality(PassedWithin(k, t)) = MaxPerWindow
  <2> DEFINE p == limiter.passed[k]
             d == limiter.dropped[k]
             S == PassedWithin(k, t)
  <2>1. /\ p \in Seq(Nat) /\ Ascends(p) /\ Spread(p) /\ DroppedWhenFull(p, d)
    BY <1>1 DEF LimiterInv, BucketGood
  <2>2. /\ MaxPerWindow \in Nat \ {0} /\ Window \in Nat /\ Len(p) \in Nat /\ t \in Nat
        /\ \A i \in 1..Len(p) : p[i] \in Nat
    BY <1>1, <2>1, FilterAssumption DEF FilterAssumption, LimiterInv
  <2>3. S = {i \in 1..Len(p) : p[i] \in (t - Window)..t}
    BY DEF PassedWithin
  <2>4. \A i, j \in 1..Len(p) : i <= j => p[i] <= p[j]
    BY <2>1 DEF Ascends
  <2>5. \A i \in 1..Len(p) : i + MaxPerWindow <= Len(p) => p[i] < p[i + MaxPerWindow] - Window
    BY <2>1 DEF Spread
  <2> HIDE DEF p, S, d
  <2>6. S \in SUBSET Nat
    BY <2>2, <2>3
  <2>7. IsFiniteSet(S) /\ Cardinality(S) <= MaxPerWindow
    <3>1. CASE S = {}
      BY <3>1, <2>2, FS_EmptySet
    <3>2. CASE S # {}
      <4>1. PICK a \in S : \A i \in S : a <= i
        BY <3>2, <2>6, LeastExists
      <4> DEFINE z == a + MaxPerWindow - 1
      <4>2. a \in 1..Len(p) /\ p[a] >= t - Window /\ z \in Nat
        BY <4>1, <2>2, <2>3
      <4>3. ASSUME NEW i \in S PROVE i \in a..z
        <5>1. i \in 1..Len(p) /\ p[i] <= t /\ a <= i
          BY <4>1, <4>3, <2>2, <2>3
        <5>2. CASE i <= z
          BY <5>1, <5>2, <4>2
        <5>3. CASE ~(i <= z)
          <6> DEFINE n == a + MaxPerWindow
          <6>1. n \in 1..Len(p) /\ n <= i
            BY <5>1, <5>3, <4>2, <2>2
          <6>2. p[a] < p[n] - Window /\ p[n] <= p[i]
            BY <6>1, <5>1, <4>2, <2>4, <2>5
          <6> HIDE DEF n
          <6>3. p[a] \in Nat /\ p[n] \in Nat /\ p[i] \in Nat
            BY <6>1, <5>1, <4>2, <2>2
          <6> QED
            BY <6>2, <6>3, <5>1, <4>2, <2>2
        <5> QED
          BY <5>2, <5>3
      <4>4. S \in SUBSET (a..z)
        BY <4>3
      <4>5. IsFiniteSet(a..z) /\ Cardinality(a..z) = MaxPerWindow
        <5>1. a \in Int /\ z \in Int /\ a <= z /\ z - a + 1 = MaxPerWindow
          BY <4>2, <2>2
        <5> HIDE DEF z
        <5> QED
          BY <5>1, FS_Interval
      <4> QED
        BY <4>4, <4>5, FS_Subset
    <3> QED
      BY <3>1, <3>2
  <2>8. ASSUME t \in d PROVE Cardinality(S) = MaxPerWindow
    <3>1. PICK i \in 1..Len(p) : /\ i + MaxPerWindow - 1 <= Len(p)
                                 /\ p[i] >= t - Window
                                 /\ p[i + MaxPerWindow - 1] <= t
      BY <2>1, <2>8 DEF DroppedWhenFull
    <3> DEFINE z == i + MaxPerWindow - 1
    <3>2. z \in 1..Len(p) /\ i <= z
      BY <3>1, <2>2
    <3>3. ASSUME NEW j \in i..z PROVE j \in S
      <4>1. j \in 1..Len(p) /\ i <= j /\ j <= z
        BY <3>1, <3>2
      <4>2. p[i] <= p[j] /\ p[j] <= p[z]
        BY <4>1, <3>2, <2>4
      <4>3. p[i] \in Nat /\ p[j] \in Nat /\ p[z] \in Nat
        BY <4>1, <3>2, <2>2
      <4>4. p[j] \in (t - Window)..t
        <5>1. p[i] >= t - Window /\ p[z] <= t
          BY <3>1
        <5> HIDE DEF z
        <5> QED
          BY <5>1, <4>2, <4>3, <2>2
      <4> QED
        BY <4>1, <4>4, <2>3
    <3>4. (i..z) \in SUBSET S
      BY <3>3
    <3>5. Cardinality(i..z) = MaxPerWindow
      <4>1. i \in Int /\ z \in Int /\ i <= z /\ z - i + 1 = MaxPerWindow
        BY <3>2, <2>2
      <4> HIDE DEF z
      <4> QED
        BY <4>1, FS_Interval
    <3>6. MaxPerWindow <= Cardinality(S) /\ Cardinality(S) \in Nat
      <4>1. Cardinality(S) \in Nat
        BY <2>7, FS_CardinalityType
      <4>2. Cardinality(i..z) <= Cardinality(S)
        BY <3>4, <2>7, FS_Subset
      <4> QED
        BY <4>1, <4>2, <3>5
    <3> QED
      BY <3>6, <2>7, <2>2
  <2> QED
    BY <2>7, <2>8 DEF S, d
<1>2. LimiterInv => RateHolds
  BY <1>1 DEF RateHolds
<1> QED
  BY <1>2, LimiterInvariant, FilterAssumption, PTL

-----------------------------------------------------------------------------
\* WRITER

IsApdu(a) == a = [small |-> a.small, value |-> a.value]

\* What the messages carry as an APDU value is one, and Absent is none.
ApdusAreGiven ==
  /\ \A msg \in WriterMessages :
       ~IsRead(msg) /\ msg.payload.type = "apdu" => IsApdu(msg.payload.value)
  /\ ~IsApdu(Absent)

LEMMA ValuesAreApdus ==
  /\ \A n : IsApdu(SmallValue(n))
  /\ \A b : IsApdu(BytesValue(b))
BY DEF IsApdu, SmallValue, BytesValue

LEMMA IntegersAreApdus == \A t, v : \A a \in IntegerOut(t, v) : IsApdu(a)
BY ValuesAreApdus DEF IntegerOut

LEMMA NumbersAreApdus ==
  /\ \A m, v : \A a \in ScaledOut(m, v) : IsApdu(a)
  /\ \A v : \A a \in FloatOut(v) : IsApdu(a)
  /\ \A v : \A a \in SingleOut(v) : IsApdu(a)
<1>1. \A m, v : \A a \in ScaledOut(m, v) : IsApdu(a)
  BY ValuesAreApdus DEF ScaledOut
<1>2. ASSUME NEW v, NEW a \in FloatOut(v) PROVE IsApdu(a)
  BY <1>2, ValuesAreApdus DEF FloatOut
<1>3. \A v : \A a \in SingleOut(v) : IsApdu(a)
  BY ValuesAreApdus DEF SingleOut
<1> QED
  BY <1>1, <1>2, <1>3

LEMMA BitsAreApdus ==
  /\ \A v : \A a \in BitOut(v) : IsApdu(a)
  /\ \A v : \A a \in ControlledBitOut(v) : IsApdu(a)
  /\ \A v : \A a \in StepOut(v) : IsApdu(a)
  /\ \A m, v : \A a \in SceneOut(m, v) : IsApdu(a)
<1>1. \A v : \A a \in BitOut(v) : IsApdu(a)
  BY ValuesAreApdus DEF BitOut
<1>2. \A v : \A a \in ControlledBitOut(v) : IsApdu(a)
  BY ValuesAreApdus DEF ControlledBitOut
<1>3. \A v : \A a \in StepOut(v) : IsApdu(a)
  BY ValuesAreApdus DEF StepOut
<1>4. \A m, v : \A a \in SceneOut(m, v) : IsApdu(a)
  BY ValuesAreApdus DEF SceneOut
<1> QED
  BY <1>1, <1>2, <1>3, <1>4

LEMMA TimesAreApdus ==
  /\ \A v : \A a \in TimeOut(v) : IsApdu(a)
  /\ \A v : \A a \in DateOut(v) : IsApdu(a)
  /\ \A v : \A a \in MomentOut(v) : IsApdu(a)
<1>1. \A v : \A a \in TimeOut(v) : IsApdu(a)
  BY ValuesAreApdus DEF TimeOut
<1>2. \A v : \A a \in DateOut(v) : IsApdu(a)
  BY ValuesAreApdus DEF DateOut
<1>3. \A v : \A a \in MomentOut(v) : IsApdu(a)
  BY ValuesAreApdus DEF MomentOut
<1> QED
  BY <1>1, <1>2, <1>3

LEMMA TextsAndColoursAreApdus ==
  /\ \A s, v : \A a \in CharOut(s, v) : IsApdu(a)
  /\ \A v : \A a \in StringOut(v) : IsApdu(a)
  /\ \A v : \A a \in Utf8Out(v) : IsApdu(a)
  /\ \A v : \A a \in RgbOut(v) : IsApdu(a)
  /\ \A v : \A a \in RgbwOut(v) : IsApdu(a)
  /\ \A v : \A a \in TariffOut(v) : IsApdu(a)
<1>1. \A s, v : \A a \in CharOut(s, v) : IsApdu(a)
  BY ValuesAreApdus DEF CharOut
<1>2. \A v : \A a \in StringOut(v) : IsApdu(a)
  BY ValuesAreApdus DEF StringOut
<1>3. \A v : \A a \in Utf8Out(v) : IsApdu(a)
  BY ValuesAreApdus DEF Utf8Out
<1>4. \A v : \A a \in RgbOut(v) : IsApdu(a)
  BY ValuesAreApdus DEF RgbOut
<1>5. \A v : \A a \in RgbwOut(v) : IsApdu(a)
  BY ValuesAreApdus DEF RgbwOut
<1>6. \A v : \A a \in TariffOut(v) : IsApdu(a)
  BY ValuesAreApdus DEF TariffOut
<1> QED
  BY <1>1, <1>2, <1>3, <1>4, <1>5, <1>6

\* Every codec makes an APDU value.
LEMMA CodecsMakeApdus ==
  ASSUME NEW dpt, NEW v, NEW a \in DptOut(dpt, v) PROVE IsApdu(a)
BY IntegersAreApdus, NumbersAreApdus, BitsAreApdus, TimesAreApdus, TextsAndColoursAreApdus
   DEF DptOut

LEMMA WritesAreApdus ==
  ASSUME ApdusAreGiven, NEW msg \in WriterMessages, ~IsRead(msg), NEW raw,
         NEW apdu \in ApduFor(msg, raw)
  PROVE  IsApdu(apdu)
<1> DEFINE dpt == DptFor(msg, raw)
<1>1. CASE msg.payload.type = "apdu"
  BY <1>1 DEF ApduFor, ApdusAreGiven
<1>2. CASE msg.payload.type # "apdu" /\ dpt = Absent
  <2>1. apdu \in CoerceApdu(msg.payload)
    BY <1>2 DEF ApduFor
  <2> QED
    BY <2>1, ValuesAreApdus DEF CoerceApdu
<1>3. CASE msg.payload.type # "apdu" /\ dpt # Absent
  <2>1. apdu \in (IF HasDpt(dpt) THEN DptOut(dpt, msg.payload.value) ELSE {})
    BY <1>3 DEF ApduFor
  <2> HIDE DEF dpt
  <2> QED
    BY <2>1, CodecsMakeApdus
<1> QED
  BY <1>1, <1>2, <1>3

\* The calls p that are awaited and the values asked for, sent and failed agree:
\* the last call for an address carries what was asked for last, and where none
\* is awaited the bus has it or it failed.
WritesTo(p, raw) == {i \in 1..Len(p) : p[i].raw = raw /\ p[i].apdu # Absent}

LastCarries(p, raw, apdu) ==
  \A i \in WritesTo(p, raw) : (\A j \in WritesTo(p, raw) : j <= i) => p[i].apdu = apdu

Answered(raw, apdu, onBus, failed) ==
  raw \in failed \/ (raw \in DOMAIN onBus /\ onBus[raw] = apdu)

InFlightAgrees(p, asked, onBus, failed) ==
  \A raw \in DOMAIN asked :
    /\ LastCarries(p, raw, asked[raw])
    /\ WritesTo(p, raw) = {} => Answered(raw, asked[raw], onBus, failed)

\* What repeats are measured by is what was asked for last.
RepeatsAgree(lastWrites, asked) ==
  \A raw \in DOMAIN lastWrites :
    raw \in DOMAIN asked /\ lastWrites[raw].apdu = asked[raw] /\ IsApdu(asked[raw])

IsWriter(w) ==
  w = [config |-> w.config, lastWrites |-> w.lastWrites, pending |-> w.pending,
       asked |-> w.asked, onBus |-> w.onBus, failed |-> w.failed]

WriterInv ==
  /\ IsWriter(writer)
  /\ \E Calls : writer.pending \in Seq(Calls)
  /\ InFlightAgrees(writer.pending, writer.asked, writer.onBus, writer.failed)
  /\ RepeatsAgree(writer.lastWrites, writer.asked)
  /\ writer.config.window = 0 => DOMAIN writer.lastWrites = {}

LEMMA PutGet ==
  ASSUME NEW f, NEW key, NEW value
  PROVE  /\ DOMAIN Put(f, key, value) = DOMAIN f \cup {key}
         /\ Put(f, key, value)[key] = value
         /\ \A k \in DOMAIN f : k # key => Put(f, key, value)[k] = f[k]
BY DEF Put

\* One more call is awaited: a read, or a write of what is asked for now.
LEMMA CallAdded ==
  ASSUME NEW Calls, NEW p \in Seq(Calls), NEW call
  PROVE  LET q == Append(p, call)
         IN  /\ \E C : q \in Seq(C)
             /\ call.apdu # Absent =>
                  /\ Len(q) \in WritesTo(q, call.raw) /\ q[Len(q)].apdu = call.apdu
                  /\ \A j \in WritesTo(q, call.raw) : j <= Len(q)
             /\ \A r : (r # call.raw \/ call.apdu = Absent) =>
                  /\ WritesTo(q, r) = WritesTo(p, r)
                  /\ \A i \in WritesTo(p, r) : q[i] = p[i]
<1> DEFINE C == Calls \cup {call}
           q == Append(p, call)
           raw == call.raw
           apdu == call.apdu
<1>1. p \in Seq(C) /\ call \in C
  BY SeqMonotonic
<1> HIDE DEF C
<1>4. /\ q \in Seq(C) /\ Len(p) \in Nat /\ Len(q) = Len(p) + 1
      /\ q[Len(p) + 1] = call /\ \A i \in 1..Len(p) : q[i] = p[i]
  BY <1>1
<1> HIDE DEF q
<1>5. ASSUME apdu # Absent
      PROVE  /\ Len(q) \in WritesTo(q, raw) /\ q[Len(q)].apdu = apdu
             /\ \A j \in WritesTo(q, raw) : j <= Len(q)
  BY <1>4, <1>5 DEF WritesTo
<1>6. ASSUME NEW r, r # raw \/ apdu = Absent
      PROVE  /\ WritesTo(q, r) = WritesTo(p, r)
             /\ \A i \in WritesTo(p, r) : q[i] = p[i]
  <2>1. \A i \in 1..Len(q) : i \in 1..Len(p) \/ i = Len(p) + 1
    BY <1>4
  <2>2. Len(p) + 1 \notin WritesTo(q, r)
    BY <1>4, <1>6 DEF WritesTo
  <2>3. WritesTo(q, r) \subseteq 1..Len(p)
    BY <2>1, <2>2 DEF WritesTo
  <2>4. 1..Len(p) \subseteq 1..Len(q)
    BY <1>4
  <2> QED
    BY <2>3, <2>4, <1>4 DEF WritesTo
<1> QED
  BY <1>4, <1>5, <1>6 DEF q

LEMMA WriteAgrees ==
  ASSUME NEW Calls, NEW p \in Seq(Calls), NEW call, call.apdu # Absent,
         NEW asked, NEW onBus, NEW failed, InFlightAgrees(p, asked, onBus, failed)
  PROVE  InFlightAgrees(Append(p, call), Put(asked, call.raw, call.apdu), onBus, failed)
<1> DEFINE q == Append(p, call)
           raw == call.raw
           apdu == call.apdu
           new == Put(asked, raw, apdu)
<1>1. /\ Len(q) \in WritesTo(q, raw) /\ q[Len(q)].apdu = apdu
      /\ \A j \in WritesTo(q, raw) : j <= Len(q)
  BY CallAdded
<1>2. \A r : r # raw => /\ WritesTo(q, r) = WritesTo(p, r)
                        /\ \A i \in WritesTo(p, r) : q[i] = p[i]
  BY CallAdded
<1> HIDE DEF q, raw, apdu
<1>3. /\ DOMAIN new = DOMAIN asked \cup {raw} /\ new[raw] = apdu
      /\ \A k \in DOMAIN asked : k # raw => new[k] = asked[k]
  BY DEF Put
<1>4. \A i \in WritesTo(q, raw) : i \in Nat
  BY DEF WritesTo
<1> HIDE DEF new
<1>5. ASSUME NEW r \in DOMAIN asked, r # raw
      PROVE  /\ LastCarries(q, r, new[r])
             /\ WritesTo(q, r) = {} => Answered(r, new[r], onBus, failed)
  <2>1. /\ LastCarries(p, r, asked[r])
        /\ WritesTo(p, r) = {} => Answered(r, asked[r], onBus, failed)
    BY DEF InFlightAgrees
  <2>2. new[r] = asked[r] /\ WritesTo(q, r) = WritesTo(p, r)
        /\ \A i \in WritesTo(p, r) : q[i] = p[i]
    BY <1>2, <1>3, <1>5
  <2> QED
    BY <2>1, <2>2 DEF LastCarries
<1>6. LastCarries(q, raw, apdu)
  <2> SUFFICES ASSUME NEW i \in WritesTo(q, raw), \A j \in WritesTo(q, raw) : j <= i
               PROVE  q[i].apdu = apdu
    BY DEF LastCarries
  <2>1. i <= Len(q) /\ Len(q) <= i /\ i \in Nat /\ Len(q) \in Nat
    BY <1>1, <1>4
  <2>2. i = Len(q)
    BY <2>1
  <2> QED
    BY <2>2, <1>1
<1>7. InFlightAgrees(q, new, onBus, failed)
  <2> SUFFICES ASSUME NEW r \in DOMAIN new
               PROVE  /\ LastCarries(q, r, new[r])
                      /\ WritesTo(q, r) = {} => Answered(r, new[r], onBus, failed)
    BY DEF InFlightAgrees
  <2>1. CASE r = raw
    BY <2>1, <1>1, <1>3, <1>6
  <2>2. CASE r # raw
    BY <2>2, <1>3, <1>5
  <2> QED
    BY <2>1, <2>2
<1> QED
  BY <1>7 DEF q, new, raw, apdu

\* The first call is answered.
LEMMA AnswerAgrees ==
  ASSUME NEW Calls, NEW p \in Seq(Calls), p # <<>>,
         NEW asked, NEW onBus, NEW failed, InFlightAgrees(p, asked, onBus, failed),
         NEW newBus, NEW newFailed,
         p[1].apdu # Absent =>
           Answered(p[1].raw, p[1].apdu, newBus, newFailed),
         \A r : (p[1].apdu = Absent \/ r # p[1].raw) =>
           \A a : Answered(r, a, onBus, failed) => Answered(r, a, newBus, newFailed)
  PROVE  InFlightAgrees(Tail(p), asked, newBus, newFailed)
<1> DEFINE q == Tail(p)
           lp == Len(p)
<1>1. /\ lp \in Nat /\ lp >= 1 /\ Len(q) = lp - 1
      /\ \A i \in 1..lp - 1 : q[i] = p[i + 1]
  OBVIOUS
<1> HIDE DEF q, lp
<1>2. \A r : \A i \in WritesTo(q, r) : i + 1 \in WritesTo(p, r) /\ q[i] = p[i + 1] /\ i \in Nat
  BY <1>1 DEF WritesTo, lp
<1>3. \A r : \A j \in WritesTo(p, r) : j \in Nat /\ (j = 1 \/ j - 1 \in WritesTo(q, r))
  <2> SUFFICES ASSUME NEW r, NEW j \in WritesTo(p, r), j # 1
               PROVE  j - 1 \in WritesTo(q, r)
    BY DEF WritesTo
  <2>1. j \in 1..lp /\ p[j].raw = r /\ p[j].apdu # Absent
    BY DEF WritesTo, lp
  <2>2. j - 1 \in 1..lp - 1 /\ (j - 1) + 1 = j
    BY <2>1, <1>1
  <2>3. q[j - 1] = p[j]
    BY <2>2, <1>1
  <2> QED
    BY <2>1, <2>2, <2>3, <1>1 DEF WritesTo
<1>4. ASSUME NEW r \in DOMAIN asked
      PROVE  /\ LastCarries(q, r, asked[r])
             /\ WritesTo(q, r) = {} => Answered(r, asked[r], newBus, newFailed)
  <2>1. /\ LastCarries(p, r, asked[r])
        /\ WritesTo(p, r) = {} => Answered(r, asked[r], onBus, failed)
    BY DEF InFlightAgrees
  <2>2. LastCarries(q, r, asked[r])
    <3> SUFFICES ASSUME NEW i \in WritesTo(q, r), \A j \in WritesTo(q, r) : j <= i
                 PROVE  q[i].apdu = asked[r]
      BY DEF LastCarries
    <3>1. i \in Nat /\ i + 1 \in WritesTo(p, r) /\ q[i] = p[i + 1]
      BY <1>2
    <3>2. ASSUME NEW j \in WritesTo(p, r) PROVE j <= i + 1
      <4>1. CASE j = 1
        BY <4>1, <3>1
      <4>2. CASE j - 1 \in WritesTo(q, r)
        BY <4>2, <3>1, <1>3
      <4> QED
        BY <4>1, <4>2, <1>3
    <3> QED
      BY <3>1, <3>2, <2>1 DEF LastCarries
  <2>3. ASSUME WritesTo(q, r) = {} PROVE Answered(r, asked[r], newBus, newFailed)
    <3>1. CASE WritesTo(p, r) = {}
      <4>1. Answered(r, asked[r], onBus, failed)
        BY <3>1, <2>1
      <4>2. p[1].apdu = Absent \/ r # p[1].raw
        BY <3>1, <1>1 DEF WritesTo, lp
      <4> QED
        BY <4>1, <4>2
    <3>2. CASE WritesTo(p, r) # {}
      <4>1. 1 \in WritesTo(p, r) /\ \A j \in WritesTo(p, r) : j <= 1
        BY <3>2, <2>3, <1>3
      <4>2. p[1].apdu = asked[r] /\ p[1].raw = r /\ p[1].apdu # Absent
        BY <4>1, <2>1 DEF LastCarries, WritesTo
      <4> QED
        BY <4>2
    <3> QED
      BY <3>1, <3>2
  <2> QED
    BY <2>2, <2>3
<1> QED
  BY <1>4 DEF InFlightAgrees, q

LEMMA WriterReadsKeeps == ASSUME WriterInv, WriterReads PROVE WriterInv'
<1>a. PICK msg \in {m \in WriterMessages : IsRead(m)} : \E raw \in Target(msg) :
        writer' = [writer EXCEPT !.pending = Append(@, [raw |-> raw, apdu |-> Absent])]
  BY DEF WriterReads
<1>1. PICK raw \in Target(msg) :
        writer' = [writer EXCEPT !.pending = Append(@, [raw |-> raw, apdu |-> Absent])]
  BY <1>a
<1> DEFINE call == [raw |-> raw, apdu |-> Absent]
           p == writer.pending
           q == Append(p, call)
<1>2. PICK Calls : p \in Seq(Calls)
  BY DEF WriterInv
<1>3. /\ IsWriter(writer') /\ writer'.config = writer.config /\ writer'.pending = q
      /\ writer'.asked = writer.asked /\ writer'.onBus = writer.onBus
      /\ writer'.failed = writer.failed /\ writer'.lastWrites = writer.lastWrites
  BY <1>1 DEF WriterInv, IsWriter
<1>4. call.apdu = Absent
  OBVIOUS
<1> HIDE DEF call
<1> HIDE DEF p
<1>5. \E C : q \in Seq(C)
  BY <1>2, CallAdded
<1>9. \A r : /\ WritesTo(q, r) = WritesTo(p, r)
            /\ \A i \in WritesTo(p, r) : q[i] = p[i]
  <2>1. \A r : (r # call.raw \/ call.apdu = Absent) =>
          /\ WritesTo(q, r) = WritesTo(p, r)
          /\ \A i \in WritesTo(p, r) : q[i] = p[i]
    BY <1>2, CallAdded
  <2> QED
    BY <2>1, <1>4
<1> HIDE DEF q
<1>6. InFlightAgrees(p, writer.asked, writer.onBus, writer.failed)
  BY DEF WriterInv, p
<1>7. InFlightAgrees(q, writer.asked, writer.onBus, writer.failed)
  BY <1>6, <1>9 DEF InFlightAgrees, LastCarries
<1>8. RepeatsAgree(writer.lastWrites, writer.asked)
  BY DEF WriterInv
<1> QED
  BY <1>3, <1>5, <1>7, <1>8 DEF WriterInv

\* A write that is dropped asks for what was asked for already.
LEMMA SuppressedIsAsked ==
  ASSUME WriterInv, NEW raw, NEW apdu, IsApdu(apdu), Suppressed(raw, apdu)
  PROVE  raw \in DOMAIN writer.asked /\ writer.asked[raw] = apdu
<1>1. raw \in DOMAIN writer.lastWrites /\ ApduEquals(writer.lastWrites[raw].apdu, apdu)
  BY DEF Suppressed
<1>2. /\ raw \in DOMAIN writer.asked /\ writer.lastWrites[raw].apdu = writer.asked[raw]
      /\ IsApdu(writer.asked[raw])
  BY <1>1 DEF WriterInv, RepeatsAgree
<1>3. writer.asked[raw] = apdu
  BY <1>1, <1>2 DEF ApduEquals, IsApdu
<1> QED
  BY <1>2, <1>3

LEMMA WriterWritesKeeps ==
  ASSUME ApdusAreGiven, WriterInv, WriterWrites PROVE WriterInv'
<1> DEFINE Written(raw, apdu) ==
             writer' =
               IF Suppressed(raw, apdu)
               THEN [writer EXCEPT !.asked = Put(@, raw, apdu)]
               ELSE [writer EXCEPT
                       !.asked = Put(@, raw, apdu),
                       !.lastWrites = IF writer.config.window = 0 THEN @
                                      ELSE Put(@, raw, [apdu |-> apdu, ts |-> now]),
                       !.pending = Append(@, [raw |-> raw, apdu |-> apdu])]
<1>a. PICK msg \in {m \in WriterMessages : ~IsRead(m)} : \E raw \in Target(msg) :
        \E apdu \in ApduFor(msg, raw) : Written(raw, apdu)
  BY DEF WriterWrites
<1>b. PICK raw \in Target(msg) : \E apdu \in ApduFor(msg, raw) : Written(raw, apdu)
  BY <1>a
<1>1. PICK apdu \in ApduFor(msg, raw) : Written(raw, apdu)
  BY <1>b
<1>2. IsApdu(apdu) /\ apdu # Absent
  BY <1>1, WritesAreApdus DEF ApdusAreGiven
<1> DEFINE call == [raw |-> raw, apdu |-> apdu]
           p == writer.pending
           asked == writer.asked
           new == Put(asked, raw, apdu)
<1>3. PICK Calls : p \in Seq(Calls)
  BY DEF WriterInv
<1>4. /\ InFlightAgrees(p, asked, writer.onBus, writer.failed)
      /\ RepeatsAgree(writer.lastWrites, asked)
  BY DEF WriterInv
<1>5. /\ DOMAIN new = DOMAIN asked \cup {raw} /\ new[raw] = apdu
      /\ \A k \in DOMAIN asked : k # raw => new[k] = asked[k]
  BY DEF Put
<1>6. CASE Suppressed(raw, apdu)
  <2>1. writer' = [writer EXCEPT !.asked = new]
    BY <1>1, <1>6
  <2> HIDE DEF new
  <2>2. /\ IsWriter(writer') /\ writer'.config = writer.config /\ writer'.pending = p /\ writer'.asked = new
        /\ writer'.onBus = writer.onBus /\ writer'.failed = writer.failed
        /\ writer'.lastWrites = writer.lastWrites
    BY <2>1 DEF WriterInv, IsWriter
  <2>3. raw \in DOMAIN asked /\ asked[raw] = apdu
    BY <1>2, <1>6, SuppressedIsAsked
  <2>4. DOMAIN new = DOMAIN asked /\ \A k \in DOMAIN asked : new[k] = asked[k]
    BY <1>5, <2>3
  <2> HIDE DEF p, asked
  <2>5. InFlightAgrees(p, new, writer.onBus, writer.failed)
    BY <1>4, <2>4 DEF InFlightAgrees
  <2>6. RepeatsAgree(writer.lastWrites, new)
    BY <1>4, <2>4 DEF RepeatsAgree
  <2> QED
    BY <1>3, <2>2, <2>5, <2>6 DEF WriterInv
<1>7. CASE ~Suppressed(raw, apdu)
  <2> DEFINE write == [apdu |-> apdu, ts |-> now]
             writes == IF writer.config.window = 0 THEN writer.lastWrites
                       ELSE Put(writer.lastWrites, raw, write)
             q == Append(p, call)
  <2>1. writer' = [writer EXCEPT !.asked = new, !.lastWrites = writes, !.pending = q]
    BY <1>1, <1>7
  <2>2. call.raw = raw /\ call.apdu = apdu /\ write.apdu = apdu
    OBVIOUS
  <2> HIDE DEF new, writes, call, write
  <2>3. /\ IsWriter(writer') /\ writer'.pending = q /\ writer'.asked = new
        /\ writer'.onBus = writer.onBus /\ writer'.failed = writer.failed
        /\ writer'.lastWrites = writes
    BY <2>1 DEF WriterInv, IsWriter
  <2>4. \E C : q \in Seq(C)
    BY <1>3, CallAdded
  <2>7. writer'.config = writer.config /\ (writer.config.window = 0 => DOMAIN writes = {})
    BY <2>1 DEF WriterInv, IsWriter, writes
  <2>5. InFlightAgrees(q, new, writer.onBus, writer.failed)
    BY <1>2, <1>3, <1>4, <2>2, WriteAgrees DEF new
  <2>6. RepeatsAgree(writes, new)
    <3>1. RepeatsAgree(Put(writer.lastWrites, raw, write), new)
      <4> DEFINE put == Put(writer.lastWrites, raw, write)
      <4>1. /\ DOMAIN put = DOMAIN writer.lastWrites \cup {raw} /\ put[raw] = write
            /\ \A k \in DOMAIN writer.lastWrites : k # raw => put[k] = writer.lastWrites[k]
        BY DEF Put
      <4> HIDE DEF put
      <4>2. ASSUME NEW r \in DOMAIN put
            PROVE  r \in DOMAIN new /\ put[r].apdu = new[r] /\ IsApdu(new[r])
        <5>1. CASE r = raw
          BY <5>1, <4>1, <1>2, <1>5, <2>2
        <5>2. CASE r # raw
          BY <5>2, <4>1, <1>4, <1>5 DEF RepeatsAgree
        <5> QED
          BY <5>1, <5>2
      <4> QED
        BY <4>2 DEF RepeatsAgree, put
    <3>2. ASSUME writer.config.window = 0 PROVE RepeatsAgree(writer.lastWrites, new)
      BY <3>2 DEF RepeatsAgree, WriterInv
    <3> QED
      BY <3>1, <3>2 DEF writes
  <2> QED
    BY <2>3, <2>4, <2>5, <2>6, <2>7 DEF WriterInv
<1> QED
  BY <1>6, <1>7

LEMMA WriterCallEndsKeeps == ASSUME WriterInv, WriterCallEnds PROVE WriterInv'
<1> DEFINE call == Head(writer.pending)
           rest == [writer EXCEPT !.pending = Tail(@)]
           p == writer.pending
<1>1. PICK ok \in BOOLEAN :
        writer' = CASE call.apdu = Absent -> rest
                    [] call.apdu # Absent /\ ok ->
                         [rest EXCEPT !.onBus = Put(@, call.raw, call.apdu),
                                      !.failed = @ \ {call.raw}]
                    [] OTHER -> [rest EXCEPT !.failed = @ \cup {call.raw}]
  BY DEF WriterCallEnds
<1>2. p # <<>>
  BY DEF WriterCallEnds
<1>3. PICK Calls : p \in Seq(Calls)
  BY DEF WriterInv
<1>4. call = p[1] /\ Tail(p) \in Seq(Calls)
  BY <1>2, <1>3
<1>5. /\ InFlightAgrees(p, writer.asked, writer.onBus, writer.failed)
      /\ RepeatsAgree(writer.lastWrites, writer.asked) /\ IsWriter(writer)
      /\ writer.config.window = 0 => DOMAIN writer.lastWrites = {}
  BY DEF WriterInv
<1>6. /\ IsWriter(rest) /\ rest.pending = Tail(p) /\ rest.asked = writer.asked
      /\ rest.onBus = writer.onBus /\ rest.failed = writer.failed
      /\ rest.lastWrites = writer.lastWrites /\ rest.config = writer.config
  <2> DEFINE t == Tail(p)
  <2>1. rest = [writer EXCEPT !.pending = t]
    BY <1>5 DEF IsWriter
  <2> HIDE DEF rest, t, p
  <2>2. /\ IsWriter(rest) /\ rest.pending = t /\ rest.asked = writer.asked
        /\ rest.onBus = writer.onBus /\ rest.failed = writer.failed
        /\ rest.lastWrites = writer.lastWrites /\ rest.config = writer.config
    BY <2>1, <1>5 DEF IsWriter
  <2> QED
    BY <2>2 DEF t
<1> HIDE DEF rest, call
<1>7. ASSUME NEW bus, NEW failed, IsWriter(writer'), writer'.pending = Tail(p),
             writer'.asked = writer.asked, writer'.lastWrites = writer.lastWrites,
             writer'.config = writer.config, writer'.onBus = bus, writer'.failed = failed,
             InFlightAgrees(Tail(p), writer.asked, bus, failed)
      PROVE  WriterInv'
  BY <1>4, <1>5, <1>7 DEF WriterInv
<1>8. CASE call.apdu = Absent
  <2>1. writer' = rest
    BY <1>1, <1>8
  <2>2. InFlightAgrees(Tail(p), writer.asked, writer.onBus, writer.failed)
    BY <1>2, <1>3, <1>4, <1>5, <1>8, AnswerAgrees
  <2> QED
    BY <2>1, <2>2, <1>6, <1>7
<1>9. CASE call.apdu # Absent /\ ok
  <2> DEFINE bus == Put(writer.onBus, call.raw, call.apdu)
             failed == writer.failed \ {call.raw}
  <2>1. writer' = [rest EXCEPT !.onBus = bus, !.failed = failed]
    BY <1>1, <1>6, <1>9
  <2>2. /\ DOMAIN bus = DOMAIN writer.onBus \cup {call.raw} /\ bus[call.raw] = call.apdu
        /\ \A k \in DOMAIN writer.onBus : k # call.raw => bus[k] = writer.onBus[k]
    BY DEF Put
  <2>3. \A r : r \in failed <=> r \in writer.failed /\ r # call.raw
    OBVIOUS
  <2> HIDE DEF bus, failed
  <2>4. /\ IsWriter(writer') /\ writer'.pending = Tail(p) /\ writer'.asked = writer.asked
        /\ writer'.lastWrites = writer.lastWrites /\ writer'.config = writer.config
        /\ writer'.onBus = bus /\ writer'.failed = failed
    BY <2>1, <1>6 DEF IsWriter
  <2>5. Answered(call.raw, call.apdu, bus, failed)
    BY <2>2 DEF Answered
  <2>6. \A r : r # call.raw =>
          \A a : Answered(r, a, writer.onBus, writer.failed) => Answered(r, a, bus, failed)
    BY <2>2, <2>3 DEF Answered
  <2>7. InFlightAgrees(Tail(p), writer.asked, bus, failed)
    BY <2>5, <2>6, <1>2, <1>3, <1>4, <1>5, <1>9, AnswerAgrees
  <2> QED
    BY <2>4, <2>7, <1>7
<1>10. CASE call.apdu # Absent /\ ~ok
  <2> DEFINE failed == writer.failed \cup {call.raw}
  <2>1. writer' = [rest EXCEPT !.failed = failed]
    BY <1>1, <1>6, <1>10
  <2>2. call.raw \in failed /\ \A r \in writer.failed : r \in failed
    OBVIOUS
  <2> HIDE DEF failed
  <2>3. /\ IsWriter(writer') /\ writer'.pending = Tail(p) /\ writer'.asked = writer.asked
        /\ writer'.lastWrites = writer.lastWrites /\ writer'.config = writer.config
        /\ writer'.onBus = writer.onBus /\ writer'.failed = failed
    BY <2>1, <1>6 DEF IsWriter
  <2>4. Answered(call.raw, call.apdu, writer.onBus, failed)
    BY <2>2 DEF Answered
  <2>5. \A r, a : Answered(r, a, writer.onBus, writer.failed) => Answered(r, a, writer.onBus, failed)
    BY <2>2 DEF Answered
  <2>6. InFlightAgrees(Tail(p), writer.asked, writer.onBus, failed)
    BY <2>4, <2>5, <1>2, <1>3, <1>4, <1>5, <1>10, AnswerAgrees
  <2> QED
    BY <2>3, <2>6, <1>7
<1> QED
  BY <1>8, <1>9, <1>10

LEMMA WriterInvariant == ASSUME ApdusAreGiven PROVE WriterSpec => []WriterInv
<1>1. WriterInit => WriterInv
  <2> SUFFICES ASSUME WriterInit PROVE WriterInv
    OBVIOUS
  <2>1. PICK c \in WriterConfigs : writer = WriterOf(c)
    BY DEF WriterInit
  <2>2. /\ IsWriter(writer) /\ writer.pending = <<>>
        /\ DOMAIN writer.asked = {} /\ DOMAIN writer.lastWrites = {}
    BY <2>1 DEF WriterOf, IsWriter
  <2>3. writer.pending \in Seq({})
    BY <2>2
  <2> QED
    BY <2>2, <2>3 DEF WriterInv, InFlightAgrees, RepeatsAgree
<1>2. WriterInv /\ [WriterNext]_<<now, writer>> => WriterInv'
  <2> SUFFICES ASSUME WriterInv, [WriterNext]_<<now, writer>> PROVE WriterInv'
    OBVIOUS
  <2>1. CASE UNCHANGED writer
    BY <2>1 DEF WriterInv
  <2> QED
    BY <2>1, WriterReadsKeeps, WriterWritesKeeps, WriterCallEndsKeeps DEF WriterNext
<1> QED
  BY <1>1, <1>2, PTL DEF WriterSpec

\* writer.ts: dropping repeats never leaves an old value on the bus.
THEOREM WritesArrive == ASSUME ApdusAreGiven PROVE WriterSpec => []LastWriteWins
<1>1. WriterInv => LastWriteWins
  <2> SUFFICES ASSUME WriterInv, writer.pending = <<>>,
                      NEW raw \in DOMAIN writer.asked \ writer.failed
               PROVE  raw \in DOMAIN writer.onBus /\ writer.onBus[raw] = writer.asked[raw]
    BY DEF LastWriteWins
  <2>1. WritesTo(writer.pending, raw) = {}
    BY DEF WritesTo
  <2> QED
    BY <2>1 DEF WriterInv, InFlightAgrees, Answered
<1> QED
  BY <1>1, WriterInvariant, PTL

-----------------------------------------------------------------------------
\* SCHEDULE

\* The minutes that a schedule names are those that its expression matches, and
\* the calendar has every minute.
MinutesAreNamed ==
  \A c \in Schedules : c.mode = "cron" /\ c.known =>
    \A compiled \in CompileCron(c.cron) :
      c.named = {m \in DOMAIN Calendar : CronMatches(compiled, Calendar[m])}

CalendarIsLong == 0..MinuteOf(MaxTime) \subseteq DOMAIN Calendar

IsSchedule(s) ==
  s = [config |-> s.config, phase |-> s.phase, since |-> s.since, matcher |-> s.matcher,
       due |-> s.due, once |-> s.once, late |-> s.late, fires |-> s.fires, others |-> s.others]

FiresAreNamed(s) ==
  /\ DOMAIN s.fires = DOMAIN Calendar
  /\ \A m \in DOMAIN Calendar : s.fires[m] \in Nat /\ (s.fires[m] > 0 => m \in s.config.named)

\* The minute that the next tick is for, if none before it came a minute late: the
\* timer is due at its beginning, and as late as the ticks so far were.
NextTickIsFor(s, n) ==
  /\ n \in Nat /\ MinuteOf(s.since) < n
  /\ s.due = MinuteLength * n + s.late
  /\ s.late < MinuteLength /\ s.config.known =>
       \A m \in DOMAIN Calendar \cap Int :
         s.fires[m] = IF MinuteOf(s.since) < m /\ m < n /\ m \in s.config.named THEN 1 ELSE 0

CronRuns(s) ==
  /\ s.since \in Nat /\ s.late \in Nat
  /\ s.matcher \in CompileCron(s.config.cron)
  /\ \E n \in Nat : NextTickIsFor(s, n)

ScheduleInv ==
  /\ now \in 0..MaxTime
  /\ IsSchedule(schedule) /\ schedule.config \in Schedules
  /\ FiresAreNamed(schedule)
  /\ schedule.phase = "new" => /\ schedule.late = 0
                               /\ \A m \in DOMAIN Calendar : schedule.fires[m] = 0
  /\ schedule.phase = "running" /\ schedule.config.mode = "cron" => CronRuns(schedule)

LEMMA Multiples ==
  ASSUME NEW L \in Nat \ {0}, NEW a \in Int, NEW b \in Int, a < b
  PROVE  L * a + L <= L * b
<1> DEFINE d == b - a - 1
<1>1. d \in Nat /\ b = a + 1 + d
  OBVIOUS
<1> HIDE DEF d
<1>2. L * b = L * a + L + L * d
  BY <1>1
<1>3. L * d \in Nat
  BY <1>1
<1>4. L * a \in Int
  OBVIOUS
<1>5. L * b \in Int
  OBVIOUS
<1> DEFINE x == L * a
           y == L * b
           z == L * d
<1>6. y = x + L + z /\ z \in Nat /\ x \in Int /\ y \in Int
  BY <1>2, <1>3, <1>4, <1>5
<1> HIDE DEF x, y, z
<1>7. x + L <= y
  BY <1>6
<1> QED
  BY <1>7 DEF x, y

LEMMA MinuteBounds ==
  ASSUME ScheduleAssumption, NEW t \in Nat
  PROVE  /\ MinuteOf(t) \in Nat
         /\ MinuteLength * MinuteOf(t) <= t
         /\ t < MinuteLength * MinuteOf(t) + MinuteLength
<1> DEFINE q == t \div MinuteLength
           r == t % MinuteLength
<1>1. MinuteLength \in Nat /\ MinuteLength > 0
  BY DEF ScheduleAssumption
<1>2. /\ r \in Int /\ 0 <= r /\ r < MinuteLength /\ q \in Int
      /\ t = MinuteLength * q + r
  BY <1>1, DivMod
<1> HIDE DEF q, r
<1>3. MinuteLength * q \in Int
  BY <1>1, <1>2
<1> DEFINE x == MinuteLength * q
<1>4. x \in Int /\ t = x + r
  BY <1>2, <1>3
<1> HIDE DEF x
<1>5. x <= t /\ t < x + MinuteLength
  BY <1>1, <1>2, <1>4
<1>6. q >= 0
  <2> SUFFICES ASSUME q < 0 PROVE FALSE
    BY <1>2
  <2>1. MinuteLength * q + MinuteLength <= MinuteLength * 0
    BY <1>1, <1>2, Multiples
  <2>2. MinuteLength * 0 = 0
    BY <1>1
  <2>3. x + MinuteLength <= 0
    BY <2>1, <2>2 DEF x
  <2> QED
    BY <2>3, <1>1, <1>4, <1>5
<1> QED
  BY <1>2, <1>5, <1>6 DEF x, q, MinuteOf

\* A time that is before the end of a minute is in none after it.
LEMMA MinuteAtMost ==
  ASSUME ScheduleAssumption, NEW t \in Nat, NEW n \in Int, t < MinuteLength * n + MinuteLength
  PROVE  MinuteOf(t) <= n
<1> DEFINE q == MinuteOf(t)
           x == MinuteLength * q
           y == MinuteLength * n
<1>1. q \in Nat /\ x <= t
  BY MinuteBounds
<1>2. MinuteLength \in Nat \ {0}
  BY DEF ScheduleAssumption
<1> HIDE DEF q
<1>3. x \in Int /\ y \in Int /\ t < y + MinuteLength
  BY <1>1, <1>2
<1>4. ASSUME n < q PROVE FALSE
  <2>1. y + MinuteLength <= x
    BY <1>1, <1>2, <1>4, Multiples
  <2> HIDE DEF x, y
  <2> QED
    BY <2>1, <1>1, <1>2, <1>3
<1> QED
  BY <1>1, <1>4 DEF q

\* And one that is not before its beginning is in none before it.
LEMMA MinuteAtLeast ==
  ASSUME ScheduleAssumption, NEW t \in Nat, NEW n \in Int, MinuteLength * n <= t
  PROVE  n <= MinuteOf(t)
<1> DEFINE q == MinuteOf(t)
           x == MinuteLength * q
           y == MinuteLength * n
<1>1. q \in Nat /\ t < x + MinuteLength
  BY MinuteBounds
<1>2. MinuteLength \in Nat \ {0}
  BY DEF ScheduleAssumption
<1> HIDE DEF q
<1>3. x \in Int /\ y \in Int /\ y <= t
  BY <1>1, <1>2
<1>4. ASSUME q < n PROVE FALSE
  <2>1. x + MinuteLength <= y
    BY <1>1, <1>2, <1>4, Multiples
  <2> HIDE DEF x, y
  <2> QED
    BY <2>1, <1>1, <1>2, <1>3
<1> QED
  BY <1>1, <1>4 DEF q

LEMMA MinuteIsOnCalendar ==
  ASSUME ScheduleAssumption, MaxTimeAssumption, CalendarIsLong, NEW t \in 0..MaxTime
  PROVE  MinuteOf(t) \in DOMAIN Calendar
<1>1. MaxTime \in Nat /\ t \in Nat
  BY DEF MaxTimeAssumption
<1> DEFINE q == MinuteOf(t)
           x == MinuteLength * q
<1>2. q \in Nat /\ x <= t
  BY <1>1, MinuteBounds
<1> HIDE DEF q
<1>3. x \in Int
  BY <1>2 DEF ScheduleAssumption
<1> HIDE DEF x
<1>4. x <= MaxTime
  BY <1>1, <1>2, <1>3
<1>5. q <= MinuteOf(MaxTime) /\ MinuteOf(MaxTime) \in Nat
  BY <1>1, <1>2, <1>4, MinuteAtLeast, MinuteBounds DEF x
<1>6. q \in 0..MinuteOf(MaxTime)
  BY <1>2, <1>5
<1> QED
  BY <1>6 DEF CalendarIsLong, q

\* What a step that only counts other fires, or ends, leaves of the invariant.
LEMMA ScheduleStays ==
  ASSUME ScheduleInv, now' \in 0..MaxTime, IsSchedule(schedule'),
         schedule'.config = schedule.config, schedule'.fires = schedule.fires,
         \/ schedule'.phase \notin {"new", "running"}
         \/ /\ schedule'.phase = schedule.phase /\ schedule'.since = schedule.since
            /\ schedule'.late = schedule.late /\ schedule'.matcher = schedule.matcher
            /\ schedule'.due = schedule.due \/ schedule.config.mode # "cron"
  PROVE  ScheduleInv'
<1>1. FiresAreNamed(schedule')
  BY DEF ScheduleInv, FiresAreNamed
<1>2. CASE schedule'.phase \notin {"new", "running"}
  BY <1>1, <1>2 DEF ScheduleInv
<1>3. CASE /\ schedule'.phase = schedule.phase /\ schedule'.since = schedule.since
           /\ schedule'.late = schedule.late /\ schedule'.matcher = schedule.matcher
           /\ schedule'.due = schedule.due \/ schedule.config.mode # "cron"
  <2>1. schedule'.phase = "new" => /\ schedule'.late = 0
                                   /\ \A m \in DOMAIN Calendar : schedule'.fires[m] = 0
    BY <1>3 DEF ScheduleInv
  <2>2. schedule'.phase = "running" /\ schedule'.config.mode = "cron" => CronRuns(schedule')
    BY <1>3 DEF ScheduleInv, CronRuns, NextTickIsFor
  <2> QED
    BY <1>1, <2>1, <2>2 DEF ScheduleInv
<1> QED
  BY <1>2, <1>3

LEMMA OthersCount ==
  ASSUME NEW s, IsSchedule(s)
  PROVE  /\ IsSchedule(FiresOther(s))
         /\ FiresOther(s).config = s.config /\ FiresOther(s).phase = s.phase
         /\ FiresOther(s).since = s.since /\ FiresOther(s).matcher = s.matcher
         /\ FiresOther(s).due = s.due /\ FiresOther(s).once = s.once
         /\ FiresOther(s).late = s.late /\ FiresOther(s).fires = s.fires
BY DEF IsSchedule, FiresOther

LEMMA DeployKeeps ==
  ASSUME ScheduleAssumption, ScheduleInv, DeploySchedule, now' = now PROVE ScheduleInv'
<1> DEFINE c == schedule.config
           once == IF c.fireOnDeploy THEN now + 1 ELSE NotDue
           deployed == [schedule EXCEPT !.phase = "running", !.since = now, !.once = once]
           first == (MinuteOf(now) + 1) * MinuteLength
           matcher == CHOOSE m \in CompileCron(c.cron) : TRUE
<1>1. schedule.phase = "new" /\ IsSchedule(schedule) /\ now \in 0..MaxTime /\ now \in Nat
  BY DEF DeploySchedule, ScheduleInv
<1>2. schedule.late = 0 /\ \A m \in DOMAIN Calendar : schedule.fires[m] = 0
  BY <1>1 DEF ScheduleInv
<1>3. schedule' =
        CASE c.mode = "interval" -> [deployed EXCEPT !.due = now + c.interval]
          [] c.mode # "interval" /\ CompileCron(c.cron) = {} -> [schedule EXCEPT !.phase = "bad"]
          [] OTHER -> [deployed EXCEPT !.due = first, !.matcher = matcher]
  BY DEF DeploySchedule
<1> HIDE DEF once, first, matcher
<1>4. /\ IsSchedule(deployed) /\ deployed.config = c /\ deployed.phase = "running"
      /\ deployed.since = now /\ deployed.late = 0 /\ deployed.fires = schedule.fires
  <2>1. /\ IsSchedule(deployed) /\ deployed.config = schedule.config /\ deployed.phase = "running"
        /\ deployed.since = now /\ deployed.late = schedule.late
        /\ deployed.fires = schedule.fires
    <3>1. deployed = [schedule EXCEPT !.phase = "running", !.since = now, !.once = once]
      OBVIOUS
    <3> HIDE DEF deployed, c
    <3> QED
      BY <3>1, <1>1 DEF IsSchedule
  <2> QED
    BY <2>1, <1>2
<1> HIDE DEF deployed
<1>5. FiresAreNamed(schedule) /\ c \in Schedules
  BY DEF ScheduleInv
<1>6. CASE c.mode = "interval"
  <2> DEFINE due == now + c.interval
  <2>1. schedule' = [deployed EXCEPT !.due = due]
    BY <1>3, <1>6
  <2> HIDE DEF due, c
  <2>2. /\ IsSchedule(schedule') /\ schedule'.config = c /\ schedule'.phase = "running"
        /\ schedule'.fires = schedule.fires
    BY <2>1, <1>4 DEF IsSchedule
  <2> QED
    BY <2>2, <1>1, <1>5, <1>6 DEF ScheduleInv, FiresAreNamed, c
<1>7. CASE c.mode # "interval" /\ CompileCron(c.cron) = {}
  <2>1. schedule' = [schedule EXCEPT !.phase = "bad"]
    BY <1>3, <1>7
  <2>2. /\ IsSchedule(schedule') /\ schedule'.config = c /\ schedule'.phase = "bad"
        /\ schedule'.fires = schedule.fires
    BY <2>1, <1>1 DEF IsSchedule
  <2> QED
    BY <2>2, <1>1, <1>5 DEF ScheduleInv, FiresAreNamed
<1>8. CASE c.mode # "interval" /\ CompileCron(c.cron) # {}
  <2>1. schedule' = [deployed EXCEPT !.due = first, !.matcher = matcher]
    BY <1>3, <1>8
  <2>2. matcher \in CompileCron(c.cron)
    BY <1>8 DEF matcher
  <2> HIDE DEF c
  <2>3. /\ IsSchedule(schedule') /\ schedule'.config = c /\ schedule'.phase = "running"
        /\ schedule'.fires = schedule.fires /\ schedule'.since = now
        /\ schedule'.late = 0 /\ schedule'.matcher = matcher /\ schedule'.due = first
    BY <2>1, <1>4 DEF IsSchedule
  <2> DEFINE q == MinuteOf(now)
  <2>4. q \in Nat /\ MinuteLength \in Nat
    BY <1>1, MinuteBounds DEF ScheduleAssumption
  <2>5. first = MinuteLength * (q + 1) + 0
    BY <2>4 DEF first
  <2> HIDE DEF q
  <2>6. NextTickIsFor(schedule', q + 1)
    <3>1. q + 1 \in Nat /\ q < q + 1 /\ \A m \in Int : ~(q < m /\ m < q + 1)
      BY <2>4
    <3>2. MinuteOf(schedule'.since) = q
      BY <2>3 DEF q
    <3>3. \A m \in DOMAIN Calendar \cap Int : schedule'.fires[m] = 0
      BY <2>3, <1>2
    <3> QED
      BY <2>3, <2>5, <3>1, <3>2, <3>3 DEF NextTickIsFor
  <2>7. CronRuns(schedule')
    <3>1. schedule'.since \in Nat /\ schedule'.late \in Nat
      BY <2>3, <1>1
    <3>2. schedule'.matcher \in CompileCron(schedule'.config.cron)
      BY <2>2, <2>3 
    <3> QED
      BY <2>4, <2>6, <3>1, <3>2 DEF CronRuns
  <2> QED
    BY <2>3, <2>7, <1>1, <1>5 DEF ScheduleInv, FiresAreNamed, c
<1> QED
  BY <1>6, <1>7, <1>8

\* A tick fires for the minute in which it runs, if the schedule names it; while
\* the ticks so far, and this one, are less than a minute late, that is its own.
LEMMA CronTickKeeps ==
  ASSUME ScheduleAssumption, MaxTimeAssumption, MinutesAreNamed, CalendarIsLong,
         ScheduleInv, CronTick, now' = now
  PROVE  ScheduleInv'
<1> DEFINE c == schedule.config
           m == MinuteOf(now)
           fire == c.known /\ CronMatches(schedule.matcher, Calendar[m])
           late == schedule.late + now - schedule.due
           fires == [schedule.fires EXCEPT ![m] = IF fire THEN Counted(@) ELSE @]
           due == now + MinuteLength
<1>1. /\ c.mode = "cron" /\ schedule.phase = "running" /\ now >= schedule.due
      /\ schedule' = [schedule EXCEPT !.due = due, !.late = late, !.fires = fires]
  BY DEF CronTick, TimerRuns
<1>2. /\ IsSchedule(schedule) /\ now \in 0..MaxTime /\ now \in Nat /\ c \in Schedules
      /\ FiresAreNamed(schedule) /\ CronRuns(schedule)
  BY <1>1 DEF ScheduleInv
<1>3. m \in DOMAIN Calendar /\ m \in Nat
  BY <1>2, MinuteIsOnCalendar, MinuteBounds
<1>4. /\ schedule.since \in Nat /\ schedule.late \in Nat
      /\ schedule.matcher \in CompileCron(c.cron)
  BY <1>2 DEF CronRuns
<1>5. PICK n \in Nat : NextTickIsFor(schedule, n)
  BY <1>2 DEF CronRuns
<1>6. c.known => c.named = {x \in DOMAIN Calendar : CronMatches(schedule.matcher, Calendar[x])}
  BY <1>1, <1>2, <1>4 DEF MinutesAreNamed
<1>7. fire <=> c.known /\ m \in c.named
  BY <1>3, <1>6
<1>8. /\ DOMAIN schedule.fires = DOMAIN Calendar
      /\ \A x \in DOMAIN Calendar : schedule.fires[x] \in Nat
                                    /\ (schedule.fires[x] > 0 => x \in c.named)
  BY <1>2 DEF FiresAreNamed
<1>9. /\ DOMAIN fires = DOMAIN Calendar
      /\ fires[m] = IF fire THEN Counted(schedule.fires[m]) ELSE schedule.fires[m]
      /\ \A x \in DOMAIN Calendar : x # m => fires[x] = schedule.fires[x]
  BY <1>3, <1>8
<1> HIDE DEF fire, fires, due, late
<1>10. /\ IsSchedule(schedule') /\ schedule'.config = c /\ schedule'.phase = "running"
       /\ schedule'.since = schedule.since /\ schedule'.matcher = schedule.matcher
       /\ schedule'.due = due /\ schedule'.late = late /\ schedule'.fires = fires
  BY <1>1, <1>2 DEF IsSchedule
<1> HIDE DEF c, m
<1>11. ASSUME NEW x \in DOMAIN Calendar
       PROVE  fires[x] \in Nat /\ (fires[x] > 0 => x \in c.named)
  <2>1. CASE x # m
    BY <2>1, <1>8, <1>9
  <2>2. CASE x = m /\ fire
    BY <2>2, <1>7, <1>8, <1>9 DEF Counted
  <2>3. CASE x = m /\ ~fire
    BY <2>3, <1>8, <1>9
  <2> QED
    BY <2>1, <2>2, <2>3
<1>12. FiresAreNamed(schedule')
  BY <1>9, <1>10, <1>11 DEF FiresAreNamed
<1> DEFINE x == MinuteLength * n
           s == MinuteOf(schedule.since)
<1>13. /\ s < n /\ schedule.due = x + schedule.late
       /\ schedule.late < MinuteLength /\ c.known =>
            \A y \in DOMAIN Calendar \cap Int :
              schedule.fires[y] = IF s < y /\ y < n /\ y \in c.named THEN 1 ELSE 0
  BY <1>5 DEF NextTickIsFor, c
<1>14. MinuteLength \in Nat /\ x \in Int /\ s \in Nat /\ MinuteLength * (n + 1) = x + MinuteLength
  BY <1>4, MinuteBounds DEF ScheduleAssumption
<1> HIDE DEF x, s
<1>15. /\ late \in Nat /\ schedule.late <= late /\ now = x + late
       /\ due = (x + MinuteLength) + late
  BY <1>1, <1>2, <1>4, <1>13, <1>14 DEF late, due
<1>16. ASSUME late < MinuteLength PROVE m = n
  <2>1. x <= now /\ now < x + MinuteLength
    BY <1>14, <1>15, <1>16
  <2>2. n <= m
    BY <2>1, <1>2, MinuteAtLeast DEF x, m
  <2>3. m <= n
    BY <2>1, <1>2, MinuteAtMost DEF x, m
  <2> QED
    BY <2>2, <2>3, <1>3
<1>17. ASSUME late < MinuteLength, c.known, NEW y \in DOMAIN Calendar \cap Int
       PROVE  fires[y] = IF s < y /\ y < n + 1 /\ y \in c.named THEN 1 ELSE 0
  <2>1. schedule.late < MinuteLength
    BY <1>4, <1>14, <1>15, <1>17
  <2>2. schedule.fires[y] = IF s < y /\ y < n /\ y \in c.named THEN 1 ELSE 0
    BY <1>13, <1>17, <2>1
  <2>3. m = n
    BY <1>16, <1>17
  <2>4. CASE y = n
    <3>1. schedule.fires[y] = 0 /\ s < y /\ y < n + 1
      BY <2>2, <2>4, <1>13
    <3>2. Counted(0) = 1
      BY DEF Counted
    <3> QED
      BY <3>1, <3>2, <2>3, <2>4, <1>7, <1>9, <1>17
  <2>5. CASE y # n
    <3>1. fires[y] = schedule.fires[y] /\ (y < n + 1 <=> y < n)
      BY <2>3, <2>5, <1>9
    <3> QED
      BY <3>1, <2>2
  <2> QED
    BY <2>4, <2>5
<1>18. NextTickIsFor(schedule', n + 1)
  <2>1. n + 1 \in Nat /\ s < n + 1
    BY <1>13, <1>14
  <2>2. MinuteOf(schedule'.since) = s
    BY <1>10 DEF s
  <2>3. schedule'.due = MinuteLength * (n + 1) + schedule'.late
    BY <1>10, <1>14, <1>15
  <2> QED
    BY <2>1, <2>2, <2>3, <1>10, <1>17 DEF NextTickIsFor
<1>19. CronRuns(schedule')
  <2>1. n + 1 \in Nat
    OBVIOUS
  <2> QED
    BY <2>1, <1>4, <1>10, <1>15, <1>18 DEF CronRuns, c
<1> QED
  BY <1>2, <1>10, <1>12, <1>19 DEF ScheduleInv, c

LEMMA ScheduleInvariant ==
  ASSUME MinutesAreNamed, CalendarIsLong PROVE ScheduleSpec => []ScheduleInv
<1> USE ScheduleAssumption, MaxTimeAssumption
<1>1. ClockInit /\ ScheduleInit => ScheduleInv
  <2> SUFFICES ASSUME ClockInit, ScheduleInit PROVE ScheduleInv
    OBVIOUS
  <2>1. PICK c \in Schedules : schedule = ScheduleOf(c)
    BY DEF ScheduleInit
  <2>2. /\ IsSchedule(schedule) /\ schedule.config = c /\ schedule.phase = "new"
        /\ schedule.late = 0 /\ schedule.fires = [m \in DOMAIN Calendar |-> 0]
    BY <2>1 DEF ScheduleOf, IsSchedule
  <2>3. DOMAIN schedule.fires = DOMAIN Calendar /\ \A m \in DOMAIN Calendar : schedule.fires[m] = 0
    BY <2>2
  <2>4. now \in 0..MaxTime
    BY DEF ClockInit, MaxTimeAssumption
  <2> QED
    BY <2>2, <2>3, <2>4 DEF ScheduleInv, FiresAreNamed
<1>2. ScheduleInv /\ [ScheduleNext]_<<now, schedule>> => ScheduleInv'
  <2> SUFFICES ASSUME ScheduleInv, [ScheduleNext]_<<now, schedule>> PROVE ScheduleInv'
    OBVIOUS
  <2>1. now \in 0..MaxTime /\ IsSchedule(schedule)
    BY DEF ScheduleInv
  <2>2. CASE DeploySchedule /\ UNCHANGED now
    BY <2>2, DeployKeeps
  <2>3. CASE CronTick /\ UNCHANGED now
    BY <2>3, CronTickKeeps
  <2>4. CASE IntervalTick /\ UNCHANGED now
    <3> DEFINE s == FiresOther(schedule)
               due == now + schedule.config.interval
    <3>1. schedule.config.mode = "interval" /\ schedule' = [s EXCEPT !.due = due]
      BY <2>4 DEF IntervalTick
    <3>2. /\ IsSchedule(s)
          /\ s.config = schedule.config /\ s.phase = schedule.phase
          /\ s.since = schedule.since /\ s.matcher = schedule.matcher
          /\ s.late = schedule.late /\ s.fires = schedule.fires
      BY <2>1, OthersCount
    <3> HIDE DEF s, due
    <3>3. /\ IsSchedule(schedule')
          /\ schedule'.config = s.config /\ schedule'.phase = s.phase
          /\ schedule'.since = s.since /\ schedule'.matcher = s.matcher
          /\ schedule'.late = s.late /\ schedule'.fires = s.fires
      BY <3>1, <3>2 DEF IsSchedule
    <3> QED
      BY <2>1, <2>4, <3>1, <3>2, <3>3, ScheduleStays
  <2>5. CASE FireOnce /\ UNCHANGED now
    <3> DEFINE s == FiresOther(schedule)
    <3>1. schedule' = [s EXCEPT !.once = NotDue]
      BY <2>5 DEF FireOnce
    <3>2. /\ IsSchedule(s)
          /\ s.config = schedule.config /\ s.phase = schedule.phase
          /\ s.since = schedule.since /\ s.matcher = schedule.matcher /\ s.due = schedule.due
          /\ s.late = schedule.late /\ s.fires = schedule.fires
      BY <2>1, OthersCount
    <3> HIDE DEF s
    <3>3. /\ IsSchedule(schedule')
          /\ schedule'.config = s.config /\ schedule'.phase = s.phase
          /\ schedule'.since = s.since /\ schedule'.matcher = s.matcher /\ schedule'.due = s.due
          /\ schedule'.late = s.late /\ schedule'.fires = s.fires
      BY <3>1, <3>2 DEF IsSchedule
    <3> QED
      BY <2>1, <2>5, <3>2, <3>3, ScheduleStays
  <2>6. CASE ManualFire /\ UNCHANGED now
    <3>1. schedule' = FiresOther(schedule)
      BY <2>6 DEF ManualFire
    <3>2. /\ IsSchedule(schedule')
          /\ schedule'.config = schedule.config /\ schedule'.phase = schedule.phase
          /\ schedule'.since = schedule.since /\ schedule'.matcher = schedule.matcher
          /\ schedule'.due = schedule.due
          /\ schedule'.late = schedule.late /\ schedule'.fires = schedule.fires
      BY <2>1, <3>1, OthersCount
    <3> QED
      BY <2>1, <2>6, <3>2, ScheduleStays
  <2>7. CASE CloseSchedule /\ UNCHANGED now
    <3>1. /\ IsSchedule(schedule') /\ schedule'.phase = "closed"
          /\ schedule'.config = schedule.config /\ schedule'.fires = schedule.fires
      BY <2>1, <2>7 DEF CloseSchedule, IsSchedule
    <3> QED
      BY <2>1, <2>7, <3>1, ScheduleStays
  <2>8. CASE UNCHANGED schedule /\ (Tick \/ UNCHANGED now)
    <3>1. now' \in 0..MaxTime
      BY <2>1, <2>8 DEF Tick, MaxTimeAssumption
    <3> QED
      BY <2>1, <2>8, <3>1, ScheduleStays
  <2> QED
    BY <2>2, <2>3, <2>4, <2>5, <2>6, <2>7, <2>8 DEF ScheduleNext
<1> QED
  BY <1>1, <1>2, PTL DEF ScheduleSpec

\* schedule.ts: while the ticks are less than a minute late altogether, each
\* minute that the expression names fires once; and no other minute ever fires.
THEOREM MinutesFire ==
  ASSUME MinutesAreNamed, CalendarIsLong PROVE ScheduleSpec => []CronFiresEachMatch
<1> USE ScheduleAssumption, MaxTimeAssumption
<1>1. ASSUME ScheduleInv PROVE CronFiresEachMatch
  <2>1. \A m \in DOMAIN Calendar : schedule.fires[m] > 0 => m \in schedule.config.named
    BY <1>1 DEF ScheduleInv, FiresAreNamed
  <2>2. ASSUME schedule.phase = "running", schedule.config.mode = "cron",
               schedule.config.known, Lateness < MinuteLength,
               NEW m \in MinuteOf(schedule.since) + 1..MinuteOf(now) - 1
        PROVE  schedule.fires[m] = IF m \in schedule.config.named THEN 1 ELSE 0
    <3>1. CronRuns(schedule) /\ now \in 0..MaxTime /\ now \in Nat
      BY <1>1, <2>2 DEF ScheduleInv, MaxTimeAssumption
    <3>2. PICK n \in Nat : NextTickIsFor(schedule, n)
      BY <3>1 DEF CronRuns
    <3> DEFINE x == MinuteLength * n
               s == MinuteOf(schedule.since)
               e == MinuteOf(now)
    <3>3. /\ schedule.since \in Nat /\ schedule.late \in Nat /\ x \in Int /\ s \in Nat /\ e \in Nat
          /\ MinuteLength \in Nat \ {0}
      BY <3>1, MinuteBounds DEF CronRuns, ScheduleAssumption
    <3>4. s < n /\ schedule.due = x + schedule.late
      BY <3>2 DEF NextTickIsFor
    <3> HIDE DEF x
    <3>5. schedule.late < MinuteLength /\ now < x + MinuteLength
      <4>1. CASE schedule.due # NotDue /\ now > schedule.due
        <5>1. Lateness = schedule.late + (now - schedule.due)
          BY <4>1 DEF Lateness
        <5> QED
          BY <5>1, <4>1, <2>2, <3>1, <3>3, <3>4
      <4>2. CASE ~(schedule.due # NotDue /\ now > schedule.due)
        <5>1. Lateness = schedule.late + 0
          BY <4>2 DEF Lateness
        <5>2. schedule.due # NotDue
          <6>1. x >= 0
            BY <3>2, <3>3 DEF x
          <6> QED
            BY <6>1, <3>3, <3>4 DEF NotDue
        <5> QED
          BY <5>1, <5>2, <4>2, <2>2, <3>1, <3>3, <3>4
      <4> QED
        BY <4>1, <4>2
    <3>6. e <= n
      BY <3>1, <3>5, MinuteAtMost DEF x
    <3>7. m \in Nat /\ s < m /\ m < n /\ m <= e
      <4> HIDE DEF s, e
      <4>1. m \in s + 1..e - 1
        BY <2>2 DEF s, e
      <4> QED
        BY <4>1, <3>3, <3>6
    <3>8. m \in DOMAIN Calendar
      <4>1. m \in 0..e /\ MaxTime \in Nat /\ MinuteOf(MaxTime) \in Nat
        BY <3>3, <3>7, MinuteBounds DEF MaxTimeAssumption
      <4>2. e <= MinuteOf(MaxTime)
        <5> DEFINE y == MinuteLength * e
        <5>1. y <= now
          BY <3>1, MinuteBounds
        <5>2. y \in Int
          BY <3>3
        <5> HIDE DEF y, e
        <5>3. y <= MaxTime
          BY <5>1, <5>2, <3>1, <4>1
        <5> QED
          BY <5>3, <3>3, <4>1, MinuteAtLeast DEF y
      <4> HIDE DEF e
      <4>3. m \in 0..MinuteOf(MaxTime)
        BY <4>1, <4>2, <3>3
      <4> QED
        BY <4>3 DEF CalendarIsLong
    <3>9. m \in DOMAIN Calendar \cap Int
      BY <3>7, <3>8
    <3> QED
      BY <2>2, <3>2, <3>5, <3>7, <3>9 DEF NextTickIsFor, s
  <2> QED
    BY <2>1, <2>2 DEF CronFiresEachMatch
<1> QED
  BY <1>1, ScheduleInvariant, PTL

-----------------------------------------------------------------------------
\* BUS MONITOR

\* A value that the tunnel's frames carry is encoded as it was decoded.
TrafficReencodes ==
  \A f \in Traffic : \A d \in Decoded(f) : \E a \in DptOut(d.dpt, d.value) :
    ApciOut(GroupValue(f.data.payload.kind, a)) = ApciOut(f.data.payload)

Records == {TelegramRecord(n, f) : n \in Nat, f \in Traffic}

IsEndOf(b, s) ==
  Len(b) <= Len(s) /\ \A i \in 1..Len(b) : b[i] = s[Len(s) - Len(b) + i]

\* The records s are those of the last telegrams, of which there were so many.
CountedTo(s, taken) ==
  s \in Seq(Records) /\ \A i \in 1..Len(s) : s[i].n = taken - Len(s) + i

Follows(screen, buffer, taken) ==
  /\ CountedTo(screen, taken)
  /\ IsEndOf(buffer, screen)
  /\ buffer = <<>> => screen = <<>>

MonitorInv ==
  /\ monitor = [buffer |-> monitor.buffer, taken |-> monitor.taken, stream |-> monitor.stream]
  /\ monitor.taken \in Nat
  /\ CountedTo(monitor.buffer, monitor.taken) /\ Len(monitor.buffer) <= Capacity
  /\ DOMAIN monitor.stream = Viewers
  /\ \A v \in Viewers :
       /\ monitor.stream[v] = [state |-> monitor.stream[v].state, screen |-> monitor.stream[v].screen]
       /\ monitor.stream[v].state = "open" =>
            Follows(monitor.stream[v].screen, monitor.buffer, monitor.taken)

\* What a record shows as a value stands for the bytes that it shows as raw.
LEMMA RecordsAreTrue ==
  ASSUME TrafficReencodes, NEW r \in Records, NEW d \in r.decoded
  PROVE  \E a \in DptOut(d.dpt, d.value) : ApciOut(GroupValue(r.apci, a)) = r.raw
<1>1. PICK n \in Nat, f \in Traffic : r = TelegramRecord(n, f)
  BY DEF Records
<1>2. /\ r.decoded = Decoded(f)
      /\ r.apci = IF f.data.payload = Absent THEN "other" ELSE f.data.payload.kind
      /\ r.raw = IF f.data.payload = Absent THEN <<>> ELSE ApciOut(f.data.payload)
  BY <1>1 DEF TelegramRecord
<1>3. CarriesValue(f)
  BY <1>2 DEF Decoded
<1>4. r.apci = f.data.payload.kind /\ r.raw = ApciOut(f.data.payload)
  BY <1>2, <1>3 DEF CarriesValue
<1> QED
  BY <1>2, <1>4 DEF TrafficReencodes

LEMMA LastOfIsEnd ==
  ASSUME NEW S, NEW s \in Seq(S), NEW n \in Nat
  PROVE  /\ LastOf(s, n) \in Seq(S)
         /\ Len(LastOf(s, n)) = IF Len(s) <= n THEN Len(s) ELSE n
         /\ IsEndOf(LastOf(s, n), s)
<1>1. CASE Len(s) <= n
  BY <1>1 DEF LastOf, IsEndOf
<1>2. CASE ~(Len(s) <= n)
  <2> DEFINE e == SubSeq(s, Len(s) - n + 1, Len(s))
  <2>1. LastOf(s, n) = e
    BY <1>2 DEF LastOf
  <2>2. /\ e \in Seq(S) /\ Len(e) = n
        /\ \A i \in 1..n : e[i] = s[Len(s) - n + i]
    BY <1>2
  <2> HIDE DEF e
  <2> QED
    BY <1>2, <2>1, <2>2 DEF IsEndOf
<1> QED
  BY <1>1, <1>2

LEMMA EndIsLastOf ==
  ASSUME NEW S, NEW s \in Seq(S), NEW b \in Seq(S), IsEndOf(b, s)
  PROVE  LastOf(s, Len(b)) = b
<1> DEFINE e == LastOf(s, Len(b))
<1>1. Len(b) \in Nat /\ Len(s) \in Nat /\ Len(b) <= Len(s)
  BY DEF IsEndOf
<1>2. e \in Seq(S) /\ IsEndOf(e, s) /\ Len(e) = IF Len(s) <= Len(b) THEN Len(s) ELSE Len(b)
  BY <1>1, LastOfIsEnd
<1> HIDE DEF e
<1>3. Len(e) = Len(b)
  BY <1>1, <1>2
<1>4. \A i \in 1..Len(b) : e[i] = b[i]
  BY <1>2, <1>3 DEF IsEndOf
<1>5. e = b
  BY <1>2, <1>3, <1>4, SeqEqual
<1> QED
  BY <1>5 DEF e

LEMMA EndOfEnd ==
  ASSUME NEW S, NEW a \in Seq(S), NEW b \in Seq(S), NEW c \in Seq(S),
         IsEndOf(a, b), IsEndOf(b, c)
  PROVE  IsEndOf(a, c)
<1> DEFINE la == Len(a)
           lb == Len(b)
           lc == Len(c)
<1>1. /\ la \in Nat /\ lb \in Nat /\ lc \in Nat /\ la <= lb /\ lb <= lc
      /\ \A i \in 1..la : a[i] = b[lb - la + i]
      /\ \A i \in 1..lb : b[i] = c[lc - lb + i]
  BY DEF IsEndOf
<1> HIDE DEF la, lb, lc
<1>2. ASSUME NEW i \in 1..la PROVE a[i] = c[lc - la + i]
  <2>1. lb - la + i \in 1..lb /\ lc - lb + (lb - la + i) = lc - la + i
    BY <1>1
  <2> QED
    BY <1>1, <2>1
<1>3. la <= lc
  BY <1>1
<1> QED
  BY <1>2, <1>3 DEF IsEndOf, la, lc

LEMMA AppendEnds ==
  ASSUME NEW S, NEW b \in Seq(S), NEW s \in Seq(S), NEW r \in S, IsEndOf(b, s)
  PROVE  IsEndOf(Append(b, r), Append(s, r))
<1> DEFINE x == Append(b, r)
           y == Append(s, r)
           lb == Len(b)
           ls == Len(s)
<1>1. /\ lb \in Nat /\ ls \in Nat /\ lb <= ls
      /\ \A i \in 1..lb : b[i] = s[ls - lb + i]
  BY DEF IsEndOf
<1>2. /\ Len(x) = lb + 1 /\ x[lb + 1] = r /\ \A i \in 1..lb : x[i] = b[i]
      /\ Len(y) = ls + 1 /\ y[ls + 1] = r /\ \A i \in 1..ls : y[i] = s[i]
  OBVIOUS
<1> HIDE DEF x, y, lb, ls
<1>3. ASSUME NEW i \in 1..lb + 1 PROVE x[i] = y[ls - lb + i]
  <2>1. CASE i \in 1..lb
    <3>1. ls - lb + i \in 1..ls
      BY <1>1, <2>1
    <3> QED
      BY <1>1, <1>2, <2>1, <3>1
  <2>2. CASE i = lb + 1
    <3>1. ls - lb + i = ls + 1
      BY <1>1, <2>2
    <3> QED
      BY <1>2, <2>2, <3>1
  <2> QED
    BY <1>1, <2>1, <2>2
<1>4. Len(x) = lb + 1 /\ Len(y) = ls + 1
  BY <1>2
<1> DEFINE lx == Len(x)
           ly == Len(y)
<1>5. lx <= ly /\ ly - lx = ls - lb
  <2>1. lx = lb + 1 /\ ly = ls + 1 /\ lb \in Nat /\ ls \in Nat /\ lb <= ls
    BY <1>1, <1>4
  <2> HIDE DEF lx, ly
  <2> QED
    BY ONLY <2>1
<1>6. \A i \in 1..Len(x) : x[i] = y[Len(y) - Len(x) + i]
  BY <1>3, <1>4, <1>5
<1>7. IsEndOf(x, y)
  BY <1>5, <1>6 DEF IsEndOf
<1> QED
  BY <1>7 DEF x, y

LEMMA AppendCounts ==
  ASSUME NEW s, NEW taken \in Nat, CountedTo(s, taken), NEW r \in Records, r.n = taken + 1
  PROVE  CountedTo(Append(s, r), taken + 1)
<1> DEFINE y == Append(s, r)
           ls == Len(s)
<1>1. s \in Seq(Records) /\ ls \in Nat /\ \A i \in 1..ls : s[i].n = taken - ls + i
  BY DEF CountedTo
<1>2. /\ y \in Seq(Records) /\ Len(y) = ls + 1 /\ y[ls + 1] = r
      /\ \A i \in 1..ls : y[i] = s[i]
  BY <1>1
<1> HIDE DEF y, ls
<1>3. ASSUME NEW i \in 1..ls + 1 PROVE y[i].n = (taken + 1) - (ls + 1) + i
  <2>1. CASE i \in 1..ls
    <3>1. y[i].n = taken - ls + i
      BY <2>1, <1>1, <1>2
    <3> DEFINE m == y[i].n
    <3>2. m = taken - ls + i
      BY <3>1
    <3> HIDE DEF m
    <3>3. m = (taken + 1) - (ls + 1) + i
      BY <3>2, <2>1, <1>1
    <3> QED
      BY <3>3 DEF m
  <2>2. CASE i = ls + 1
    <3>1. y[i].n = taken + 1
      BY <2>2, <1>2
    <3>2. (taken + 1) - (ls + 1) + i = taken + 1
      BY <2>2, <1>1
    <3> QED
      BY <3>1, <3>2
  <2> QED
    BY <1>1, <2>1, <2>2
<1>4. CountedTo(y, taken + 1)
  BY <1>2, <1>3 DEF CountedTo
<1> QED
  BY <1>4 DEF y

LEMMA LastOfCounts ==
  ASSUME NEW s, NEW taken \in Nat, CountedTo(s, taken), NEW n \in Nat
  PROVE  CountedTo(LastOf(s, n), taken)
<1> DEFINE e == LastOf(s, n)
           ls == Len(s)
           le == Len(e)
<1>1. s \in Seq(Records) /\ ls \in Nat /\ \A i \in 1..ls : s[i].n = taken - ls + i
  BY DEF CountedTo
<1>2. e \in Seq(Records) /\ IsEndOf(e, s)
  BY <1>1, LastOfIsEnd
<1>3. le \in Nat /\ le <= ls /\ \A i \in 1..le : e[i] = s[ls - le + i]
  BY <1>2 DEF IsEndOf
<1> HIDE DEF e, ls, le
<1>4. ASSUME NEW i \in 1..le PROVE e[i].n = taken - le + i
  <2>1. ls - le + i \in 1..ls /\ taken - ls + (ls - le + i) = taken - le + i
    BY <1>1, <1>3
  <2> QED
    BY <1>1, <1>3, <2>1
<1>5. CountedTo(e, taken)
  BY <1>2, <1>4 DEF CountedTo, le
<1> QED
  BY <1>5 DEF e

\* What a push leaves behind is what its record added, in the buffer and on
\* the screen alike.
LEMMA PushFollows ==
  ASSUME MonitorAssumption, NEW buffer, NEW screen, NEW taken \in Nat,
         CountedTo(buffer, taken), Follows(screen, buffer, taken),
         NEW r \in Records, r.n = taken + 1
  PROVE  Follows(Append(screen, r), LastOf(Append(buffer, r), Capacity), taken + 1)
<1> DEFINE b == Append(buffer, r)
           s == Append(screen, r)
           e == LastOf(b, Capacity)
<1>1. buffer \in Seq(Records) /\ screen \in Seq(Records) /\ IsEndOf(buffer, screen)
  BY DEF CountedTo, Follows
<1>2. b \in Seq(Records) /\ s \in Seq(Records) /\ Len(b) # 0
  BY <1>1
<1>3. IsEndOf(b, s)
  BY <1>1, AppendEnds
<1>4. CountedTo(s, taken + 1)
  BY AppendCounts DEF Follows
<1> HIDE DEF b, s
<1>5. Capacity \in Nat /\ Capacity # 0
  BY DEF MonitorAssumption
<1>6. e \in Seq(Records) /\ IsEndOf(e, b) /\ Len(e) = IF Len(b) <= Capacity THEN Len(b) ELSE Capacity
  BY <1>2, <1>5, LastOfIsEnd
<1> HIDE DEF e
<1>7. IsEndOf(e, s)
  BY <1>2, <1>3, <1>6, EndOfEnd
<1>8. Len(e) # 0
  BY <1>2, <1>5, <1>6
<1>9. e # <<>>
  BY <1>8
<1>10. Follows(s, e, taken + 1)
  BY <1>4, <1>7, <1>9 DEF Follows
<1> QED
  BY <1>10 DEF b, s, e

LEMMA EmptyCounts ==
  ASSUME NEW taken \in Nat
  PROVE  CountedTo(<<>>, taken) /\ Follows(<<>>, <<>>, taken)
BY DEF CountedTo, Follows, IsEndOf

LEMMA PushKeeps ==
  ASSUME MonitorAssumption, MonitorInv, Push
  PROVE  MonitorInv'
<1>1. PICK f \in Traffic :
        LET record == TelegramRecord(monitor.taken + 1, f)
            screens == [v \in Viewers |-> Append(monitor.stream[v].screen, record)]
        IN  monitor' = [buffer |-> LastOf(Append(monitor.buffer, record), Capacity),
                        taken |-> monitor.taken + 1, stream |-> Notified(screens)]
  BY DEF Push
<1> DEFINE r == TelegramRecord(monitor.taken + 1, f)
           screens == [v \in Viewers |-> Append(monitor.stream[v].screen, r)]
           b == Append(monitor.buffer, r)
<1>2. monitor.taken \in Nat /\ CountedTo(monitor.buffer, monitor.taken)
  BY DEF MonitorInv
<1>3. r \in Records
  <2>1. monitor.taken + 1 \in Nat
    BY <1>2
  <2> QED
    BY <2>1 DEF Records
<1>4. r.n = monitor.taken + 1
  BY DEF TelegramRecord
<1>5. /\ monitor'.buffer = LastOf(b, Capacity) /\ monitor'.taken = monitor.taken + 1
      /\ monitor'.stream = Notified(screens)
      /\ monitor' = [buffer |-> monitor'.buffer, taken |-> monitor'.taken, stream |-> monitor'.stream]
  BY <1>1
<1> HIDE DEF r
<1>6. CountedTo(b, monitor.taken + 1)
  BY <1>2, <1>3, <1>4, AppendCounts
<1>7. Capacity \in Nat
  BY DEF MonitorAssumption
<1>8. CountedTo(LastOf(b, Capacity), monitor.taken + 1)
  BY <1>2, <1>6, <1>7, LastOfCounts
<1>9. Len(LastOf(b, Capacity)) <= Capacity
  <2>1. b \in Seq(Records)
    BY <1>6 DEF CountedTo
  <2> HIDE DEF b
  <2>2. Len(LastOf(b, Capacity)) = IF Len(b) <= Capacity THEN Len(b) ELSE Capacity
    BY <2>1, <1>7, LastOfIsEnd
  <2> QED
    BY <2>1, <2>2, <1>7
<1>10. ASSUME NEW v \in Viewers
       PROVE  /\ monitor'.stream[v] = [state |-> monitor'.stream[v].state, screen |-> monitor'.stream[v].screen]
              /\ monitor'.stream[v].state = "open" =>
                   Follows(monitor'.stream[v].screen, monitor'.buffer, monitor'.taken)
  <2> DEFINE w == monitor.stream[v]
  <2>1. w = [state |-> w.state, screen |-> w.screen]
        /\ (w.state = "open" => Follows(w.screen, monitor.buffer, monitor.taken))
    BY DEF MonitorInv
  <2>2. CASE w.state = "open"
    <3>1. monitor'.stream[v] = [w EXCEPT !.screen = Append(w.screen, r)]
      BY <1>5, <2>2 DEF Notified
    <3>2. Follows(Append(w.screen, r), LastOf(b, Capacity), monitor.taken + 1)
      BY <1>2, <1>3, <1>4, <2>1, <2>2, PushFollows
    <3> DEFINE z == Append(w.screen, r)
               u == monitor'.stream[v]
    <3>3. u = [state |-> w.state, screen |-> z]
      BY <2>1, <3>1
    <3>4. Follows(z, monitor'.buffer, monitor'.taken)
      BY <1>5, <3>2
    <3> HIDE DEF z, u, w
    <3>5. u.state = w.state /\ u.screen = z
      BY <3>3
    <3>6. /\ u = [state |-> u.state, screen |-> u.screen]
          /\ u.state = "open" => Follows(u.screen, monitor'.buffer, monitor'.taken)
      BY <3>3, <3>4, <3>5
    <3> QED
      BY <3>6 DEF u
  <2>3. CASE w.state # "open"
    <3>1. monitor'.stream[v] = w
      BY <1>5, <2>3 DEF Notified
    <3> QED
      BY <2>1, <2>3, <3>1
  <2> QED
    BY <2>2, <2>3
<1>11. DOMAIN monitor'.stream = Viewers
  BY <1>5 DEF Notified
<1>12. monitor'.taken \in Nat
  BY <1>2, <1>5
<1> HIDE DEF b, screens
<1> QED
  BY <1>5, <1>8, <1>9, <1>10, <1>11, <1>12 DEF MonitorInv

LEMMA ClearKeeps ==
  ASSUME MonitorAssumption, MonitorInv, ClearMonitor
  PROVE  MonitorInv'
<1> DEFINE screens == [v \in Viewers |-> <<>>]
<1>1. /\ monitor = [buffer |-> monitor.buffer, taken |-> monitor.taken, stream |-> monitor.stream]
      /\ monitor' = [monitor EXCEPT !.buffer = <<>>, !.stream = Notified(screens)]
  BY DEF MonitorInv, ClearMonitor
<1> HIDE DEF screens
<1>2. monitor' = [buffer |-> <<>>, taken |-> monitor.taken, stream |-> Notified(screens)]
  BY <1>1
<1>3. /\ monitor'.buffer = <<>> /\ monitor'.taken = monitor.taken
      /\ monitor'.stream = Notified(screens)
      /\ monitor' = [buffer |-> monitor'.buffer, taken |-> monitor'.taken, stream |-> monitor'.stream]
  BY <1>2
<1>4. /\ monitor'.taken \in Nat
      /\ CountedTo(monitor'.buffer, monitor'.taken)
      /\ Follows(<<>>, monitor'.buffer, monitor'.taken)
  BY <1>3, EmptyCounts DEF MonitorInv
<1>5. Len(monitor'.buffer) <= Capacity
  BY <1>3 DEF MonitorAssumption
<1>6. ASSUME NEW v \in Viewers
      PROVE  /\ monitor'.stream[v] = [state |-> monitor'.stream[v].state, screen |-> monitor'.stream[v].screen]
             /\ monitor'.stream[v].state = "open" =>
                  Follows(monitor'.stream[v].screen, monitor'.buffer, monitor'.taken)
  <2> DEFINE w == monitor.stream[v]
             u == monitor'.stream[v]
  <2>1. w = [state |-> w.state, screen |-> w.screen]
    BY DEF MonitorInv
  <2>2. u = IF w.state = "open" THEN [w EXCEPT !.screen = <<>>] ELSE w
    BY <1>3 DEF Notified, screens
  <2> HIDE DEF w, u
  <2>3. CASE w.state = "open"
    <3>1. u = [state |-> w.state, screen |-> <<>>]
      BY <2>1, <2>2, <2>3
    <3>2. u = [state |-> u.state, screen |-> u.screen] /\ u.screen = <<>>
      BY <3>1
    <3> QED
      BY <1>4, <3>2 DEF u
  <2>4. CASE w.state # "open"
    <3>1. u = w
      BY <2>2, <2>4
    <3>2. u = [state |-> u.state, screen |-> u.screen] /\ u.state # "open"
      BY <2>1, <2>4, <3>1
    <3> QED
      BY <3>2 DEF u
  <2> QED
    BY <2>3, <2>4
<1>7. DOMAIN monitor'.stream = Viewers
  BY <1>3 DEF Notified
<1> QED
  BY <1>3, <1>4, <1>5, <1>6, <1>7 DEF MonitorInv

\* A step that touches one stream keeps the invariant if that stream follows
\* the buffer whenever it is open.
LEMMA StreamKeeps ==
  ASSUME MonitorInv, NEW v \in Viewers, NEW st, NEW sc,
         monitor' = [monitor EXCEPT !.stream[v] = [state |-> st, screen |-> sc]],
         st = "open" => Follows(sc, monitor.buffer, monitor.taken)
  PROVE  MonitorInv'
<1> DEFINE new == [monitor.stream EXCEPT ![v] = [state |-> st, screen |-> sc]]
<1>1. monitor = [buffer |-> monitor.buffer, taken |-> monitor.taken, stream |-> monitor.stream]
  BY DEF MonitorInv
<1>2. monitor' = [monitor EXCEPT !.stream = new]
  BY <1>1
<1>3. /\ DOMAIN new = Viewers
      /\ \A o \in Viewers : new[o] = IF o = v THEN [state |-> st, screen |-> sc] ELSE monitor.stream[o]
  BY DEF MonitorInv
<1> HIDE DEF new
<1>4. /\ monitor'.buffer = monitor.buffer /\ monitor'.taken = monitor.taken
      /\ monitor'.stream = new
      /\ monitor' = [buffer |-> monitor'.buffer, taken |-> monitor'.taken, stream |-> monitor'.stream]
  BY <1>1, <1>2
<1>5. ASSUME NEW o \in Viewers
      PROVE  /\ new[o] = [state |-> new[o].state, screen |-> new[o].screen]
             /\ new[o].state = "open" => Follows(new[o].screen, monitor.buffer, monitor.taken)
  <2>1. CASE o = v
    BY <1>3, <2>1
  <2>2. CASE o # v
    BY <1>3, <2>2 DEF MonitorInv
  <2> QED
    BY <2>1, <2>2
<1> QED
  BY <1>3, <1>4, <1>5 DEF MonitorInv

LEMMA OpenKeeps ==
  ASSUME MonitorInv, NEW v \in Viewers, OpenStream(v)
  PROVE  MonitorInv'
<1>1. monitor' = [monitor EXCEPT !.stream[v] = [state |-> "open", screen |-> monitor.buffer]]
  BY DEF OpenStream
<1>2. Follows(monitor.buffer, monitor.buffer, monitor.taken)
  <2>1. monitor.buffer \in Seq(Records) /\ CountedTo(monitor.buffer, monitor.taken)
    BY DEF MonitorInv, CountedTo
  <2>2. IsEndOf(monitor.buffer, monitor.buffer)
    BY <2>1 DEF IsEndOf
  <2> QED
    BY <2>1, <2>2 DEF Follows
<1> QED
  BY <1>1, <1>2, StreamKeeps

LEMMA CleanupKeeps ==
  ASSUME MonitorInv, NEW v \in Viewers, StreamCleanup(v)
  PROVE  MonitorInv'
<1> DEFINE w == monitor.stream[v]
<1>1. /\ w = [state |-> w.state, screen |-> w.screen]
      /\ monitor' = [monitor EXCEPT !.stream[v].state = "done"]
  BY DEF MonitorInv, StreamCleanup
<1>2. [w EXCEPT !.state = "done"] = [state |-> "done", screen |-> w.screen]
  <2> HIDE DEF w
  <2> QED
    BY <1>1
<1>3. monitor' = [monitor EXCEPT !.stream[v] = [w EXCEPT !.state = "done"]]
  BY <1>1
<1>4. monitor' = [monitor EXCEPT !.stream[v] = [state |-> "done", screen |-> w.screen]]
  BY <1>2, <1>3
<1>5. "done" # "open"
  OBVIOUS
<1> QED
  BY <1>4, <1>5, StreamKeeps

LEMMA MonitorInvariant ==
  MonitorSpec => []MonitorInv
<1> USE MonitorAssumption
<1>1. MonitorInit => MonitorInv
  <2> SUFFICES ASSUME MonitorInit PROVE MonitorInv
    OBVIOUS
  <2>1. /\ monitor.buffer = <<>> /\ monitor.taken = 0
        /\ monitor = [buffer |-> monitor.buffer, taken |-> monitor.taken, stream |-> monitor.stream]
        /\ monitor.stream = [v \in Viewers |-> [state |-> "new", screen |-> <<>>]]
    BY DEF MonitorInit
  <2>2. \A v \in Viewers :
          monitor.stream[v] = [state |-> monitor.stream[v].state, screen |-> monitor.stream[v].screen]
          /\ monitor.stream[v].state # "open"
    BY <2>1
  <2>3. CountedTo(monitor.buffer, monitor.taken) /\ Len(monitor.buffer) <= Capacity
    BY <2>1, EmptyCounts DEF MonitorAssumption
  <2> QED
    BY <2>1, <2>2, <2>3 DEF MonitorInv
<1>2. MonitorInv /\ [MonitorNext]_monitor => MonitorInv'
  <2> SUFFICES ASSUME MonitorInv, [MonitorNext]_monitor PROVE MonitorInv'
    OBVIOUS
  <2>1. CASE Push
    BY <2>1, PushKeeps
  <2>2. CASE ClearMonitor
    BY <2>2, ClearKeeps
  <2>3. ASSUME NEW v \in Viewers, OpenStream(v) PROVE MonitorInv'
    BY <2>3, OpenKeeps
  <2>4. ASSUME NEW v \in Viewers, StreamCleanup(v) PROVE MonitorInv'
    BY <2>4, CleanupKeeps
  <2>5. CASE UNCHANGED monitor
    BY <2>5 DEF MonitorInv
  <2> QED
    BY <2>1, <2>2, <2>3, <2>4, <2>5 DEF MonitorNext
<1> QED
  BY <1>1, <1>2, PTL DEF MonitorSpec

\* Whenever a stream is opened, its screen shows each telegram since the oldest
\* it shows once and in order, and all that the buffer holds (GET
\* knx-bus-monitor of config.ts writes the history and registers its listeners
\* in one turn); and what it shows as a value stands for the raw bytes, for
\* traffic whose values are encoded as they were decoded.
THEOREM StreamsFollow ==
  ASSUME TrafficReencodes
  PROVE  MonitorSpec => []StreamExact
<1>1. MonitorInv => StreamExact
  <2> SUFFICES ASSUME MonitorInv PROVE StreamExact
    OBVIOUS
  <2> DEFINE buffer == monitor.buffer
  <2>1. buffer \in Seq(Records)
    BY DEF MonitorInv, CountedTo
  <2>2. ASSUME NEW v \in Viewers, monitor.stream[v].state = "open"
        PROVE  LET screen == monitor.stream[v].screen
               IN  /\ LastOf(screen, Len(buffer)) = buffer
                   /\ buffer = <<>> => screen = <<>>
                   /\ \A i \in 1..Len(screen) : screen[i].n = monitor.taken - Len(screen) + i
    <3> DEFINE screen == monitor.stream[v].screen
    <3>1. Follows(screen, buffer, monitor.taken)
      BY <2>2 DEF MonitorInv
    <3> HIDE DEF screen, buffer
    <3>2. LastOf(screen, Len(buffer)) = buffer
      BY <2>1, <3>1, EndIsLastOf DEF Follows, CountedTo
    <3> QED
      BY <3>1, <3>2 DEF Follows, CountedTo, screen
  <2>3. ASSUME NEW i \in 1..Len(buffer), NEW d \in buffer[i].decoded
        PROVE  \E a \in DptOut(d.dpt, d.value) :
                 ApciOut(GroupValue(buffer[i].apci, a)) = buffer[i].raw
    <3>1. buffer[i] \in Records
      BY <2>1
    <3> QED
      BY <3>1, RecordsAreTrue
  <2> QED
    BY <2>2, <2>3 DEF StreamExact
<1> QED
  BY <1>1, MonitorInvariant, PTL

-----------------------------------------------------------------------------
\* STATE STORE

\* The addresses that a topic may name.
Addresses == UNION {GroupAddress(topic) : topic \in StoreTopics}

Entries == [raw : Addresses, payload : StorePayloads]

\* A map: no key twice.
Distinct(e) == \A i, j \in 1..Len(e) : e[i].raw = e[j].raw => i = j

\* What is held for an address is the latest that was set for it.
Latest(e, latest) ==
  \A i \in 1..Len(e) : e[i].raw \in DOMAIN latest /\ e[i].payload = latest[e[i].raw]

Holds(e, latest, cap) ==
  /\ e \in Seq(Entries) /\ Distinct(e) /\ Latest(e, latest)
  /\ cap > 0 => Len(e) <= cap

IsStore(s) == s = [cap |-> s.cap, entries |-> s.entries, answer |-> s.answer, latest |-> s.latest]

StoreInv ==
  /\ IsStore(store) /\ store.cap \in Nat
  /\ Holds(store.entries, store.latest, store.cap)

\* As many keys as entries.
LEMMA DistinctKeys ==
  ASSUME NEW e \in Seq(Entries), Distinct(e)
  PROVE  Cardinality(StoredIn(e)) = Len(e)
<1> DEFINE n == Len(e)
           f == [i \in 1..n |-> e[i].raw]
<1>1. n \in Nat
  OBVIOUS
<1>2. f \in [1..n -> StoredIn(e)]
  BY DEF StoredIn
<1>3. \A i, j \in 1..n : f[i] = f[j] => i = j
  BY DEF Distinct
<1>4. \A raw \in StoredIn(e) : \E i \in 1..n : f[i] = raw
  BY DEF StoredIn
<1> HIDE DEF f, n
<1>5. f \in Bijection(1..n, StoredIn(e))
  BY <1>2, <1>3, <1>4 DEF Bijection, Injection, Surjection, IsInjective
<1>6. ExistsBijection(1..n, StoredIn(e))
  BY <1>5 DEF ExistsBijection
<1>7. Cardinality(StoredIn(e)) = n
  BY <1>1, <1>6, FS_CountingElements
<1> QED
  BY <1>7 DEF n

\* The place of a key is the only one where it stands.
LEMMA KeyHasOnePlace ==
  ASSUME NEW e, NEW raw \in StoredIn(e)
  PROVE  PlaceOf(e, raw) \in 1..Len(e) /\ e[PlaceOf(e, raw)].raw = raw
BY DEF StoredIn, PlaceOf

\* Map.delete(): the others stay, in their order.
LEMMA WithoutTakesOne ==
  ASSUME NEW e \in Seq(Entries), Distinct(e), NEW raw
  PROVE  /\ Without(e, raw) \in Seq(Entries) /\ Distinct(Without(e, raw))
         /\ Len(Without(e, raw)) <= Len(e)
         /\ StoredIn(Without(e, raw)) = StoredIn(e) \ {raw}
         /\ \A i \in 1..Len(Without(e, raw)) : \E j \in 1..Len(e) : Without(e, raw)[i] = e[j]
<1>1. CASE raw \notin StoredIn(e)
  BY <1>1 DEF Without
<1>2. CASE raw \in StoredIn(e)
  <2> DEFINE p == PlaceOf(e, raw)
             n == Len(e)
             d == RemoveAt(e, p)
             Old(i) == IF i < p THEN i ELSE i + 1
  <2>1. p \in 1..n /\ e[p].raw = raw
    BY <1>2, KeyHasOnePlace
  <2>2. n \in Nat
    OBVIOUS
  <2> HIDE DEF p
  <2>3. d \in Seq(Entries) /\ Len(d) = n - 1 /\ \A i \in 1..n - 1 : d[i] = e[Old(i)]
    <3> DEFINE a == SubSeq(e, 1, p - 1)
               b == SubSeq(e, p + 1, n)
    <3>1. a \in Seq(Entries) /\ Len(a) = p - 1 /\ \A i \in 1..p - 1 : a[i] = e[i]
      BY <2>1, <2>2
    <3>2. b \in Seq(Entries) /\ Len(b) = n - p /\ \A i \in 1..n - p : b[i] = e[p + i]
      BY <2>1, <2>2
    <3>3. d = a \o b
      BY DEF RemoveAt
    <3> HIDE DEF a, b, d
    <3>4. Len(a \o b) = n - 1
      <4>1. Len(a \o b) = Len(a) + Len(b)
        BY <3>1, <3>2
      <4>2. (p - 1) + (n - p) = n - 1
        BY <2>1, <2>2
      <4> QED
        BY <4>1, <4>2, <3>1, <3>2
    <3>5. ASSUME NEW i \in 1..n - 1 PROVE (a \o b)[i] = e[Old(i)]
      <4>1. i \in 1..Len(a) + Len(b)
        BY <3>1, <3>2, <2>1, <2>2
      <4>2. (a \o b)[i] = IF i <= Len(a) THEN a[i] ELSE b[i - Len(a)]
        BY <4>1, <3>1, <3>2, ConcatProperties
      <4>3. CASE i < p
        <5>1. i \in 1..p - 1 /\ i <= Len(a)
          BY <4>3, <3>1, <2>1, <2>2
        <5> QED
          BY <5>1, <4>2, <4>3, <3>1
      <4>4. CASE ~(i < p)
        <5>1. /\ ~(i <= Len(a)) /\ i - Len(a) \in 1..n - p
              /\ p + (i - Len(a)) = i + 1
          BY <4>4, <3>1, <2>1, <2>2
        <5> QED
          BY <5>1, <4>2, <4>4, <3>2
      <4> QED
        BY <4>3, <4>4
    <3> QED
      BY <3>1, <3>2, <3>3, <3>4, <3>5
  <2> HIDE DEF d
  <2>4. \A i \in 1..n - 1 : Old(i) \in 1..n /\ Old(i) # p
    BY <2>1, <2>2
  <2>5. \A i, j \in 1..n - 1 : Old(i) = Old(j) => i = j
    BY <2>1, <2>2
  <2>6. \A j \in 1..n : j # p => \E i \in 1..n - 1 : Old(i) = j
    <3> SUFFICES ASSUME NEW j \in 1..n, j # p PROVE \E i \in 1..n - 1 : Old(i) = j
      OBVIOUS
    <3>1. CASE j < p
      BY <3>1, <2>1, <2>2
    <3>2. CASE ~(j < p)
      <4>1. j - 1 \in 1..n - 1 /\ Old(j - 1) = j
        BY <3>2, <2>1, <2>2
      <4> QED
        BY <4>1
    <3> QED
      BY <3>1, <3>2
  <2> HIDE DEF Old
  <2>7. Distinct(d)
    BY <2>3, <2>4, <2>5 DEF Distinct
  <2>8. StoredIn(d) = {e[Old(i)].raw : i \in 1..n - 1}
    BY <2>3 DEF StoredIn
  <2>9. StoredIn(d) \subseteq StoredIn(e) \ {raw}
    BY <2>1, <2>4, <2>8 DEF StoredIn, Distinct
  <2>10. StoredIn(e) \ {raw} \subseteq StoredIn(d)
    BY <2>1, <2>6, <2>8 DEF StoredIn
  <2>11. Without(e, raw) = d
    BY <1>2 DEF Without, d, p
  <2> QED
    BY <2>2, <2>3, <2>4, <2>7, <2>9, <2>10, <2>11
<1> QED
  BY <1>1, <1>2

\* Map.set(): the key is there with its new value, and the others as before.
LEMMA PutSetsOne ==
  ASSUME NEW e \in Seq(Entries), Distinct(e), NEW raw \in Addresses, NEW v \in StorePayloads
  PROVE  /\ PutEntry(e, raw, v) \in Seq(Entries) /\ Distinct(PutEntry(e, raw, v))
         /\ Len(PutEntry(e, raw, v)) = IF raw \in StoredIn(e) THEN Len(e) ELSE Len(e) + 1
         /\ StoredIn(PutEntry(e, raw, v)) = StoredIn(e) \cup {raw}
         /\ \A i \in 1..Len(PutEntry(e, raw, v)) :
              \/ PutEntry(e, raw, v)[i] = [raw |-> raw, payload |-> v]
              \/ \E j \in 1..Len(e) : PutEntry(e, raw, v)[i] = e[j] /\ e[j].raw # raw
<1> DEFINE n == Len(e)
           new == [raw |-> raw, payload |-> v]
           d == PutEntry(e, raw, v)
<1>1. new \in Entries /\ new.raw = raw
  BY DEF Entries
<1>2. n \in Nat
  OBVIOUS
<1> HIDE DEF new
<1>3. CASE raw \in StoredIn(e)
  <2> DEFINE p == PlaceOf(e, raw)
  <2>1. p \in 1..n /\ e[p].raw = raw
    BY <1>3, KeyHasOnePlace
  <2>2. d = [e EXCEPT ![p] = new]
    BY <1>3 DEF PutEntry, new
  <2> HIDE DEF p, d
  <2>3. d \in Seq(Entries) /\ Len(d) = n /\ \A i \in 1..n : d[i] = IF i = p THEN new ELSE e[i]
    BY <1>1, <1>2, <2>1, <2>2
  <2>4. \A i \in 1..n : d[i].raw = e[i].raw
    BY <1>1, <2>1, <2>3
  <2>5. Distinct(d)
    BY <2>3, <2>4 DEF Distinct
  <2>6. StoredIn(d) = StoredIn(e) \cup {raw}
    BY <1>3, <2>3, <2>4 DEF StoredIn
  <2>7. \A i \in 1..n : d[i] = new \/ (d[i] = e[i] /\ e[i].raw # raw)
    BY <2>1, <2>3 DEF Distinct
  <2> QED
    BY <1>3, <2>3, <2>5, <2>6, <2>7 DEF d, new
<1>4. CASE raw \notin StoredIn(e)
  <2>1. d = Append(e, new)
    BY <1>4 DEF PutEntry, new
  <2> HIDE DEF d
  <2>2. d \in Seq(Entries) /\ Len(d) = n + 1 /\ d[n + 1] = new /\ \A i \in 1..n : d[i] = e[i]
    BY <1>1, <1>2, <2>1
  <2>3. \A i \in 1..n : e[i].raw # raw
    BY <1>4 DEF StoredIn
  <2>4. \A i \in 1..n + 1 : i \in 1..n \/ i = n + 1
    BY <1>2
  <2>5. Distinct(d)
    BY <1>1, <2>2, <2>3, <2>4 DEF Distinct
  <2>6. StoredIn(d) = StoredIn(e) \cup {raw}
    <3>1. \A i \in 1..n : i \in 1..n + 1
      BY <1>2
    <3>2. n + 1 \in 1..n + 1
      BY <1>2
    <3> QED
      BY <1>1, <2>2, <2>4, <3>1, <3>2 DEF StoredIn
  <2>7. \A i \in 1..n + 1 : d[i] = new \/ \E j \in 1..n : d[i] = e[j] /\ e[j].raw # raw
    BY <2>2, <2>3, <2>4
  <2> QED
    BY <1>4, <2>2, <2>5, <2>6, <2>7 DEF d, new
<1> QED
  BY <1>3, <1>4

\* An eviction takes the oldest, of a full store, for an address that is not there.
LEMMA RoomTakesTheOldest ==
  ASSUME StoreInv, NEW raw
  PROVE  /\ RoomFor(raw) \in Seq(Entries) /\ Distinct(RoomFor(raw))
         /\ \A i \in 1..Len(RoomFor(raw)) : \E j \in 1..Len(store.entries) :
              RoomFor(raw)[i] = store.entries[j]
         /\ \/ RoomFor(raw) = store.entries
               /\ (store.cap > 0 /\ raw \notin StoredIn(store.entries) =>
                     Len(store.entries) < store.cap)
            \/ /\ store.cap > 0 /\ Len(store.entries) = store.cap
               /\ raw \notin StoredIn(store.entries)
               /\ Len(RoomFor(raw)) = store.cap - 1
               /\ StoredIn(RoomFor(raw)) = StoredIn(store.entries) \ {store.entries[1].raw}
<1> DEFINE e == store.entries
           n == Len(e)
           d == RoomFor(raw)
<1>1. e \in Seq(Entries) /\ Distinct(e) /\ n \in Nat /\ store.cap \in Nat
      /\ (store.cap > 0 => n <= store.cap)
  BY DEF StoreInv, Holds
<1>2. CASE ~(store.cap > 0 /\ raw \notin StoredIn(e) /\ n >= store.cap)
  <2>1. d = e
    BY <1>2 DEF RoomFor
  <2>2. store.cap > 0 /\ raw \notin StoredIn(e) => n < store.cap
    BY <1>1, <1>2
  <2> HIDE DEF d, e
  <2> QED
    BY <1>1, <2>1, <2>2 DEF d, e
<1>3. CASE store.cap > 0 /\ raw \notin StoredIn(e) /\ n >= store.cap
  <2>1. d = Tail(e)
    BY <1>3 DEF RoomFor
  <2>2. n = store.cap /\ n > 0
    BY <1>1, <1>3
  <2> HIDE DEF d, e
  <2>3. e # <<>>
    BY <1>1, <2>2
  <2>4. d \in Seq(Entries) /\ Len(d) = n - 1 /\ \A i \in 1..n - 1 : d[i] = e[i + 1]
    BY <1>1, <2>1, <2>2, <2>3
  <2>5. \A i \in 1..n - 1 : i + 1 \in 1..n /\ i + 1 # 1
    BY <1>1
  <2>6. Distinct(d)
    <3>1. \A i, j \in 1..n - 1 : i + 1 = j + 1 => i = j
      BY <1>1
    <3> QED
      BY <1>1, <2>4, <2>5, <3>1 DEF Distinct
  <2>7. 1 \in 1..n
    BY <1>1, <2>2
  <2>8. \A j \in 1..n : j # 1 => j - 1 \in 1..n - 1 /\ (j - 1) + 1 = j
    BY <1>1
  <2>9. StoredIn(d) = {e[i + 1].raw : i \in 1..n - 1}
    BY <2>4 DEF StoredIn
  <2>10. StoredIn(d) \subseteq StoredIn(e) \ {e[1].raw}
    BY <1>1, <2>5, <2>7, <2>9 DEF StoredIn, Distinct
  <2>11. StoredIn(e) \ {e[1].raw} \subseteq StoredIn(d)
    <3> SUFFICES ASSUME NEW j \in 1..n, e[j].raw # e[1].raw PROVE e[j].raw \in StoredIn(d)
      BY DEF StoredIn
    <3>1. j - 1 \in 1..n - 1 /\ (j - 1) + 1 = j
      BY <2>8
    <3> QED
      BY <2>9, <3>1
  <2>12. \A i \in 1..n - 1 : \E j \in 1..n : d[i] = e[j]
    BY <2>4, <2>5
  <2> QED
    BY <1>3, <2>2, <2>4, <2>6, <2>10, <2>11, <2>12 DEF d, e
<1> QED
  BY <1>2, <1>3

\* What StoreHoldsLatest says of one step.
HeldAfter ==
  /\ Cardinality(StoredIn(store'.entries)) = Len(store'.entries)
  /\ store.cap > 0 => Len(store'.entries) <= store.cap
  /\ \A e \in ToSet(store'.entries) : e.payload = store'.latest[e.raw]
  /\ store'.answer # store.answer =>
       \A e \in ToSet(store'.answer) : e.payload = store'.latest[e.raw]
  /\ \A raw \in Lost \cap DOMAIN store'.latest :
       Gained # {} /\ raw = store.entries[1].raw /\ Len(store.entries) = store.cap

LEMMA LatestOfAll ==
  ASSUME NEW e, NEW latest, Latest(e, latest)
  PROVE  \A x \in {e[i] : i \in 1..Len(e)} : x.payload = latest[x.raw]
BY DEF Latest

\* A step that leaves the store with what it should hold, and answers only from
\* that.
LEMMA HeldStep ==
  ASSUME NEW e, NEW latest, NEW answer, store.cap \in Nat,
         store' = [cap |-> store.cap, entries |-> e, answer |-> answer, latest |-> latest],
         Holds(e, latest, store.cap),
         answer = store.answer \/ \A i \in DOMAIN answer : answer[i].payload = latest[answer[i].raw],
         \A raw \in (StoredIn(store.entries) \ StoredIn(e)) \cap DOMAIN latest :
           /\ StoredIn(e) \ StoredIn(store.entries) # {}
           /\ raw = store.entries[1].raw /\ Len(store.entries) = store.cap
  PROVE  StoreInv' /\ HeldAfter
<1>1. /\ store'.cap = store.cap /\ store'.entries = e /\ store'.answer = answer
      /\ store'.latest = latest /\ IsStore(store')
  BY DEF IsStore
<1>2. StoreInv'
  BY <1>1 DEF StoreInv
<1>3. Cardinality(StoredIn(e)) = Len(e)
  BY DistinctKeys DEF Holds
<1>4. \A x \in ToSet(e) : x.payload = latest[x.raw]
  <2>1. DOMAIN e = 1..Len(e)
    BY DEF Holds
  <2>2. ToSet(e) = {e[i] : i \in 1..Len(e)}
    BY <2>1 DEF ToSet
  <2> QED
    BY <2>2, LatestOfAll DEF Holds
<1>5. answer # store.answer => \A x \in ToSet(answer) : x.payload = latest[x.raw]
  BY DEF ToSet
<1>6. store.cap > 0 => Len(e) <= store.cap
  BY DEF Holds
<1> QED
  BY <1>1, <1>2, <1>3, <1>4, <1>5, <1>6 DEF HeldAfter, Lost, Gained

LEMMA SetHolds ==
  ASSUME StoreInv, SetState
  PROVE  StoreInv' /\ HeldAfter
<1>a. PICK topic \in StoreTopics, v \in StorePayloads : \E raw \in GroupAddress(topic) :
        store' = [store EXCEPT
          !.entries = PutEntry(RoomFor(raw), raw, v),
          !.latest = [r \in DOMAIN @ \cup {raw} |-> IF r = raw THEN v ELSE @[r]]]
  BY DEF SetState
<1>b. GroupAddress(topic) \subseteq Addresses
  BY DEF Addresses
<1>1. PICK raw \in Addresses :
        store' = [store EXCEPT
          !.entries = PutEntry(RoomFor(raw), raw, v),
          !.latest = [r \in DOMAIN @ \cup {raw} |-> IF r = raw THEN v ELSE @[r]]]
  BY <1>a, <1>b
<1> DEFINE old == store.entries
           room == RoomFor(raw)
           e == PutEntry(room, raw, v)
           latest == [r \in DOMAIN store.latest \cup {raw} |-> IF r = raw THEN v ELSE store.latest[r]]
<1>2. store' = [cap |-> store.cap, entries |-> e, answer |-> store.answer, latest |-> latest]
  <2>1. IsStore(store) /\ store' = [store EXCEPT !.entries = e, !.latest = latest]
    BY <1>1 DEF StoreInv
  <2> HIDE DEF e, latest
  <2> QED
    BY <2>1 DEF IsStore
<1>4. /\ store.cap \in Nat /\ old \in Seq(Entries) /\ Latest(old, store.latest)
      /\ (store.cap > 0 => Len(old) <= store.cap)
  BY DEF StoreInv, Holds
<1>5. /\ room \in Seq(Entries) /\ Distinct(room)
      /\ \A i \in 1..Len(room) : \E j \in 1..Len(old) : room[i] = old[j]
      /\ \/ room = old /\ (store.cap > 0 /\ raw \notin StoredIn(old) => Len(old) < store.cap)
         \/ /\ store.cap > 0 /\ Len(old) = store.cap /\ raw \notin StoredIn(old)
            /\ Len(room) = store.cap - 1
            /\ StoredIn(room) = StoredIn(old) \ {old[1].raw}
  BY RoomTakesTheOldest
<1> HIDE DEF room
<1>6. /\ e \in Seq(Entries) /\ Distinct(e)
      /\ Len(e) = IF raw \in StoredIn(room) THEN Len(room) ELSE Len(room) + 1
      /\ StoredIn(e) = StoredIn(room) \cup {raw}
      /\ \A i \in 1..Len(e) : \/ e[i] = [raw |-> raw, payload |-> v]
                              \/ \E j \in 1..Len(room) : e[i] = room[j] /\ room[j].raw # raw
  BY <1>5, PutSetsOne
<1>7. /\ DOMAIN latest = DOMAIN store.latest \cup {raw} /\ latest[raw] = v
      /\ \A r \in DOMAIN store.latest : r # raw => latest[r] = store.latest[r]
  OBVIOUS
<1> HIDE DEF e, latest, old
<1>8. Latest(e, latest)
  <2> SUFFICES ASSUME NEW i \in 1..Len(e)
               PROVE  e[i].raw \in DOMAIN latest /\ e[i].payload = latest[e[i].raw]
    BY DEF Latest
  <2>1. CASE e[i] = [raw |-> raw, payload |-> v]
    BY <2>1, <1>7
  <2>2. CASE \E j \in 1..Len(room) : e[i] = room[j] /\ room[j].raw # raw
    <3>1. PICK j \in 1..Len(old) : e[i] = old[j] /\ old[j].raw # raw
      BY <2>2, <1>5
    <3>2. old[j].raw \in DOMAIN store.latest /\ old[j].payload = store.latest[old[j].raw]
      BY <1>4 DEF Latest
    <3> QED
      BY <3>1, <3>2, <1>7
  <2> QED
    BY <2>1, <2>2, <1>6
<1>9. store.cap > 0 => Len(e) <= store.cap
  <2> DEFINE le == Len(e)
             lr == Len(room)
             lo == Len(old)
  <2>1. lr \in Nat /\ lo \in Nat /\ (le = lr \/ (le = lr + 1 /\ raw \notin StoredIn(room)))
    BY <1>4, <1>5, <1>6
  <2>2. CASE room = old /\ (store.cap > 0 /\ raw \notin StoredIn(old) => lo < store.cap)
    <3>1. lr = lo /\ (le = lr \/ (le = lr + 1 /\ raw \notin StoredIn(old)))
      BY <2>1, <2>2
    <3>2. store.cap > 0 => lo <= store.cap
      BY <1>4
    <3> HIDE DEF le, lr, lo
    <3>3. store.cap > 0 => le <= store.cap
      BY <1>4, <2>1, <2>2, <3>1, <3>2
    <3> QED
      BY <3>3 DEF le
  <2>3. CASE lr = store.cap - 1
    <3> HIDE DEF le, lr, lo
    <3>1. le <= store.cap
      BY <1>4, <2>1, <2>3
    <3> QED
      BY <3>1 DEF le
  <2> QED
    BY <1>5, <2>2, <2>3
<1>10. Holds(e, latest, store.cap)
  BY <1>6, <1>8, <1>9 DEF Holds
<1>11. \A r \in (StoredIn(old) \ StoredIn(e)) \cap DOMAIN latest :
         StoredIn(e) \ StoredIn(old) # {} /\ r = old[1].raw /\ Len(old) = store.cap
  <2>1. CASE room = old
    BY <2>1, <1>6
  <2>2. CASE /\ Len(old) = store.cap /\ raw \notin StoredIn(old)
             /\ StoredIn(room) = StoredIn(old) \ {old[1].raw}
    BY <2>2, <1>6
  <2> QED
    BY <1>5, <2>1, <2>2
<1> QED
  BY <1>2, <1>4, <1>10, <1>11, HeldStep DEF old

LEMMA ClearHolds ==
  ASSUME StoreInv, ClearState
  PROVE  StoreInv' /\ HeldAfter
<1>1. PICK raw \in Addresses :
        store' = [store EXCEPT !.entries = Without(@, raw),
                               !.latest = [r \in DOMAIN @ \ {raw} |-> @[r]]]
  BY DEF ClearState, Addresses
<1> DEFINE old == store.entries
           e == Without(old, raw)
           latest == [r \in DOMAIN store.latest \ {raw} |-> store.latest[r]]
<1>2. store' = [cap |-> store.cap, entries |-> e, answer |-> store.answer, latest |-> latest]
  <2>1. IsStore(store) /\ store' = [store EXCEPT !.entries = e, !.latest = latest]
    BY <1>1 DEF StoreInv
  <2> HIDE DEF e, latest
  <2> QED
    BY <2>1 DEF IsStore
<1>3. /\ store.cap \in Nat /\ old \in Seq(Entries) /\ Distinct(old) /\ Latest(old, store.latest)
      /\ (store.cap > 0 => Len(old) <= store.cap)
  BY DEF StoreInv, Holds
<1>4. /\ e \in Seq(Entries) /\ Distinct(e) /\ Len(e) <= Len(old)
      /\ StoredIn(e) = StoredIn(old) \ {raw}
      /\ \A i \in 1..Len(e) : \E j \in 1..Len(old) : e[i] = old[j]
  BY <1>3, WithoutTakesOne
<1>5. /\ DOMAIN latest = DOMAIN store.latest \ {raw}
      /\ \A r \in DOMAIN store.latest : r # raw => latest[r] = store.latest[r]
  OBVIOUS
<1> HIDE DEF e, latest, old
<1>6. Latest(e, latest)
  <2> SUFFICES ASSUME NEW i \in 1..Len(e)
               PROVE  e[i].raw \in DOMAIN latest /\ e[i].payload = latest[e[i].raw]
    BY DEF Latest
  <2>1. PICK j \in 1..Len(old) : e[i] = old[j]
    BY <1>4
  <2>2. e[i].raw # raw
    BY <1>4 DEF StoredIn
  <2>3. old[j].raw \in DOMAIN store.latest /\ old[j].payload = store.latest[old[j].raw]
    BY <1>3 DEF Latest
  <2> QED
    BY <2>1, <2>2, <2>3, <1>5
<1>7. store.cap > 0 => Len(e) <= store.cap
  <2>1. Len(e) \in Nat /\ Len(old) \in Nat
    BY <1>3, <1>4
  <2> QED
    BY <2>1, <1>3, <1>4
<1>8. Holds(e, latest, store.cap)
  BY <1>4, <1>6, <1>7 DEF Holds
<1>9. (StoredIn(old) \ StoredIn(e)) \cap DOMAIN latest = {}
  BY <1>4, <1>5
<1> QED
  BY <1>2, <1>3, <1>8, <1>9, HeldStep DEF old

LEMMA EmptyHolds ==
  ASSUME NEW cap \in Nat
  PROVE  Holds(<<>>, NothingSet, cap) /\ DOMAIN NothingSet = {}
BY DEF Holds, Distinct, Latest, NothingSet

LEMMA StoreStepHolds ==
  ASSUME StoreInv, StoreNext
  PROVE  StoreInv' /\ HeldAfter
<1>1. /\ IsStore(store) /\ store.cap \in Nat
      /\ Holds(store.entries, store.latest, store.cap)
  BY DEF StoreInv
<1>2. ASSUME NEW answer, store' = [store EXCEPT !.answer = answer],
             \A i \in DOMAIN answer : \E j \in 1..Len(store.entries) : answer[i] = store.entries[j]
      PROVE  StoreInv' /\ HeldAfter
  <2>1. store' = [cap |-> store.cap, entries |-> store.entries, answer |-> answer,
                  latest |-> store.latest]
    BY <1>1, <1>2 DEF IsStore
  <2>2. \A i \in DOMAIN answer : answer[i].payload = store.latest[answer[i].raw]
    BY <1>1, <1>2 DEF Holds, Latest
  <2> QED
    BY <1>1, <2>1, <2>2, HeldStep
<1>3. CASE SetState
  BY <1>3, SetHolds
<1>4. CASE GetState
  <2>1. PICK raw \in Addresses :
          store' = [store EXCEPT !.answer =
            IF raw \in StoredIn(store.entries)
            THEN <<store.entries[PlaceOf(store.entries, raw)]>> ELSE <<>>]
    BY <1>4 DEF GetState, Addresses
  <2>2. CASE raw \in StoredIn(store.entries)
    <3>1. PlaceOf(store.entries, raw) \in 1..Len(store.entries)
      BY <2>2, KeyHasOnePlace
    <3> DEFINE answer == <<store.entries[PlaceOf(store.entries, raw)]>>
    <3>2. \A i \in DOMAIN answer : answer[i] = store.entries[PlaceOf(store.entries, raw)]
      OBVIOUS
    <3>3. store' = [store EXCEPT !.answer = answer]
      BY <2>1, <2>2
    <3> HIDE DEF answer
    <3> QED
      BY <3>1, <3>2, <3>3, <1>2
  <2>3. CASE raw \notin StoredIn(store.entries)
    <3>1. store' = [store EXCEPT !.answer = <<>>]
      BY <2>1, <2>3
    <3> QED
      BY <3>1, <1>2
  <2> QED
    BY <2>2, <2>3
<1>5. CASE ListStates
  <2>1. \A i \in DOMAIN store.entries : \E j \in 1..Len(store.entries) :
          store.entries[i] = store.entries[j]
    BY <1>1 DEF Holds
  <2>2. store' = [store EXCEPT !.answer = store.entries]
    BY <1>5 DEF ListStates
  <2> QED
    BY <2>1, <2>2, <1>2
<1>6. CASE ClearState
  BY <1>6, ClearHolds
<1>7. CASE ClearStates
  <2>1. store' = [cap |-> store.cap, entries |-> <<>>, answer |-> store.answer,
                  latest |-> NothingSet]
    BY <1>1, <1>7 DEF ClearStates, IsStore
  <2>2. Holds(<<>>, NothingSet, store.cap) /\ DOMAIN NothingSet = {}
    BY <1>1, EmptyHolds
  <2> QED
    BY <1>1, <2>1, <2>2, HeldStep
<1> QED
  BY <1>3, <1>4, <1>5, <1>6, <1>7 DEF StoreNext

LEMMA StoreInvariant ==
  StoreSpec => []StoreInv
<1>1. StoreInit => StoreInv
  BY StoreAssumption, EmptyHolds DEF StoreInit, StoreOf, StoreInv, IsStore
<1>2. StoreInv /\ [StoreNext]_store => StoreInv'
  BY StoreStepHolds DEF StoreInv
<1> QED
  BY <1>1, <1>2, PTL DEF StoreSpec

\* Whatever is set, asked for and cleared, in whatever notation: the store
\* (onInput in stateStore.ts) holds each address once, within its cap, with the
\* latest value set for it, answers with nothing else, and gives up an address
\* only to a new one, when it is full and that address is the oldest.
THEOREM LatestIsHeld == StoreSpec => StoreHoldsLatest
<1>1. StoreInv /\ [StoreNext]_store => [HeldAfter]_store
  BY StoreStepHolds
<1>2. StoreSpec => [][HeldAfter]_store
  BY <1>1, StoreInvariant, PTL DEF StoreSpec
<1> QED
  BY <1>2 DEF HeldAfter, StoreHoldsLatest
=============================================================================
