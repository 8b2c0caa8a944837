------------------------------ MODULE Watchdog ------------------------------
(***************************************************************************)
(* The watchdog of src/nodes/watchdog/watchdog.ts: it notes when each      *)
(* watched group address was last heard, and a timer raises the alarms.    *)
(* The timer is one of setInterval: it may run late, and the next interval *)
(* begins when it has run.                                                 *)
(***************************************************************************)
EXTENDS Clock, Sequences

CONSTANTS
  Watched,        \* the group addresses
  Timeout,        \* timeoutMs
  Interval,       \* intervalMs
  MaxLate         \* how late the timer may run

ASSUME WatchdogAssumption == {Timeout, Interval, MaxLate} \subseteq Nat /\ Interval > 0

VARIABLE watch

Never == -1

\* The setting seedOnDeploy says whether the deploy, at 0, counts as a sign of
\* life.
WatchOf(seedOnDeploy) ==
  LET seed == [g \in Watched |-> IF seedOnDeploy THEN 0 ELSE Never]
  IN  [lastSeen |-> seed,
       alarmed |-> [g \in Watched |-> FALSE],
       due |-> Interval,                   \* the timer, or Never
       out |-> [g \in Watched |-> <<>>],   \* the messages sent
       heard |-> seed]                     \* the last sign of life

WatchdogInit == \E seedOnDeploy \in BOOLEAN : watch = WatchOf(seedOnDeploy)

\* Mutated form: a read counts as a sign of life.
AliveAny(code, kind) == code = "L_DATA_IND"

\* Writes and responses count, reads do not, nor our own telegrams confirmed.
Alive(code, kind) ==
  code = "L_DATA_IND" /\ kind \in {"GroupValueWrite", "GroupValueResponse"}

SignOfLife(code, kind) == code = "L_DATA_IND" /\ kind # "GroupValueRead"

\* onCemi(), until the listener is taken away
WatchdogTelegram ==
  /\ watch.due # Never
  /\ \E g \in Watched, code \in {"L_DATA_IND", "L_DATA_CON"},
        kind \in {"GroupValueRead", "GroupValueWrite", "GroupValueResponse"} :
       watch' =
         [watch EXCEPT
            !.heard[g] = IF SignOfLife(code, kind) THEN now ELSE @,
            !.lastSeen[g] = IF Alive(code, kind) THEN now ELSE @,
            !.alarmed[g] = @ /\ ~Alive(code, kind),
            !.out[g] = IF watch.alarmed[g] /\ Alive(code, kind) THEN Append(@, "recovery")
                       ELSE @]

\* An address never heard counts as last seen at 0, the epoch, which is more
\* than any timeout ago.
Silent(g) == watch.lastSeen[g] = Never \/ now - watch.lastSeen[g] > Timeout

Alarming == {g \in Watched : ~watch.alarmed[g] /\ Silent(g)}

WatchdogCheck ==
  /\ watch.due # Never /\ now >= watch.due
  /\ watch' =
       [watch EXCEPT
          !.alarmed = [g \in Watched |-> @[g] \/ g \in Alarming],
          !.out = [g \in Watched |-> IF g \in Alarming THEN Append(@[g], "alarm") ELSE @[g]],
          !.due = now + Interval]

WatchdogClose ==
  /\ watch.due # Never
  /\ watch' = [watch EXCEPT !.due = Never]

WatchdogNext ==
  \/ (WatchdogTelegram \/ WatchdogCheck \/ WatchdogClose) /\ UNCHANGED now
  \/ watch.due # Never /\ now < watch.due + MaxLate /\ Tick /\ UNCHANGED watch

WatchdogSpec == ClockInit /\ WatchdogInit /\ [][WatchdogNext]_<<now, watch>>

-----------------------------------------------------------------------------
\* An address is in alarm only while it has been silent for longer than the
\* timeout, and is in alarm at the latest one check after that; without the seed,
\* an address never heard is in alarm from the first check on.  So the help text
\* says (watchdog.html:145-147, "turn it off when you want to alarm immediately on
\* GAs that haven't been seen yet"); the comment at watchdog.ts:161-163, that such
\* an address has the timeout to be heard, says otherwise.  Alarms and recoveries
\* are sent in turn, an alarm first, while the node runs.
Alternating(s) == \A i \in 1..Len(s) : s[i] = IF i % 2 = 1 THEN "alarm" ELSE "recovery"

AlarmsFollowSilence ==
  watch.due # Never => \A g \in Watched :
    LET silence == IF watch.heard[g] = Never THEN Timeout + now ELSE now - watch.heard[g]
    IN  /\ watch.alarmed[g] => watch.heard[g] = Never \/ silence > Timeout
        /\ ~watch.alarmed[g] => silence <= Timeout + Interval + MaxLate
        /\ Alternating(watch.out[g])
        /\ watch.alarmed[g] <=> Len(watch.out[g]) % 2 = 1
=============================================================================
