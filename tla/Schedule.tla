------------------------------ MODULE Schedule ------------------------------
(***************************************************************************)
(* The schedule node of src/nodes/schedule/schedule.ts.  Its timers may    *)
(* run late, and the next period of a setInterval begins when it has run:  *)
(* what one tick is late, all that follow are.                             *)
(***************************************************************************)
EXTENDS Clock, Cron

CONSTANTS
  Schedules,      \* [mode, cron, interval, fireOnDeploy, known, named]: the
                  \* settings, whether the ETS project has the address, and, for
                  \* the property, the minutes of the calendar that cron names
  MinuteLength,   \* a minute, in units of the clock, which starts with a minute
  Calendar,       \* the date of each minute, from 0 on
  MaxDelay        \* how late a timer may run

ASSUME ScheduleAssumption == MinuteLength \in Nat \ {0} /\ MaxDelay \in Nat

VARIABLE schedule

NotDue == -1

ScheduleOf(c) ==
  [config |-> c, phase |-> "new", since |-> 0,
   matcher |-> <<>>,
   due |-> NotDue,        \* the cron or interval timer
   once |-> NotDue,       \* the timer of fireOnDeploy
   late |-> 0,            \* what the cron ticks were late altogether
   fires |-> [m \in DOMAIN Calendar |-> 0],   \* by cron, in each minute
   others |-> 0]          \* fires by an interval, a deploy or a message

ScheduleInit == \E c \in Schedules : schedule = ScheduleOf(c)

MinuteOf(t) == t \div MinuteLength

\* What the property tells apart, not a count: at most two.
Counted(n) == IF n < 2 THEN n + 1 ELSE n
FiresOther(s) == IF s.config.known THEN [s EXCEPT !.others = Counted(@)] ELSE s

\* A bad expression ends the constructor: no timer, no handler.
DeploySchedule ==
  /\ schedule.phase = "new"
  /\ LET c == schedule.config
         once == IF c.fireOnDeploy THEN now + 1 ELSE NotDue
         deployed == [schedule EXCEPT !.phase = "running", !.since = now, !.once = once]
     IN  schedule' =
           CASE c.mode = "interval" -> [deployed EXCEPT !.due = now + c.interval]
             [] c.mode # "interval" /\ CompileCron(c.cron) = {} -> [schedule EXCEPT !.phase = "bad"]
             [] OTHER -> [deployed EXCEPT !.due = (MinuteOf(now) + 1) * MinuteLength,
                                          !.matcher = CHOOSE m \in CompileCron(c.cron) : TRUE]

TimerRuns(due) == schedule.phase = "running" /\ due # NotDue /\ now >= due

CronTick ==
  /\ schedule.config.mode = "cron" /\ TimerRuns(schedule.due)
  /\ LET m == MinuteOf(now)
         fire == schedule.config.known /\ CronMatches(schedule.matcher, Calendar[m])
     IN  schedule' = [schedule EXCEPT !.due = now + MinuteLength,
                        !.late = @ + now - schedule.due,
                        !.fires[m] = IF fire THEN Counted(@) ELSE @]

IntervalTick ==
  /\ schedule.config.mode = "interval" /\ TimerRuns(schedule.due)
  /\ schedule' = [FiresOther(schedule) EXCEPT !.due = now + schedule.config.interval]

FireOnce ==
  /\ TimerRuns(schedule.once)
  /\ schedule' = [FiresOther(schedule) EXCEPT !.once = NotDue]

ManualFire == schedule.phase = "running" /\ schedule' = FiresOther(schedule)

CloseSchedule ==
  /\ schedule.phase = "running"
  /\ schedule' = [schedule EXCEPT !.phase = "closed", !.due = NotDue, !.once = NotDue]

ScheduleNext ==
  \/ /\ DeploySchedule \/ CronTick \/ IntervalTick \/ FireOnce \/ ManualFire \/ CloseSchedule
     /\ UNCHANGED now
  \/ /\ \A due \in {schedule.due, schedule.once} \ {NotDue} : now < due + MaxDelay
     /\ Tick /\ UNCHANGED schedule

ScheduleSpec == ClockInit /\ ScheduleInit /\ [][ScheduleNext]_<<now, schedule>>

-----------------------------------------------------------------------------
\* While the delays of the ticks, this one's included, stay below a minute in
\* sum, each minute since the deploy that the expression names has fired once,
\* and no other; and beyond that, still no other fires.
Lateness ==
  schedule.late + (IF schedule.due # NotDue /\ now > schedule.due THEN now - schedule.due ELSE 0)

CronFiresEachMatch ==
  LET complete == MinuteOf(schedule.since) + 1..MinuteOf(now) - 1
  IN  /\ \A m \in DOMAIN Calendar : schedule.fires[m] > 0 => m \in schedule.config.named
      /\ schedule.phase = "running" /\ schedule.config.mode = "cron"
           /\ schedule.config.known /\ Lateness < MinuteLength =>
           \A m \in complete : schedule.fires[m] = IF m \in schedule.config.named THEN 1 ELSE 0
=============================================================================
