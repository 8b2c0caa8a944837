------------------------------- MODULE Parts --------------------------------
(***************************************************************************)
(* The parts outside src/io, and the bytes on the wire, whose models share *)
(* no state, side by side: a behaviour picks one of them and is a          *)
(* behaviour of that part, the others staying as they began.  One run of   *)
(* this module checks them all, at the cost of their sum.                  *)
(***************************************************************************)
EXTENDS Wire, MessageFilters, Watchdog, StateStore, Writer, Schedule, BusMonitor,
        EtsImport

CONSTANTS
  PartNames,   \* the parts to check
  Horizon      \* bound: where the clock of each part stops

VARIABLE part

timedVars == <<dedupe, limiter, watch, writer, schedule, now>>
otherVars == <<link, store, monitor, project>>
partsVars == <<part, timedVars, otherVars>>

\* Where a part can begin in several ways and is not picked, one of them.
Some(S) == CHOOSE s \in S : TRUE

PartsInit ==
  /\ part \in PartNames
  /\ ClockInit /\ DedupeInit /\ LimiterInit
  /\ MonitorInit /\ ProjectInit
  /\ IF part = "wire" THEN LinkInit ELSE link = LinkOf(Some(Streams))
  /\ IF part = "watchdog" THEN WatchdogInit ELSE watch = [WatchOf(TRUE) EXCEPT !.due = Never]
  /\ IF part = "store" THEN StoreInit ELSE store = StoreOf(Some(Caps))
  /\ IF part = "writer" THEN WriterInit ELSE writer = WriterOf(Some(WriterConfigs))
  /\ IF part = "schedule" THEN ScheduleInit ELSE schedule = ScheduleOf(Some(Schedules))

Timed == DOMAIN Horizon

PartsNext ==
  /\ part' = part
  /\ IF part = "wire" THEN LinkNext ELSE UNCHANGED link
  /\ IF part = "dedupe" THEN DedupeNext ELSE UNCHANGED dedupe
  /\ IF part = "limiter" THEN LimiterNext ELSE UNCHANGED limiter
  /\ IF part = "watchdog" THEN WatchdogNext ELSE UNCHANGED watch
  /\ IF part = "writer" THEN WriterNext ELSE UNCHANGED writer
  /\ IF part = "schedule" THEN ScheduleNext ELSE UNCHANGED schedule
  /\ IF part \in Timed THEN now' <= Horizon[part] ELSE UNCHANGED now
  /\ IF part = "store" THEN StoreNext ELSE UNCHANGED store
  /\ IF part = "monitor" THEN MonitorNext ELSE UNCHANGED monitor
  /\ IF part = "project" THEN ProjectNext ELSE UNCHANGED project

PartsSpec == PartsInit /\ [][PartsNext]_partsVars
=============================================================================
