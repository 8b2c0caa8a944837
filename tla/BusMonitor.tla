----------------------------- MODULE BusMonitor -----------------------------
(***************************************************************************)
(* The bus monitor: the ring buffer of src/runtime/busMonitor.ts, the      *)
(* records that a config node makes of the frames its tunnel emits, and    *)
(* the event streams that show them in the editor (both in                 *)
(* src/nodes/config/config.ts).                                            *)
(***************************************************************************)
EXTENDS Datapoints

CONSTANTS
  Traffic,       \* the cEMI frames that the tunnel may emit
  ProjectDpts,   \* the ETS configs, in order: functions from addresses to DPTs
  Capacity,      \* _max
  Viewers,       \* the event streams
  MaxRecords     \* bound: telegrams in all

ASSUME MonitorAssumption == Capacity \in Nat \ {0} /\ MaxRecords \in Nat

VARIABLE monitor

\* A stream is new, open or done; its screen has the records that a reader of
\* its lines has seen since the last "cleared".  Comment lines, the heartbeat's
\* among them, change nothing for the reader.
MonitorInit ==
  monitor = [buffer |-> <<>>, taken |-> 0,
             stream |-> [v \in Viewers |-> [state |-> "new", screen |-> <<>>]]]

-----------------------------------------------------------------------------
\* Records.

\* The value of a telegram according to the first ETS config that can read it.
DecodedBy(dpts, f) ==
  IF f.data.dst \in DOMAIN dpts /\ HasDpt(dpts[f.data.dst])
  THEN {[dpt |-> dpts[f.data.dst], value |-> v] :
          v \in DptIn(dpts[f.data.dst], f.data.payload.data)}
  ELSE {}

CarriesValue(f) ==
  /\ ToGroup(f.data.flags) /\ f.data.payload # Absent
  /\ f.data.payload.kind \in {"GroupValueWrite", "GroupValueResponse"}

Decoded(f) ==
  LET able == {i \in 1..Len(ProjectDpts) : DecodedBy(ProjectDpts[i], f) # {}}
  IN  IF ~CarriesValue(f) \/ able = {} THEN {}
      ELSE DecodedBy(ProjectDpts[CHOOSE i \in able : \A j \in able : i <= j], f)

TelegramRecord(n, f) ==
  [n |-> n, source |-> f.data.src, destination |-> f.data.dst,
   apci |-> IF f.data.payload = Absent THEN "other" ELSE f.data.payload.kind,
   raw |-> IF f.data.payload = Absent THEN <<>> ELSE ApciOut(f.data.payload),
   decoded |-> Decoded(f)]

-----------------------------------------------------------------------------
\* The ring buffer and the streams that listen to it.

LastOf(s, n) == IF Len(s) <= n THEN s ELSE SubSeq(s, Len(s) - n + 1, Len(s))

\* emit(): what each open stream shows when its listener has written.
Notified(screens) ==
  [v \in Viewers |-> IF monitor.stream[v].state = "open"
                     THEN [monitor.stream[v] EXCEPT !.screen = screens[v]]
                     ELSE monitor.stream[v]]

Push ==
  /\ monitor.taken < MaxRecords
  /\ \E f \in Traffic :
       LET record == TelegramRecord(monitor.taken + 1, f)
           screens == [v \in Viewers |-> Append(monitor.stream[v].screen, record)]
       IN  monitor' = [buffer |-> LastOf(Append(monitor.buffer, record), Capacity),
                       taken |-> monitor.taken + 1, stream |-> Notified(screens)]

ClearMonitor ==
  monitor' = [monitor EXCEPT !.buffer = <<>>, !.stream = Notified([v \in Viewers |-> <<>>])]

\* Mutated form: a stream shows what comes, without the history.
OpenStreamEmpty(v) ==
  /\ monitor.stream[v].state = "new"
  /\ monitor' = [monitor EXCEPT !.stream[v] = [state |-> "open", screen |-> <<>>]]

\* The history is written and the listeners are registered in one turn.
OpenStream(v) ==
  /\ monitor.stream[v].state = "new"
  /\ monitor' = [monitor EXCEPT !.stream[v] = [state |-> "open", screen |-> monitor.buffer]]

\* cleanup(), whichever of the four events of request and response comes first.
StreamCleanup(v) ==
  /\ monitor.stream[v].state = "open"
  /\ monitor' = [monitor EXCEPT !.stream[v].state = "done"]

MonitorNext ==
  \/ Push
  \/ ClearMonitor
  \/ \E v \in Viewers : OpenStream(v) \/ StreamCleanup(v)

MonitorSpec == MonitorInit /\ [][MonitorNext]_monitor

-----------------------------------------------------------------------------
\* An open stream, whenever it was opened, shows each telegram since the oldest
\* it shows, once and in order, and at least what the buffer holds: none falls
\* between the history and the listeners, and none is shown that was cleared.
\* A value that is shown is one that its raw bytes stand for.
StreamExact ==
  /\ \A v \in Viewers : monitor.stream[v].state = "open" =>
       LET screen == monitor.stream[v].screen
       IN  /\ LastOf(screen, Len(monitor.buffer)) = monitor.buffer
           /\ monitor.buffer = <<>> => screen = <<>>
           /\ \A i \in 1..Len(screen) : screen[i].n = monitor.taken - Len(screen) + i
  /\ \A i \in 1..Len(monitor.buffer) :
       \A d \in monitor.buffer[i].decoded :
         \E a \in DptOut(d.dpt, d.value) :
           ApciOut(GroupValue(monitor.buffer[i].apci, a)) = monitor.buffer[i].raw
=============================================================================
