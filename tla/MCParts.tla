------------------------------ MODULE MCParts -------------------------------
(***************************************************************************)
(* Values for the constants of Parts: small instances in which the cases   *)
(* happen that the properties are about.                                   *)
(***************************************************************************)
EXTENDS Parts

AllParts ==
  {"wire", "dedupe", "limiter", "watchdog", "store", "writer", "schedule", "monitor",
   "project"}

MCHorizon ==
  [dedupe |-> 3, limiter |-> 4, watchdog |-> 9, writer |-> 3, schedule |-> 15]

-----------------------------------------------------------------------------
\* Filters: payloads of several types, objects that differ in a value or only
\* in the order of their keys.

Payload(type, content) == [type |-> type, content |-> content]

MCPayloads ==
  {Payload("number", <<1>>), Payload("buffer", <<1>>),
   Payload("object", <<<<"on", 1>>, <<"level", 2>>>>),
   Payload("object", <<<<"level", 2>>, <<"on", 1>>>>),
   Payload("object", <<<<"on", 1>>, <<"level", 3>>>>)}

-----------------------------------------------------------------------------
\* Store and writer: one address in two notations, one that is out of range.

MCStoreTopics == {<<1, 2, 3>>, <<1, 515>>, <<1>>, <<2>>, <<32, 0, 0>>}

WriterMessage(topic, type, value, dpt) ==
  [topic |-> topic, payload |-> [type |-> type, value |-> value], dpt |-> dpt, read |-> FALSE]

MCWriterMessages ==
  {WriterMessage(<<1, 2, 3>>, "boolean", v, <<1, 1>>) : v \in BOOLEAN} \cup
  {WriterMessage(<<1, 515>>, "number", 0, Absent),
   WriterMessage(Absent, "buffer", <<1>>, Absent),
   WriterMessage(<<9>>, "integer", <<200>>, Absent),
   WriterMessage(<<9>>, "integer", <<300>>, Absent),     \* out of the range of 5.010
   WriterMessage(<<9>>, "apdu", SmallValue(1), Absent),
   WriterMessage(<<9>>, "boolean", TRUE, <<99, 1>>),     \* no such DPT
   WriterMessage(<<32, 0, 0>>, "boolean", TRUE, <<1, 1>>),
   [topic |-> <<9>>, payload |-> Absent, dpt |-> Absent, read |-> TRUE]}

MCWriterConfigs ==
  {[ga |-> ga, dpt |-> Absent, ets |-> [raw \in {9} |-> <<5, 10>>], window |-> w] :
     ga \in {Absent, <<2563>>}, w \in {0, 2}}

-----------------------------------------------------------------------------
\* Schedules, around the end of January, with the minutes that each names.

Each == {[form |-> "star", lo |-> 0, hi |-> 0, step |-> 1]}
EveryNth(n) == {[form |-> "star", lo |-> 0, hi |-> 0, step |-> n]}
Only(n) == [form |-> "value", lo |-> n, hi |-> n, step |-> 1]
FromTo(a, b) == [form |-> "range", lo |-> a, hi |-> b, step |-> 1]

MCCalendar ==
  [m \in 0..5 |->
     <<<<58, 23, 31, 1, 6>>, <<59, 23, 31, 1, 6>>, <<0, 0, 1, 2, 0>>, <<1, 0, 1, 2, 0>>,
       <<2, 0, 1, 2, 0>>, <<3, 0, 1, 2, 0>>>>[m + 1]]

CronSchedule(expression, minutes) ==
  [mode |-> "cron", cron |-> expression, interval |-> 3, fireOnDeploy |-> FALSE,
   known |-> TRUE, named |-> minutes]

MCSchedules ==
  {CronSchedule(<<EveryNth(2), Each, Each, Each, Each>>, {0, 2, 4}),
   CronSchedule(<<Each, Each, {Only(31)}, Each, {Only(7)}>>, 0..5),      \* either day, Sunday
   CronSchedule(<<Each, Each, {Only(31)}, Each, Each>>, {0, 1}),
   CronSchedule(<<{[FromTo(1, 3) EXCEPT !.step = 2]}, Each, Each, Each, Each>>, {3, 5}),
   CronSchedule(<<{Only(60)}, Each, Each, Each, Each>>, {}),             \* no such minute
   CronSchedule(<<{FromTo(0, 1), Only(59)}, {Only(0), Only(23)}, Each, Each, Each>>, {1, 2, 3}),
   [CronSchedule(<<Each, Each, Each, Each, Each>>, {}) EXCEPT !.known = FALSE],
   [CronSchedule(<<>>, {}) EXCEPT !.mode = "interval", !.fireOnDeploy = TRUE]}

\* util/cron.ts:11, "A/N or */N - step": 1/2 names every second minute from
\* minute 1 on.
SchedulePart == {"schedule"}
DocumentedSchedules ==
  {CronSchedule(<<{[Only(1) EXCEPT !.step = 2]}, Each, Each, Each, Each>>, {1, 3, 5})}

-----------------------------------------------------------------------------
\* Bus monitor: the first project cannot read the value of 0/0/9, the second can.

MCTraffic ==
  {GroupCemi(L_DATA_IND, 9, Source, GroupValue("GroupValueWrite", BytesValue(<<200>>))),
   GroupCemi(L_DATA_CON, 2563, Source, GroupValue("GroupValueResponse", SmallValue(1))),
   GroupCemi(L_DATA_IND, 9, Source, GroupValueRead),
   Direct(Tpci("TConnect"), Absent)}

MCProjectDpts ==
  <<[raw \in {9, 2563} |-> IF raw = 9 THEN <<9, 1>> ELSE <<1, 1>>],
    [raw \in {9} |-> <<5, 10>>]>>

-----------------------------------------------------------------------------
\* ETS exports.

MCAddressWords ==
  [w \in {"1/2/3", "1/515", "2563", "0/0/9", "99/1/1"} |->
     CASE w = "1/2/3" -> <<1, 2, 3>> [] w = "1/515" -> <<1, 515>> [] w = "2563" -> <<2563>>
       [] w = "0/0/9" -> <<0, 0, 9>> [] OTHER -> <<99, 1, 1>>]

MCDptWords ==
  [w \in {"DPST-1-1", "5.010", "DPT-9", "DPT-16", "DPT-20", "DPT-99", "DPST-99-1"} |->
     CASE w = "DPST-1-1" -> <<1, 1>> [] w = "5.010" -> <<5, 10>> [] w = "DPT-9" -> <<9>>
       [] w = "DPT-16" -> <<16>> [] w = "DPT-20" -> <<20>> [] w = "DPT-99" -> <<99>> [] OTHER -> <<99, 1>>]

Names(word, column, rank) == [word |-> word, column |-> column, rank |-> rank]
HeaderNames ==
  {Names("Main", "main", 1), Names("Middle", "middle", 1), Names("Sub", "sub", 1),
   Names("Address", "ga", 1), Names("Adresse", "ga", 4), Names("IP-address", "ga", 11),
   Names("DatapointType", "dpt", 1), Names("Datapunkttyp", "dpt", 4), Names("DPT", "dpt", 3),
   Names("Name", "name", 1), Names("Description", "description", 1),
   Names("Beschreibung", "description", 2)}

MCHeaderRank ==
  [w \in {n.word : n \in HeaderNames} |->
     [c \in {"ga", "dpt", "name", "description", "main", "middle", "sub"} |->
        Min({n.rank : n \in {m \in HeaderNames : m.word = w /\ m.column = c}} \cup {Unranked})]]

Layout(columns, header, delimiter, quoted, shows) ==
  [columns |-> columns, header |-> header, delimiter |-> delimiter, quoted |-> quoted,
   start |-> IF header = <<>> THEN <<>> ELSE <<ByteOrderMark>>, shows |-> shows]

NineColumns ==
  <<"main", "middle", "sub", "ga", "central", "unfiltered", "description", "dpt", "security">>

\* The layouts of the parser's tests, and which column becomes the name.
Layouts ==
  {Layout(NineColumns,
          <<<<"Main">>, <<"Middle">>, <<"Sub">>, <<"Address">>, <<"Central">>, <<"Unfiltered">>,
            <<"Description">>, <<"DatapointType">>, <<"Security">>>>, "comma", TRUE, "sub"),
   Layout(NineColumns, <<>>, "tab", TRUE, "sub"),
   Layout(<<"security", "ga", "dpt", "description">>,
          <<<<"IP-address">>, <<"Adresse">>, <<"Datapunkttyp">>, <<"Beschreibung">>>>,
          "semicolon", FALSE, "description"),
   Layout(<<"ga", "dpt", "description">>, <<>>, "comma", TRUE, "none"),
   Layout(<<"sub", "ga", "dpt">>, <<<<"Name">>, <<"Address">>, <<"DPT">>>>, "semicolon", TRUE, "sub")}

ExportRow(ga, raw, dpt, meant, sub, description) ==
  [ga |-> <<ga>>, raw |-> raw, dpt |-> dpt, meant |-> meant, sub |-> sub,
   description |-> description]

Parent == [ga |-> <<"1/-/-">>, raw |-> Absent, main |-> <<"House">>]
Lamp == <<"Lamp", "comma", Quote, "space", "big", Quote, "semicolon">>
Exports ==
  {<<Parent, ExportRow("1/2/3", 2563, <<"DPST-1-1">>, <<1, 1>>, Lamp, <<"Hall">>),
     ExportRow("0/0/9", 9, <<"DPT-20">>, <<20, 102>>, <<"Mode">>, <<"Room">>)>>,
   <<ExportRow("0/0/9", 9, <<"5.010">>, <<5, 10>>, <<Quote>>, <<"Room">>),
     ExportRow("1/515", 2563, <<>>, Absent, <<"Off">>, <<"Hall">>),
     ExportRow("2563", 2563, <<"DPT-16">>, <<16, 1>>, <<"Heat">>, <<"Roof">>)>>,
   <<ExportRow("99/1/1", Absent, <<"DPT-9">>, <<9, 1>>, <<"Far">>, <<"Away">>),
     ExportRow("1/2/3", 2563, <<"DPST-99-1">>, Absent, <<"Odd">>, <<"Hall">>),
     ExportRow("0/0/9", 9, <<"DPT-99">>, Absent, <<"Odder">>, <<"Hall">>)>>}

ShownIn(row, layout) ==
  IF row.raw = Absent THEN row
  ELSE [raw |-> row.raw, meant |-> row.meant,
        shown |-> CASE layout.shows = "sub" -> row.sub
                    [] layout.shows = "description" -> row.description
                    [] OTHER -> <<>>]

ParsedEntry(row) ==
  [raw |-> row.raw, dpt |-> row.dpt, name |-> row.sub, description |-> row.description]
ParsedExport == SelectSeq(Some({e \in Exports : e[1] # Parent /\ e[1].raw = 9}), LAMBDA r : TRUE)
ParsedEntries == [i \in 1..Len(ParsedExport) |-> ParsedEntry(ParsedExport[i])]
NamedRows == [i \in 1..Len(ParsedExport) |-> ShownIn(ParsedExport[i], [shows |-> "sub"])]

\* A CSV in each layout; entries that the editor parsed, with a CSV that does
\* not count, and with a null among them; nothing; and a text that is no export.
MCDefinitions ==
  {[parsed |-> <<>>, csv |-> CsvText(e, l), rows |-> [i \in 1..Len(e) |-> ShownIn(e[i], l)]] :
     e \in Exports, l \in Layouts}
  \cup
  {[parsed |-> ParsedEntries, csv |-> <<"0/0/9">>, rows |-> NamedRows],
   [parsed |-> SubSeq(ParsedEntries, 1, 1) \o <<NoEntry>> \o Tail(ParsedEntries),
    csv |-> <<>>, rows |-> SubSeq(NamedRows, 1, 1)],
   [parsed |-> <<>>, csv |-> <<ByteOrderMark, "space", Newline>>, rows |-> <<>>],
   [parsed |-> <<>>, csv |-> <<"Dear", "comma", "ETS", Newline, "Lamp">>, rows |-> <<>>]}
=============================================================================
