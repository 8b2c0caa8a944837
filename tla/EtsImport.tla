----------------------------- MODULE EtsImport ------------------------------
(***************************************************************************)
(* How an ETS project reaches the nodes: the CSV parser, the normalisation *)
(* of DPT ids, the map of group addresses (src/ets/) and the config node   *)
(* that loads it when it is deployed (src/nodes/ets-config/etsConfig.ts).  *)
(*                                                                         *)
(* A text is a sequence of characters and of words, that is, of strings in *)
(* which no character below occurs; what the parser's patterns find in a   *)
(* word is a constant.                                                     *)
(***************************************************************************)
EXTENDS Datapoints, SequencesExt

CONSTANTS
  AddressWords,   \* what looks like a group address: word -> numbers
  PseudoWords,    \* the addresses of parent rows, "1/-/-"
  DptWords,       \* DPT ids: word -> <<main, sub>>, or <<main>>
  HeaderRank,     \* word -> column -> how well it names the column
  Definitions     \* what a config node may be deployed with

VARIABLE project

Quote == "quote"
Newline == "newline"
ByteOrderMark == "bom"
Blanks == {"space", "tab"}

Unranked == 99

-----------------------------------------------------------------------------
\* Lines and fields.

Ascending(S, last) == SelectSeq([i \in 1..last |-> i], LAMBDA i : i \in S)

Pieces(s, cuts) ==
  LET ends == <<0>> \o Ascending(cuts, Len(s)) \o <<Len(s) + 1>>
  IN  [k \in 1..Len(ends) - 1 |-> SubSeq(s, ends[k] + 1, ends[k + 1] - 1)]

Trim(s) ==
  LET solid == {i \in 1..Len(s) : s[i] \notin Blanks}
  IN  IF solid = {} THEN <<>> ELSE SubSeq(s, Min(solid), Max(solid))

Lines(text) ==
  LET body == IF text # <<>> /\ text[1] = ByteOrderMark THEN Tail(text) ELSE text
  IN  SelectSeq(Pieces(body, {i \in 1..Len(body) : body[i] = Newline}),
                LAMBDA line : Trim(line) # <<>>)

\* A quote opens or closes, so that a character is outside of quotes when an
\* even number of them is before it.
Outside(line, i) == Cardinality({j \in 1..i - 1 : line[j] = Quote}) % 2 = 0

\* The first of comma, semicolon and tab that the line has most of.
Delimiter(line) ==
  LET count(d) == Cardinality({i \in 1..Len(line) : line[i] = d /\ Outside(line, i)})
  IN  CASE count("comma") >= Max({count("semicolon"), count("tab")}) -> "comma"
        [] count("semicolon") > count("comma") /\ count("semicolon") >= count("tab") -> "semicolon"
        [] OTHER -> "tab"

\* Quotes are dropped, but for the second one of a pair inside of quotes.
Unquoted(s) ==
  LET kept == {i \in 1..Len(s) :
                 s[i] = Quote => i > 1 /\ s[i - 1] = Quote /\ Outside(s, i)}
      order == Ascending(kept, Len(s))
  IN  [k \in 1..Len(order) |-> s[order[k]]]

Fields(line, delimiter) ==
  LET cuts == {i \in 1..Len(line) : line[i] = delimiter /\ Outside(line, i)}
      pieces == Pieces(line, cuts)
  IN  [k \in 1..Len(pieces) |-> Trim(Unquoted(pieces[k]))]

-----------------------------------------------------------------------------
\* Columns: which one holds what, 0 where none does.

Cell(row, column) == IF column \in 1..Len(row) THEN row[column] ELSE <<>>
LooksLikeAddress(cell) == Len(cell) = 1 /\ cell[1] \in DOMAIN AddressWords
LooksLikePseudo(cell) == Len(cell) = 1 /\ cell[1] \in PseudoWords

\* A header that is a name of the column ranks before one that contains it.
Rank(cell, column) ==
  LET ranks == {HeaderRank[cell[i]][column] :
                  i \in {j \in 1..Len(cell) : cell[j] \in DOMAIN HeaderRank}}
      rank == Min(ranks \cup {Unranked})
  IN  IF Len(cell) = 1 \/ rank > 10 THEN rank ELSE rank + 10

FirstBest(ranks) ==
  LET found == {i \in 1..Len(ranks) : ranks[i] < Unranked}
  IN  IF found = {} THEN 0
      ELSE CHOOSE i \in found :
             \A j \in found : ranks[i] < ranks[j] \/ (ranks[i] = ranks[j] /\ i <= j)

FindColumn(headers, column) ==
  FirstBest([i \in 1..Len(headers) |-> Rank(headers[i], column)])

\* classifyHeaders(): a set, empty if no header names the addresses.  The data
\* begin behind the headers.
ByHeaders(headers) ==
  LET at(column) == FindColumn(headers, column)
      levels == SelectSeq(<<at("sub"), at("middle"), at("main")>>, LAMBDA i : i # 0)
  IN  IF at("ga") = 0 THEN {}
      ELSE {[start |-> 2, ga |-> at("ga"), dpt |-> at("dpt"), description |-> at("description"),
             names |-> IF levels = <<>> THEN <<at("name")>> ELSE levels]}

\* classifyByPosition(): the nine columns of ETS, or the first column that
\* holds addresses in at least four of five rows of a sample.
Fits(cell) == LooksLikeAddress(cell) \/ LooksLikePseudo(cell)

LooksLikeEts(sample) ==
  /\ \A i \in 1..Len(sample) : Len(sample[i]) = 9 /\ (sample[i][4] = <<>> \/ Fits(sample[i][4]))
  /\ \E i \in 1..Len(sample) : Fits(sample[i][4])

ByPosition(rows) ==
  LET few == SubSeq(rows, 1, Min({Len(rows), 10}))
      width == Max({Len(few[i]) : i \in 1..Len(few)})
      used(c) == {i \in 1..Len(few) : Cell(few[i], c) # <<>>}
      fits(c) == {i \in used(c) : Fits(few[i][c])}
      able == {c \in 1..width : used(c) # {} /\ 5 * Cardinality(fits(c)) >= 4 * Cardinality(used(c))}
      ga == Min(able)
  IN  IF LooksLikeEts(SubSeq(rows, 1, Min({Len(rows), 30})))
        THEN {[start |-> 1, ga |-> 4, dpt |-> 8, description |-> 7, names |-> <<3, 2, 1>>]}
      ELSE IF able = {} THEN {}
      ELSE {[start |-> 1, ga |-> ga, dpt |-> IF ga < width THEN ga + 1 ELSE 0,
             description |-> 0, names |-> <<ga - 1>>]}

-----------------------------------------------------------------------------
\* parseEtsCsv(): the rows whose address looks like one.  The first cell with
\* text among the names is the name, or else the description.

ParsedRow(row, m) ==
  LET description == Cell(row, m.description)
      named == {k \in 1..Len(m.names) : Cell(row, m.names[k]) # <<>>}
  IN  [ga |-> Cell(row, m.ga)[1], dpt |-> Cell(row, m.dpt), description |-> description,
       name |-> IF named = {} THEN description ELSE Cell(row, m.names[Min(named)])]

HeaderMap(rows) ==
  IF ByHeaders(rows[1]) # {} THEN ByHeaders(rows[1]) ELSE ByPosition(rows)

DataRows(rows, m) ==
  LET good == SelectSeq(SubSeq(rows, m.start, Len(rows)), LAMBDA r : LooksLikeAddress(Cell(r, m.ga)))
  IN  [i \in 1..Len(good) |-> ParsedRow(good[i], m)]

RowsOf(lines) == [i \in 1..Len(lines) |-> Fields(lines[i], Delimiter(lines[1]))]

ParsedRows(rows) ==
  IF rows = <<>> \/ HeaderMap(rows) = {} THEN <<>>
  ELSE DataRows(rows, CHOOSE m \in HeaderMap(rows) : TRUE)

ParseEtsCsv(text) == ParsedRows(RowsOf(Lines(text)))

-----------------------------------------------------------------------------
\* dptNormalize.ts, for a DPT that the registry has: the others are null.

NormalizeDpt(cell) ==
  IF Len(cell) # 1 \/ cell[1] \notin DOMAIN DptWords THEN Absent
  ELSE LET id == DptWords[cell[1]]
           subs == {d[2] : d \in {r \in RegisteredDpts : r[1] = id[1]}}
       IN  IF Len(id) = 2 THEN IF HasDpt(id) THEN id ELSE Absent
           ELSE IF subs = {} THEN Absent
           ELSE <<id[1], IF 1 \in subs THEN 1 ELSE Min(subs)>>     \* main only

-----------------------------------------------------------------------------
\* projectMap.ts

NoEntry == [raw |-> Absent]

Entry(raw, row) ==
  [raw |-> raw, dpt |-> NormalizeDpt(row.dpt), name |-> row.name,
   description |-> row.description]

\* Mutated form: the first entry of an address stays.
MapOfFirst(entries) ==
  [raw \in {entries[i].raw : i \in 1..Len(entries)} |->
     entries[CHOOSE i \in 1..Len(entries) :
               entries[i].raw = raw /\ \A j \in 1..i - 1 : entries[j].raw # raw]]

\* The Map that results from setting one entry after the other.
MapOf(entries) ==
  [raw \in {entries[i].raw : i \in 1..Len(entries)} |->
     entries[CHOOSE i \in 1..Len(entries) :
               entries[i].raw = raw /\ \A j \in i + 1..Len(entries) : entries[j].raw # raw]]

\* loadCsv(): a row whose address is out of range is skipped.
CsvEntries(rows) ==
  LET valid == SelectSeq(rows, LAMBDA r : GroupAddress(AddressWords[r.ga]) # {})
  IN  [i \in 1..Len(valid) |->
         Entry(CHOOSE raw \in GroupAddress(AddressWords[valid[i].ga]) : TRUE, valid[i])]

LoadCsv(text) == MapOf(CsvEntries(ParseEtsCsv(text)))

\* loadParsedEntries(): an entry that is none, a null in the list, throws, with
\* the entries before it in the map.
ReadableEntries(entries) ==
  LET broken == {i \in 1..Len(entries) : entries[i] = NoEntry}
  IN  IF broken = {} THEN entries ELSE SubSeq(entries, 1, Min(broken) - 1)

LoadParsed(entries) ==
  LET good == ReadableEntries(entries)
  IN  MapOf([i \in 1..Len(good) |-> Entry(good[i].raw, good[i])])

-----------------------------------------------------------------------------
\* The config node.  The entries that the editor has parsed come first, then
\* the CSV.  entryCount is set when loading has not thrown.

ProjectInit == project = [loaded |-> FALSE, map |-> <<>>, entryCount |-> 0, definition |-> Absent]

LoadedMap(d) ==
  IF d.parsed # <<>> THEN LoadParsed(d.parsed)
  ELSE IF Lines(d.csv) # <<>> THEN LoadCsv(d.csv) ELSE <<>>

DeployProject ==
  /\ ~project.loaded
  /\ \E d \in Definitions : \E map \in {LoadedMap(d)} :
       LET throws == d.parsed # <<>> /\ NoEntry \in {d.parsed[i] : i \in 1..Len(d.parsed)}
       IN  project' = [loaded |-> TRUE, map |-> map, definition |-> d,
                       entryCount |-> IF throws THEN 0 ELSE Cardinality(DOMAIN map)]

UnloadProject ==    \* the node is deployed anew, with another definition
  /\ project.loaded
  /\ project' = [loaded |-> FALSE, map |-> <<>>, entryCount |-> 0, definition |-> Absent]

ProjectNext == DeployProject \/ UnloadProject

-----------------------------------------------------------------------------
\* What ETS writes: the rows of a project in a layout of columns.

Doubled(cell) ==
  FoldLeft(LAMBDA s, c : s \o (IF c = Quote THEN <<Quote, Quote>> ELSE <<c>>), <<>>, cell)

WrittenCell(cell, layout) ==
  IF layout.quoted THEN <<Quote>> \o Doubled(cell) \o <<Quote>> ELSE cell

WrittenLine(cells, layout) ==
  FoldLeft(LAMBDA s, cell : s \o <<layout.delimiter>> \o WrittenCell(cell, layout),
           WrittenCell(cells[1], layout), Tail(cells))

WrittenRow(row, layout) ==
  [c \in 1..Len(layout.columns) |->
     IF layout.columns[c] \in DOMAIN row THEN row[layout.columns[c]] ELSE <<>>]

CsvText(rows, layout) ==
  LET lines == (IF layout.header = <<>> THEN <<>> ELSE <<layout.header>>)
                 \o [i \in 1..Len(rows) |-> WrittenRow(rows[i], layout)]
  IN  FoldLeft(LAMBDA s, cells : s \o WrittenLine(cells, layout) \o <<Newline>>,
               layout.start, lines)

-----------------------------------------------------------------------------
\* The map that a deploy leaves has what the project says: an entry for each
\* group address, the last one where it is repeated in some notation, with its
\* DPT and its name, whatever the layout, the quoting and the delimiter are;
\* parent rows, addresses out of range and foreign text add none.
Meant(d) ==
  LET rows == SelectSeq(d.rows, LAMBDA r : r.raw # Absent)
  IN  [raw \in {rows[i].raw : i \in 1..Len(rows)} |->
         LET last == Max({i \in 1..Len(rows) : rows[i].raw = raw})
         IN  [raw |-> raw, dpt |-> rows[last].meant, name |-> rows[last].shown]]

ProjectMapMatches ==
  project.loaded =>
    LET meant == Meant(project.definition)
    IN  /\ DOMAIN project.map = DOMAIN meant
        /\ \A raw \in DOMAIN meant :
             LET entry == project.map[raw]
             IN  meant[raw] = [raw |-> entry.raw, dpt |-> entry.dpt, name |-> entry.name]
        /\ project.entryCount \in {Cardinality(DOMAIN meant), 0}
=============================================================================
