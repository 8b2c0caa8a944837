-------------------------------- MODULE Cron --------------------------------
(***************************************************************************)
(* The cron expressions of src/util/cron.ts.  An expression is a sequence  *)
(* of fields, a field a set of pieces, a piece what lies between commas:   *)
(* [form, lo, hi, step], where form is "star", "value" (lo = hi) or        *)
(* "range", and a step that is not written is 1.                           *)
(***************************************************************************)
EXTENDS Integers, Sequences, FiniteSets

\* minute, hour, day of the month, month, day of the week
CronRanges ==
  <<[min |-> 0, max |-> 59], [min |-> 0, max |-> 23], [min |-> 1, max |-> 31],
    [min |-> 1, max |-> 12], [min |-> 0, max |-> 6]>>

\* An integer as text; a 7 that touches neither a digit nor a dash becomes 0 in
\* the last field, be it a value or a step.
SundayIsZero(n) == IF n = 7 THEN 0 ELSE n
DowPiece(p) ==
  [p EXCEPT !.lo = IF p.form = "value" THEN SundayIsZero(@) ELSE @,
            !.hi = IF p.form = "value" THEN SundayIsZero(@) ELSE @,
            !.step = SundayIsZero(@)]

PieceLow(p, range) == IF p.form = "star" THEN range.min ELSE p.lo
PieceHigh(p, range) == IF p.form = "star" THEN range.max ELSE p.hi

PieceFails(p, range) ==
  \/ p.step <= 0
  \/ PieceLow(p, range) < range.min \/ PieceHigh(p, range) > range.max
  \/ PieceLow(p, range) > PieceHigh(p, range)

ExpandPiece(p, range) ==
  {v \in PieceLow(p, range)..PieceHigh(p, range) : (v - PieceLow(p, range)) % p.step = 0}

\* The set of what compileCron() returns, empty where it throws; a compiled
\* expression is the sequence of the values of its fields.
CompileCron(expression) ==
  LET fields == [i \in 1..Len(expression) |->
                   IF i = 5 THEN {DowPiece(p) : p \in expression[i]} ELSE expression[i]]
  IN  IF \/ Len(fields) # 5
         \/ \E i \in 1..5 : fields[i] = {} \/ \E p \in fields[i] : PieceFails(p, CronRanges[i])
      THEN {}
      ELSE {[i \in 1..5 |-> UNION {ExpandPiece(p, CronRanges[i]) : p \in fields[i]}]}

\* Mutated form: both days have to match.
CronMatchesBoth(compiled, date) == \A i \in 1..5 : date[i] \in compiled[i]

\* A date has the five fields.  Where both days are restricted, one suffices.
CronMatches(compiled, date) ==
  LET day(i) == date[i] \in compiled[i]
      restricted(i) == Cardinality(compiled[i]) # CronRanges[i].max - CronRanges[i].min + 1
  IN  /\ day(1) /\ day(2) /\ day(4)
      /\ IF restricted(3) /\ restricted(5) THEN day(3) \/ day(5) ELSE day(3) /\ day(5)
=============================================================================
