--------------------------- MODULE MessageFilters ---------------------------
(***************************************************************************)
(* The filter nodes of src/nodes/dedupe/dedupe.ts and                      *)
(* src/nodes/rate-limit/rateLimit.ts: each keeps a map from the key of a   *)
(* message to what it remembers of that key, reads the clock once for each *)
(* message, and passes or drops the message in the same turn.              *)
(*                                                                         *)
(* A payload has a type and, as its content, a sequence: the one value of  *)
(* a primitive, the bytes of a Buffer, the items of an array, the <<key,   *)
(* value>> pairs of an object in the order of its keys.  A Date has the    *)
(* type "date" and its time as content; it has no keys of its own.         *)
(***************************************************************************)
EXTENDS Clock, Sequences, FiniteSets

CONSTANTS
  Topics,      \* values of msg.topic; those that are no string count as ""
  Payloads,    \* values of msg.payload
  PerTopic,    \* the setting `perTopic`, for both nodes
  Window,      \* windowMs of both nodes
  MaxPerWindow \* of the rate limiter

ASSUME FilterAssumption ==
  PerTopic \in BOOLEAN /\ Window \in Nat /\ MaxPerWindow \in Nat \ {0}

VARIABLES dedupe, limiter

GlobalKey == "__global__"
Keys == IF PerTopic THEN Topics ELSE {GlobalKey}
Key(topic) == IF PerTopic THEN topic ELSE GlobalKey

-----------------------------------------------------------------------------
\* payloadsEqual() and canon().

ObjectTypes == {"object", "array", "buffer", "date"}
Contents(p) == {p.content[i] : i \in 1..Len(p.content)}

\* Mutated form: only the keys are compared.
CanonKeys(p) ==
  CASE p.type = "object" -> <<"object", {c[1] : c \in Contents(p)}>>
    [] p.type = "date" -> <<"object", {}>>
    [] OTHER -> <<p.type, p.content>>

\* Sorted keys: the order does not count.  A Date has no keys.
Canon(p) ==
  CASE p.type = "object" -> <<"object", Contents(p)>>
    [] p.type = "date" -> <<"object", {}>>
    [] OTHER -> <<p.type, p.content>>

PayloadsEqual(a, b) ==
  \/ a = b
  \/ a.type \in ObjectTypes /\ b.type \in ObjectTypes /\ Canon(a) = Canon(b)

-----------------------------------------------------------------------------
\* dedupe.ts.  A slot keeps the last payload that was passed and the time of
\* the last message.  Beside it, for the properties: what came and what went.

NoSlot == [used |-> FALSE]
Slot(p) == [used |-> TRUE, ts |-> now, payload |-> p]

DedupeInit == dedupe = [last |-> [k \in Keys |-> NoSlot],
                        received |-> [k \in Keys |-> NoSlot],
                        passed |-> [k \in Keys |-> NoSlot]]

Repeats(k, p) ==
  /\ dedupe.last[k].used
  /\ now - dedupe.last[k].ts < Window
  /\ PayloadsEqual(dedupe.last[k].payload, p)

DedupeInput ==
  \E topic \in Topics, p \in Payloads :
    LET k == Key(topic)
    IN  dedupe' =
          [dedupe EXCEPT
             !.received[k] = Slot(p),
             !.last[k] = IF Repeats(k, p) THEN [@ EXCEPT !.ts = now] ELSE Slot(p),
             !.passed[k] = IF Repeats(k, p) THEN @ ELSE Slot(p)]

\* The node is closed, and made again by a deploy.
DedupeClose == dedupe' = [dedupe EXCEPT !.last = [k \in Keys |-> NoSlot]]

-----------------------------------------------------------------------------
\* rateLimit.ts.  A bucket keeps the times of the messages it let through.

LimiterInit == limiter = [buckets |-> [k \in Keys |-> <<>>],
                          passed |-> [k \in Keys |-> <<>>],   \* the times of all that passed
                          dropped |-> [k \in Keys |-> {}]]    \* and of those dropped

\* The first of the times that are not before the cutoff, or one past the last:
\* what is before it is shifted off.
FirstKept(bucket, cutoff) ==
  CHOOSE n \in 1..Len(bucket) + 1 :
    /\ \A i \in 1..n - 1 : bucket[i] < cutoff
    /\ n <= Len(bucket) => bucket[n] >= cutoff

\* Mutated form: a message at the very end of the window is forgotten.
EvictedEarly(bucket) ==
  SubSeq(bucket, FirstKept(bucket, now - Window + 1), Len(bucket))

Evicted(bucket) == SubSeq(bucket, FirstKept(bucket, now - Window), Len(bucket))

LimiterInput ==
  \E topic \in Topics :
    LET k == Key(topic)
        bucket == Evicted(limiter.buckets[k])
        full == Len(bucket) >= MaxPerWindow
    IN  limiter' =
          [limiter EXCEPT
             !.buckets[k] = IF full THEN bucket ELSE Append(bucket, now),
             !.passed[k] = IF full THEN @ ELSE Append(@, now),
             !.dropped[k] = IF full THEN @ \cup {now} ELSE @]

LimiterClose == limiter' = [limiter EXCEPT !.buckets = [k \in Keys |-> <<>>],
                                           !.passed = [k \in Keys |-> <<>>],
                                           !.dropped = [k \in Keys |-> {}]]

-----------------------------------------------------------------------------

DedupeNext ==
  \/ (DedupeInput \/ DedupeClose) /\ UNCHANGED now
  \/ Tick /\ UNCHANGED dedupe

LimiterNext ==
  \/ (LimiterInput \/ LimiterClose) /\ UNCHANGED now
  \/ Tick /\ UNCHANGED limiter

DedupeSpec == ClockInit /\ DedupeInit /\ [][DedupeNext]_<<now, dedupe>>
LimiterSpec == ClockInit /\ LimiterInit /\ [][LimiterNext]_<<now, limiter>>

-----------------------------------------------------------------------------
\* Dropping repeats never hides a change: what the nodes behind the filter saw
\* last under a key is what came last under it, whatever the order of messages,
\* refreshed slots and expired windows.  Two Dates are told apart here.
Same(a, b) ==
  a.type = b.type /\ IF a.type = "object" THEN Contents(a) = Contents(b)
                     ELSE a.content = b.content

NoChangeLost ==
  \A k \in Keys : dedupe.received[k].used =>
    dedupe.passed[k].used /\ Same(dedupe.passed[k].payload, dedupe.received[k].payload)

\* In no window that ends with a message have more than MaxPerWindow messages of
\* a key passed, and a message was dropped only where that many had.
PassedWithin(k, t) == {i \in 1..Len(limiter.passed[k]) : limiter.passed[k][i] \in (t - Window)..t}

RateHolds ==
  \A k \in Keys, t \in 0..now :
    /\ Cardinality(PassedWithin(k, t)) <= MaxPerWindow
    /\ t \in limiter.dropped[k] => Cardinality(PassedWithin(k, t)) = MaxPerWindow
=============================================================================
