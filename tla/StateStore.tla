----------------------------- MODULE StateStore -----------------------------
(***************************************************************************)
(* The state store of src/nodes/state-store/stateStore.ts: a map from the  *)
(* raw group address to the last message for it, in the order in which the *)
(* addresses came in.  It is kept in memory only.  A topic is an address   *)
(* in any notation.                                                        *)
(***************************************************************************)
EXTENDS Telegrams, FiniteSets, SequencesExt

CONSTANTS
  StoreTopics,    \* msg.topic, where there is one
  StorePayloads,  \* msg.payload
  Caps            \* values of the setting maxEntries; 0 is no limit

ASSUME StoreAssumption == Caps \subseteq Nat

VARIABLE store

NothingSet == [raw \in {} |-> Absent]

StoreOf(cap) ==
  [cap |-> cap, entries |-> <<>>,
   answer |-> <<>>,                     \* what the last 'get' or 'list' emitted
   latest |-> NothingSet]               \* what was set, and not cleared since

StoreInit == \E cap \in Caps : store = StoreOf(cap)

StoredIn(entries) == {entries[i].raw : i \in 1..Len(entries)}
PlaceOf(entries, raw) == CHOOSE i \in 1..Len(entries) : entries[i].raw = raw

\* Map.delete() of a key, which need not be there.
Without(entries, raw) ==
  IF raw \in StoredIn(entries) THEN RemoveAt(entries, PlaceOf(entries, raw)) ELSE entries

\* Map.set() keeps the place of a key that is there.
PutEntry(entries, raw, p) ==
  IF raw \in StoredIn(entries)
  THEN [entries EXCEPT ![PlaceOf(entries, raw)] = [raw |-> raw, payload |-> p]]
  ELSE Append(entries, [raw |-> raw, payload |-> p])

\* Mutated form: an address that is stored evicts one too.
RoomForAny(raw) ==
  IF store.cap > 0 /\ Len(store.entries) >= store.cap
  THEN Tail(store.entries) ELSE store.entries

\* The oldest entry makes room, but not for an address that is stored.
RoomFor(raw) ==
  IF store.cap > 0 /\ raw \notin StoredIn(store.entries) /\ Len(store.entries) >= store.cap
  THEN Tail(store.entries) ELSE store.entries

\* 'set', the default; a topic that is missing or no address is an error.
SetState ==
  \E topic \in StoreTopics, p \in StorePayloads :
    \E raw \in GroupAddress(topic) :
      store' = [store EXCEPT
        !.entries = PutEntry(RoomFor(raw), raw, p),
        !.latest = [r \in DOMAIN @ \cup {raw} |-> IF r = raw THEN p ELSE @[r]]]

GetState ==
  \E topic \in StoreTopics : \E raw \in GroupAddress(topic) :
      store' = [store EXCEPT !.answer =
        IF raw \in StoredIn(store.entries)
        THEN <<store.entries[PlaceOf(store.entries, raw)]>> ELSE <<>>]

ListStates == store' = [store EXCEPT !.answer = store.entries]

\* 'clear' of one address; what is no address has no effect.
ClearState ==
  \E topic \in StoreTopics : \E raw \in GroupAddress(topic) :
      store' = [store EXCEPT !.entries = Without(@, raw),
                             !.latest = [r \in DOMAIN @ \ {raw} |-> @[r]]]

\* 'clear' without a topic, and the node's close.
ClearStates == store' = [store EXCEPT !.entries = <<>>, !.latest = NothingSet]

StoreNext == SetState \/ GetState \/ ListStates \/ ClearState \/ ClearStates

StoreSpec == StoreInit /\ [][StoreNext]_store

-----------------------------------------------------------------------------
\* Whatever notation an address comes in: the store holds and answers, once each
\* and within its cap, the latest values of addresses that were set and not
\* cleared since; and only a new address in a full store takes the place of
\* another.
Lost == StoredIn(store.entries) \ StoredIn(store'.entries)
Gained == StoredIn(store'.entries) \ StoredIn(store.entries)

StoreHoldsLatest ==
  [][/\ Cardinality(StoredIn(store'.entries)) = Len(store'.entries)
     /\ store.cap > 0 => Len(store'.entries) <= store.cap
     /\ \A e \in ToSet(store'.entries) : e.payload = store'.latest[e.raw]
     /\ store'.answer # store.answer =>
          \A e \in ToSet(store'.answer) : e.payload = store'.latest[e.raw]
     /\ \A raw \in Lost \cap DOMAIN store'.latest :
          Gained # {} /\ raw = store.entries[1].raw /\ Len(store.entries) = store.cap]_store
=============================================================================
