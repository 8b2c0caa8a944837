----------------------------- MODULE Discovery ------------------------------
(***************************************************************************)
(* discoverGateways() of src/io/discovery.ts, and the endpoint of          *)
(* src/nodes/config/config.ts that awaits it: one socket, a search request *)
(* to the multicast group, and the responses until a timer ends.           *)
(***************************************************************************)
EXTENDS Integers, Sequences, FiniteSets

CONSTANTS
  Responses,     \* search responses: [endpoint, name]
  MaxResponses   \* bound: datagrams in all

ASSUME DiscoveryAssumption == MaxResponses \in Nat

VARIABLE search

\* found is the Map, in the order of insertion; heard is every response that
\* came while the socket was open.
DiscoveryInit ==
  search = [pc |-> "idle", socket |-> "none", timer |-> FALSE, sending |-> FALSE,
            found |-> <<>>, heard |-> <<>>, datagrams |-> 0, answer |-> "none"]

\* createSocket(), the listeners, bind().
Discover ==
  /\ search.pc = "idle"
  /\ search' = [search EXCEPT !.pc = "searching", !.socket = "binding"]

\* Mutated form: the socket stays open when the search fails.
SettledLeaky(s, answer) ==
  IF s.pc # "searching" THEN s
  ELSE [s EXCEPT !.pc = "settled", !.answer = answer,
                 !.socket = IF answer = "gateways" THEN "closed" ELSE @]

\* settle(): once; the socket is closed and the promise settles.
Settled(s, answer) ==
  IF s.pc # "searching" THEN s
  ELSE [s EXCEPT !.pc = "settled", !.answer = answer, !.socket = "closed"]

\* 'listening': the socket options may throw.  If they do not, the request is
\* sent and the timer runs, whatever becomes of the sending.
Listening ==
  /\ search.socket = "binding"
  /\ \/ search' = Settled([search EXCEPT !.socket = "listening"], "error")
     \/ search' = [search EXCEPT !.socket = "listening", !.sending = TRUE, !.timer = TRUE]

SearchSent ==
  /\ search.sending
  /\ \E failed \in BOOLEAN :
       search' = LET s == [search EXCEPT !.sending = FALSE]
                 IN  IF failed THEN Settled(s, "error") ELSE s

\* 'error', at any time before the socket is closed: a bind that fails too.
SearchError ==
  /\ search.socket \in {"binding", "listening"}
  /\ search' = Settled(search, "error")

SearchTimeout ==
  /\ search.timer
  /\ search' = Settled([search EXCEPT !.timer = FALSE], "gateways")

Endpoints(s) == {s[i].endpoint : i \in 1..Len(s)}

FoundAfter(found, r) == IF r.endpoint \in Endpoints(found) THEN found ELSE Append(found, r)

\* 'message': a response, or a datagram that is none (Foreign).
Foreign == [endpoint |-> "none", name |-> "none"]
SearchMessage ==
  /\ search.socket = "listening" /\ search.datagrams < MaxResponses
  /\ \E r \in Responses \cup {Foreign} :
       search' = IF r = Foreign THEN [search EXCEPT !.datagrams = @ + 1]
                 ELSE [search EXCEPT !.datagrams = @ + 1,
                                     !.found = FoundAfter(@, r), !.heard = Append(@, r)]

DiscoveryNext ==
  Discover \/ Listening \/ SearchSent \/ SearchError \/ SearchTimeout \/ SearchMessage

DiscoverySpec == DiscoveryInit /\ [][DiscoveryNext]_search

\* The socket listens or fails, and a timer that runs ends.
DiscoveryFairness ==
  /\ WF_search(Listening \/ (search.socket = "binding" /\ SearchError))
  /\ WF_search(SearchTimeout)

-----------------------------------------------------------------------------
\* Each gateway that answered while the socket was open, at the place and with
\* the name of its first answer.
FirstAnswers ==
  /\ Endpoints(search.found) = Endpoints(search.heard)
  /\ \A i \in 1..Len(search.found) :
       \E k \in 1..Len(search.heard) :
         /\ search.heard[k] = search.found[i]
         /\ Endpoints(SubSeq(search.heard, 1, k - 1)) = Endpoints(SubSeq(search.found, 1, i - 1))

\* The promise of a search settles, whatever fails and whatever races the
\* timer; then its socket is closed for good, and what was found is the first
\* answer of each gateway.
DiscoverySettles ==
  search.pc = "searching" ~>
    [](search.pc = "settled" /\ search.socket = "closed" /\ FirstAnswers)
=============================================================================
