----------------------------- MODULE ConfigNode -----------------------------
(***************************************************************************)
(* The config node of src/nodes/config/config.ts with its TunnelClient:    *)
(* attach(), detach() and the 'close' handler on top of the connection     *)
(* side of the tunnel.  The child nodes (listener, status, watchdog and    *)
(* writer) attach when Node-RED creates them and detach when it closes     *)
(* them; a partial deploy does both to some while others stay.             *)
(*                                                                         *)
(* The node is the owner of the client: its calls of connect() and         *)
(* disconnect() are the only ones.  It does not wait for them; their       *)
(* rejections are reported as errors of the node.                          *)
(***************************************************************************)
EXTENDS TunnelClient

CONSTANTS
  Children,    \* ids of the child nodes
  AttachWhen   \* situations of the client in which a first child attaches

ASSUME AttachWhenAssumption == AttachWhen \subseteq Situations

VARIABLES
  refs,       \* the ids that are attached
  closed,     \* the config node itself was closed
  reported    \* the node has reported that its last connect() failed

nodeVars == <<vars, refs, closed, reported>>

NodeInit == Init /\ refs = {} /\ closed = FALSE /\ reported = FALSE

\* connect() of p rejects in this step.
ConnectRejects(p) == tc'.conn[p] = "idle" /\ tc'.state # "connected"

Attach(c) ==
  /\ ~closed
  /\ c \notin refs
  /\ refs' = refs \cup {c}
  /\ IF refs = {}
     THEN /\ Situation(tc) \in AttachWhen
          /\ \E p \in Callers : ConnectCall(p) /\ reported' = ConnectRejects(p)
     ELSE UNCHANGED <<vars, reported>>
  /\ UNCHANGED closed

\* A child that leaves after the node was closed finds nobody left either, and
\* disconnects once more.
Detach(c) ==
  /\ Quiet
  /\ c \in refs \/ closed
  /\ refs' = refs \ {c}
  /\ IF refs \subseteq {c} THEN \E d \in Closers : DisconnectCall(d) ELSE UNCHANGED vars
  /\ UNCHANGED <<closed, reported>>

\* The 'close' handler; Node-RED waits until its disconnect() has returned.
Close ==
  /\ ~closed
  /\ closed' = TRUE
  /\ refs' = {}
  /\ \E d \in Closers : DisconnectCall(d)
  /\ UNCHANGED reported

\* A writer sends, or the client does something of its own.
ClientStep ==
  /\ \/ refs # {} /\ SendCemi
     \/ FrameReceived \/ SocketEvent \/ TimerFires \/ Continuation
  /\ reported' = \/ reported
                 \/ \E p \in Callers : tc.conn[p] # "idle" /\ ConnectRejects(p)
  /\ UNCHANGED <<refs, closed>>

NodeNext ==
  \/ \E c \in Children : Attach(c) \/ Detach(c)
  \/ Close
  \/ ClientStep

NodeSpec == NodeInit /\ [][NodeNext]_nodeVars

NodeFairSpec == NodeSpec /\ ClientFairness

-----------------------------------------------------------------------------

Served == tc.state = "connected"

\* A tunnel with children comes up if the gateway keeps answering, or the node
\* has reported that its connect() failed; unless a disconnect() has met a
\* reconnect loop.
ServedOrReported ==
  GatewayFairness =>
    ( refs # {} /\ user.habit \subseteq {"connected"}
        ~> (refs = {} \/ Served \/ reported) )

\* config.ts:3-4, "first attach connects": a first child that attaches finds the
\* tunnel up or sets out to connect it.
FirstAttachConnects ==
  [][ refs = {} /\ refs' # {} => tc'.state \in {"connecting", "connected"} ]_nodeVars

CallsReturned ==
  /\ \A d \in Closers : tc.closer[d] = "idle"
  /\ \A p \in Callers : tc.conn[p] = "idle"

\* config.ts:3-4, "last detach disconnects": a node without children whose
\* calls have returned has no tunnel, nor is it on its way to one.
DetachedIsDown ==
  refs = {} /\ CallsReturned => tc.state = "disconnected" /\ tc.loop = "none"

\* config.ts:3-4, "last detach disconnects": the client is taken down only when
\* nobody is attached any more.
NoDisconnectUnderChildren ==
  [][ (tc'.state = "disconnecting" /\ tc.state # "disconnecting")
        => refs' = {} ]_nodeVars
=============================================================================
