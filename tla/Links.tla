------------------------------- MODULE Links --------------------------------
(***************************************************************************)
(* The parts of src/io beside the connection itself: the two directions of *)
(* the tunnel, the secure session, the send queue and the discovery.       *)
(* Their models share no state.  A behaviour picks one of them and is a    *)
(* behaviour of that part, fairness included, the others staying as they   *)
(* began.                                                                  *)
(***************************************************************************)
EXTENDS TunnelSend, TunnelReceive, SecureSession, SerialQueue, Discovery

VARIABLE part

linksVars == <<part, sendVars, receiveVars, sessionVars, queueVars, search>>

LinksInit ==
  /\ part \in {"send", "receive", "session", "queue", "discovery"}
  /\ SendInit /\ ReceiveInit /\ SessionInit /\ QueueInit /\ DiscoveryInit

LinksNext ==
  /\ part' = part
  /\ IF part = "send" THEN SendNext ELSE UNCHANGED sendVars
  /\ IF part = "receive" THEN ReceiveNext ELSE UNCHANGED receiveVars
  /\ IF part = "session" THEN SessionNext ELSE UNCHANGED sessionVars
  /\ IF part = "queue" THEN QueueNext ELSE UNCHANGED queueVars
  /\ IF part = "discovery" THEN DiscoveryNext ELSE UNCHANGED search

LinksSpec ==
  /\ LinksInit /\ [][LinksNext]_linksVars
  /\ SessionFairness /\ QueueFairness /\ DiscoveryFairness
=============================================================================
