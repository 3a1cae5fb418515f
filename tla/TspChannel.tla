----------------------------- MODULE TspChannel -----------------------------
(***************************************************************************)
(* The Traffic Specification Protocol (TSP) as ITGSend and ITGRecv see it: *)
(* the message types of common/ITG.h and the TCP connections that carry    *)
(* them.  A signalling connection is named after the flow whose parser     *)
(* opened it (identifySignalManager opens at most one per flow), so Flows  *)
(* is also the set of connections.                                         *)
(*                                                                         *)
(* TCP neither loses nor reorders, so each direction is a FIFO.  The one   *)
(* byte type and the flow identifier that may follow it are one message:   *)
(* both ends read them with consecutive recv() calls.                      *)
(***************************************************************************)
EXTENDS Naturals, Sequences

CONSTANTS
  Flows,    \* flow identifiers, the indices of flows[] in ITGSend
  Hosts,    \* addresses of the ITGRecv processes
  Dest,     \* Dest[f]: the signalling destination of flow f (SigDestHost)
  NoFlow    \* "no flow" in a message, "no connection" in a channel slot

ASSUME FlowAssumption ==
  /\ NoFlow \notin Flows
  /\ Dest \in [Flows -> Hosts]

FlowTypes   == {"SEND_FLOW", "CLOSED_FLOW", "CLOSED_ERR",
                "ACK_SEND_FLOW", "ACK_CLOSED_FLOW",
                "ERR_MSG_2", "ERR_MSG_3", "ERR_MSG_5"}
PlainTypes  == {"CONNECT", "ACK_CONNECT", "RELEASE", "ACK_RELEASE",
                "DISCOVERY", "ACK_DISCOVERY",
                "SEND_NAME_LOG", "ACK_SEND_NAME_LOG"}

Messages == [type : FlowTypes, flow : Flows] \cup [type : PlainTypes, flow : {NoFlow}]

Msg(t, f) == [type |-> t, flow |-> f]
Plain(t)  == [type |-> t, flow |-> NoFlow]

VARIABLES
  connOpen,  \* connOpen[g]: the sender's end of connection g is open
  toRecv,    \* toRecv[g]: bytes from ITGSend that ITGRecv has not read
  toSend,    \* toSend[g]: bytes from ITGRecv that ITGSend has not read
  hostUp     \* hostUp[h]: ITGRecv runs on host h; its exit closes its connections

netVars == <<connOpen, toRecv, toSend>>

NetTypeOK ==
  /\ connOpen \in [Flows -> BOOLEAN]
  /\ toRecv \in [Flows -> Seq(Messages)]
  /\ toSend \in [Flows -> Seq(Messages)]

NetInit ==
  /\ connOpen = [g \in Flows |-> FALSE]
  /\ toRecv = [g \in Flows |-> <<>>]
  /\ toSend = [g \in Flows |-> <<>>]

\* send() by either end.
SenderSends(g, m)   == toRecv' = [toRecv EXCEPT ![g] = Append(@, m)]
ReceiverSends(g, m) == toSend' = [toSend EXCEPT ![g] = Append(@, m)]

\* recv() by either end takes the oldest message.
SenderTakes(g)   == toSend' = [toSend EXCEPT ![g] = Tail(@)]
ReceiverTakes(g) == toRecv' = [toRecv EXCEPT ![g] = Tail(@)]

\* The receiver's end of connection g, or of the data connection of flow g, is gone:
\* recv() returns 0 or an error, with or without what is still in toSend[g].
PeerGone(g) == ~hostUp[Dest[g]]
=============================================================================
