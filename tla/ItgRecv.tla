------------------------------ MODULE ItgRecv ------------------------------
(***************************************************************************)
(* ITGRecv in active mode: main accepts signalling connections and starts  *)
(* one signalManager thread (a session) for each; the session keeps a      *)
(* table of the flows it serves and starts one data thread (tcpSock,       *)
(* udpSock or icmpSock) per flow, which reports to it through rPipe.       *)
(*                                                                         *)
(* The session reads its pipe before its socket, but a report may be       *)
(* written just after select() returned: both are allowed here.            *)
(***************************************************************************)
EXTENDS TspChannel, Integers

CONSTANTS
  Interruptible,   \* hosts whose ITGRecv may be stopped with Ctrl-C
  Multiport,       \* built with MULTIPORT, the default: flows may share a port
  Proto,           \* Proto[f]: the protocol of the data of flow f
  Ports,           \* entries of sharedTcpSockets[] or sharedUdpSockets[] of a receiver
  Port             \* Port[f]: the entry of the port of flow f (an ICMP flow uses none)

ASSUME ReceiverAssumption ==
  /\ Interruptible \subseteq Hosts
  /\ Multiport \in BOOLEAN
  /\ Proto \in [Flows -> {"TCP", "UDP", "ICMP"}]
  /\ Port \in [Flows -> Ports]
  /\ \A f, g \in Flows : Port[f] = Port[g] => Dest[f] = Dest[g] /\ Proto[f] = Proto[g]

UsesPort(f) == Multiport /\ Proto[f] # "ICMP"

VARIABLES
  session,    \* session[g]: the signalManager thread of connection g
  table,      \* table[g]: the flows in its flowIdNum[]
  rPipe,      \* rPipe[g]: reports of its data threads, not yet read
  discovery,  \* discovery[g]: its numDiscovery
  thread,     \* thread[f]: the data thread of flow f
  home,       \* home[f]: the session that started the data thread of flow f
  portLock,   \* portLock[p]: the data thread that has mutexSharedSockets of entry p
  portOpen,   \* portOpen[p]: the socket of entry p is open
  inUse       \* inUse[p]: the inUse of entry p

portVars == <<portLock, portOpen, inUse>>
recvVars == <<session, table, rPipe, discovery, hostUp, thread, home, portLock, portOpen, inUse>>

\* A session that closes a flow waits for the mutex of its port.
Closing     == {"closingFlow", "closingErr"}
SessionPCs  == {"none", "connect", "serve", "released", "senderDown"} \cup Closing
ThreadPCs   == {"none", "starting", "listening", "receiving",
                "failed",     \* reported an error, asleep
                "reaped",     \* cancelled after its report was read
                "cancelled"}  \* cancelled because the sender closed the flow
ReportCodes == {"OK", "ERR1", "ERR2", "ERR_SOCK"}
Report(code, f) == [code |-> code, flow |-> f]
Reports     == [code : ReportCodes, flow : Flows]

RecvTypeOK ==
  /\ session \in [Flows -> SessionPCs]
  /\ table \in [Flows -> SUBSET Flows]
  /\ rPipe \in [Flows -> Seq(Reports)]
  /\ discovery \in [Flows -> 0 .. 1]
  /\ hostUp \in [Hosts -> BOOLEAN]
  /\ thread \in [Flows -> ThreadPCs]
  /\ home \in [Flows -> Flows \cup {NoFlow}]
  /\ portLock \in [Ports -> Flows \cup {NoFlow}]
  /\ portOpen \in [Ports -> BOOLEAN]
  /\ inUse \in [Ports -> Int]

RecvInit ==
  /\ session = [g \in Flows |-> "none"]
  /\ table = [g \in Flows |-> {}]
  /\ rPipe = [g \in Flows |-> <<>>]
  /\ discovery = [g \in Flows |-> 0]
  /\ hostUp = [h \in Hosts |-> TRUE]
  /\ thread = [f \in Flows |-> "none"]
  /\ home = [f \in Flows |-> NoFlow]
  /\ portLock = [p \in Ports |-> NoFlow]
  /\ portOpen = [p \in Ports |-> FALSE]
  /\ inUse = [p \in Ports |-> 0]
-----------------------------------------------------------------------------
Serving(g) == hostUp[Dest[g]] /\ session[g] = "serve"

SetThread(f, pc) == thread' = [thread EXCEPT ![f] = pc]

\* sendPipeMsg to the session; a closed rPipe takes nothing.
PushReport(f, code) ==
  LET g == home[f] IN
  rPipe' = IF session[g] \notin {"serve"} \cup Closing THEN rPipe
           ELSE [rPipe EXCEPT ![g] = Append(@, Report(code, f))]

\* A flow that failed: its thread is cancelled and its entry is free.  The port is
\* left as it is.
DropFlow(g, f) ==
  /\ table' = [table EXCEPT ![g] = @ \ {f}]
  /\ SetThread(f, "reaped")

\* A message read from the socket; every read resets numDiscovery.
OnMessage(g, type) ==
  /\ Serving(g)
  /\ toRecv[g] # <<>>
  /\ Head(toRecv[g]).type = type
  /\ ReceiverTakes(g)
  /\ discovery' = [discovery EXCEPT ![g] = 0]
-----------------------------------------------------------------------------
(* signalManager *)

\* main accepts the connection and starts the session.
AcceptSession(g) ==
  /\ hostUp[Dest[g]] /\ connOpen[g] /\ session[g] = "none"
  /\ session' = [session EXCEPT ![g] = "connect"]
  /\ UNCHANGED <<table, rPipe, discovery, thread, hostUp, home, portVars, netVars>>

Connected(g) ==
  /\ hostUp[Dest[g]] /\ session[g] = "connect"
  /\ toRecv[g] # <<>> /\ Head(toRecv[g]) = Plain("CONNECT")
  /\ ReceiverTakes(g)
  /\ ReceiverSends(g, Plain("ACK_CONNECT"))
  /\ session' = [session EXCEPT ![g] = "serve"]
  /\ UNCHANGED <<table, rPipe, discovery, thread, hostUp, home, portVars, connOpen>>

\* allowedLogFile opens the file; if it cannot, reportErrorAndExit ends the
\* process.  ERR_MSG_4 is never sent: allowedLogFile does not return NULL.
NameLog(g) ==
  /\ OnMessage(g, "SEND_NAME_LOG")
  /\ \/ ReceiverSends(g, Plain("ACK_SEND_NAME_LOG")) /\ UNCHANGED hostUp
     \/ hostUp' = [hostUp EXCEPT ![Dest[g]] = FALSE] /\ UNCHANGED toSend
  /\ UNCHANGED <<session, table, rPipe, thread, home, portVars, connOpen>>

\* typeParser, SEND_FLOW: an entry of the table and a data thread.
SendFlow(g) ==
  LET f == Head(toRecv[g]).flow IN
  /\ OnMessage(g, "SEND_FLOW")
  /\ table' = [table EXCEPT ![g] = @ \cup {f}]
  /\ SetThread(f, "starting")
  /\ home' = [home EXCEPT ![f] = g]
  /\ UNCHANGED <<session, rPipe, hostUp, portVars, connOpen, toSend>>

\* Mutant: the search for the flow stops at the first entry in use.
ClosedFlowFirst(g) ==
  /\ OnMessage(g, "CLOSED_FLOW")
  /\ IF table[g] # {}
     THEN /\ \E other \in table[g] : SetThread(other, "cancelled")
          /\ session' = [session EXCEPT ![g] = "closingFlow"]
     ELSE UNCHANGED <<session, thread>>
  /\ UNCHANGED <<table, rPipe, hostUp, home, portVars, connOpen, toSend>>

\* typeParser, CLOSED_FLOW, for a flow of the table: its thread is cancelled.
ClosedFlow(g) ==
  LET f == Head(toRecv[g]).flow IN
  /\ OnMessage(g, "CLOSED_FLOW")
  /\ IF f \in table[g]
     THEN SetThread(f, "cancelled") /\ session' = [session EXCEPT ![g] = "closingFlow"]
     ELSE UNCHANGED <<session, thread>>
  /\ UNCHANGED <<table, rPipe, hostUp, home, portVars, connOpen, toSend>>

\* Mutant: CLOSED_ERR is answered as CLOSED_FLOW is.
ClosedErrAnswered(g) ==
  LET f == Head(toRecv[g]).flow IN
  /\ OnMessage(g, "CLOSED_ERR")
  /\ IF f \in table[g]
     THEN SetThread(f, "cancelled") /\ session' = [session EXCEPT ![g] = "closingFlow"]
     ELSE UNCHANGED <<session, thread>>
  /\ UNCHANGED <<table, rPipe, hostUp, home, portVars, connOpen, toSend>>

\* typeParser, CLOSED_ERR: the same.
ClosedErr(g) ==
  LET f == Head(toRecv[g]).flow IN
  /\ OnMessage(g, "CLOSED_ERR")
  /\ IF f \in table[g]
     THEN SetThread(f, "cancelled") /\ session' = [session EXCEPT ![g] = "closingErr"]
     ELSE UNCHANGED <<session, thread>>
  /\ UNCHANGED <<table, rPipe, hostUp, home, portVars, connOpen, toSend>>

\* Flow f leaves its port: the last one closes the socket.
LeavePort(f) ==
  LET p == Port[f] IN
  IF UsesPort(f)
  THEN /\ portLock[p] = NoFlow
       /\ inUse' = [inUse EXCEPT ![p] = @ - 1]
       /\ portOpen' = [portOpen EXCEPT ![p] = @ /\ inUse[p] # 1]
       /\ UNCHANGED portLock
  ELSE UNCHANGED portVars

\* The rest of CLOSED_FLOW and CLOSED_ERR, once the mutex of the port is free: the
\* entry of the flow is free, and CLOSED_FLOW is acknowledged.
FlowClosed(g) ==
  /\ hostUp[Dest[g]] /\ session[g] \in Closing
  /\ \E f \in table[g] :
       /\ thread[f] = "cancelled"
       /\ LeavePort(f)
       /\ table' = [table EXCEPT ![g] = @ \ {f}]
       /\ IF session[g] = "closingFlow" THEN ReceiverSends(g, Msg("ACK_CLOSED_FLOW", f))
                                        ELSE UNCHANGED toSend
  /\ session' = [session EXCEPT ![g] = "serve"]
  /\ UNCHANGED <<rPipe, discovery, hostUp, thread, home, connOpen, toRecv>>

\* RELEASE ends the session; the data threads are left as they are.
Release(g) ==
  /\ OnMessage(g, "RELEASE")
  /\ ReceiverSends(g, Plain("ACK_RELEASE"))
  /\ session' = [session EXCEPT ![g] = "released"]
  /\ UNCHANGED <<table, rPipe, thread, hostUp, home, portVars, connOpen>>

\* ACK_DISCOVERY matches no case: only numDiscovery is reset.
DiscoveryAnswered(g) ==
  /\ OnMessage(g, "ACK_DISCOVERY")
  /\ UNCHANGED <<session, table, rPipe, thread, hostUp, home, portVars, connOpen, toSend>>

\* Mutant: DISCOVERY is sent again without an answer to the last one.
DiscoverAgain(g) ==
  /\ Serving(g)
  /\ connOpen[g]
  /\ toRecv[g] = <<>> /\ rPipe[g] = <<>>
  /\ discovery' = [discovery EXCEPT ![g] = @ + 1]
  /\ ReceiverSends(g, Plain("DISCOVERY"))
  /\ UNCHANGED <<session, table, rPipe, thread, hostUp, home, portVars, connOpen, toRecv>>

\* TIME_OUT seconds without a message.  The sender answers a DISCOVERY well
\* within the next TIME_OUT, so a second one in a row is not modelled.
Discover(g) ==
  /\ Serving(g) /\ discovery[g] = 0
  /\ connOpen[g]
  /\ toRecv[g] = <<>> /\ rPipe[g] = <<>> /\ toSend[g] = <<>>
  /\ discovery' = [discovery EXCEPT ![g] = 1]
  /\ ReceiverSends(g, Plain("DISCOVERY"))
  /\ UNCHANGED <<session, table, rPipe, thread, hostUp, home, portVars, connOpen, toRecv>>

\* Mutant: only the wait for CONNECT looks at the result of recv().
SenderDownIgnored(g) ==
  /\ hostUp[Dest[g]] /\ session[g] = "connect"
  /\ ~connOpen[g] /\ toRecv[g] = <<>>
  /\ session' = [session EXCEPT ![g] = "senderDown"]
  /\ UNCHANGED <<table, rPipe, discovery, thread, hostUp, home, portVars, netVars>>

\* recv() returns 0: the sender is gone, nobody is answered.
SenderDown(g) ==
  /\ hostUp[Dest[g]] /\ session[g] \in {"connect", "serve"}
  /\ ~connOpen[g] /\ toRecv[g] = <<>>
  /\ session' = [session EXCEPT ![g] = "senderDown"]
  /\ UNCHANGED <<table, rPipe, discovery, thread, hostUp, home, portVars, netVars>>
-----------------------------------------------------------------------------
(* pipeParser *)

OnReport(g, code) ==
  /\ Serving(g)
  /\ rPipe[g] # <<>>
  /\ Head(rPipe[g]).code = code
  /\ rPipe' = [rPipe EXCEPT ![g] = Tail(@)]
  /\ UNCHANGED <<session, discovery, hostUp, home, portVars, connOpen, toRecv>>

\* The data thread listens: the sender may start the flow.
ThreadOk(g) ==
  LET f == Head(rPipe[g]).flow IN
  /\ OnReport(g, "OK")
  /\ IF f \in table[g] THEN ReceiverSends(g, Msg("ACK_SEND_FLOW", f))
                       ELSE UNCHANGED toSend
  /\ UNCHANGED <<table, thread>>

\* bind() or the ICMP socket failed: reported whatever the table holds.
ThreadNotStarted(g) ==
  LET f == Head(rPipe[g]).flow IN
  /\ \/ OnReport(g, "ERR1") /\ ReceiverSends(g, Msg("ERR_MSG_2", f))
     \/ OnReport(g, "ERR2") /\ ReceiverSends(g, Msg("ERR_MSG_3", f))
  /\ IF f \in table[g] THEN DropFlow(g, f) ELSE UNCHANGED <<table, thread>>

\* Mutant: reported whatever the table holds, as a failed bind() is.
ThreadBrokeUnchecked(g) ==
  LET f == Head(rPipe[g]).flow IN
  /\ OnReport(g, "ERR_SOCK")
  /\ ReceiverSends(g, Msg("ERR_MSG_5", f))
  /\ IF f \in table[g] THEN DropFlow(g, f) ELSE UNCHANGED <<table, thread>>

\* Mutant: the sender is not told.
ThreadBrokeSilently(g) ==
  LET f == Head(rPipe[g]).flow IN
  /\ OnReport(g, "ERR_SOCK")
  /\ IF f \in table[g] THEN DropFlow(g, f) ELSE UNCHANGED <<table, thread>>
  /\ UNCHANGED toSend

\* The data connection broke: reported only if the flow is still in the table.
ThreadBroke(g) ==
  LET f == Head(rPipe[g]).flow IN
  /\ OnReport(g, "ERR_SOCK")
  /\ IF f \in table[g]
     THEN ReceiverSends(g, Msg("ERR_MSG_5", f)) /\ DropFlow(g, f)
     ELSE UNCHANGED <<toSend, table, thread>>
-----------------------------------------------------------------------------
(* The data thread of flow f.  After an error it sleeps until it is cancelled. *)

SetPort(p, owner, open, users) ==
  /\ portLock' = [portLock EXCEPT ![p] = owner]
  /\ portOpen' = [portOpen EXCEPT ![p] = open]
  /\ inUse' = [inUse EXCEPT ![p] = users]

\* bind() or the raw socket of ICMP fails.  The thread keeps the mutex of its port.
BindFails(f) ==
  LET p == Port[f] IN
  /\ hostUp[Dest[f]] /\ thread[f] = "starting"
  /\ SetThread(f, "failed")
  /\ PushReport(f, IF Proto[f] = "ICMP" THEN "ERR2" ELSE "ERR1")
  /\ IF UsesPort(f)
     THEN portLock[p] = NoFlow /\ ~portOpen[p] /\ SetPort(p, f, FALSE, inUse[p])
     ELSE UNCHANGED portVars
  /\ UNCHANGED <<session, table, discovery, hostUp, home, netVars>>

\* Mutant: a UDP flow that finds the socket open does not count as a user.
ListensUncounted(f) ==
  LET p == Port[f] IN
  /\ hostUp[Dest[f]] /\ thread[f] = "starting"
  /\ SetThread(f, "listening")
  /\ PushReport(f, "OK")
  /\ IF UsesPort(f)
     THEN /\ portLock[p] = NoFlow
          /\ IF Proto[f] = "TCP"
             THEN SetPort(p, f, portOpen[p], inUse[p])
             ELSE SetPort(p, NoFlow, TRUE, IF portOpen[p] THEN inUse[p] ELSE inUse[p] + 1)
     ELSE UNCHANGED portVars
  /\ UNCHANGED <<session, table, discovery, hostUp, home, netVars>>

\* The socket of the port is opened, or is open already.  tcpSock keeps the mutex
\* of the port until accept() returns.
Listens(f) ==
  LET p == Port[f] IN
  /\ hostUp[Dest[f]] /\ thread[f] = "starting"
  /\ SetThread(f, "listening")
  /\ PushReport(f, "OK")
  /\ IF UsesPort(f)
     THEN /\ portLock[p] = NoFlow
          /\ IF Proto[f] = "TCP" THEN SetPort(p, f, portOpen[p], inUse[p])
                                 ELSE SetPort(p, NoFlow, TRUE, inUse[p] + 1)
     ELSE UNCHANGED portVars
  /\ UNCHANGED <<session, table, discovery, hostUp, home, netVars>>

\* Mutant: only the thread that opened the socket counts as a user.
ReceivesUncounted(f) ==
  LET p == Port[f] IN
  /\ hostUp[Dest[f]] /\ thread[f] = "listening"
  /\ SetThread(f, "receiving")
  /\ IF UsesPort(f) /\ Proto[f] = "TCP"
     THEN SetPort(p, NoFlow, TRUE, IF portOpen[p] THEN inUse[p] ELSE inUse[p] + 1)
     ELSE UNCHANGED portVars
  /\ UNCHANGED <<session, table, rPipe, discovery, hostUp, home, netVars>>

\* accept() returns, or the first datagram arrives.
Receives(f) ==
  LET p == Port[f] IN
  /\ hostUp[Dest[f]] /\ thread[f] = "listening"
  /\ SetThread(f, "receiving")
  /\ IF UsesPort(f) /\ Proto[f] = "TCP" THEN SetPort(p, NoFlow, TRUE, inUse[p] + 1)
                                       ELSE UNCHANGED portVars
  /\ UNCHANGED <<session, table, rPipe, discovery, hostUp, home, netVars>>

\* TCPrecvPacket fails.
ReceiveFails(f) ==
  /\ hostUp[Dest[f]] /\ thread[f] = "receiving" /\ Proto[f] = "TCP"
  /\ SetThread(f, "failed")
  /\ PushReport(f, "ERR_SOCK")
  /\ UNCHANGED <<session, table, discovery, hostUp, home, portVars, netVars>>
-----------------------------------------------------------------------------
\* SIGINT: terminate() ends the process with all its sessions and data threads.
Interrupted(h) ==
  /\ h \in Interruptible /\ hostUp[h]
  /\ hostUp' = [hostUp EXCEPT ![h] = FALSE]
  /\ UNCHANGED <<session, table, rPipe, discovery, thread, home, portVars, netVars>>
-----------------------------------------------------------------------------
(* The threads.  A session serves its pipe, its socket and its time-out. *)

SessionSocket(g) ==
  \/ AcceptSession(g) \/ Connected(g) \/ NameLog(g) \/ SendFlow(g) \/ ClosedFlow(g)
  \/ ClosedErr(g) \/ FlowClosed(g) \/ Release(g) \/ DiscoveryAnswered(g) \/ SenderDown(g)

SessionPipe(g) == ThreadOk(g) \/ ThreadNotStarted(g) \/ ThreadBroke(g)

DataThreadStarts(f) == BindFails(f) \/ Listens(f)
=============================================================================
