------------------------------ MODULE ItgSend ------------------------------
(***************************************************************************)
(* ITGSend in script mode: one parser thread per flow (flowParser), one    *)
(* signalManager thread per open signalling channel and one flowSender     *)
(* thread per flow that generates traffic.  Parsers and managers share     *)
(* signalChannels[] under the one `mutex`; flow senders and parsers talk   *)
(* to a manager through the channel's pipe, the manager talks to a parser  *)
(* through that flow's parserPipe.                                         *)
(***************************************************************************)
EXTENDS TspChannel, Integers, FiniteSets

CONSTANTS
  NumChans,      \* size of signalChannels[]; flows[] has the same size
  LogRequested   \* a receiver log was asked for (namelogReceiver or logServer)

ASSUME SenderAssumption ==
  /\ NumChans \in Nat
  /\ IsFiniteSet(Flows)
  /\ Cardinality(Flows) <= NumChans
  /\ LogRequested \in BOOLEAN

Chans == 0 .. NumChans - 1

VARIABLES
  process,     \* "run", "exited" (main returned), "aborted" (ReportErrorAndExit)
  mutex,       \* the thread that holds `mutex`: <<kind, flow or connection>>
  parser,      \* parser[f]: where flowParser of flow f is
  outcome,     \* outcome[f]: the code flowParser read from its parserPipe
  sigChan,     \* sigChan[f]: the chanId that identifySignalManager gave to f
  parserPipe,  \* parserPipe[f]: codes written to flow f's pipe, not yet read
  chanSock,    \* chanSock[c]: signalChannels[c].socket, NoFlow stands for -1
  chanFlows,   \* chanFlows[c]: signalChannels[c].flows
  chanPipe,    \* chanPipe[c]: messages in signalChannels[c].pipe
  manager,     \* manager[g]: the signalManager thread of connection g
  sender,      \* sender[f]: the flowSender thread of flow f
  holders      \* history: flows counted in signalChannels[c] and not yet left

chanVars   == <<chanSock, chanFlows, chanPipe, holders>>
threadVars == <<parser, outcome, sigChan, parserPipe, manager, sender>>
sendVars   == <<process, mutex, chanVars, threadVars>>

PipeCodes   == {"NEWFLOW", "ENDFLOW", "ERRFLOW"}
ResultCodes == {"END", "ERR1", "ERR2"}
ParserPCs   == {"idle", "connecting", "naming", "attached", "waiting",
                "ended"}
ManagerPCs  == {"closedErr", "closing", "releasing", "notify", "lastNotify",
                "exited"}
SenderPCs   == {"none", "setup", "sending", "finished", "failed"}

Manager(pc, f, code) == [pc |-> pc, flow |-> f, code |-> code]
IdleManager == Manager("idle", NoFlow, "none")

\* A manager between two messages has no flow at hand.
Managers == {Manager("none", NoFlow, "none"), IdleManager}
            \cup [pc : ManagerPCs, flow : Flows, code : ResultCodes]

PipeMessages == [code : PipeCodes, flow : Flows]

Unlocked == <<"nobody", NoFlow>>
Owners   == {Unlocked} \cup ({"parser", "manager"} \X Flows)

ChanTypeOK ==
  /\ mutex \in Owners
  /\ chanSock \in [Chans -> Flows \cup {NoFlow}]
  /\ chanFlows \in [Chans -> Int]
  /\ chanPipe \in [Chans -> Seq(PipeMessages)]
  /\ holders \in [Chans -> SUBSET Flows]

ThreadTypeOK ==
  /\ process \in {"run", "exited", "aborted"}
  /\ parser \in [Flows -> ParserPCs]
  /\ outcome \in [Flows -> ResultCodes \cup {"none"}]
  /\ sigChan \in [Flows -> Chans \cup {NumChans}]
  /\ parserPipe \in [Flows -> Seq(ResultCodes)]
  /\ manager \in [Flows -> Managers]
  /\ sender \in [Flows -> SenderPCs]

SendTypeOK == ChanTypeOK /\ ThreadTypeOK

SendInit ==
  /\ process = "run"
  /\ mutex = Unlocked
  /\ parser = [f \in Flows |-> "idle"]
  /\ outcome = [f \in Flows |-> "none"]
  /\ sigChan = [f \in Flows |-> NumChans]
  /\ parserPipe = [f \in Flows |-> <<>>]
  /\ chanSock = [c \in Chans |-> NoFlow]
  /\ chanFlows = [c \in Chans |-> 0]
  /\ chanPipe = [c \in Chans |-> <<>>]
  /\ manager = [g \in Flows |-> Manager("none", NoFlow, "none")]
  /\ sender = [f \in Flows |-> "none"]
  /\ holders = [c \in Chans |-> {}]
-----------------------------------------------------------------------------
(* Steps the threads share. *)

\* sendPipeMsg to a channel; a closed channel's pipe takes nothing.
PushToChannel(c, code, f) ==
  chanPipe' = IF chanSock[c] = NoFlow THEN chanPipe
              ELSE [chanPipe EXCEPT ![c] = Append(@, [code |-> code, flow |-> f])]

PushToParser(f, code) == parserPipe' = [parserPipe EXCEPT ![f] = Append(@, code)]

SetParser(f, pc) == parser' = [parser EXCEPT ![f] = pc]
SetManager(g, m) == manager' = [manager EXCEPT ![g] = m]

\* checkDestHostIP: the first open channel to flow f's destination.
SameDest(f) == {c \in Chans : chanSock[c] # NoFlow /\ Dest[chanSock[c]] = Dest[f]}
First(S)    == CHOOSE c \in S : \A d \in S : c <= d

\* A blocking recv() returns: one message, or nothing from a receiver that is gone.
Answered(g) ==
  \/ toSend[g] # <<>> /\ SenderTakes(g)
  \/ PeerGone(g) /\ UNCHANGED toSend

\* The requests of ITGSend, as the functions of these names send them.
CreateTransportChan(f) == connOpen' = [connOpen EXCEPT ![f] = TRUE]
SendNameLog(f)         == SenderSends(f, Plain("SEND_NAME_LOG"))
RequestToSend(g, f)    == SenderSends(g, Msg("SEND_FLOW", f))
ClosedFlowSent(g, f)   == SenderSends(g, Msg("CLOSED_FLOW", f))
SendRelease(g)         == SenderSends(g, Plain("RELEASE"))

\* exit(1), or a signal that ends the process.
Abort ==
  /\ process' = "aborted"
  /\ connOpen' = [g \in Flows |-> FALSE]
  /\ UNCHANGED <<mutex, threadVars, chanVars, toRecv, toSend>>

\* isChannelClosable, up to the RELEASE: flow f leaves channel c, and the last
\* one keeps `mutex` for owner until the receiver answers.
LeaveChannel(c, f, owner) ==
  /\ mutex = Unlocked
  /\ chanFlows' = [chanFlows EXCEPT ![c] = @ - 1]
  /\ holders' = [holders EXCEPT ![c] = @ \ {f}]
  /\ IF chanFlows[c] = 1
     THEN mutex' = owner /\ SendRelease(chanSock[c])
     ELSE UNCHANGED <<mutex, toRecv>>
  /\ UNCHANGED <<connOpen, toSend, chanSock, chanPipe>>

\* Mutant: `mutex` stays locked on the path that closes the channel.
CloseStaysLocked(c) ==
  LET g == chanSock[c] IN
  /\ Answered(g)
  /\ connOpen' = [connOpen EXCEPT ![g] = FALSE]
  /\ chanSock' = [chanSock EXCEPT ![c] = NoFlow]
  /\ chanPipe' = [chanPipe EXCEPT ![c] = <<>>]
  /\ UNCHANGED <<mutex, toRecv, chanFlows, holders>>

\* isChannelClosable, once sendRelease has read its byte (recvAck does not look
\* at it): the slot is free again and the pipe is gone.
CloseChannel(c) ==
  LET g == chanSock[c] IN
  /\ Answered(g)
  /\ connOpen' = [connOpen EXCEPT ![g] = FALSE]
  /\ chanSock' = [chanSock EXCEPT ![c] = NoFlow]
  /\ chanPipe' = [chanPipe EXCEPT ![c] = <<>>]
  /\ mutex' = Unlocked
  /\ UNCHANGED <<toRecv, chanFlows, holders>>
-----------------------------------------------------------------------------
(* flowParser *)

\* Mutant: a flow joins without being counted.
JoinUncounted(f) ==
  /\ process = "run" /\ parser[f] = "idle" /\ mutex = Unlocked
  /\ SameDest(f) # {}
  /\ LET c == First(SameDest(f)) IN
     /\ holders' = [holders EXCEPT ![c] = @ \cup {f}]
     /\ sigChan' = [sigChan EXCEPT ![f] = c]
  /\ SetParser(f, "attached")
  /\ UNCHANGED <<process, mutex, outcome, parserPipe, chanSock, chanFlows, chanPipe,
                 manager, sender, netVars>>

\* identifySignalManager finds a channel to the same receiver and joins it.
JoinChannel(f) ==
  /\ process = "run" /\ parser[f] = "idle" /\ mutex = Unlocked
  /\ SameDest(f) # {}
  /\ LET c == First(SameDest(f)) IN
     /\ chanFlows' = [chanFlows EXCEPT ![c] = @ + 1]
     /\ holders' = [holders EXCEPT ![c] = @ \cup {f}]
     /\ sigChan' = [sigChan EXCEPT ![f] = c]
  /\ SetParser(f, "attached")
  /\ UNCHANGED <<process, mutex, outcome, parserPipe, chanSock, chanPipe,
                 manager, sender, netVars>>

\* Mutant: `mutex` is released before the connection is made.
OpenUnlocked(f) ==
  /\ process = "run" /\ parser[f] = "idle" /\ mutex = Unlocked
  /\ SameDest(f) = {} /\ ~PeerGone(f)
  /\ CreateTransportChan(f)
  /\ SenderSends(f, Plain("CONNECT"))
  /\ SetParser(f, "connecting")
  /\ UNCHANGED <<process, mutex, toSend, outcome, sigChan, parserPipe, manager, sender,
                 chanVars>>

\* It finds none: createTransportChan connects and createSignalChan sends
\* CONNECT; `mutex` stays locked until the channel is registered.
OpenConnection(f) ==
  /\ process = "run" /\ parser[f] = "idle" /\ mutex = Unlocked
  /\ SameDest(f) = {} /\ ~PeerGone(f)
  /\ mutex' = <<"parser", f>>
  /\ CreateTransportChan(f)
  /\ SenderSends(f, Plain("CONNECT"))
  /\ SetParser(f, "connecting")
  /\ UNCHANGED <<process, toSend, outcome, sigChan, parserPipe, manager, sender,
                 chanVars>>

\* connect() fails: createTransportChan ends the process.
OpenFails(f) ==
  /\ process = "run" /\ parser[f] = "idle" /\ mutex = Unlocked
  /\ SameDest(f) = {}
  /\ PeerGone(f)
  /\ Abort

\* The channel takes the first free slot and its manager starts.  (errorLog stays
\* false: no receiver answers with ERR_MSG_4.)
RegisterChannel(f) ==
  LET c == First({d \in Chans : chanSock[d] = NoFlow}) IN
  /\ chanSock' = [chanSock EXCEPT ![c] = f]
  /\ chanFlows' = [chanFlows EXCEPT ![c] = 1]
  /\ holders' = [holders EXCEPT ![c] = {f}]
  /\ chanPipe' = [chanPipe EXCEPT ![c] = <<>>]
  /\ SetManager(f, IdleManager)
  /\ sigChan' = [sigChan EXCEPT ![f] = c]
  /\ mutex' = Unlocked
  /\ SetParser(f, "attached")
  /\ UNCHANGED <<process, outcome, parserPipe, sender>>

\* Mutant: the answer to the log file request is not waited for.
NameLogNotAwaited(f) ==
  /\ process = "run" /\ parser[f] = "connecting"
  /\ Answered(f)
  /\ RegisterChannel(f)
  /\ IF LogRequested THEN SendNameLog(f) ELSE UNCHANGED toRecv
  /\ UNCHANGED connOpen

\* recvAck takes the answer to CONNECT; with a receiver log, sendNameLog
\* (or sendLog) asks for the file and waits again.
ConnectAnswered(f) ==
  /\ process = "run" /\ parser[f] = "connecting"
  /\ Answered(f)
  /\ UNCHANGED connOpen
  /\ \/ /\ LogRequested
        /\ SendNameLog(f)
        /\ SetParser(f, "naming")
        /\ UNCHANGED <<process, mutex, outcome, sigChan, parserPipe, manager,
                       sender, chanVars>>
     \/ /\ ~LogRequested
        /\ RegisterChannel(f)
        /\ UNCHANGED toRecv

\* send() of the log request fails: identifySignalManager returns -1 with `mutex`
\* locked and flowParser ends.
LogRequestFails(f) ==
  /\ process = "run" /\ parser[f] = "connecting" /\ LogRequested
  /\ PeerGone(f) /\ Answered(f)
  /\ SetParser(f, "ended")
  /\ UNCHANGED <<process, mutex, outcome, sigChan, parserPipe, manager, sender,
                 chanVars, connOpen, toRecv>>

\* recv() of the answer to the log request; only ERR_MSG_4 would be looked at.
LogAnswered(f) ==
  /\ process = "run" /\ parser[f] = "naming"
  /\ Answered(f)
  /\ RegisterChannel(f)
  /\ UNCHANGED <<connOpen, toRecv>>

\* The flow is handed to the channel's manager; the parser waits for its result.
SubmitFlow(f) ==
  /\ process = "run" /\ parser[f] = "attached"
  /\ PushToChannel(sigChan[f], "NEWFLOW", f)
  /\ SetParser(f, "waiting")
  /\ UNCHANGED <<process, mutex, outcome, sigChan, parserPipe, chanSock,
                 chanFlows, holders, manager, sender, netVars>>

\* The manager's verdict arrives; flowParser closes its pipe and ends.
TakeResult(f) ==
  /\ process = "run" /\ parser[f] = "waiting" /\ parserPipe[f] # <<>>
  /\ outcome' = [outcome EXCEPT ![f] = Head(parserPipe[f])]
  /\ parserPipe' = [parserPipe EXCEPT ![f] = Tail(@)]
  /\ SetParser(f, "ended")
  /\ UNCHANGED <<process, mutex, sigChan, manager, sender, chanVars, netVars>>

\* main has joined every parser: exit() closes every connection still open.
ExitProcess ==
  /\ process = "run"
  /\ \A f \in Flows : parser[f] = "ended"
  /\ process' = "exited"
  /\ connOpen' = [g \in Flows |-> FALSE]
  /\ UNCHANGED <<mutex, threadVars, chanVars, toRecv, toSend>>
-----------------------------------------------------------------------------
(* signalManager of connection g.  It selects on its socket and its pipe and  *)
(* handles what is there, so either may come first.                           *)

ManagerReady(g) == process = "run" /\ manager[g] = IdleManager
OnSocket(g, types) ==
  /\ ManagerReady(g)
  /\ toSend[g] # <<>>
  /\ Head(toSend[g]).type \in types
  /\ SenderTakes(g)
OnPipe(g, code) ==
  LET c == sigChan[g] IN
  /\ ManagerReady(g)
  /\ chanPipe[c] # <<>>
  /\ Head(chanPipe[c]).code = code
  /\ chanPipe' = [chanPipe EXCEPT ![c] = Tail(@)]
  /\ UNCHANGED <<chanSock, chanFlows, holders>>

\* ACK_SEND_FLOW: the receiver listens, so the flow's sender thread starts.
StartFlow(g) ==
  /\ OnSocket(g, {"ACK_SEND_FLOW"})
  /\ sender' = [sender EXCEPT ![Head(toSend[g]).flow] = "setup"]
  /\ UNCHANGED <<process, mutex, parser, outcome, sigChan, parserPipe, manager,
                 chanVars, connOpen, toRecv>>

\* DISCOVERY is answered; any other message without a flow is unknown, and
\* ReportErrorAndExit ends the process.
AnswerDiscovery(g) ==
  /\ OnSocket(g, PlainTypes)
  /\ IF Head(toSend[g]).type = "DISCOVERY"
     THEN SenderSends(g, Plain("ACK_DISCOVERY")) /\ UNCHANGED <<process, connOpen>>
     ELSE /\ process' = "aborted"
          /\ connOpen' = [h \in Flows |-> FALSE]
          /\ UNCHANGED toRecv
  /\ UNCHANGED <<mutex, threadVars, chanVars>>

\* Mutant: the end of the connection is not noticed.
EndIgnored(g) ==
  /\ ManagerReady(g) /\ PeerGone(g) /\ toSend[g] # <<>>
  /\ Abort

\* recv() returns no message: ReportErrorAndExit ends the process.
ReceiverLost(g) ==
  /\ ManagerReady(g) /\ PeerGone(g)
  /\ Abort

\* Mutant: the parser is told before the flow has left the channel.
FlowAnsweredEarly(g) ==
  /\ OnSocket(g, {"ACK_CLOSED_FLOW", "ERR_MSG_2", "ERR_MSG_3", "ERR_MSG_5"})
  /\ LET m == Head(toSend[g]) IN
     /\ PushToParser(m.flow, IF m.type = "ACK_CLOSED_FLOW" THEN "END" ELSE "ERR1")
     /\ SetManager(g, Manager("closing", m.flow, "ERR2"))
  /\ UNCHANGED <<process, mutex, parser, outcome, sigChan, sender,
                 chanVars, connOpen, toRecv>>

\* Mutant: the code of the last branch is used for all (copied code).
FlowAnsweredAlike(g) ==
  /\ OnSocket(g, {"ACK_CLOSED_FLOW", "ERR_MSG_2", "ERR_MSG_3", "ERR_MSG_5"})
  /\ SetManager(g, Manager("closing", Head(toSend[g]).flow, "ERR1"))
  /\ UNCHANGED <<process, mutex, parser, outcome, sigChan, parserPipe, sender,
                 chanVars, connOpen, toRecv>>

\* ACK_CLOSED_FLOW and the three errors end the flow: isChannelClosable, then
\* the result for the parser.
FlowAnswered(g) ==
  /\ OnSocket(g, {"ACK_CLOSED_FLOW", "ERR_MSG_2", "ERR_MSG_3", "ERR_MSG_5"})
  /\ LET m == Head(toSend[g]) IN
     SetManager(g, Manager("closing", m.flow,
                           IF m.type = "ACK_CLOSED_FLOW" THEN "END" ELSE "ERR1"))
  /\ UNCHANGED <<process, mutex, parser, outcome, sigChan, parserPipe, sender,
                 chanVars, connOpen, toRecv>>

\* NEWFLOW and ENDFLOW become a request to the receiver.
ForwardRequest(g) ==
  LET m == Head(chanPipe[sigChan[g]]) IN
  /\ \/ OnPipe(g, "NEWFLOW") /\ RequestToSend(g, m.flow)
     \/ OnPipe(g, "ENDFLOW") /\ ClosedFlowSent(g, m.flow)
  /\ UNCHANGED <<process, mutex, threadVars, connOpen, toSend>>

\* Mutant: the receiver is not told.
FlowFailedSilently(g) ==
  LET f == Head(chanPipe[sigChan[g]]).flow IN
  /\ OnPipe(g, "ERRFLOW")
  /\ PushToParser(f, "ERR2")
  /\ SetManager(g, Manager("closing", f, "ERR2"))
  /\ UNCHANGED <<process, mutex, parser, outcome, sigChan, sender, netVars>>

\* ERRFLOW: the parser is told first, then the receiver, then the flow leaves.
FlowFailed(g) ==
  LET f == Head(chanPipe[sigChan[g]]).flow IN
  /\ OnPipe(g, "ERRFLOW")
  /\ PushToParser(f, "ERR2")
  /\ SetManager(g, Manager("closedErr", f, "ERR2"))
  /\ UNCHANGED <<process, mutex, parser, outcome, sigChan, sender, netVars>>

SendClosedErr(g) ==
  /\ process = "run" /\ manager[g].pc = "closedErr"
  /\ SenderSends(g, Msg("CLOSED_ERR", manager[g].flow))
  /\ SetManager(g, [manager[g] EXCEPT !.pc = "closing"])
  /\ UNCHANGED <<process, mutex, parser, outcome, sigChan, parserPipe, sender,
                 chanVars, connOpen, toSend>>

\* isChannelClosable in a manager.
ManagerLeaves(g) ==
  LET m == manager[g]
      c == sigChan[g]
  IN
  /\ process = "run" /\ m.pc = "closing"
  /\ LeaveChannel(c, m.flow, <<"manager", g>>)
  /\ SetManager(g, IF chanFlows[c] = 1 THEN [m EXCEPT !.pc = "releasing"]
                   ELSE IF m.code = "ERR2" THEN IdleManager
                   ELSE [m EXCEPT !.pc = "notify"])
  /\ UNCHANGED <<process, parser, outcome, sigChan, parserPipe, sender>>

ManagerReleased(g) ==
  /\ process = "run" /\ manager[g].pc = "releasing"
  /\ CloseChannel(sigChan[g])
  /\ SetManager(g, [manager[g] EXCEPT !.pc = IF manager[g].code = "ERR2" THEN "exited"
                                             ELSE "lastNotify"])
  /\ UNCHANGED <<process, parser, outcome, sigChan, parserPipe, sender>>

Notify(g) ==
  /\ process = "run" /\ manager[g].pc \in {"notify", "lastNotify"}
  /\ PushToParser(manager[g].flow, manager[g].code)
  /\ SetManager(g, IF manager[g].pc = "notify" THEN IdleManager
                   ELSE [manager[g] EXCEPT !.pc = "exited"])
  /\ UNCHANGED <<process, mutex, parser, outcome, sigChan, sender, chanVars, netVars>>
-----------------------------------------------------------------------------
(* flowSender of flow f *)

\* A socket, bind or connect that fails before the first packet.
SetupFails(f) ==
  /\ process = "run" /\ sender[f] = "setup"
  /\ sender' = [sender EXCEPT ![f] = "failed"]
  /\ PushToChannel(sigChan[f], "ERRFLOW", f)
  /\ UNCHANGED <<process, mutex, parser, outcome, sigChan, parserPipe, manager,
                 chanSock, chanFlows, holders, netVars>>

\* connect() succeeds, before accept() or without it: packets flow.
Connects(f) ==
  /\ process = "run" /\ sender[f] = "setup"
  /\ sender' = [sender EXCEPT ![f] = "sending"]
  /\ UNCHANGED <<process, mutex, parser, outcome, sigChan, parserPipe, manager,
                 chanVars, netVars>>

\* Duration, packet or byte limit reached: the data socket is closed.
FinishFlow(f) ==
  /\ process = "run" /\ sender[f] = "sending"
  /\ sender' = [sender EXCEPT ![f] = "finished"]
  /\ PushToChannel(sigChan[f], "ENDFLOW", f)
  /\ UNCHANGED <<process, mutex, parser, outcome, sigChan, parserPipe, manager,
                 chanSock, chanFlows, holders, netVars>>
\* A send() to a receiver that is gone raises SIGPIPE, which nobody handles.
BrokenPipe(f) ==
  /\ process = "run" /\ PeerGone(f)
  /\ \/ sender[f] = "sending"
     \/ manager[f].pc \in {"closedErr", "closing"}
     \/ parser[f] = "connecting" /\ LogRequested
  /\ Abort
-----------------------------------------------------------------------------
(* The threads.  A manager serves two sources in every round of its loop. *)

ParserThread(f) ==
  \/ JoinChannel(f) \/ OpenConnection(f) \/ OpenFails(f) \/ ConnectAnswered(f)
  \/ LogRequestFails(f) \/ LogAnswered(f) \/ SubmitFlow(f) \/ TakeResult(f)

ManagerSocket(g) == StartFlow(g) \/ AnswerDiscovery(g) \/ FlowAnswered(g) \/ ReceiverLost(g)
ManagerPipe(g)   == ForwardRequest(g) \/ FlowFailed(g)
ManagerEnding(g) ==
  SendClosedErr(g) \/ ManagerLeaves(g) \/ ManagerReleased(g) \/ Notify(g)
=============================================================================
