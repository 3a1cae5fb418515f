----------------------------- MODULE TspSession -----------------------------
(***************************************************************************)
(* One ITGSend and the ITGRecv processes it drives, end to end: the        *)
(* threads of ItgSend and of ItgRecv over the connections of TspChannel.   *)
(* A step is a step of one side; a data thread receives once the sender    *)
(* has connected.                                                          *)
(***************************************************************************)
EXTENDS ItgSend, ItgRecv

vars == <<sendVars, recvVars, netVars>>

Init == NetInit /\ SendInit /\ RecvInit

-----------------------------------------------------------------------------
(* The threads of the two programs, and main of ITGSend. *)

Parser(f)          == ParserThread(f) /\ UNCHANGED recvVars
ManagerOnSocket(g) == ManagerSocket(g) /\ UNCHANGED recvVars
ManagerOnPipe(g)   == ManagerPipe(g) /\ UNCHANGED recvVars
ManagerEnds(g)     == ManagerEnding(g) /\ UNCHANGED recvVars
SenderFails(f)     == SetupFails(f) /\ UNCHANGED recvVars
SenderConnects(f)  == Connects(f) /\ UNCHANGED recvVars
SenderFinishes(f)  == FinishFlow(f) /\ UNCHANGED recvVars
SenderKilled(f)    == BrokenPipe(f) /\ UNCHANGED recvVars
Exit               == ExitProcess /\ UNCHANGED recvVars

SessionOnSocket(g) == SessionSocket(g) /\ UNCHANGED sendVars
SessionOnPipe(g)   == SessionPipe(g) /\ UNCHANGED sendVars
SessionTimer(g)    == Discover(g) /\ UNCHANGED sendVars
DataThread(f)      == DataThreadStarts(f) /\ UNCHANGED sendVars
DataThreadFails(f) == ReceiveFails(f) /\ UNCHANGED sendVars
ReceiverStops(h)   == Interrupted(h) /\ UNCHANGED sendVars

\* The data connection of flow f: accept() follows connect().
DataThreadReceives(f) ==
  /\ sender[f] \in {"sending", "finished"}
  /\ Receives(f) /\ UNCHANGED sendVars

\* Nothing more happens once main has returned and every session has noticed.
Finished ==
  /\ process # "run"
  /\ \A g \in Flows : session[g] \in {"none", "released", "senderDown"} \/ PeerGone(g)
  /\ UNCHANGED vars

Next ==
  \/ \E f \in Flows :
       \/ Parser(f)
       \/ ManagerOnSocket(f) \/ ManagerOnPipe(f) \/ ManagerEnds(f)
       \/ SenderFails(f) \/ SenderConnects(f) \/ SenderFinishes(f) \/ SenderKilled(f)
       \/ SessionOnSocket(f) \/ SessionOnPipe(f) \/ SessionTimer(f)
       \/ DataThread(f) \/ DataThreadReceives(f) \/ DataThreadFails(f)
  \/ \E h \in Hosts : ReceiverStops(h)
  \/ Exit
  \/ Finished

Spec == Init /\ [][Next]_vars

(***************************************************************************)
(* The operating system runs every thread that can move.  connect()        *)
(* succeeds or fails, and a flow ends because its duration is finite.      *)
(* Nothing has to fail, no data has to arrive, no time-out has to expire,  *)
(* and nobody has to stop a receiver.                                      *)
(***************************************************************************)
Fairness ==
  /\ \A f \in Flows :
       /\ WF_vars(Parser(f))
       /\ WF_vars(ManagerOnSocket(f)) /\ WF_vars(ManagerOnPipe(f))
       /\ WF_vars(ManagerEnds(f))
       /\ WF_vars(SenderFails(f) \/ SenderConnects(f))
       /\ WF_vars(SenderFinishes(f))
       /\ WF_vars(SessionOnSocket(f)) /\ WF_vars(SessionOnPipe(f))
       /\ WF_vars(DataThread(f))
  /\ WF_vars(Exit)

FairSpec == Spec /\ Fairness
-----------------------------------------------------------------------------
\* Every variable of the two programs and of the connections has its type; in
\* particular a session never counts a second unanswered DISCOVERY.
TypeOK == NetTypeOK /\ SendTypeOK /\ RecvTypeOK

-----------------------------------------------------------------------------
(* Safety *)

\* identifySignalManager holds `mutex` from the search for a channel to its
\* registration, so two flows to one receiver never open two channels.
OneChannelPerHost ==
  \A c, d \in Chans :
    (chanSock[c] # NoFlow /\ chanSock[d] # NoFlow /\ c # d)
      => Dest[chanSock[c]] # Dest[chanSock[d]]

\* `mutex` is what makes it so: whoever is about to register a channel or to close
\* one holds it, and no channel to the same receiver is opened meanwhile.
Opening == {"connecting", "naming"}
MutexProtectsChannels ==
  /\ \A f \in Flows :
       parser[f] \in Opening => mutex = <<"parser", f>> /\ SameDest(f) = {}
  /\ \A g \in Flows : manager[g].pc = "releasing" => mutex = <<"manager", g>>

\* Whoever uses its chanId has been given one: a parser that identifySignalManager
\* gave a channel, and the manager of a connection.
ChannelKnown ==
  \A f \in Flows :
    /\ parser[f] \in {"attached", "waiting"} => sigChan[f] \in Chans
    /\ manager[f].pc # "none" => sigChan[f] \in Chans

\* TypeOK and OneChannelPerHost are proved together with what protects them.
ChannelInv == TypeOK /\ OneChannelPerHost /\ MutexProtectsChannels /\ ChannelKnown

\* signalChannels[].flows is incremented by parsers and decremented in six places
\* of two threads; it counts exactly the flows that have joined and not yet left.
FlowsCountHolders ==
  \A c \in Chans :
    chanSock[c] # NoFlow => chanFlows[c] = Cardinality(holders[c])

\* A flow that has joined a channel and has no verdict yet keeps it: no other flow's
\* end closes the channel, and no other receiver's channel takes its slot meanwhile.
Judged(f) ==
  \/ parserPipe[f] # <<>>
  \/ \E g \in Flows : manager[g].flow = f /\ manager[g].pc \in {"notify", "lastNotify"}
ChannelOutlivesFlows ==
  \A f \in Flows :
    (parser[f] = "attached" \/ (parser[f] = "waiting" /\ ~Judged(f)))
      => LET g == chanSock[sigChan[f]] IN g # NoFlow /\ Dest[g] = Dest[f]

\* The receiver ends the data thread of a flow only after the sender has stopped
\* sending: CLOSED_FLOW and CLOSED_ERR follow the last packet.
Alive == {"starting", "listening", "receiving", "failed"}
NeverCancelledWhileSending ==
  \A f \in Flows : sender[f] = "sending" => thread[f] \in {"listening", "receiving", "failed", "reaped"}

\* The socket of a port is never closed under a data thread that uses it: inUse is
\* raised by each of them, lowered by the session, and only ever too large.
SharedSocketKept ==
  \A f \in Flows :
    (UsesPort(f) /\ (thread[f] = "receiving" \/ (thread[f] = "listening" /\ Proto[f] = "UDP")))
      => portOpen[Port[f]]

\* A session that ends leaves no data thread behind.  The one exception is a flow
\* whose connect() failed while ITGSend exits: its parser is told before the
\* receiver is, so the process may end before CLOSED_ERR is sent.
NoOrphanThread ==
  \A f \in Flows :
    (thread[f] \in Alive /\ session[home[f]] \notin {"serve"} \cup Closing)
      => session[home[f]] = "senderDown" /\ outcome[f] = "ERR2"

\* ITGSend leaves a connection without RELEASE only in that same case.
OrderlyEnd ==
  \A g \in Flows :
    session[g] = "senderDown" => \E f \in Flows : Dest[f] = Dest[g] /\ outcome[f] = "ERR2"

\* A flow is judged once: the answers under way for it, the one its manager is
\* handling and the one in its parserPipe are at most one together, and none is
\* left once its parser has ended and closed that pipe.
Verdicts(f) ==
  LET answers(g) == {i \in DOMAIN toSend[g] :
                       /\ toSend[g][i].flow = f
                       /\ toSend[g][i].type # "ACK_SEND_FLOW"}
      atHand(g)  == manager[g].flow = f /\ manager[g].code # "ERR2"
                    /\ manager[g].pc \in {"closing", "releasing", "notify", "lastNotify"}
  IN  (UNION {{<<g, i>> : i \in answers(g)} : g \in Flows})
      \cup {<<g, "at hand">> : g \in {h \in Flows : atHand(h)}}
      \cup {<<f, "pipe", i>> : i \in DOMAIN parserPipe[f]}
OneVerdict ==
  \A f \in Flows :
    Cardinality(Verdicts(f)) <= IF parser[f] = "waiting" THEN 1 ELSE 0

\* ITGSend ends before its flows do only because of a receiver that is gone: no
\* manager meets a message it does not know.
AbortsOnlyForReceiver ==
  process = "aborted" => \E h \in Hosts : ~hostUp[h]

\* A flowParser that has ended, whatever identifySignalManager returned, leaves
\* `mutex` to the others.
MutexLeftByParser == \A f \in Flows : parser[f] = "ended" => mutex # <<"parser", f>>

\* sendRelease prints "received ack to release signal channel" after it has read
\* one byte: that byte is the ACK_RELEASE of the session.
ReleaseAnswered ==
  \A g \in Flows :
    (manager[g].pc = "releasing" /\ toSend[g] # <<>>)
      => Head(toSend[g]) = Plain("ACK_RELEASE")
-----------------------------------------------------------------------------
(* What the two programs together promise for each flow: FlowLifecycle, with  *)
(* the ends of the data connection read off their threads.                    *)

SourceOf(f) ==
  CASE sender[f] = "sending"  -> "sending"
    [] sender[f] = "finished" -> "sent"
    [] sender[f] = "failed"   -> "unsent"
    [] OTHER -> IF parser[f] = "waiting" \/ outcome[f] \in ResultCodes
                THEN "offered" ELSE "idle"

SinkOf(f) ==
  CASE thread[f] \in {"none", "starting"} -> "none"
    [] thread[f] = "listening" -> "open"
    [] thread[f] = "receiving" -> "connected"
    [] thread[f] = "failed"    -> "broken"
    [] thread[f] = "reaped"    -> "lost"
    [] OTHER                   -> "closed"

Lifecycle == INSTANCE FlowLifecycle WITH
  source  <- [f \in Flows |-> SourceOf(f)],
  sink    <- [f \in Flows |-> SinkOf(f)],
  verdict <- outcome

\* Every step of the two programs is a step of the flow life cycle or none: a
\* verdict is recorded once, and it agrees with what happened at both ends.
ImplementsLifecycle == Lifecycle!Spec
-----------------------------------------------------------------------------
(* Liveness, under FairSpec *)

\* Every flow put to a receiver gets its verdict in the end.
EveryFlowJudged == Lifecycle!EveryOfferJudged

\* main joins every parser, so ITGSend ends only if no parser waits for ever for
\* its verdict or for `mutex`.
SenderExits == <>[](process = "exited")

\* The same when receivers may stop: ITGSend then ends with an error, and never
\* waits for ever for a receiver that is gone.
SenderEnds == <>(process # "run")

\* Every session of a receiver that runs on ends, also when ITGSend exits without RELEASE.
SessionsEnd ==
  \A g \in Flows : (session[g] # "none") ~> (session[g] \in {"released", "senderDown"} \/ PeerGone(g))

\* typeParser manages the CLOSED_ERR of a flow that it serves to the end.
ClosedErrManaged ==
  \A g \in Flows : (session[g] = "closingErr") ~> (session[g] = "serve" \/ PeerGone(g))
=============================================================================
