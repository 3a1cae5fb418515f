---------------------------- MODULE SessionProofs ----------------------------
(***************************************************************************)
(* What follows from FlowInv. First the verdicts of the flows: they are    *)
(* true wherever they are, there is one for each flow, and TspSession      *)
(* implements FlowLifecycle; with them, the channels count their flows and *)
(* outlive them, and data threads are cancelled after the sender has       *)
(* stopped. Then the ports that flows share, which stay open, and the ends *)
(* of flows, connections, sessions and processes.                          *)
(***************************************************************************)
EXTENDS FlowProofs

\* The messages that report a flow as failed at its receiver (FlowAnswered).
Errors == {"ERR_MSG_2", "ERR_MSG_3", "ERR_MSG_5"}

\* What a result code says of the two ends of flow f.
Meant(f, code) ==
  \/ code = "END"  /\ sender[f] = "finished" /\ thread[f] = "cancelled"
  \/ code = "ERR1" /\ thread[f] = "reaped"
  \/ code = "ERR2" /\ sender[f] = "failed"

\* A reply on a connection says what happened to the flow.
ReplyMeant(m) ==
  \/ m.type \in PlainTypes \cup {"ACK_SEND_FLOW"}
  \/ m.type = "ACK_CLOSED_FLOW" /\ Meant(m.flow, "END")
  \/ m.type \in Errors /\ Meant(m.flow, "ERR1")

\* Every verdict, wherever it is - read by the parser, in its pipe, in the hands of a manager
\* or on the connection - says what happened at the two ends of the flow.
TruthKept ==
  /\ \A f \in Flows :
       /\ thread[f] # "none" => parser[f] = "waiting" \/ outcome[f] # "none"
       /\ outcome[f] # "none" => Meant(f, outcome[f])
       /\ \A v \in ResultCodes : Has(parserPipe[f], v) => Meant(f, v)
  /\ \A g \in Flows :
       /\ manager[g].flow # NoFlow => Meant(manager[g].flow, manager[g].code)
       /\ \A m \in Messages : Has(toSend[g], m) => ReplyMeant(m)

\* The inductive invariant.
VerdictInv == FlowInv /\ TruthKept


\* The abstract flow is what the two threads of flow f make of it.
LEMMA Becoming ==
  ASSUME NEW f \in Flows, outcome' = outcome, NEW src, NEW snk,
         src = SourceOf(f)', snk = SinkOf(f)',
         \A e \in Flows : e # f => SourceOf(e)' = SourceOf(e) /\ SinkOf(e)' = SinkOf(e)
  PROVE  Lifecycle!Becomes(f, src, snk)
  BY DEF Lifecycle!Becomes

\* A step that leaves both ends and the outcome of every flow alone is a stutter.
LEMMA Stutters ==
  ASSUME outcome' = outcome,
         \A e \in Flows : SourceOf(e)' = SourceOf(e) /\ SinkOf(e)' = SinkOf(e)
  PROVE  UNCHANGED Lifecycle!flowVars
  BY DEF Lifecycle!flowVars

\* No end of a flow moves and no verdict is recorded.
LEMMA QuietEnds ==
  ASSUME UNCHANGED <<outcome, sender, thread>>,
         \A e \in Flows : parser'[e] = parser[e] \/ (parser[e] # "waiting" /\ parser'[e] # "waiting")
  PROVE  UNCHANGED Lifecycle!flowVars
<1>1. \A e \in Flows : SourceOf(e)' = SourceOf(e) /\ SinkOf(e)' = SinkOf(e)
  BY DEF SourceOf, SinkOf
<1> QED
  BY <1>1, Stutters

\* The receiver's end of flow f moves, the sender's stays.
LEMMA SinkMoves ==
  ASSUME ChannelInv, UNCHANGED sendVars, NEW f \in Flows, NEW pc \in ThreadPCs, SetThread(f, pc)
  PROVE  /\ \A src, snk : src = SourceOf(f) /\ snk = SinkOf(f)' => Lifecycle!Becomes(f, src, snk)
         /\ thread'[f] = pc
         /\ SinkOf(f)' = SinkOf(f) => UNCHANGED Lifecycle!flowVars
<1>1. thread'[f] = pc /\ \A e \in Flows : e # f => thread'[e] = thread[e]
  BY Types DEF SetThread
<1>2. UNCHANGED <<outcome, sender, parser>>
  BY DEF sendVars, threadVars
<1>3. \A e \in Flows : SourceOf(e)' = SourceOf(e)
  BY <1>2 DEF SourceOf
<1>4. \A e \in Flows : e # f => SinkOf(e)' = SinkOf(e)
  BY <1>1 DEF SinkOf
<1>5. ASSUME NEW src, NEW snk, src = SourceOf(f), snk = SinkOf(f)'
      PROVE  Lifecycle!Becomes(f, src, snk)
  BY <1>2, <1>3, <1>4, <1>5, Becoming
<1>6. SinkOf(f)' = SinkOf(f) => UNCHANGED Lifecycle!flowVars
  BY <1>2, <1>3, <1>4, Stutters
<1> QED
  BY <1>1, <1>5, <1>6

\* The sender's end of flow f moves, the receiver's stays.
LEMMA SourceMoves ==
  ASSUME ChannelInv, UNCHANGED <<outcome, thread>>, NEW f \in Flows,
         \A e \in Flows : e # f => sender'[e] = sender[e] /\ parser'[e] = parser[e]
  PROVE  /\ \A src, snk : src = SourceOf(f)' /\ snk = SinkOf(f) => Lifecycle!Becomes(f, src, snk)
         /\ SourceOf(f)' = SourceOf(f) => UNCHANGED Lifecycle!flowVars
<1>1. \A e \in Flows : SinkOf(e)' = SinkOf(e)
  BY DEF SinkOf
<1>2. \A e \in Flows : e # f => SourceOf(e)' = SourceOf(e)
  BY DEF SourceOf
<1>3. ASSUME NEW src, NEW snk, src = SourceOf(f)', snk = SinkOf(f)
      PROVE  Lifecycle!Becomes(f, src, snk)
  BY <1>1, <1>2, <1>3, Becoming
<1>4. SourceOf(f)' = SourceOf(f) => UNCHANGED Lifecycle!flowVars
  BY <1>1, <1>2, Stutters
<1> QED
  BY <1>3, <1>4

\* A flow whose data thread has been started has been put to the receiver.
LEMMA Offered ==
  ASSUME VerdictInv, NEW f \in Flows, thread[f] # "none", sender[f] \in {"none", "setup"}
  PROVE  SourceOf(f) = "offered"
<1>1. parser[f] = "waiting" \/ outcome[f] # "none"
  BY DEF VerdictInv, TruthKept
<1>2. outcome[f] \in ResultCodes \cup {"none"}
  BY Types DEF VerdictInv, FlowInv
<1> QED
  BY <1>1, <1>2 DEF SourceOf

\* The abstract steps, read off the two programs.
LEMMA AbstractGuards ==
  ASSUME NEW f \in Flows
  PROVE  /\ Lifecycle!Offer(f) <=> SourceOf(f) = "idle" /\ outcome[f] = "none"
                                   /\ Lifecycle!Becomes(f, "offered", SinkOf(f))
         /\ Lifecycle!Open(f) <=> SourceOf(f) = "offered" /\ SinkOf(f) = "none"
                                  /\ Lifecycle!Becomes(f, "offered", "open")
         /\ Lifecycle!Decline(f) <=> SourceOf(f) = "offered" /\ SinkOf(f) = "none"
                                     /\ Lifecycle!Becomes(f, "offered", "broken")
         /\ Lifecycle!Connect(f) <=> SourceOf(f) = "offered" /\ SinkOf(f) = "open"
                                     /\ Lifecycle!Becomes(f, "sending", "open")
         /\ Lifecycle!CannotSend(f) <=> SourceOf(f) = "offered" /\ SinkOf(f) = "open"
                                        /\ Lifecycle!Becomes(f, "unsent", "open")
         /\ Lifecycle!Accept(f) <=> SourceOf(f) \in {"sending", "sent"} /\ SinkOf(f) = "open"
                                    /\ Lifecycle!Becomes(f, SourceOf(f), "connected")
         /\ Lifecycle!Break(f) <=> SinkOf(f) = "connected"
                                   /\ Lifecycle!Becomes(f, SourceOf(f), "broken")
         /\ Lifecycle!Lose(f) <=> SinkOf(f) = "broken"
                                  /\ Lifecycle!Becomes(f, SourceOf(f), "lost")
         /\ Lifecycle!Complete(f) <=> SourceOf(f) = "sending"
                                      /\ Lifecycle!Becomes(f, "sent", SinkOf(f))
         /\ Lifecycle!Close(f) <=> SourceOf(f) \in {"sent", "unsent"}
                                   /\ SinkOf(f) \in {"open", "connected", "broken"}
                                   /\ Lifecycle!Becomes(f, SourceOf(f), "closed")
<1> HIDE DEF Lifecycle!Becomes
<1> QED
  BY DEF Lifecycle!Offer, Lifecycle!Open, Lifecycle!Decline, Lifecycle!Connect,
         Lifecycle!CannotSend, Lifecycle!Accept, Lifecycle!Break, Lifecycle!Lose,
         Lifecycle!Complete, Lifecycle!Close

\* A data thread listens, cannot, receives, or loses its connection.
LEMMA DataThreadAbstract ==
  ASSUME VerdictInv, NEW f \in Flows,
         DataThread(f) \/ DataThreadReceives(f) \/ DataThreadFails(f)
  PROVE  Lifecycle!Open(f) \/ Lifecycle!Decline(f) \/ Lifecycle!Accept(f) \/ Lifecycle!Break(f)
<1>1. ChannelInv /\ FlowKept(f) /\ UNCHANGED sendVars
  BY DEF VerdictInv, FlowInv, FlowsServed, DataThread, DataThreadReceives, DataThreadFails
<1>2. CASE DataThread(f)
  <2>1. PICK pc \in {"listening", "failed"} : SetThread(f, pc) /\ thread[f] = "starting"
    BY <1>2 DEF DataThread, DataThreadStarts, BindFails, Listens
  <2>2. sender[f] = "none"
    BY <1>1, <2>1, Types DEF FlowKept, ThreadPart, ThreadsOf, SenderPCs
  <2>3. SourceOf(f) = "offered" /\ SinkOf(f) = "none"
    BY <2>1, <2>2, Offered DEF SinkOf
  <2>4. SinkOf(f)' = IF pc = "listening" THEN "open" ELSE "broken"
    BY <1>1, <2>1, SinkMoves DEF ThreadPCs, SinkOf
  <2>5. /\ pc = "listening" => Lifecycle!Becomes(f, "offered", "open")
        /\ pc = "failed" => Lifecycle!Becomes(f, "offered", "broken")
    BY <1>1, <2>1, <2>3, <2>4, SinkMoves DEF ThreadPCs
  <2> QED
    BY <2>1, <2>3, <2>5, AbstractGuards
<1>3. CASE DataThreadReceives(f)
  <2>1. SetThread(f, "receiving") /\ thread[f] = "listening" /\ sender[f] \in {"sending", "finished"}
    BY <1>3 DEF DataThreadReceives, Receives
  <2>2. SourceOf(f) \in {"sending", "sent"} /\ SinkOf(f) = "open"
    BY <2>1 DEF SourceOf, SinkOf
  <2>3. SinkOf(f)' = "connected"
    BY <1>1, <2>1, SinkMoves DEF ThreadPCs, SinkOf
  <2>4. Lifecycle!Becomes(f, SourceOf(f), "connected")
    BY <1>1, <2>1, <2>3, SinkMoves DEF ThreadPCs
  <2> QED
    BY <2>2, <2>4, AbstractGuards
<1>4. CASE DataThreadFails(f)
  <2>1. SetThread(f, "failed") /\ thread[f] = "receiving"
    BY <1>4 DEF DataThreadFails, ReceiveFails
  <2>2. SinkOf(f) = "connected"
    BY <2>1 DEF SinkOf
  <2>3. SinkOf(f)' = "broken"
    BY <1>1, <2>1, SinkMoves DEF ThreadPCs, SinkOf
  <2>4. Lifecycle!Becomes(f, SourceOf(f), "broken")
    BY <1>1, <2>1, <2>3, SinkMoves DEF ThreadPCs
  <2> QED
    BY <2>2, <2>4, AbstractGuards
<1> QED
  BY <1>2, <1>3, <1>4

\* A session gives up a flow whose data thread reported an error.
LEMMA SessionPipeAbstract ==
  ASSUME VerdictInv, NEW g \in Flows, SessionOnPipe(g)
  PROVE  (\E f \in Flows : Lifecycle!Lose(f)) \/ UNCHANGED Lifecycle!flowVars
<1>1. PICK f : f = Head(rPipe[g]).flow
  OBVIOUS
<1>2. /\ ChannelInv /\ SessionsKept /\ UNCHANGED sendVars /\ rPipe[g] # <<>> /\ Serving(g)
      /\ \A e \in Flows : FlowKept(e)
  BY DEF VerdictInv, FlowInv, FlowsServed, SessionOnPipe, SessionPipe, ThreadOk, ThreadNotStarted,
         ThreadBroke, OnReport
<1>3. f \in Flows /\ Reported(g, Head(rPipe[g]).code, f)
  BY <1>1, <1>2, HeadReported
<1>4. CASE thread' = thread
  BY <1>2, <1>4, QuietEnds DEF sendVars, threadVars
<1>5. CASE thread' # thread
  <2>1. /\ f \in table[g] /\ SetThread(f, "reaped")
        /\ Head(rPipe[g]).code \in {"ERR1", "ERR2", "ERR_SOCK"}
    BY <1>1, <1>5 DEF SessionOnPipe, SessionPipe, ThreadOk, ThreadNotStarted, ThreadBroke,
       DropFlow, OnReport
  <2>2. thread[f] # "cancelled"
    BY <1>2, <1>3, <2>1 DEF SessionsKept, Serving
  <2>3. thread[f] = "failed"
    BY <1>2, <1>3, <2>1, <2>2 DEF FlowKept, ReportPart
  <2>4. SinkOf(f) = "broken"
    BY <2>3 DEF SinkOf
  <2>5. SinkOf(f)' = "lost"
    BY <1>2, <1>3, <2>1, SinkMoves DEF ThreadPCs, SinkOf
  <2>6. Lifecycle!Becomes(f, SourceOf(f), "lost")
    BY <1>2, <1>3, <2>1, <2>5, SinkMoves DEF ThreadPCs
  <2> QED
    BY <1>3, <2>4, <2>6, AbstractGuards
<1> QED
  BY <1>4, <1>5

\* A session starts the data thread of a flow, and closes a flow only once its
\* sender has ended.
LEMMA SessionSocketAbstract ==
  ASSUME VerdictInv, NEW g \in Flows, SessionOnSocket(g) \/ SessionTimer(g)
  PROVE  (\E f \in Flows : Lifecycle!Close(f)) \/ UNCHANGED Lifecycle!flowVars
<1>1. /\ ChannelInv /\ SessionsKept /\ UNCHANGED sendVars
      /\ \A e \in Flows : FlowKept(e)
  BY DEF VerdictInv, FlowInv, FlowsServed, SessionOnSocket, SessionTimer
<1>2. PICK f : f = Head(toRecv[g]).flow
  OBVIOUS
<1>3. CASE thread' = thread
  BY <1>1, <1>3, QuietEnds DEF sendVars, threadVars
<1>4. CASE thread' # thread /\ SendFlow(g)
  <2>1. toRecv[g] # <<>> /\ Head(toRecv[g]).type = "SEND_FLOW" /\ SetThread(f, "starting")
    BY <1>2, <1>4 DEF SendFlow, OnMessage
  <2>2. f \in Flows /\ Asked(g, "SEND_FLOW", f)
    BY <1>1, <1>2, <2>1, HeadAsked DEF FlowTypes
  <2>3. thread[f] = "none"
    BY <1>1, <2>2 DEF FlowKept, RequestPart
  <2>4. SinkOf(f)' = SinkOf(f)
    BY <1>1, <2>1, <2>2, <2>3, SinkMoves DEF ThreadPCs, SinkOf
  <2> QED
    BY <1>1, <2>1, <2>2, <2>4, SinkMoves DEF ThreadPCs
<1>5. CASE thread' # thread /\ (ClosedFlow(g) \/ ClosedErr(g))
  <2>1. /\ toRecv[g] # <<>> /\ Head(toRecv[g]).type \in {"CLOSED_FLOW", "CLOSED_ERR"}
        /\ SetThread(f, "cancelled") /\ f \in table[g] /\ Serving(g)
    BY <1>2, <1>5 DEF ClosedFlow, ClosedErr, OnMessage
  <2>2. f \in Flows /\ (Asked(g, "CLOSED_FLOW", f) \/ Asked(g, "CLOSED_ERR", f))
    BY <1>1, <1>2, <2>1, HeadAsked DEF FlowTypes
  <2>3. sender[f] \in {"finished", "failed"}
    BY <1>1, <2>2 DEF FlowKept, RequestPart
  <2>4. thread[f] # "cancelled"
    BY <1>1, <2>1, <2>2 DEF SessionsKept, Serving
  <2>5. thread[f] \in {"listening", "receiving", "failed"}
    BY <1>1, <2>1, <2>2, <2>3, <2>4 DEF FlowKept, ThreadPart, ThreadsOf, Alive
  <2>6. SourceOf(f) \in {"sent", "unsent"} /\ SinkOf(f) \in {"open", "connected", "broken"}
    BY <2>3, <2>5 DEF SourceOf, SinkOf
  <2>7. SinkOf(f)' = "closed"
    BY <1>1, <2>1, <2>2, SinkMoves DEF ThreadPCs, SinkOf
  <2>8. Lifecycle!Becomes(f, SourceOf(f), "closed")
    BY <1>1, <2>1, <2>2, <2>7, SinkMoves DEF ThreadPCs
  <2> QED
    BY <2>2, <2>6, <2>8, AbstractGuards
<1> QED
  BY <1>3, <1>4, <1>5 DEF SessionOnSocket, SessionSocket, SessionTimer, AcceptSession, Connected,
     NameLog,
     FlowClosed, Release, DiscoveryAnswered, SenderDown, Discover

\* What Meant says is what the life cycle asks of a verdict.
LEMMA MeantIsJustified ==
  ASSUME NEW f \in Flows, NEW v, Meant(f, v)
  PROVE  Lifecycle!Justified(f, v)
<1>1. /\ sender[f] = "finished" => SourceOf(f) = "sent"
      /\ sender[f] = "failed" => SourceOf(f) = "unsent"
  BY DEF SourceOf
<1>2. /\ thread[f] = "cancelled" => SinkOf(f) = "closed"
      /\ thread[f] = "reaped" => SinkOf(f) = "lost"
  BY DEF SinkOf
<1> QED
  BY <1>1, <1>2 DEF Meant, Lifecycle!Justified

\* And the other way: what is justified is meant.
LEMMA JustifiedIsMeant ==
  ASSUME ChannelInv, NEW f \in Flows, NEW v, Lifecycle!Justified(f, v)
  PROVE  Meant(f, v)
<1>1. /\ SourceOf(f) = "sent" => sender[f] = "finished"
      /\ SourceOf(f) = "unsent" => sender[f] = "failed"
  BY DEF SourceOf
<1>2. thread[f] \in ThreadPCs
  BY Types
<1>3. /\ SinkOf(f) = "closed" => thread[f] = "cancelled"
      /\ SinkOf(f) = "lost" => thread[f] = "reaped"
  BY <1>2 DEF SinkOf, ThreadPCs
<1> QED
  BY <1>1, <1>3 DEF Meant, Lifecycle!Justified

\* flowParser hands its flow to a manager, and later records the result.
LEMMA ParserAbstract ==
  ASSUME VerdictInv, NEW f \in Flows, Parser(f)
  PROVE  \/ Lifecycle!Offer(f)
         \/ \E v \in ResultCodes : Lifecycle!Judge(f, v)
         \/ UNCHANGED Lifecycle!flowVars
<1>1. ChannelInv /\ FlowKept(f) /\ UNCHANGED thread
  BY DEF VerdictInv, FlowInv, FlowsServed, Parser, recvVars
<1>2. CASE SubmitFlow(f)
  <2>1. SetParser(f, "waiting") /\ UNCHANGED <<outcome, sender>> /\ parser[f] = "attached"
    BY <1>2 DEF SubmitFlow
  <2>2. parser'[f] = "waiting" /\ \A e \in Flows : e # f => parser'[e] = parser[e]
    BY <1>1, <2>1, Types DEF SetParser
  <2>3. thread[f] = "none" /\ outcome[f] = "none" /\ sender[f] = "none"
    BY <1>1, <2>1, FreshFlow
  <2>4. SourceOf(f) = "idle" /\ SourceOf(f)' = "offered"
    BY <2>1, <2>2, <2>3 DEF SourceOf, ResultCodes
  <2>5. Lifecycle!Becomes(f, "offered", SinkOf(f))
    BY <1>1, <2>1, <2>2, <2>4, SourceMoves
  <2> QED
    BY <2>3, <2>4, <2>5, AbstractGuards
<1>3. CASE TakeResult(f)
  <2>1. PICK v : v = Head(parserPipe[f])
    OBVIOUS
  <2>2. /\ parser[f] = "waiting" /\ parserPipe[f] # <<>> /\ SetParser(f, "ended")
        /\ outcome' = [outcome EXCEPT ![f] = v] /\ UNCHANGED sender
    BY <1>3, <2>1 DEF TakeResult
  <2>3. parserPipe[f] \in Seq(ResultCodes) /\ outcome \in [Flows -> ResultCodes \cup {"none"}]
    BY <1>1, Types
  <2>4. v \in ResultCodes /\ Has(parserPipe[f], v)
    BY <2>1, <2>2, <2>3, TailQ
  <2>5. Meant(f, v)
    BY <2>4 DEF VerdictInv, TruthKept
  <2>6. outcome[f] = "none"
    BY <1>1, <2>2 DEF FlowKept, ParserPart
  <2>7. /\ parser'[f] = "ended" /\ outcome'[f] = v
        /\ \A e \in Flows : e # f => parser'[e] = parser[e] /\ outcome'[e] = outcome[e]
    BY <1>1, <2>2, <2>3, Types DEF SetParser
  <2>8. \A e \in Flows : SourceOf(e)' = SourceOf(e)
    <3>1. SourceOf(f)' = SourceOf(f)
      BY <2>2, <2>4, <2>7 DEF SourceOf
    <3>2. \A e \in Flows : e # f => SourceOf(e)' = SourceOf(e)
      BY <2>2, <2>7 DEF SourceOf
    <3> QED
      BY <3>1, <3>2
  <2>9. \A e \in Flows : SinkOf(e)' = SinkOf(e)
    BY <1>1 DEF SinkOf
  <2>10. SourceOf(f) # "idle"
    BY <2>2 DEF SourceOf
  <2>11. Lifecycle!Judge(f, v)
    <3>1. Lifecycle!Justified(f, v)
      BY <2>5, MeantIsJustified
    <3> HIDE DEF Lifecycle!Justified
    <3> QED
      BY <2>2, <2>6, <2>8, <2>9, <2>10, <3>1 DEF Lifecycle!Judge
  <2> QED
    BY <2>4, <2>11
<1>4. CASE ~SubmitFlow(f) /\ ~TakeResult(f)
  <2>1. UNCHANGED <<outcome, sender>>
    BY <1>4 DEF Parser, ParserThread, JoinChannel, OpenConnection, OpenFails, Abort,
       ConnectAnswered,
       LogRequestFails, LogAnswered, RegisterChannel, threadVars
  <2>2. \/ parser' = parser
        \/ /\ parser[f] \in {"idle", "connecting", "naming"}
           /\ \E pc \in {"connecting", "naming", "attached", "ended"} : SetParser(f, pc)
    BY <1>4 DEF Parser, ParserThread, JoinChannel, OpenConnection, OpenFails, Abort,
       ConnectAnswered,
       LogRequestFails, LogAnswered, RegisterChannel, threadVars
  <2>3. \A e \in Flows : parser'[e] = parser[e] \/ (parser[e] # "waiting" /\ parser'[e] # "waiting")
    BY <1>1, <2>2, Types DEF SetParser
  <2> QED
    BY <1>1, <2>1, <2>3, QuietEnds
<1> QED
  BY <1>2, <1>3, <1>4

\* A flowSender connects, cannot connect, or has sent everything.
LEMMA SenderAbstract ==
  ASSUME VerdictInv, NEW f \in Flows, SenderFails(f) \/ SenderConnects(f) \/ SenderFinishes(f)
  PROVE  Lifecycle!Connect(f) \/ Lifecycle!CannotSend(f) \/ Lifecycle!Complete(f)
<1>1. /\ ChannelInv /\ FlowKept(f)
      /\ UNCHANGED <<thread, outcome, parser>>
  BY DEF VerdictInv, FlowInv, FlowsServed, SenderFails, SenderConnects, SenderFinishes, SetupFails,
         Connects, FinishFlow, recvVars
<1>2. PICK pc \in {"failed", "sending", "finished"} :
        /\ sender' = [sender EXCEPT ![f] = pc]
        /\ sender[f] = IF pc = "finished" THEN "sending" ELSE "setup"
  BY DEF SenderFails, SenderConnects, SenderFinishes, SetupFails, Connects, FinishFlow
<1>3. sender'[f] = pc /\ \A e \in Flows : e # f => sender'[e] = sender[e]
  BY <1>1, <1>2, Types
<1>4. SourceOf(f)' = CASE pc = "failed" -> "unsent" [] pc = "sending" -> "sending" [] OTHER -> "sent"
  BY <1>3 DEF SourceOf
<1>5. \A src : src = SourceOf(f)' => Lifecycle!Becomes(f, src, SinkOf(f))
  BY <1>1, <1>3, SourceMoves
<1>6. CASE pc = "finished"
  <2>1. SourceOf(f) = "sending"
    BY <1>2, <1>6 DEF SourceOf
  <2>2. Lifecycle!Becomes(f, "sent", SinkOf(f))
    BY <1>4, <1>5, <1>6
  <2> QED
    BY <2>1, <2>2, AbstractGuards
<1>7. CASE pc # "finished"
  <2>1. sender[f] = "setup" /\ thread[f] = "listening"
    BY <1>1, <1>2, <1>7 DEF FlowKept, ThreadPart, ThreadsOf
  <2>2. SourceOf(f) = "offered" /\ SinkOf(f) = "open"
    BY <2>1, Offered DEF SinkOf
  <2>3. /\ pc = "failed" => Lifecycle!Becomes(f, "unsent", "open")
        /\ pc = "sending" => Lifecycle!Becomes(f, "sending", "open")
    BY <1>4, <1>5, <2>2
  <2> QED
    BY <1>2, <1>7, <2>2, <2>3, AbstractGuards
<1> QED
  BY <1>6, <1>7

\* A manager only carries messages: it starts a flowSender, which has not connected yet.
LEMMA ManagerAbstract ==
  ASSUME VerdictInv, NEW g \in Flows,
         ManagerOnSocket(g) \/ ManagerOnPipe(g) \/ ManagerEnds(g) \/ SenderKilled(g) \/ Exit
  PROVE  UNCHANGED Lifecycle!flowVars
<1>1. ChannelInv /\ \A e \in Flows : FlowKept(e)
  BY DEF VerdictInv, FlowInv, FlowsServed
<1>2. UNCHANGED <<thread, outcome, parser>>
  BY DEF ManagerOnSocket, ManagerSocket, ManagerOnPipe, ManagerPipe, ManagerEnds, ManagerEnding,
         SenderKilled, StartFlow, AnswerDiscovery, FlowAnswered, ReceiverLost, ForwardRequest,
         FlowFailed, SendClosedErr, ManagerLeaves, ManagerReleased, Notify, BrokenPipe, Abort,
         Exit, ExitProcess, threadVars, recvVars
<1>3. CASE sender' = sender
  BY <1>2, <1>3, QuietEnds
<1>4. CASE sender' # sender
  <2>1. StartFlow(g)
    BY <1>4 DEF ManagerOnSocket, ManagerSocket, ManagerOnPipe, ManagerPipe, ManagerEnds,
       ManagerEnding,
         SenderKilled, StartFlow, AnswerDiscovery, FlowAnswered, ReceiverLost, ForwardRequest,
         FlowFailed, SendClosedErr, ManagerLeaves, ManagerReleased, Notify, BrokenPipe, Abort,
         Exit, ExitProcess, threadVars
  <2>2. PICK f : f = Head(toSend[g]).flow
    OBVIOUS
  <2>3. /\ toSend[g] # <<>> /\ Head(toSend[g]).type = "ACK_SEND_FLOW"
        /\ sender' = [sender EXCEPT ![f] = "setup"]
    BY <2>1, <2>2 DEF StartFlow, OnSocket
  <2>4. f \in Flows /\ Replied(g, "ACK_SEND_FLOW", f)
    BY <1>1, <2>2, <2>3, HeadReplied DEF FlowTypes
  <2>5. sender[f] = "none"
    BY <1>1, <2>4 DEF FlowKept, ReplyPart
  <2>6. sender'[f] = "setup" /\ \A e \in Flows : e # f => sender'[e] = sender[e]
    BY <1>1, <2>3, <2>4, Types
  <2>7. SourceOf(f)' = SourceOf(f)
    BY <1>2, <2>5, <2>6 DEF SourceOf
  <2> QED
    BY <1>1, <1>2, <2>4, <2>6, <2>7, SourceMoves
<1> QED
  BY <1>3, <1>4

\* Every step of the two programs is a step of the flow life cycle, or a stutter.
LEMMA NextIsAbstract ==
  ASSUME VerdictInv, [Next]_vars
  PROVE  [Lifecycle!Next]_(Lifecycle!flowVars)
<1>1. ASSUME NEW f \in Flows,
             \/ Lifecycle!Offer(f) \/ Lifecycle!Open(f) \/ Lifecycle!Decline(f)
             \/ Lifecycle!Connect(f) \/ Lifecycle!CannotSend(f) \/ Lifecycle!Accept(f)
             \/ Lifecycle!Break(f) \/ Lifecycle!Lose(f) \/ Lifecycle!Complete(f) \/ Lifecycle!Close(f)
             \/ \E v \in ResultCodes : Lifecycle!Judge(f, v)
      PROVE  Lifecycle!Next
  BY <1>1 DEF Lifecycle!Next, ResultCodes
<1>2. CASE Finished \/ UNCHANGED vars \/ \E h \in Hosts : ReceiverStops(h)
  <2>1. UNCHANGED <<outcome, sender, thread, parser>>
    BY <1>2 DEF Finished, vars, sendVars, recvVars, ReceiverStops, Interrupted, threadVars
  <2> QED
    BY <2>1, QuietEnds
<1>3. CASE Exit
  <2>1. UNCHANGED <<outcome, sender, thread, parser>>
    BY <1>3 DEF Exit, ExitProcess, recvVars, threadVars
  <2> QED
    BY <2>1, QuietEnds
<1>4. ASSUME NEW f \in Flows,
             \/ Parser(f)
             \/ ManagerOnSocket(f) \/ ManagerOnPipe(f) \/ ManagerEnds(f)
             \/ SenderFails(f) \/ SenderConnects(f) \/ SenderFinishes(f) \/ SenderKilled(f)
      PROVE  [Lifecycle!Next]_(Lifecycle!flowVars)
  <2>1. CASE Parser(f)
    BY <1>1, <2>1, ParserAbstract
  <2>2. CASE SenderFails(f) \/ SenderConnects(f) \/ SenderFinishes(f)
    BY <1>1, <2>2, SenderAbstract
  <2>3. CASE ManagerOnSocket(f) \/ ManagerOnPipe(f) \/ ManagerEnds(f) \/ SenderKilled(f)
    BY <2>3, ManagerAbstract
  <2> QED
    BY <1>4, <2>1, <2>2, <2>3
<1>5. ASSUME NEW f \in Flows,
             \/ SessionOnSocket(f) \/ SessionOnPipe(f) \/ SessionTimer(f)
             \/ DataThread(f) \/ DataThreadReceives(f) \/ DataThreadFails(f)
      PROVE  [Lifecycle!Next]_(Lifecycle!flowVars)
  BY <1>1, <1>5, SessionSocketAbstract, SessionPipeAbstract, DataThreadAbstract
<1> QED
  BY <1>2, <1>3, <1>4, <1>5 DEF Next

\* Who writes the variables that carry a verdict.
LEMMA Writers ==
  ASSUME [Next]_vars
  PROVE  /\ outcome' = outcome \/ \E f \in Flows : TakeResult(f)
         /\ parserPipe' = parserPipe \/ \E f \in Flows : TakeResult(f) \/ FlowFailed(f) \/ Notify(f)
         /\ \/ manager' = manager
            \/ \E f \in Flows : \/ (ConnectAnswered(f) \/ LogAnswered(f)) /\ RegisterChannel(f)
                                \/ FlowAnswered(f) \/ FlowFailed(f) \/ SendClosedErr(f)
                                \/ ManagerLeaves(f) \/ ManagerReleased(f) \/ Notify(f)
         /\ \/ thread' = thread
            \/ UNCHANGED sendVars
         /\ parser' = parser \/ UNCHANGED recvVars
<1> USE DEF threadVars, chanVars, sendVars, recvVars
<1>1. CASE Finished \/ UNCHANGED vars \/ (\E h \in Hosts : ReceiverStops(h)) \/ Exit
  BY <1>1 DEF Finished, vars, ReceiverStops, Interrupted, Exit, ExitProcess
<1>2. ASSUME NEW f \in Flows, Parser(f)
      PROVE  /\ outcome' = outcome \/ TakeResult(f)
             /\ parserPipe' = parserPipe \/ TakeResult(f)
             /\ \/ manager' = manager
                \/ (ConnectAnswered(f) \/ LogAnswered(f)) /\ RegisterChannel(f)
             /\ UNCHANGED recvVars
  <2>1. UNCHANGED recvVars /\ ParserThread(f)
    BY <1>2 DEF Parser
  <2>2. CASE TakeResult(f)
    BY <2>1, <2>2 DEF TakeResult
  <2>3. CASE ConnectAnswered(f) \/ LogAnswered(f)
    <3>1. RegisterChannel(f) \/ UNCHANGED <<outcome, parserPipe, manager>>
      BY <2>3 DEF ConnectAnswered, LogAnswered
    <3>2. RegisterChannel(f) => UNCHANGED <<outcome, parserPipe>>
      BY DEF RegisterChannel
    <3> QED
      BY <2>1, <2>3, <3>1, <3>2
  <2>4. CASE \/ JoinChannel(f) \/ OpenConnection(f) \/ OpenFails(f)
             \/ LogRequestFails(f) \/ SubmitFlow(f)
    BY <2>1, <2>4 DEF JoinChannel, OpenConnection, OpenFails, LogRequestFails, SubmitFlow, Abort
  <2> QED
    BY <2>1, <2>2, <2>3, <2>4 DEF ParserThread
<1>3. ASSUME NEW f \in Flows, ManagerOnSocket(f) \/ ManagerOnPipe(f) \/ ManagerEnds(f)
      PROVE  /\ UNCHANGED <<outcome, parser, thread>>
             /\ parserPipe' = parserPipe \/ FlowFailed(f) \/ Notify(f)
             /\ \/ manager' = manager
                \/ FlowAnswered(f) \/ FlowFailed(f) \/ SendClosedErr(f)
                \/ ManagerLeaves(f) \/ ManagerReleased(f) \/ Notify(f)
  BY <1>3 DEF ManagerOnSocket, ManagerSocket, ManagerOnPipe, ManagerPipe, ManagerEnds,
     ManagerEnding,
     StartFlow, AnswerDiscovery, FlowAnswered, ReceiverLost, ForwardRequest, FlowFailed,
     SendClosedErr,
     ManagerLeaves, ManagerReleased, Notify, Abort
<1>4. ASSUME NEW f \in Flows, SenderFails(f) \/ SenderConnects(f) \/ SenderFinishes(f) \/ SenderKilled(f)
      PROVE  UNCHANGED <<outcome, parserPipe, manager, thread, parser>>
  BY <1>4 DEF SenderFails, SenderConnects, SenderFinishes, SenderKilled, SetupFails, Connects,
     FinishFlow, BrokenPipe, Abort
<1>5. ASSUME NEW f \in Flows,
             \/ SessionOnSocket(f) \/ SessionOnPipe(f) \/ SessionTimer(f)
             \/ DataThread(f) \/ DataThreadReceives(f) \/ DataThreadFails(f)
      PROVE  UNCHANGED sendVars
  BY <1>5 DEF SessionOnSocket, SessionOnPipe, SessionTimer, DataThread, DataThreadReceives,
     DataThreadFails
<1> QED
  BY <1>1, <1>2, <1>3, <1>4, <1>5 DEF Next

\* A step of one flow's life cycle, as the two programs show it.
LEMMA AbstractMove ==
  ASSUME NEW f \in Flows, NEW src, NEW snk, Lifecycle!Becomes(f, src, snk)
  PROVE  /\ SourceOf(f)' = src /\ SinkOf(f)' = snk
         /\ \A e \in Flows : e # f => SourceOf(e)' = SourceOf(e) /\ SinkOf(e)' = SinkOf(e)
  BY DEF Lifecycle!Becomes

\* What a code says of the two ends of a flow stays true.
LEMMA MeantStays ==
  ASSUME VerdictInv, [Next]_vars, FlowInv', NEW f \in Flows, NEW v, Meant(f, v)
  PROVE  Meant(f, v)'
<1>1. [Lifecycle!Next]_(Lifecycle!flowVars)
  BY NextIsAbstract
<1>2. thread[f] \in ThreadPCs /\ thread'[f] \in ThreadPCs
  BY Types DEF VerdictInv, FlowInv, ChannelInv, TypeOK, RecvTypeOK
<1>3. /\ sender[f] = "finished" => SourceOf(f) = "sent"
      /\ sender[f] = "failed" => SourceOf(f) = "unsent"
      /\ SourceOf(f)' = "sent" => sender'[f] = "finished"
      /\ SourceOf(f)' = "unsent" => sender'[f] = "failed"
  BY DEF SourceOf
<1>4. /\ thread[f] = "cancelled" => SinkOf(f) = "closed"
      /\ thread[f] = "reaped" => SinkOf(f) = "lost"
      /\ SinkOf(f)' = "closed" => thread'[f] = "cancelled"
      /\ SinkOf(f)' = "lost" => thread'[f] = "reaped"
  BY <1>2 DEF SinkOf, ThreadPCs
<1>5. /\ SourceOf(f) \in {"sent", "unsent"} => SourceOf(f)' = SourceOf(f)
      /\ SinkOf(f) \in {"closed", "lost"} => SinkOf(f)' = SinkOf(f)
  <2>1. CASE UNCHANGED Lifecycle!flowVars
    BY <2>1 DEF Lifecycle!flowVars
  <2>2. ASSUME NEW h \in Flows, NEW code, Lifecycle!Judge(h, code)
        PROVE  SourceOf(f)' = SourceOf(f) /\ SinkOf(f)' = SinkOf(f)
    BY <2>2 DEF Lifecycle!Judge
  <2>3. ASSUME NEW h \in Flows,
               \/ Lifecycle!Offer(h) \/ Lifecycle!Open(h) \/ Lifecycle!Decline(h)
               \/ Lifecycle!Connect(h) \/ Lifecycle!CannotSend(h) \/ Lifecycle!Accept(h)
               \/ Lifecycle!Break(h) \/ Lifecycle!Lose(h) \/ Lifecycle!Complete(h)
               \/ Lifecycle!Close(h)
        PROVE  /\ SourceOf(f) \in {"sent", "unsent"} => SourceOf(f)' = SourceOf(f)
               /\ SinkOf(f) \in {"closed", "lost"} => SinkOf(f)' = SinkOf(f)
    <3>1. \E src, snk :
            /\ Lifecycle!Becomes(h, src, snk)
            /\ SourceOf(h) \in {"sent", "unsent"} => src = SourceOf(h)
            /\ SinkOf(h) \in {"closed", "lost"} => snk = SinkOf(h)
      BY <2>3, AbstractGuards
    <3> QED
      BY <3>1, AbstractMove
  <2> QED
    BY <1>1, <2>1, <2>2, <2>3 DEF Lifecycle!Next
<1> QED
  BY <1>3, <1>4, <1>5 DEF Meant

\* A parser waits until it takes the result of its flow.
LEMMA WaitsForResult ==
  ASSUME ChannelInv, [Next]_vars, NEW f \in Flows, parser[f] = "waiting"
  PROVE  parser'[f] = "waiting" \/ TakeResult(f)
<1>1. CASE UNCHANGED parser
  BY <1>1
<1>2. ASSUME NEW e \in Flows, Parser(e)
      PROVE  parser'[f] = "waiting" \/ TakeResult(f)
  <2>1. \/ TakeResult(e)
        \/ parser' = parser
        \/ parser[e] # "waiting" /\ \E pc \in ParserPCs : SetParser(e, pc)
    BY <1>2 DEF Parser, ParserThread, JoinChannel, OpenConnection, OpenFails, ConnectAnswered,
       LogRequestFails, LogAnswered, SubmitFlow, RegisterChannel, Abort, ParserPCs, threadVars
  <2>2. TakeResult(e) => SetParser(e, "ended")
    BY DEF TakeResult
  <2> QED
    BY <2>1, <2>2, Types DEF SetParser
<1>3. UNCHANGED parser \/ \E e \in Flows : Parser(e)
  <2>1. ASSUME NEW e \in Flows,
               \/ ManagerOnSocket(e) \/ ManagerOnPipe(e) \/ ManagerEnds(e)
               \/ SenderFails(e) \/ SenderConnects(e) \/ SenderFinishes(e) \/ SenderKilled(e)
        PROVE  UNCHANGED parser
    BY <2>1 DEF ManagerOnSocket, ManagerSocket, ManagerOnPipe, ManagerPipe, ManagerEnds,
       ManagerEnding,
     StartFlow, AnswerDiscovery, FlowAnswered, ReceiverLost, ForwardRequest, FlowFailed,
     SendClosedErr,
     ManagerLeaves, ManagerReleased, Notify, Abort, SenderFails, SenderConnects, SenderFinishes,
     SenderKilled, SetupFails, Connects, FinishFlow, BrokenPipe, threadVars
  <2>2. ASSUME NEW e \in Flows,
             \/ SessionOnSocket(e) \/ SessionOnPipe(e) \/ SessionTimer(e)
             \/ DataThread(e) \/ DataThreadReceives(e) \/ DataThreadFails(e)
        PROVE  UNCHANGED parser
    BY <2>2 DEF SessionOnSocket, SessionOnPipe, SessionTimer, DataThread, DataThreadReceives,
       DataThreadFails, sendVars, threadVars
  <2>3. CASE Finished \/ UNCHANGED vars \/ (\E h \in Hosts : ReceiverStops(h)) \/ Exit
    BY <2>3 DEF Finished, vars, ReceiverStops, Interrupted, Exit, ExitProcess, sendVars, threadVars
  <2> QED
    BY <2>1, <2>2, <2>3 DEF Next
<1> QED
  BY <1>1, <1>2, <1>3

\* flowParser takes a result code, and no other parser is concerned.
LEMMA ResultTaken ==
  ASSUME ChannelInv, NEW f \in Flows, TakeResult(f)
  PROVE  /\ outcome'[f] \in ResultCodes /\ Has(parserPipe[f], outcome'[f])
         /\ parserPipe[f] \in Seq(ResultCodes) /\ parserPipe[f] # <<>>
         /\ parserPipe'[f] = Tail(parserPipe[f])
         /\ \A e \in Flows : e # f => outcome'[e] = outcome[e] /\ parserPipe'[e] = parserPipe[e]
<1>1. /\ parserPipe \in [Flows -> Seq(ResultCodes)]
      /\ outcome \in [Flows -> ResultCodes \cup {"none"}]
  BY Types
<1>2. /\ parserPipe[f] # <<>> /\ outcome' = [outcome EXCEPT ![f] = Head(parserPipe[f])]
      /\ parserPipe' = [parserPipe EXCEPT ![f] = Tail(@)]
  BY DEF TakeResult
<1>3. parserPipe[f] \in Seq(ResultCodes)
  BY <1>1
<1>4. Head(parserPipe[f]) \in ResultCodes /\ Has(parserPipe[f], Head(parserPipe[f]))
  BY <1>2, <1>3, TailQ
<1> QED
  BY <1>1, <1>2, <1>3, <1>4

\* A flow whose data thread exists has been handed to a manager.
LEMMA OpenedKept ==
  ASSUME VerdictInv, [Next]_vars, NEW f \in Flows, thread'[f] # "none"
  PROVE  parser'[f] = "waiting" \/ outcome'[f] # "none"
<1>1. ChannelInv /\ \A e \in Flows : FlowKept(e)
  BY DEF VerdictInv, FlowInv, FlowsServed
<1>2. CASE thread[f] # "none"
  <2>1. parser[f] = "waiting" \/ outcome[f] # "none"
    BY <1>2 DEF VerdictInv, TruthKept
  <2>2. ASSUME NEW e \in Flows, TakeResult(e)
        PROVE  outcome'[e] # "none" /\ \A h \in Flows : h # e => outcome'[h] = outcome[h]
    BY <1>1, <2>2, ResultTaken DEF ResultCodes
  <2>3. parser[f] = "waiting" => parser'[f] = "waiting" \/ outcome'[f] # "none"
    BY <1>1, <2>2, WaitsForResult
  <2>4. outcome[f] # "none" => outcome'[f] # "none"
    BY <2>2, Writers
  <2> QED
    BY <2>1, <2>3, <2>4
<1>3. CASE thread[f] = "none"
  <2>1. UNCHANGED sendVars
    BY <1>3, Writers
  <2>2. ASSUME NEW g \in Flows, SessionOnSocket(g) \/ SessionTimer(g) \/ SessionOnPipe(g)
        PROVE  parser[f] = "waiting"
    <3>1. PICK e : e = Head(toRecv[g]).flow
      OBVIOUS
    <3>2. PICK d : d = Head(rPipe[g]).flow
      OBVIOUS
    <3>3. \/ thread' = thread
          \/ /\ toRecv[g] # <<>> /\ Head(toRecv[g]).type = "SEND_FLOW" /\ SetThread(e, "starting")
          \/ SetThread(e, "cancelled") /\ e \in table[g]
          \/ SetThread(d, "reaped") /\ d \in table[g]
      BY <2>2, <3>1, <3>2 DEF SessionOnSocket, SessionSocket, SessionTimer, SessionOnPipe,
         SessionPipe,
         AcceptSession, Connected, NameLog, SendFlow, ClosedFlow, ClosedErr, FlowClosed, Release,
         DiscoveryAnswered, SenderDown, Discover, ThreadOk, ThreadNotStarted, ThreadBroke, DropFlow,
         OnMessage
    <3>4. f \notin table[g]
      BY <1>1, <1>3 DEF FlowKept, ThreadPart
    <3>5. /\ e = f /\ toRecv[g] # <<>> /\ Head(toRecv[g]).type = "SEND_FLOW"
      BY <1>1, <1>3, <3>3, <3>4, Types DEF SetThread
    <3>6. Asked(g, "SEND_FLOW", f)
      BY <1>1, <3>1, <3>5, HeadAsked DEF FlowTypes
    <3> QED
      BY <1>1, <3>6 DEF FlowKept, RequestPart, Pending
  <2>3. ASSUME NEW e \in Flows, DataThread(e) \/ DataThreadReceives(e) \/ DataThreadFails(e)
        PROVE  FALSE
    <3>1. thread[e] # "none" /\ \E pc : SetThread(e, pc)
      BY <2>3 DEF DataThread, DataThreadStarts, DataThreadReceives, DataThreadFails, BindFails,
         Listens, Receives, ReceiveFails
    <3> QED
      BY <1>1, <1>3, <3>1, Types DEF SetThread
  <2>4. ASSUME Finished \/ UNCHANGED vars \/ (\E h \in Hosts : ReceiverStops(h)) \/ Exit
        PROVE  FALSE
    BY <1>3, <2>4 DEF Finished, vars, ReceiverStops, Interrupted, Exit, ExitProcess, recvVars
  <2>5. ASSUME NEW e \in Flows,
               \/ Parser(e) \/ ManagerOnSocket(e) \/ ManagerOnPipe(e) \/ ManagerEnds(e)
               \/ SenderFails(e) \/ SenderConnects(e) \/ SenderFinishes(e) \/ SenderKilled(e)
        PROVE  FALSE
    BY <1>3, <2>5 DEF Parser, ManagerOnSocket, ManagerOnPipe, ManagerEnds, SenderFails,
       SenderConnects,
       SenderFinishes, SenderKilled, recvVars
  <2>6. parser[f] = "waiting"
    BY <2>2, <2>3, <2>4, <2>5 DEF Next
  <2> QED
    BY <2>1, <2>6 DEF sendVars, threadVars
<1> QED
  BY <1>2, <1>3

\* The code that flowParser reads says what happened.
LEMMA OutcomesMeant ==
  ASSUME VerdictInv, [Next]_vars, FlowInv', NEW f \in Flows, outcome'[f] # "none"
  PROVE  Meant(f, outcome[f])'
<1>1. PICK v : v = outcome'[f]
  OBVIOUS
<1>2. Meant(f, v)
  <2>1. CASE outcome'[f] = outcome[f]
    BY <1>1, <2>1 DEF VerdictInv, TruthKept
  <2>2. CASE TakeResult(f)
    BY <1>1, <2>2, ResultTaken DEF VerdictInv, TruthKept, FlowInv
  <2>3. \A e \in Flows : TakeResult(e) => e = f \/ outcome'[f] = outcome[f]
    BY ResultTaken DEF VerdictInv, FlowInv
  <2> QED
    BY <2>1, <2>2, <2>3, Writers
<1>3. Meant(f, v)'
  BY <1>2, MeantStays
<1> QED
  BY <1>1, <1>3

\* The code that a manager has at hand, and what it writes to a parser.
LEMMA PushedToParser ==
  ASSUME ChannelInv, NEW e \in Flows, NEW code \in ResultCodes, PushToParser(e, code)
  PROVE  /\ \A f \in Flows : f # e => parserPipe'[f] = parserPipe[f]
         /\ \A v : Has(parserPipe'[e], v) <=> Has(parserPipe[e], v) \/ v = code
<1>1. parserPipe \in [Flows -> Seq(ResultCodes)]
  BY Types
<1>2. parserPipe[e] \in Seq(ResultCodes) /\ parserPipe'[e] = Append(parserPipe[e], code)
  BY <1>1 DEF PushToParser
<1>3. \A v : Has(parserPipe'[e], v) <=> Has(parserPipe[e], v) \/ v = code
  BY <1>2, AppendQ
<1> QED
  BY <1>1, <1>3 DEF PushToParser

\* The flow that a manager has at hand, and its code.
LEMMA BusyFlow ==
  ASSUME ChannelInv, NEW g \in Flows, manager[g].pc \notin {"none", "idle"}
  PROVE  manager[g].flow \in Flows /\ manager[g].code \in ResultCodes /\ manager[g].pc \in ManagerPCs
<1>1. manager[g] \in Managers
  BY Types
<1> QED
  BY <1>1 DEF Managers, IdleManager, Manager

\* The flow of an ERRFLOW in the pipe of a channel failed to connect.
LEMMA FailedFlow ==
  ASSUME FlowInv, NEW g \in Flows, NEW f, f = Head(chanPipe[sigChan[g]]).flow, OnPipe(g, "ERRFLOW")
  PROVE  f \in Flows /\ sender[f] = "failed"
<1>1. PICK c : c = sigChan[g]
  OBVIOUS
<1>2. c \in Chans /\ f \in Flows /\ OnPipeTo(c, "ERRFLOW", f)
  BY <1>1, ReadsOwnPipe DEF PipeCodes
<1> QED
  BY <1>2 DEF FlowInv, FlowsServed, FlowKept, PipePart

\* The codes in the parserPipe of a flow say what happened.
LEMMA ParserPipesMeant ==
  ASSUME VerdictInv, [Next]_vars, FlowInv', NEW f \in Flows, NEW v \in ResultCodes,
         Has(parserPipe'[f], v)
  PROVE  Meant(f, v)'
<1>1. ChannelInv /\ FlowInv /\ TruthKept
  BY DEF VerdictInv, FlowInv
<1>2. CASE Has(parserPipe[f], v)
  BY <1>1, <1>2, MeantStays DEF TruthKept
<1>3. CASE ~Has(parserPipe[f], v)
  <2>1. ASSUME NEW e \in Flows, TakeResult(e)
        PROVE  FALSE
    <3>1. Fewer(parserPipe[e], Tail(parserPipe[e]), {v})
      BY <1>1, <2>1, ResultTaken, TailQ
    <3> QED
      BY <1>1, <1>3, <2>1, <3>1, ResultTaken DEF Fewer
  <2>2. ASSUME NEW e \in Flows, FlowFailed(e)
        PROVE  Meant(f, v)
    <3>1. PICK d : d = Head(chanPipe[sigChan[e]]).flow
      OBVIOUS
    <3>2. OnPipe(e, "ERRFLOW") /\ PushToParser(d, "ERR2")
      BY <2>2, <3>1 DEF FlowFailed
    <3>3. d \in Flows /\ sender[d] = "failed"
      BY <1>1, <3>1, <3>2, FailedFlow
    <3>4. d = f /\ v = "ERR2"
      BY <1>1, <1>3, <3>2, <3>3, PushedToParser DEF ResultCodes
    <3> QED
      BY <3>3, <3>4 DEF Meant
  <2>3. ASSUME NEW e \in Flows, Notify(e)
        PROVE  Meant(f, v)
    <3>1. PICK d, code : d = manager[e].flow /\ code = manager[e].code
      OBVIOUS
    <3>2. manager[e].pc \in {"notify", "lastNotify"} /\ PushToParser(d, code)
      BY <2>3, <3>1 DEF Notify
    <3>3. d \in Flows /\ code \in ResultCodes
      BY <1>1, <3>1, <3>2, BusyFlow
    <3>4. d = f /\ v = code
      BY <1>1, <1>3, <3>2, <3>3, PushedToParser
    <3> QED
      BY <1>1, <3>1, <3>3, <3>4, FlowAssumption DEF TruthKept
  <2> QED
    BY <1>3, <2>1, <2>2, <2>3, Writers, MeantStays
<1> QED
  BY <1>2, <1>3

\* The manager of connection g moves on with the flow it has at hand.
LEMMA ManagerMoved ==
  ASSUME ChannelInv, NEW g \in Flows,
         SendClosedErr(g) \/ ManagerLeaves(g) \/ ManagerReleased(g) \/ Notify(g)
  PROVE  /\ \A h \in Flows : h # g => manager'[h] = manager[h]
         /\ \/ manager'[g] = IdleManager
            \/ manager'[g].flow = manager[g].flow /\ manager'[g].code = manager[g].code
<1>1. manager[g].pc \notin {"none", "idle"}
  BY DEF SendClosedErr, ManagerLeaves, ManagerReleased, Notify
<1>2. /\ manager[g] \in [pc : ManagerPCs, flow : Flows, code : ResultCodes]
      /\ manager \in [Flows -> Managers]
  BY <1>1, Types DEF Managers, IdleManager, Manager
<1>3. PICK m : /\ manager' = [manager EXCEPT ![g] = m]
               /\ m = IdleManager \/ \E pc : m = [manager[g] EXCEPT !.pc = pc]
  BY DEF SendClosedErr, ManagerLeaves, ManagerReleased, Notify, SetManager
<1>4. manager'[g] = m /\ \A h \in Flows : h # g => manager'[h] = manager[h]
  BY <1>2, <1>3
<1>5. m = IdleManager \/ (m.flow = manager[g].flow /\ m.code = manager[g].code)
  BY <1>2, <1>3
<1> QED
  BY <1>4, <1>5

\* The code that a manager has at hand says what happened.
LEMMA ManagersMeant ==
  ASSUME VerdictInv, [Next]_vars, FlowInv', NEW g \in Flows, manager'[g].flow # NoFlow
  PROVE  Meant(manager[g].flow, manager[g].code)'
<1>1. ChannelInv /\ FlowInv /\ TruthKept /\ ChannelInv'
  BY DEF VerdictInv, FlowInv
<1>2. manager \in [Flows -> Managers] /\ manager' \in [Flows -> Managers]
  BY <1>1, Types DEF ChannelInv, TypeOK, SendTypeOK, ThreadTypeOK
<1>3. PICK f, v : f = manager'[g].flow /\ v = manager'[g].code
  OBVIOUS
<1>4. f \in Flows
  BY <1>2, <1>3 DEF Managers, Manager, IdleManager
<1>5. SUFFICES Meant(f, v)
  BY <1>3, <1>4, MeantStays
<1>6. CASE \/ manager'[g] = manager[g]
           \/ manager'[g].flow = manager[g].flow /\ manager'[g].code = manager[g].code
  BY <1>1, <1>3, <1>6 DEF TruthKept
<1>7. ASSUME NEW e \in Flows, RegisterChannel(e)
      PROVE  manager'[g] = manager[g]
  <2>1. manager' = [manager EXCEPT ![e] = IdleManager]
    BY <1>7 DEF RegisterChannel, SetManager
  <2> QED
    BY <1>2, <2>1 DEF IdleManager, Manager
<1>8. ASSUME NEW e \in Flows, FlowAnswered(e)
      PROVE  manager'[g] = manager[g] \/ Meant(f, v)
  <2>1. PICK m : m = Head(toSend[e])
    OBVIOUS
  <2>2. /\ toSend[e] # <<>> /\ m.type \in AnswerTypes
        /\ manager' = [manager EXCEPT ![e] = Manager("closing", m.flow,
                           IF m.type = "ACK_CLOSED_FLOW" THEN "END" ELSE "ERR1")]
    BY <1>8, <2>1 DEF FlowAnswered, OnSocket, AnswerTypes, SetManager
  <2>3. toSend[e] \in Seq(Messages)
    BY <1>1, Types
  <2>4. m \in Messages /\ Has(toSend[e], m)
    BY <2>1, <2>2, <2>3, TailQ
  <2>5. ReplyMeant(m)
    BY <1>1, <2>4 DEF TruthKept
  <2>6. Meant(m.flow, IF m.type = "ACK_CLOSED_FLOW" THEN "END" ELSE "ERR1")
    BY <2>2, <2>5 DEF ReplyMeant, AnswerTypes, Errors, PlainTypes
  <2>7. CASE e = g
    BY <1>2, <1>3, <2>2, <2>6, <2>7 DEF Manager
  <2> QED
    BY <1>2, <2>2, <2>7
<1>9. ASSUME NEW e \in Flows, FlowFailed(e)
      PROVE  manager'[g] = manager[g] \/ Meant(f, v)
  <2>1. PICK d : d = Head(chanPipe[sigChan[e]]).flow
    OBVIOUS
  <2>2. OnPipe(e, "ERRFLOW") /\ manager' = [manager EXCEPT ![e] = Manager("closedErr", d, "ERR2")]
    BY <1>9, <2>1 DEF FlowFailed, SetManager
  <2>3. Meant(d, "ERR2")
    BY <1>1, <2>1, <2>2, FailedFlow DEF Meant
  <2>4. CASE e = g
    BY <1>2, <1>3, <2>2, <2>3, <2>4 DEF Manager
  <2> QED
    BY <1>2, <2>2, <2>4
<1>10. ASSUME NEW e \in Flows, SendClosedErr(e) \/ ManagerLeaves(e) \/ ManagerReleased(e) \/ Notify(e)
       PROVE  \/ manager'[g] = manager[g]
              \/ manager'[g].flow = manager[g].flow /\ manager'[g].code = manager[g].code
  <2>1. manager'[g] # IdleManager
    BY DEF IdleManager, Manager
  <2> QED
    BY <1>1, <1>10, <2>1, ManagerMoved
<1> QED
  BY <1>6, <1>7, <1>8, <1>9, <1>10, Writers

\* A message under way to ITGSend was there before, or has just been sent.
LEMMA SentReply ==
  ASSUME ChannelInv, NEW g \in Flows, NEW x \in Messages, ReceiverSends(g, x)
  PROVE  \A h \in Flows : \A m : Has(toSend'[h], m) => Has(toSend[h], m) \/ m = x
<1>1. toSend \in [Flows -> Seq(Messages)]
  BY Types
<1>2. toSend[g] \in Seq(Messages) /\ toSend'[g] = Append(toSend[g], x)
  BY <1>1 DEF ReceiverSends
<1>3. \A m : Has(toSend'[g], m) => Has(toSend[g], m) \/ m = x
  BY <1>2, AppendQ
<1> QED
  BY <1>1, <1>3 DEF ReceiverSends

\* A reply that is left on the connection was there before.
LEMMA TakenReply ==
  ASSUME ChannelInv, NEW g \in Flows, toSend' = toSend \/ (toSend[g] # <<>> /\ SenderTakes(g))
  PROVE  \A h \in Flows : \A m : Has(toSend'[h], m) => Has(toSend[h], m)
<1>1. CASE toSend' = toSend
  BY <1>1
<1>2. CASE toSend[g] # <<>> /\ SenderTakes(g)
  <2>1. toSend \in [Flows -> Seq(Messages)]
    BY Types
  <2>2. toSend[g] \in Seq(Messages) /\ toSend'[g] = Tail(toSend[g])
    BY <1>2, <2>1 DEF SenderTakes
  <2>3. \A m : Fewer(toSend[g], toSend'[g], {m})
    BY <1>2, <2>2, TailQ
  <2>4. \A m : Has(toSend'[g], m) => Has(toSend[g], m)
    BY <2>3 DEF Fewer
  <2> QED
    BY <1>2, <2>1, <2>4 DEF SenderTakes
<1> QED
  BY <1>1, <1>2

\* The messages that a session sends, and what it knows of the flow when it does.
LEMMA SessionReplies ==
  ASSUME VerdictInv, NEW g \in Flows, SessionOnSocket(g) \/ SessionTimer(g) \/ SessionOnPipe(g),
         toSend' # toSend
  PROVE  \E x \in Messages :
           /\ ReceiverSends(g, x)
           /\ \/ x.type \in PlainTypes \cup {"ACK_SEND_FLOW"}
              \/ x.type = "ACK_CLOSED_FLOW" /\ Meant(x.flow, "END")
              \/ x.type \in Errors /\ Meant(x.flow, "ERR1")'
<1>1. ChannelInv /\ SessionsKept /\ \A e \in Flows : FlowKept(e)
  BY DEF VerdictInv, FlowInv, FlowsServed
<1>2. CASE Connected(g) \/ NameLog(g) \/ Release(g) \/ Discover(g)
  <2>1. PICK t \in {"ACK_CONNECT", "ACK_SEND_NAME_LOG", "ACK_RELEASE", "DISCOVERY"} :
          ReceiverSends(g, Plain(t))
    BY <1>2 DEF Connected, NameLog, Release, Discover
  <2>2. t \in PlainTypes /\ Plain(t) \in Messages /\ Plain(t).type = t
    BY MessageKinds DEF PlainTypes, Plain
  <2> QED
    BY <2>1, <2>2
<1>3. CASE FlowClosed(g)
  <2>1. PICK f \in table[g] : /\ thread[f] = "cancelled" /\ session[g] = "closingFlow"
                              /\ ReceiverSends(g, Msg("ACK_CLOSED_FLOW", f))
    BY <1>3 DEF FlowClosed
  <2>2. sender[f] = "finished" /\ f \in Flows
    BY <1>1, <2>1, Types DEF SessionsKept
  <2>3. /\ Msg("ACK_CLOSED_FLOW", f) \in Messages
        /\ Msg("ACK_CLOSED_FLOW", f).type = "ACK_CLOSED_FLOW"
        /\ Msg("ACK_CLOSED_FLOW", f).flow = f
    BY <2>2, MessageKinds DEF Msg, FlowTypes
  <2>4. Meant(f, "END")
    BY <2>1, <2>2 DEF Meant
  <2> QED
    BY <2>1, <2>3, <2>4
<1>4. CASE ThreadOk(g) \/ ThreadNotStarted(g) \/ ThreadBroke(g)
  <2>1. PICK f : f = Head(rPipe[g]).flow
    OBVIOUS
  <2>2. rPipe[g] # <<>> /\ UNCHANGED home
    BY <1>4 DEF ThreadOk, ThreadNotStarted, ThreadBroke, OnReport
  <2>3. f \in Flows /\ Reported(g, Head(rPipe[g]).code, f)
    BY <1>1, <2>1, <2>2, HeadReported
  <2>4. \/ ReceiverSends(g, Msg("ACK_SEND_FLOW", f))
        \/ /\ \E t \in Errors : ReceiverSends(g, Msg(t, f))
           /\ Head(rPipe[g]).code \in {"ERR1", "ERR2"} \/ f \in table[g]
           /\ f \in table[g] => SetThread(f, "reaped")
    BY <1>4, <2>1 DEF ThreadOk, ThreadNotStarted, ThreadBroke, OnReport, DropFlow, Errors
  <2>5. CASE ReceiverSends(g, Msg("ACK_SEND_FLOW", f))
    <3>1. Msg("ACK_SEND_FLOW", f) \in Messages /\ Msg("ACK_SEND_FLOW", f).type = "ACK_SEND_FLOW"
      BY <2>3, MessageKinds DEF Msg, FlowTypes
    <3> QED
      BY <2>5, <3>1
  <2>6. ASSUME NEW t \in Errors, ReceiverSends(g, Msg(t, f)),
               Head(rPipe[g]).code \in {"ERR1", "ERR2"} \/ f \in table[g],
               f \in table[g] => SetThread(f, "reaped")
        PROVE  /\ Msg(t, f) \in Messages
               /\ Msg(t, f).type \in Errors /\ Meant(Msg(t, f).flow, "ERR1")'
    <3>1. Msg(t, f) \in Messages /\ Msg(t, f).type = t /\ Msg(t, f).flow = f
      BY <2>3, MessageKinds DEF Msg, FlowTypes, Errors
    <3>2. Head(rPipe[g]).code \in {"ERR1", "ERR2"} => thread[f] = "failed" /\ home[f] = g
      BY <1>1, <2>3 DEF FlowKept, ReportPart
    <3>3. f \in table[g]
      BY <1>1, <2>3, <2>6, <3>2 DEF FlowKept, ThreadPart, Alive
    <3>4. thread'[f] = "reaped"
      BY <1>1, <2>3, <2>6, <3>3, Types DEF SetThread
    <3>5. (Msg(t, f).flow)' = f
      BY DEF Msg
    <3> QED
      BY <3>1, <3>4, <3>5 DEF Meant
  <2> QED
    BY <2>4, <2>5, <2>6
<1> QED
  BY <1>2, <1>3, <1>4 DEF SessionOnSocket, SessionSocket, SessionTimer, SessionOnPipe, SessionPipe,
     AcceptSession, SendFlow, ClosedFlow, ClosedErr, DiscoveryAnswered, SenderDown, netVars

\* The replies on the connections say what happened.
LEMMA RepliesMeant ==
  ASSUME VerdictInv, [Next]_vars, FlowInv', NEW g \in Flows, NEW m \in Messages, Has(toSend'[g], m)
  PROVE  ReplyMeant(m)'
<1>1. ChannelInv /\ TruthKept
  BY DEF VerdictInv, FlowInv
<1>2. ASSUME ReplyMeant(m)
      PROVE  ReplyMeant(m)'
  <2>1. m.type \in FlowTypes => m.flow \in Flows
    BY MessageKinds
  <2>2. PICK f : f = m.flow
    OBVIOUS
  <2>3. \A v : f \in Flows /\ Meant(f, v) => Meant(f, v)'
    BY MeantStays
  <2> QED
    BY <1>2, <2>1, <2>2, <2>3 DEF ReplyMeant, FlowTypes, Errors
<1>3. Has(toSend[g], m) => ReplyMeant(m)'
  BY <1>1, <1>2 DEF TruthKept
<1>4. ASSUME NEW e \in Flows,
             \/ Parser(e) \/ ManagerOnSocket(e) \/ ManagerOnPipe(e) \/ ManagerEnds(e)
             \/ SenderFails(e) \/ SenderConnects(e) \/ SenderFinishes(e) \/ SenderKilled(e)
      PROVE  Has(toSend[g], m)
  <2>1. \E h \in Flows : toSend' = toSend \/ (toSend[h] # <<>> /\ SenderTakes(h))
    <3>1. CASE ManagerReleased(e)
      <4>1. manager[e].pc # "none"
        BY <3>1 DEF ManagerReleased
      <4>2. sigChan[e] \in Chans
        BY <1>1, <4>1 DEF ChannelInv, ChannelKnown
      <4>3. chanSock[sigChan[e]] \in Flows \cup {NoFlow}
        BY <1>1, <4>2, Types
      <4>4. chanSock[sigChan[e]] = e
        BY <3>1 DEF VerdictInv, FlowInv, FlowsServed, ChannelsKept, ManagerReleased, LivePCs
      <4> QED
        BY <3>1, <4>4 DEF ManagerReleased, CloseChannel, Answered
    <3>2. CASE ~ManagerReleased(e)
      BY <1>4, <3>2 DEF Parser, ParserThread, JoinChannel, OpenConnection, OpenFails,
         ConnectAnswered,
     LogRequestFails, LogAnswered, SubmitFlow, TakeResult, Abort, Answered,
     ManagerOnSocket, ManagerSocket, ManagerOnPipe, ManagerPipe, ManagerEnds, ManagerEnding,
     StartFlow, AnswerDiscovery, FlowAnswered, OnSocket, ReceiverLost, ForwardRequest, FlowFailed,
     SendClosedErr,
     ManagerLeaves, LeaveChannel, Notify, SenderFails, SenderConnects, SenderFinishes,
     SenderKilled, SetupFails, Connects, FinishFlow, BrokenPipe, netVars
    <3> QED
      BY <3>1, <3>2
  <2> QED
    BY <1>1, <2>1, TakenReply
<1>5. ASSUME NEW e \in Flows, SessionOnSocket(e) \/ SessionTimer(e) \/ SessionOnPipe(e),
             ~Has(toSend[g], m)
      PROVE  ReplyMeant(m)'
  <2>1. toSend' # toSend
    BY <1>5
  <2>2. PICK x \in Messages :
           /\ ReceiverSends(e, x)
           /\ \/ x.type \in PlainTypes \cup {"ACK_SEND_FLOW"}
              \/ x.type = "ACK_CLOSED_FLOW" /\ Meant(x.flow, "END")
              \/ x.type \in Errors /\ Meant(x.flow, "ERR1")'
    BY <1>5, <2>1, SessionReplies
  <2>3. m = x
    BY <1>1, <1>5, <2>2, SentReply
  <2>4. CASE m.type \in Errors /\ Meant(m.flow, "ERR1")'
    BY <2>4 DEF ReplyMeant
  <2>5. CASE \/ m.type \in PlainTypes \cup {"ACK_SEND_FLOW"}
             \/ m.type = "ACK_CLOSED_FLOW" /\ Meant(m.flow, "END")
    BY <1>2, <2>5 DEF ReplyMeant
  <2> QED
    BY <2>2, <2>3, <2>4, <2>5
<1>6. ASSUME \/ Finished \/ UNCHANGED vars \/ (\E h \in Hosts : ReceiverStops(h)) \/ Exit
             \/ \E e \in Flows : DataThread(e) \/ DataThreadReceives(e) \/ DataThreadFails(e)
      PROVE  toSend' = toSend
  BY <1>6 DEF Finished, vars, netVars, ReceiverStops, Interrupted, Exit, ExitProcess, DataThread,
     DataThreadReceives, DataThreadFails, DataThreadStarts, BindFails, Listens, Receives,
     ReceiveFails
<1> QED
  BY <1>3, <1>4, <1>5, <1>6 DEF Next

\* Every step of the two programs keeps the invariant.
LEMMA NextKeepsVerdictInv ==
  ASSUME VerdictInv, [Next]_vars
  PROVE  VerdictInv'
<1>1. FlowInv'
  BY NextKeepsFlows DEF VerdictInv
<1>2. ASSUME NEW f \in Flows
      PROVE  /\ thread'[f] # "none" => parser'[f] = "waiting" \/ outcome'[f] # "none"
             /\ outcome'[f] # "none" => Meant(f, outcome[f])'
             /\ \A v \in ResultCodes : Has(parserPipe'[f], v) => Meant(f, v)'
  BY <1>1, OpenedKept, OutcomesMeant, ParserPipesMeant
<1>3. ASSUME NEW g \in Flows
      PROVE  /\ manager'[g].flow # NoFlow => Meant(manager[g].flow, manager[g].code)'
             /\ \A m \in Messages : Has(toSend'[g], m) => ReplyMeant(m)'
  BY <1>1, ManagersMeant, RepliesMeant
<1>4. TruthKept'
  BY <1>2, <1>3 DEF TruthKept
<1> QED
  BY <1>1, <1>4 DEF VerdictInv

\* The invariant holds initially.
LEMMA InitVerdictInv == Init => VerdictInv
<1> SUFFICES ASSUME Init PROVE VerdictInv
  OBVIOUS
<1>1. FlowInv
  BY InitChannelInv, InitFlowsServed DEF FlowInv
<1>2. TruthKept
  BY EmptyQ DEF Init, NetInit, SendInit, RecvInit, TruthKept, Manager
<1> QED
  BY <1>1, <1>2 DEF VerdictInv

\* A verdict is true wherever it is on its way from the data thread to flowParser.
THEOREM VerdictInvariant == Spec => []VerdictInv
<1>1. Init => VerdictInv
  BY InitVerdictInv
<1>2. VerdictInv /\ [Next]_vars => VerdictInv'
  BY NextKeepsVerdictInv
<1> QED
  BY <1>1, <1>2, PTL DEF Spec

\* The two programs implement the flow life cycle: each flow is offered, connected, ended and
\* judged in the order that FlowLifecycle allows, and the verdict agrees with both ends.
THEOREM Refinement == Spec => ImplementsLifecycle
<1>1. Init => Lifecycle!Init
  <2> SUFFICES ASSUME Init PROVE Lifecycle!Init
    OBVIOUS
  <2>1. \A f \in Flows : SourceOf(f) = "idle" /\ SinkOf(f) = "none"
    BY DEF Init, SendInit, RecvInit, SourceOf, SinkOf, ResultCodes
  <2>2. outcome = [f \in Flows |-> "none"]
    BY DEF Init, SendInit
  <2> QED
    BY <2>1, <2>2 DEF Lifecycle!Init
<1>2. VerdictInv /\ [Next]_vars => [Lifecycle!Next]_(Lifecycle!flowVars)
  BY NextIsAbstract
<1> QED
  BY <1>1, <1>2, VerdictInvariant, PTL DEF Spec, ImplementsLifecycle, Lifecycle!Spec

\* signalChannels[].flows, changed by identifySignalManager and isChannelClosable in the
\* threads of many flows, counts exactly the flows of the channel.
THEOREM CountHolders == Spec => []FlowsCountHolders
<1>1. VerdictInv => FlowsCountHolders
  BY DEF VerdictInv, FlowInv, FlowsServed, ChannelsKept, FlowsCountHolders
<1> QED
  BY <1>1, VerdictInvariant, PTL

\* A flow keeps its channel until it is judged: the end of another flow does not close it
\* (isChannelClosable), and no other receiver's channel takes its slot (identifySignalManager).
THEOREM ChannelsStay == Spec => []ChannelOutlivesFlows
<1>1. ASSUME VerdictInv, NEW f \in Flows,
             parser[f] = "attached" \/ (parser[f] = "waiting" /\ ~Judged(f)),
             NEW g, g = chanSock[sigChan[f]]
      PROVE  g # NoFlow /\ Dest[g] = Dest[f]
  <2>1. ParserPart(f) /\ ChannelsKept
    BY <1>1 DEF VerdictInv, FlowInv, FlowsServed, FlowKept
  <2>2. CASE Holds(f)
    BY <1>1, <2>1, <2>2 DEF ChannelsKept, Holds
  <2>3. CASE ~Holds(f)
    <3>1. PICK h \in Flows : Handles(h, f) /\ manager[h].pc = "releasing"
      BY <1>1, <2>1, <2>3 DEF ParserPart, Judged, Handles
    <3>2. chanSock[sigChan[h]] = h /\ sigChan[f] = sigChan[h] /\ Dest[f] = Dest[h]
      BY <2>1, <3>1 DEF ChannelsKept, LivePCs, Handles
    <3> QED
      BY <1>1, <3>2, FlowAssumption
  <2> QED
    BY <2>2, <2>3
<1>2. VerdictInv => ChannelOutlivesFlows
  BY <1>1 DEF ChannelOutlivesFlows
<1> QED
  BY <1>2, VerdictInvariant, PTL

\* typeParser of ITGRecv cancels a data thread only after flowSender has stopped sending.
THEOREM CancelledAfterwards == Spec => []NeverCancelledWhileSending
<1>1. VerdictInv => NeverCancelledWhileSending
  BY DEF VerdictInv, FlowInv, FlowsServed, FlowKept, ThreadPart, ThreadsOf,
     NeverCancelledWhileSending
<1> QED
  BY <1>1, VerdictInvariant, PTL

\* Wherever the verdict of a flow is, its parser waits for it and no other is under way.
LEMMA VerdictsAlone ==
  ASSUME VerdictInv, NEW f \in Flows
  PROVE  \A x, y \in Verdicts(f) : x = y /\ parser[f] = "waiting"
<1>1. ChannelInv /\ FlowKept(f) /\ TruthKept
  BY DEF VerdictInv, FlowInv, FlowsServed
<1>2. ASSUME NEW g \in Flows, NEW i \in DOMAIN toSend[g], toSend[g][i].flow = f,
             toSend[g][i].type # "ACK_SEND_FLOW"
      PROVE  /\ Replied(g, toSend[g][i].type, f) /\ toSend[g][i].type \in AnswerTypes
             /\ home[f] = g /\ Pending(f, g)
             /\ \A j \in DOMAIN toSend[g] :
                  toSend[g][j].flow = f /\ toSend[g][j].type # "ACK_SEND_FLOW" => i = j
  <2>1. toSend[g] \in Seq(Messages)
    BY <1>1, Types
  <2>2. ASSUME NEW j \in DOMAIN toSend[g], toSend[g][j].flow = f, toSend[g][j].type # "ACK_SEND_FLOW"
        PROVE  /\ toSend[g][j].type \in AnswerTypes /\ Replied(g, toSend[g][j].type, f)
               /\ toSend[g][j] \in RepliesAbout(f)
    <3>1. PICK m \in Messages : m = toSend[g][j]
      BY <2>1
    <3>2. Has(toSend[g], m)
      BY <3>1 DEF Has
    <3>3. ReplyMeant(m)
      BY <1>1, <3>2 DEF TruthKept
    <3>4. m.type \in FlowTypes /\ m = Msg(m.type, f)
      BY <2>2, <3>1, FlowAssumption DEF Messages, Msg
    <3>5. m.type \in AnswerTypes
      BY <2>2, <3>1, <3>3, <3>4 DEF ReplyMeant, AnswerTypes, Errors, PlainTypes, FlowTypes
    <3> QED
      BY <3>1, <3>2, <3>4, <3>5 DEF Replied, RepliesAbout, Msg
  <2>3. Once(toSend[g], RepliesAbout(f))
    BY <1>1 DEF FlowKept, ReplyPart
  <2>4. toSend[g][i].type \in AnswerTypes /\ Replied(g, toSend[g][i].type, f)
    BY <1>2, <2>2
  <2>5. home[f] = g /\ Pending(f, g)
    BY <1>1, <2>4 DEF FlowKept, ReplyPart
  <2>6. \A j \in DOMAIN toSend[g] :
          toSend[g][j].flow = f /\ toSend[g][j].type # "ACK_SEND_FLOW" => i = j
    BY <1>2, <2>2, <2>3 DEF Once
  <2> QED
    BY <2>4, <2>5, <2>6
<1>3. ASSUME NEW g \in Flows, manager[g].flow = f, manager[g].code # "ERR2",
             manager[g].pc \in {"closing", "releasing", "notify", "lastNotify"}
      PROVE  Handles(g, f) /\ home[f] = g /\ parser[f] = "waiting" /\ parserPipe[f] = <<>>
  BY <1>1, <1>3 DEF FlowKept, HandledPart, Handles
<1>4. ASSUME NEW i \in DOMAIN parserPipe[f]
      PROVE  /\ parserPipe[f] # <<>> /\ i = 1 /\ parser[f] = "waiting"
             /\ \A g \in Flows : Handles(g, f) => manager[g].code = "ERR2"
  <2>1. parserPipe[f] \in Seq(ResultCodes) /\ parserPipe[f] # <<>>
    BY <1>1, <1>4, Types
  <2>2. /\ Len(parserPipe[f]) = 1 /\ parser[f] = "waiting"
        /\ \A g \in Flows : Handles(g, f) => manager[g].code = "ERR2"
    BY <1>1, <2>1 DEF FlowKept, ParserPart
  <2> QED
    BY <1>4, <2>1, <2>2
<1>5. ASSUME NEW x \in Verdicts(f)
      PROVE  \/ \E g \in Flows : \E i \in DOMAIN toSend[g] :
                  toSend[g][i].flow = f /\ toSend[g][i].type # "ACK_SEND_FLOW" /\ x = <<g, i>>
             \/ \E g \in Flows :
                  /\ manager[g].flow = f /\ manager[g].code # "ERR2"
                  /\ manager[g].pc \in {"closing", "releasing", "notify", "lastNotify"}
                  /\ x = <<g, "at hand">>
             \/ \E i \in DOMAIN parserPipe[f] : x = <<f, "pipe", i>>
  BY <1>5 DEF Verdicts
<1>6. ASSUME NEW x \in Verdicts(f)
      PROVE  parser[f] = "waiting"
  BY <1>2, <1>3, <1>4, <1>5, <1>6 DEF Pending
<1>7. ASSUME NEW x \in Verdicts(f), NEW y \in Verdicts(f)
      PROVE  x = y
  <2>1. ASSUME NEW g \in Flows, NEW i \in DOMAIN toSend[g], toSend[g][i].flow = f,
               toSend[g][i].type # "ACK_SEND_FLOW", x = <<g, i>>
        PROVE  y = x
    <3>1. Pending(f, g) /\ home[f] = g
      BY <1>2, <2>1
    <3>2. parserPipe[f] = <<>> /\ \A h \in Flows : ~Handles(h, f)
      BY <3>1 DEF Pending
    <3>3. PICK h \in Flows : \E j \in DOMAIN toSend[h] :
            toSend[h][j].flow = f /\ toSend[h][j].type # "ACK_SEND_FLOW" /\ y = <<h, j>>
      BY <1>3, <1>4, <1>5, <1>7, <3>2
    <3>4. PICK j \in DOMAIN toSend[h] :
            toSend[h][j].flow = f /\ toSend[h][j].type # "ACK_SEND_FLOW" /\ y = <<h, j>>
      BY <3>3
    <3>5. h = g
      BY <1>2, <3>1, <3>4
    <3> QED
      BY <1>2, <2>1, <3>4, <3>5
  <2>2. ASSUME NEW g \in Flows, manager[g].flow = f, manager[g].code # "ERR2",
               manager[g].pc \in {"closing", "releasing", "notify", "lastNotify"},
               x = <<g, "at hand">>
        PROVE  y = x
    <3>1. Handles(g, f) /\ home[f] = g /\ parserPipe[f] = <<>>
      BY <1>3, <2>2
    <3>2. ~\E h \in Flows : \E j \in DOMAIN toSend[h] :
            toSend[h][j].flow = f /\ toSend[h][j].type # "ACK_SEND_FLOW" /\ y = <<h, j>>
      BY <1>2, <3>1 DEF Pending
    <3>3. PICK h \in Flows :
            /\ manager[h].flow = f /\ manager[h].code # "ERR2"
            /\ manager[h].pc \in {"closing", "releasing", "notify", "lastNotify"}
            /\ y = <<h, "at hand">>
      BY <1>4, <1>5, <1>7, <3>1, <3>2
    <3> QED
      BY <1>3, <2>2, <3>1, <3>3
  <2>3. ASSUME NEW i \in DOMAIN parserPipe[f], x = <<f, "pipe", i>>
        PROVE  y = x
    <3>1. i = 1 /\ parserPipe[f] # <<>> /\ \A h \in Flows : Handles(h, f) => manager[h].code = "ERR2"
      BY <1>4, <2>3
    <3>2. ~\E h \in Flows : \E j \in DOMAIN toSend[h] :
            toSend[h][j].flow = f /\ toSend[h][j].type # "ACK_SEND_FLOW" /\ y = <<h, j>>
      BY <1>2, <3>1 DEF Pending
    <3>3. PICK j \in DOMAIN parserPipe[f] : y = <<f, "pipe", j>>
      BY <1>3, <1>5, <1>7, <3>1, <3>2
    <3> QED
      BY <1>4, <2>3, <3>1, <3>3
  <2> QED
    BY <1>5, <1>7, <2>1, <2>2, <2>3
<1> QED
  BY <1>6, <1>7

\* flowParser gets one verdict: there are never two on their way, and none is left behind.
THEOREM JudgedOnce == Spec => []OneVerdict
<1>1. ASSUME VerdictInv, NEW f \in Flows
      PROVE  Cardinality(Verdicts(f)) <= IF parser[f] = "waiting" THEN 1 ELSE 0
  <2>1. CASE Verdicts(f) = {}
    BY <2>1, FS_EmptySet
  <2>2. CASE Verdicts(f) # {}
    <3>1. PICK x : x \in Verdicts(f)
      BY <2>2
    <3>2. Verdicts(f) = {x} /\ parser[f] = "waiting"
      BY <1>1, <3>1, VerdictsAlone
    <3>3. Cardinality({x}) = 1
      BY FS_Singleton
    <3> QED
      BY <3>2, <3>3
  <2> QED
    BY <2>1, <2>2
<1>2. VerdictInv => OneVerdict
  BY <1>1 DEF OneVerdict
<1> QED
  BY <1>2, VerdictInvariant, PTL

\* What flowParser records is true, then and ever after: "END" only for a flow that was sent to
\* its end and whose data thread the receiver has stopped.
THEOREM RecordedTruly == Spec => []Lifecycle!Truthful
<1>1. ASSUME VerdictInv, NEW f \in Flows, outcome[f] # "none"
      PROVE  Lifecycle!Justified(f, outcome[f])
  <2>1. outcome[f] \in ResultCodes /\ Meant(f, outcome[f])
    BY <1>1, Types DEF VerdictInv, FlowInv, TruthKept
  <2> QED
    BY <1>1, <2>1, MeantIsJustified DEF VerdictInv
<1>2. VerdictInv => Lifecycle!Truthful
  BY <1>1 DEF Lifecycle!Truthful
<1> QED
  BY <1>2, VerdictInvariant, PTL

\* flowParser records one verdict for its flow and ends: no later step changes it.
THEOREM RecordedOnce == Spec => Lifecycle!VerdictsAreFinal
<1>1. ASSUME Lifecycle!Next, VerdictInv, NEW f \in Flows, outcome[f] # "none"
      PROVE  outcome'[f] = outcome[f]
  <2>1. outcome \in [Flows -> ResultCodes \cup {"none"}]
    BY <1>1, Types DEF VerdictInv, FlowInv
  <2>2. \/ outcome' = outcome
        \/ \E h \in Flows : \E v : outcome[h] = "none" /\ outcome' = [outcome EXCEPT ![h] = v]
    BY <1>1 DEF Lifecycle!Next, Lifecycle!Offer, Lifecycle!Open, Lifecycle!Decline,
       Lifecycle!Connect, Lifecycle!CannotSend, Lifecycle!Accept, Lifecycle!Break,
       Lifecycle!Lose, Lifecycle!Complete, Lifecycle!Close, Lifecycle!Judge,
       Lifecycle!Becomes
  <2> QED
    BY <1>1, <2>1, <2>2
<1>2. VerdictInv /\ [Lifecycle!Next]_(Lifecycle!flowVars)
        => [\A f \in Flows : outcome[f] # "none" => outcome'[f] = outcome[f]]_(Lifecycle!flowVars)
  BY <1>1
<1>3. VerdictInv /\ [Next]_vars => [Lifecycle!Next]_(Lifecycle!flowVars)
  BY NextIsAbstract
<1> QED
  BY <1>2, <1>3, VerdictInvariant, PTL DEF Spec, Lifecycle!VerdictsAreFinal
-----------------------------------------------------------------------------
(***************************************************************************)
(* The ports that flows of one receiver share (sharedTcpSockets[] and      *)
(* sharedUdpSockets[] of ITGRecv, with MULTIPORT): no socket is closed     *)
(* under a data thread that uses it.                                       *)
(***************************************************************************)
\* Flow f is one of the users of its port that inUse counts: its data thread has
\* gone through the port, and its session has not closed the flow.
CountedFlow(f) ==
  /\ UsesPort(f) /\ portLock[Port[f]] # f
  /\ \/ thread[f] \in {"listening", "receiving", "failed", "reaped"}
     \/ thread[f] = "cancelled" /\ f \in table[home[f]]
\* The users of the socket of entry p.
Counted(p) == {f \in Flows : Port[f] = p /\ CountedFlow(f)}

\* A data thread that keeps the mutex of its port is in accept(), or has ended there.
LocksKept ==
  /\ \A f \in Flows :
       UsesPort(f) /\ Proto[f] = "TCP" /\ thread[f] = "listening" => portLock[Port[f]] = f
  /\ \A p \in Ports : portLock[p] # NoFlow =>
       LET f == portLock[p] IN
       /\ UsesPort(f) /\ Port[f] = p
       /\ thread[f] \in {"failed", "reaped", "cancelled"}
            \/ (thread[f] = "listening" /\ Proto[f] = "TCP")

\* inUse is the number of users, and a socket that has users is open.
PortsKept ==
  /\ LocksKept
  /\ SharedSocketKept
  /\ \A p \in Ports : inUse[p] = Cardinality(Counted(p))

\* The inductive invariant.
PortInv == FlowInv /\ PortsKept

\* The types of the shared sockets.
LEMMA PortTypes ==
  ASSUME ChannelInv
  PROVE  /\ portLock \in [Ports -> Flows \cup {NoFlow}]
         /\ portOpen \in [Ports -> BOOLEAN]
         /\ inUse \in [Ports -> Int]
         /\ Port \in [Flows -> Ports]
         /\ \A f, g \in Flows : Port[f] = Port[g] => Proto[f] = Proto[g]
         /\ \A p : Counted(p) \in SUBSET Flows /\ IsFiniteSet(Counted(p))
<1>1. /\ portLock \in [Ports -> Flows \cup {NoFlow}]
      /\ portOpen \in [Ports -> BOOLEAN]
      /\ inUse \in [Ports -> Int]
  BY DEF ChannelInv, TypeOK, RecvTypeOK
<1>2. Port \in [Flows -> Ports] /\ \A f, g \in Flows : Port[f] = Port[g] => Proto[f] = Proto[g]
  BY ReceiverAssumption
<1>3. IsFiniteSet(Flows) /\ \A p : Counted(p) \in SUBSET Flows
  BY SenderAssumption DEF Counted
<1> QED
  BY <1>1, <1>2, <1>3, FS_Subset

\* What a step that leaves the shared sockets alone may do to a data thread.
ThreadMoves(e) ==
  \/ thread'[e] = thread[e] /\ (e \in table[home[e]] <=> (e \in table[home[e]])')
  \/ thread[e] = "none" /\ thread'[e] = "starting"
  \/ /\ thread[e] \in {"listening", "receiving", "failed"} /\ thread'[e] = "cancelled"
     /\ (e \in table[home[e]])'
  \/ thread[e] = "failed" /\ thread'[e] = "reaped"
  \/ thread[e] = "receiving" /\ thread'[e] = "failed"
  \/ Proto[e] = "UDP" /\ thread[e] = "listening" /\ thread'[e] = "receiving"

\* A step that changes neither the ports nor who uses them keeps the invariant.
LEMMA QuietPorts ==
  ASSUME PortInv, UNCHANGED portVars,
         \A e \in Flows : UsesPort(e) => ThreadMoves(e)
  PROVE  PortsKept'
<1> USE DEF ThreadMoves, portVars
<1>0. ChannelInv /\ PortsKept
  BY DEF PortInv, FlowInv
<1>1. \A e \in Flows : CountedFlow(e)' <=> CountedFlow(e)
  BY <1>0, FlowAssumption DEF CountedFlow, PortsKept, LocksKept
<1>2. \A p \in Ports : Counted(p)' = Counted(p)
  BY <1>1 DEF Counted
<1>3. \A p \in Ports : inUse'[p] = Cardinality(Counted(p))'
  BY <1>0, <1>2 DEF PortsKept
<1>4. SharedSocketKept'
  BY <1>0 DEF PortsKept, SharedSocketKept
<1>5. LocksKept'
  <2>1. \A p \in Ports : portLock[p] \in Flows \cup {NoFlow}
    BY <1>0, PortTypes
  <2>2. ASSUME NEW f \in Flows, UsesPort(f), Proto[f] = "TCP", thread'[f] = "listening"
        PROVE  portLock'[Port[f]] = f
    BY <1>0, <2>2 DEF PortsKept, LocksKept
  <2>3. ASSUME NEW p \in Ports, portLock'[p] # NoFlow, NEW f, f = portLock[p]
        PROVE  /\ UsesPort(f) /\ Port[f] = p
               /\ \/ thread'[f] \in {"failed", "reaped", "cancelled"}
                  \/ thread'[f] = "listening" /\ Proto[f] = "TCP"
    <3>1. f \in Flows
      BY <2>1, <2>3
    <3> QED
      BY <1>0, <2>3, <3>1 DEF PortsKept, LocksKept
  <2> QED
    BY <2>2, <2>3 DEF LocksKept
<1> QED
  BY <1>3, <1>4, <1>5 DEF PortsKept

\* A data thread takes the mutex of its port: tcpSock waits in accept() with it, and
\* a bind() that fails leaves it locked.
LEMMA GrabsKeeps ==
  ASSUME PortInv, NEW f \in Flows, UsesPort(f), thread[f] = "starting",
         NEW pc, SetThread(f, pc), pc = "failed" \/ (pc = "listening" /\ Proto[f] = "TCP"),
         UNCHANGED <<table, home, portOpen, inUse>>,
         portLock[Port[f]] = NoFlow, portLock' = [portLock EXCEPT ![Port[f]] = f]
  PROVE  PortsKept'
<1>0. /\ ChannelInv /\ PortsKept
      /\ thread \in [Flows -> ThreadPCs] /\ NoFlow \notin Flows
      /\ portLock \in [Ports -> Flows \cup {NoFlow}] /\ Port[f] \in Ports
  BY PortTypes, Types DEF PortInv, FlowInv
<1>1. /\ thread'[f] = pc
      /\ \A e \in Flows : e # f => thread'[e] = thread[e]
      /\ portLock'[Port[f]] = f
      /\ \A p \in Ports : p # Port[f] => portLock'[p] = portLock[p]
  BY <1>0 DEF SetThread
<1>2. \A e \in Flows : Port[e] \in Ports
  BY PortTypes, <1>0
<1>3. ASSUME NEW e \in Flows
      PROVE  CountedFlow(e)' <=> CountedFlow(e)
  <2>1. CASE e = f
    BY <1>0, <1>1, <2>1 DEF CountedFlow
  <2>2. CASE e # f
    BY <1>0, <1>1, <1>2, <2>2 DEF CountedFlow, UsesPort
  <2> QED
    BY <2>1, <2>2
<1>4. \A p \in Ports : Counted(p)' = Counted(p)
  BY <1>3 DEF Counted
<1>5. \A p \in Ports : inUse'[p] = Cardinality(Counted(p))'
  BY <1>0, <1>4 DEF PortsKept
<1>6. SharedSocketKept'
  BY <1>0, <1>1 DEF PortsKept, SharedSocketKept, UsesPort
<1>7. LocksKept'
  <2>1. ASSUME NEW e \in Flows, UsesPort(e), Proto[e] = "TCP", thread'[e] = "listening"
        PROVE  portLock'[Port[e]] = e
    <3>1. CASE e = f
      BY <1>1, <3>1
    <3>2. CASE e # f
      <4>1. portLock[Port[e]] = e
        BY <1>0, <1>1, <2>1, <3>2 DEF PortsKept, LocksKept
      <4> QED
        BY <1>0, <1>1, <1>2, <4>1
    <3> QED
      BY <3>1, <3>2
  <2>2. ASSUME NEW p \in Ports, portLock'[p] # NoFlow, NEW e, e = portLock'[p]
        PROVE  /\ UsesPort(e) /\ Port[e] = p
               /\ \/ thread'[e] \in {"failed", "reaped", "cancelled"}
                  \/ thread'[e] = "listening" /\ Proto[e] = "TCP"
    <3>1. CASE p = Port[f]
      BY <1>1, <2>2, <3>1
    <3>2. CASE p # Port[f]
      <4>1. e = portLock[p] /\ e \in Flows
        BY <1>0, <1>1, <2>2, <3>2
      <4> QED
        BY <1>0, <1>1, <2>2, <3>2, <4>1 DEF PortsKept, LocksKept
    <3> QED
      BY <3>1, <3>2
  <2> QED
    BY <2>1, <2>2 DEF LocksKept
<1> QED
  BY <1>5, <1>6, <1>7 DEF PortsKept

\* A data thread becomes a user of its port: udpSock when it listens, tcpSock when
\* accept() returns; neither keeps the mutex.
LEMMA JoinsKeeps ==
  ASSUME PortInv, NEW f \in Flows, UsesPort(f), NEW pc, SetThread(f, pc),
         \/ thread[f] = "starting" /\ pc = "listening" /\ Proto[f] = "UDP"
            /\ portLock[Port[f]] = NoFlow
         \/ thread[f] = "listening" /\ pc = "receiving" /\ Proto[f] = "TCP",
         UNCHANGED <<table, home>>, SetPort(Port[f], NoFlow, TRUE, inUse[Port[f]] + 1)
  PROVE  PortsKept'
<1>0. /\ ChannelInv /\ PortsKept
      /\ thread \in [Flows -> ThreadPCs] /\ NoFlow \notin Flows
      /\ portLock \in [Ports -> Flows \cup {NoFlow}] /\ Port[f] \in Ports
      /\ portOpen \in [Ports -> BOOLEAN] /\ inUse \in [Ports -> Int]
  BY PortTypes, Types DEF PortInv, FlowInv
<1>1. /\ thread'[f] = pc
      /\ \A e \in Flows : e # f => thread'[e] = thread[e]
      /\ portLock'[Port[f]] = NoFlow /\ portOpen'[Port[f]] = TRUE
      /\ inUse'[Port[f]] = inUse[Port[f]] + 1
      /\ \A p \in Ports : p # Port[f] =>
           portLock'[p] = portLock[p] /\ portOpen'[p] = portOpen[p] /\ inUse'[p] = inUse[p]
  BY <1>0 DEF SetThread, SetPort
<1>2. \A e \in Flows : Port[e] \in Ports
  BY PortTypes, <1>0
<1>3. portLock[Port[f]] \in {NoFlow, f}
  BY <1>0 DEF PortsKept, LocksKept
<1>4. ~CountedFlow(f) /\ CountedFlow(f)'
  <2>1. CASE thread[f] = "starting"
    BY <1>0, <1>1, <2>1 DEF CountedFlow, UsesPort
  <2>2. CASE thread[f] = "listening" /\ pc = "receiving" /\ Proto[f] = "TCP"
    <3>1. portLock[Port[f]] = f
      BY <1>0, <2>2 DEF PortsKept, LocksKept
    <3> QED
      BY <1>0, <1>1, <2>2, <3>1 DEF CountedFlow, UsesPort
  <2> QED
    BY <2>1, <2>2
<1>5. ASSUME NEW e \in Flows, e # f
      PROVE  CountedFlow(e)' <=> CountedFlow(e)
  BY <1>0, <1>1, <1>2, <1>3, <1>5 DEF CountedFlow, UsesPort
<1>6. Counted(Port[f])' = Counted(Port[f]) \cup {f} /\ f \notin Counted(Port[f])
  BY <1>4, <1>5 DEF Counted
<1>7. \A p \in Ports : p # Port[f] => Counted(p)' = Counted(p)
  BY <1>4, <1>5 DEF Counted
<1>8. ASSUME NEW p \in Ports
      PROVE  inUse'[p] = Cardinality(Counted(p))'
  <2>1. CASE p = Port[f]
    BY <1>0, <1>1, <1>6, <2>1, PortTypes, FS_AddElement DEF PortsKept
  <2>2. CASE p # Port[f]
    BY <1>0, <1>1, <1>7, <2>2 DEF PortsKept
  <2> QED
    BY <2>1, <2>2
<1>9. SharedSocketKept'
  BY <1>0, <1>1, <1>2 DEF PortsKept, SharedSocketKept, UsesPort
<1>10. LocksKept'
  <2>1. ASSUME NEW e \in Flows, UsesPort(e), Proto[e] = "TCP", thread'[e] = "listening"
        PROVE  portLock'[Port[e]] = e
    <3>1. e # f
      BY <1>1, <2>1
    <3>2. portLock[Port[e]] = e
      BY <1>0, <1>1, <2>1, <3>1 DEF PortsKept, LocksKept
    <3>3. Port[e] # Port[f]
      BY <1>0, <1>3, <3>1, <3>2
    <3> QED
      BY <1>0, <1>1, <1>2, <3>2, <3>3
  <2>2. ASSUME NEW p \in Ports, portLock'[p] # NoFlow, NEW e, e = portLock'[p]
        PROVE  /\ UsesPort(e) /\ Port[e] = p
               /\ \/ thread'[e] \in {"failed", "reaped", "cancelled"}
                  \/ thread'[e] = "listening" /\ Proto[e] = "TCP"
    <3>1. p # Port[f] /\ e = portLock[p] /\ e \in Flows
      BY <1>0, <1>1, <2>2
    <3>2. UsesPort(e) /\ Port[e] = p /\ e # f
      BY <1>0, <2>2, <3>1 DEF PortsKept, LocksKept
    <3> QED
      BY <1>0, <1>1, <2>2, <3>1, <3>2 DEF PortsKept, LocksKept
  <2> QED
    BY <2>1, <2>2 DEF LocksKept
<1> QED
  BY <1>8, <1>9, <1>10 DEF PortsKept

\* A session closes a flow: the flow leaves its port, and the socket is closed only
\* when no other flow is counted there.
LEMMA FlowLeavesPort ==
  ASSUME PortInv, NEW g \in Flows, NEW f \in table[g], thread[f] = "cancelled",
         LeavePort(f), table' = [table EXCEPT ![g] = @ \ {f}], UNCHANGED <<thread, home>>
  PROVE  PortsKept'
<1>0. /\ ChannelInv /\ PortsKept
      /\ NoFlow \notin Flows /\ table \in [Flows -> SUBSET Flows]
      /\ portLock \in [Ports -> Flows \cup {NoFlow}]
      /\ portOpen \in [Ports -> BOOLEAN] /\ inUse \in [Ports -> Int]
      /\ \A e \in Flows : Port[e] \in Ports
  BY PortTypes, Types DEF PortInv, FlowInv
<1>1. f \in Flows
  BY <1>0
<1>2. home[f] = g
  BY <1>1 DEF PortInv, FlowInv, FlowsServed, FlowKept, ThreadPart
<1>3. /\ f \notin table'[g] /\ UNCHANGED portLock
      /\ \A e \in Flows : e # f => (e \in table[home[e]] <=> (e \in table[home[e]])')
  <2>1. UNCHANGED portLock
    BY DEF LeavePort, portVars
  <2>2. f \notin table'[g]
    BY <1>0
  <2>3. ASSUME NEW e \in Flows, e # f
        PROVE  e \in table[home[e]] <=> e \in table'[home[e]]
    <3>1. CASE home[e] = g
      BY <1>0, <2>3, <3>1
    <3>2. CASE home[e] # g
      <4>1. table'[home[e]] = table[home[e]]
        BY <1>0, <3>2
      <4> QED
        BY <4>1
    <3> QED
      BY <3>1, <3>2
  <2> QED
    BY <2>1, <2>2, <2>3
<1>4. ~CountedFlow(f)'
  BY <1>2, <1>3 DEF CountedFlow
<1>5. ASSUME NEW e \in Flows, e # f
      PROVE  CountedFlow(e)' <=> CountedFlow(e)
  BY <1>3, <1>5 DEF CountedFlow, UsesPort
<1>6. LocksKept'
  BY <1>0, <1>3 DEF PortsKept, LocksKept
<1>7. CASE ~UsesPort(f)
  <2>1. UNCHANGED portVars /\ ~CountedFlow(f)
    BY <1>7 DEF LeavePort, CountedFlow
  <2>2. \A p \in Ports : Counted(p)' = Counted(p)
    BY <1>4, <1>5, <2>1 DEF Counted
  <2>3. SharedSocketKept'
    BY <1>0, <2>1 DEF PortsKept, SharedSocketKept, portVars
  <2> QED
    BY <1>0, <1>6, <2>1, <2>2, <2>3 DEF PortsKept, portVars
<1>8. CASE UsesPort(f)
  <2>1. PICK p \in Ports : p = Port[f]
    BY <1>0, <1>1
  <2>2. /\ portLock[p] = NoFlow
        /\ inUse'[p] = inUse[p] - 1
        /\ portOpen'[p] = (portOpen[p] /\ inUse[p] # 1)
        /\ \A q \in Ports : q # p => portOpen'[q] = portOpen[q] /\ inUse'[q] = inUse[q]
    BY <1>0, <1>8, <2>1 DEF LeavePort
  <2>3. CountedFlow(f)
    BY <1>0, <1>1, <1>2, <1>8, <2>1, <2>2 DEF CountedFlow
  <2>4. Counted(p)' = Counted(p) \ {f} /\ f \in Counted(p)
    BY <1>1, <1>4, <1>5, <2>1, <2>3 DEF Counted
  <2>5. \A q \in Ports : q # p => Counted(q)' = Counted(q)
    BY <1>4, <1>5, <2>1, <2>3 DEF Counted
  <2>6. ASSUME NEW q \in Ports
        PROVE  inUse'[q] = Cardinality(Counted(q))'
    <3>1. CASE q = p
      BY <1>0, <2>2, <2>4, <3>1, PortTypes, FS_RemoveElement DEF PortsKept
    <3>2. CASE q # p
      BY <1>0, <2>2, <2>5, <3>2 DEF PortsKept
    <3> QED
      BY <3>1, <3>2
  <2>7. ASSUME NEW e \in Flows, UsesPort(e),
               thread[e] = "receiving" \/ (thread[e] = "listening" /\ Proto[e] = "UDP")
        PROVE  portOpen'[Port[e]]
    <3>1. portOpen[Port[e]] /\ e # f
      BY <1>0, <2>7 DEF PortsKept, SharedSocketKept
    <3>2. CASE Port[e] = p
      <4>1. e \in Counted(p)
        BY <1>0, <2>2, <2>7, <3>2 DEF Counted, CountedFlow
      <4>2. Cardinality(Counted(p)) # 1
        BY <1>0, <2>4, <3>1, <4>1, PortTypes, FS_Singleton
      <4> QED
        BY <1>0, <2>2, <3>1, <3>2, <4>2 DEF PortsKept
    <3>3. CASE Port[e] # p
      BY <1>0, <2>2, <3>1, <3>3
    <3> QED
      BY <3>2, <3>3
  <2>8. SharedSocketKept'
    BY <2>7 DEF SharedSocketKept, UsesPort
  <2> QED
    BY <1>6, <2>6, <2>8 DEF PortsKept
<1> QED
  BY <1>7, <1>8

\* Steps that leave data threads, tables and shared sockets alone.
LEMMA OthersKeepPorts ==
  ASSUME PortInv, UNCHANGED <<thread, table, home, portVars>>
  PROVE  PortsKept'
<1>1. \A e \in Flows : ThreadMoves(e)
  BY DEF ThreadMoves
<1> QED
  BY <1>1, QuietPorts

\* The data thread of flow f starts, receives, or loses its connection.
LEMMA DataThreadKeepsPorts ==
  ASSUME PortInv, NEW f \in Flows, DataThread(f) \/ DataThreadReceives(f) \/ DataThreadFails(f)
  PROVE  PortsKept'
<1>0. /\ ChannelInv /\ thread \in [Flows -> ThreadPCs]
      /\ portOpen \in [Ports -> BOOLEAN] /\ inUse \in [Ports -> Int] /\ Port[f] \in Ports
  BY PortTypes, Types DEF PortInv, FlowInv
<1>1. Proto[f] \in {"TCP", "UDP", "ICMP"}
  BY ReceiverAssumption
<1>2. UNCHANGED <<table, home>>
  BY DEF DataThread, DataThreadStarts, BindFails, Listens, DataThreadReceives, Receives,
         DataThreadFails, ReceiveFails
<1>3. ASSUME UNCHANGED portVars, NEW pc, SetThread(f, pc),
             \/ ~UsesPort(f)
             \/ thread[f] = "listening" /\ pc = "receiving" /\ Proto[f] = "UDP"
             \/ thread[f] = "receiving" /\ pc = "failed"
      PROVE  PortsKept'
  <2>1. \A e \in Flows : UsesPort(e) => ThreadMoves(e)
    BY <1>0, <1>2, <1>3 DEF SetThread, ThreadMoves
  <2> QED
    BY <1>3, <2>1, QuietPorts
<1>4. CASE BindFails(f)
  <2>1. CASE UsesPort(f)
    <3>1. /\ thread[f] = "starting" /\ SetThread(f, "failed") /\ portLock[Port[f]] = NoFlow
          /\ ~portOpen[Port[f]] /\ SetPort(Port[f], f, FALSE, inUse[Port[f]])
      BY <1>4, <2>1 DEF BindFails
    <3>2. portLock' = [portLock EXCEPT ![Port[f]] = f] /\ UNCHANGED <<portOpen, inUse>>
      BY <1>0, <3>1 DEF SetPort
    <3> QED
      BY <1>2, <2>1, <3>1, <3>2, GrabsKeeps
  <2>2. CASE ~UsesPort(f)
    BY <1>3, <1>4, <2>2 DEF BindFails
  <2> QED
    BY <2>1, <2>2
<1>5. CASE Listens(f)
  <2>1. CASE UsesPort(f) /\ Proto[f] = "TCP"
    <3>1. /\ thread[f] = "starting" /\ SetThread(f, "listening") /\ portLock[Port[f]] = NoFlow
          /\ SetPort(Port[f], f, portOpen[Port[f]], inUse[Port[f]])
      BY <1>5, <2>1 DEF Listens
    <3>2. portLock' = [portLock EXCEPT ![Port[f]] = f] /\ UNCHANGED <<portOpen, inUse>>
      BY <1>0, <3>1 DEF SetPort
    <3> QED
      BY <1>2, <2>1, <3>1, <3>2, GrabsKeeps
  <2>2. CASE UsesPort(f) /\ Proto[f] # "TCP"
    <3>1. /\ thread[f] = "starting" /\ SetThread(f, "listening") /\ portLock[Port[f]] = NoFlow
          /\ SetPort(Port[f], NoFlow, TRUE, inUse[Port[f]] + 1)
      BY <1>5, <2>2 DEF Listens
    <3>2. Proto[f] = "UDP"
      BY <1>1, <2>2 DEF UsesPort
    <3> QED
      BY <1>2, <2>2, <3>1, <3>2, JoinsKeeps
  <2>3. CASE ~UsesPort(f)
    BY <1>3, <1>5, <2>3 DEF Listens
  <2> QED
    BY <2>1, <2>2, <2>3
<1>6. CASE Receives(f)
  <2>1. CASE UsesPort(f) /\ Proto[f] = "TCP"
    <3>1. /\ thread[f] = "listening" /\ SetThread(f, "receiving")
          /\ SetPort(Port[f], NoFlow, TRUE, inUse[Port[f]] + 1)
      BY <1>6, <2>1 DEF Receives
    <3> QED
      BY <1>2, <2>1, <3>1, JoinsKeeps
  <2>2. CASE ~(UsesPort(f) /\ Proto[f] = "TCP")
    <3>1. thread[f] = "listening" /\ SetThread(f, "receiving") /\ UNCHANGED portVars
      BY <1>6, <2>2 DEF Receives
    <3> QED
      BY <1>1, <1>3, <2>2, <3>1 DEF UsesPort
  <2> QED
    BY <2>1, <2>2
<1>7. CASE ReceiveFails(f)
  BY <1>3, <1>7 DEF ReceiveFails
<1> QED
  BY <1>4, <1>5, <1>6, <1>7 DEF DataThread, DataThreadStarts, DataThreadReceives, DataThreadFails

\* A session starts a data thread, cancels one, or closes its flow.
LEMMA SessionKeepsPorts ==
  ASSUME PortInv, NEW g \in Flows, SessionOnSocket(g) \/ SessionTimer(g)
  PROVE  PortsKept'
<1>0. /\ ChannelInv /\ SessionsKept /\ \A e \in Flows : FlowKept(e)
      /\ thread \in [Flows -> ThreadPCs] /\ table \in [Flows -> SUBSET Flows]
      /\ home \in [Flows -> Flows \cup {NoFlow}]
  BY Types DEF PortInv, FlowInv, FlowsServed
<1>1. PICK f : f = Head(toRecv[g]).flow
  OBVIOUS
<1>2. CASE SendFlow(g)
  <2>1. /\ toRecv[g] # <<>> /\ Head(toRecv[g]).type = "SEND_FLOW" /\ SetThread(f, "starting")
        /\ table' = [table EXCEPT ![g] = @ \cup {f}] /\ home' = [home EXCEPT ![f] = g]
        /\ UNCHANGED portVars
    BY <1>1, <1>2 DEF SendFlow, OnMessage
  <2>2. f \in Flows /\ Asked(g, "SEND_FLOW", f)
    BY <1>0, <1>1, <2>1, HeadAsked DEF FlowTypes
  <2>3. thread[f] = "none"
    BY <1>0, <2>2 DEF FlowKept, RequestPart
  <2>4. ASSUME NEW e \in Flows
        PROVE  ThreadMoves(e)
    <3>1. CASE e = f
      BY <1>0, <2>1, <2>3, <3>1 DEF SetThread, ThreadMoves
    <3>2. CASE e # f
      <4>1. home'[e] = home[e] /\ thread'[e] = thread[e]
        BY <1>0, <2>1, <3>2 DEF SetThread
      <4>2. e \in table[home[e]] <=> e \in table'[home[e]]
        <5>1. CASE home[e] = g
          BY <1>0, <2>1, <3>2, <5>1
        <5>2. CASE home[e] # g
          <6>1. table'[home[e]] = table[home[e]]
            BY <1>0, <2>1, <5>2
          <6> QED
            BY <6>1
        <5> QED
          BY <5>1, <5>2
      <4> QED
        BY <4>1, <4>2 DEF ThreadMoves
    <3> QED
      BY <3>1, <3>2
  <2> QED
    BY <2>1, <2>4, QuietPorts
<1>3. CASE ClosedFlow(g) \/ ClosedErr(g)
  <2>1. /\ toRecv[g] # <<>> /\ Head(toRecv[g]).type \in {"CLOSED_FLOW", "CLOSED_ERR"}
        /\ Serving(g) /\ UNCHANGED <<table, home, portVars>>
        /\ UNCHANGED thread \/ (f \in table[g] /\ SetThread(f, "cancelled"))
    BY <1>1, <1>3 DEF ClosedFlow, ClosedErr, OnMessage
  <2>2. CASE UNCHANGED thread
    BY <2>1, <2>2, OthersKeepPorts
  <2>3. CASE f \in table[g] /\ SetThread(f, "cancelled")
    <3>1. f \in Flows /\ (Asked(g, "CLOSED_FLOW", f) \/ Asked(g, "CLOSED_ERR", f))
      BY <1>0, <1>1, <2>1, HeadAsked DEF FlowTypes
    <3>2. sender[f] \in {"finished", "failed"}
      BY <1>0, <3>1 DEF FlowKept, RequestPart
    <3>3. thread[f] # "cancelled"
      BY <1>0, <2>1, <2>3, <3>1 DEF SessionsKept, Serving
    <3>4. thread[f] \in {"listening", "receiving", "failed"} /\ home[f] = g
      BY <1>0, <2>3, <3>1, <3>2, <3>3 DEF FlowKept, ThreadPart, ThreadsOf, Alive
    <3>5. \A e \in Flows : ThreadMoves(e)
      BY <1>0, <2>1, <2>3, <3>1, <3>4 DEF SetThread, ThreadMoves
    <3> QED
      BY <2>1, <3>5, QuietPorts
  <2> QED
    BY <2>1, <2>2, <2>3
<1>4. CASE FlowClosed(g)
  <2>1. PICK e \in table[g] :
          thread[e] = "cancelled" /\ LeavePort(e) /\ table' = [table EXCEPT ![g] = @ \ {e}]
    BY <1>4 DEF FlowClosed
  <2> QED
    BY <1>4, <2>1, FlowLeavesPort DEF FlowClosed
<1>5. CASE \/ AcceptSession(g) \/ Connected(g) \/ NameLog(g) \/ Release(g) \/ DiscoveryAnswered(g)
           \/ SenderDown(g) \/ Discover(g)
  <2>1. UNCHANGED <<thread, table, home, portVars>>
    BY <1>5 DEF AcceptSession, Connected, NameLog, Release, DiscoveryAnswered, SenderDown, Discover
  <2> QED
    BY <2>1, OthersKeepPorts
<1> QED
  BY <1>2, <1>3, <1>4, <1>5 DEF SessionOnSocket, SessionSocket, SessionTimer

\* A session gives up a flow whose data thread reported an error; the flow stays
\* counted at its port.
LEMMA SessionPipeKeepsPorts ==
  ASSUME PortInv, NEW g \in Flows, SessionOnPipe(g)
  PROVE  PortsKept'
<1>1. PICK f : f = Head(rPipe[g]).flow
  OBVIOUS
<1>2. /\ ChannelInv /\ SessionsKept /\ rPipe[g] # <<>> /\ Serving(g)
      /\ \A e \in Flows : FlowKept(e)
      /\ thread \in [Flows -> ThreadPCs] /\ table \in [Flows -> SUBSET Flows]
      /\ home \in [Flows -> Flows \cup {NoFlow}]
      /\ UNCHANGED <<home, portVars>>
  BY Types DEF PortInv, FlowInv, FlowsServed, SessionOnPipe, SessionPipe, ThreadOk,
     ThreadNotStarted, ThreadBroke, OnReport
<1>3. f \in Flows /\ Reported(g, Head(rPipe[g]).code, f)
  BY <1>1, <1>2, HeadReported
<1>4. CASE UNCHANGED <<thread, table>>
  BY <1>2, <1>4, OthersKeepPorts
<1>5. CASE f \in table[g] /\ DropFlow(g, f) /\ Head(rPipe[g]).code \in {"ERR1", "ERR2", "ERR_SOCK"}
  <2>1. thread[f] # "cancelled"
    BY <1>2, <1>3, <1>5 DEF SessionsKept, Serving
  <2>2. thread[f] = "failed" /\ home[f] = g
    BY <1>2, <1>3, <1>5, <2>1 DEF FlowKept, ReportPart
  <2>3. ASSUME NEW e \in Flows
        PROVE  ThreadMoves(e)
    <3>1. CASE e = f
      BY <1>2, <1>3, <1>5, <2>2, <3>1 DEF ThreadMoves, DropFlow, SetThread
    <3>2. CASE e # f
      <4>1. e \in table[home[e]] <=> e \in table'[home[e]]
        <5>1. CASE home[e] = g
          BY <1>2, <1>5, <3>2, <5>1 DEF DropFlow
        <5>2. CASE home[e] # g
          <6>1. table'[home[e]] = table[home[e]]
            BY <1>2, <1>5, <5>2 DEF DropFlow
          <6> QED
            BY <6>1
        <5> QED
          BY <5>1, <5>2
      <4> QED
        BY <1>2, <1>5, <3>2, <4>1 DEF ThreadMoves, DropFlow, SetThread
    <3> QED
      BY <3>1, <3>2
  <2> QED
    BY <1>2, <2>3, QuietPorts
<1> QED
  BY <1>1, <1>4, <1>5 DEF SessionOnPipe, SessionPipe, ThreadOk, ThreadNotStarted, ThreadBroke,
     OnReport

\* Every step of the two programs keeps the shared sockets in order.
LEMMA NextKeepsPorts ==
  ASSUME PortInv, [Next]_vars
  PROVE  PortInv'
<1>1. FlowInv'
  BY NextKeepsFlows DEF PortInv
<1>2. CASE UNCHANGED recvVars
  <2>1. UNCHANGED <<thread, table, home, portVars>>
    BY <1>2 DEF recvVars, portVars
  <2> QED
    BY <1>1, <2>1, OthersKeepPorts DEF PortInv
<1>3. ASSUME NEW f \in Flows,
             \/ Parser(f) \/ ManagerOnSocket(f) \/ ManagerOnPipe(f) \/ ManagerEnds(f)
             \/ SenderFails(f) \/ SenderConnects(f) \/ SenderFinishes(f) \/ SenderKilled(f)
      PROVE  UNCHANGED recvVars
  BY <1>3 DEF Parser, ManagerOnSocket, ManagerOnPipe, ManagerEnds, SenderFails, SenderConnects,
              SenderFinishes, SenderKilled
<1>4. CASE Exit \/ Finished \/ UNCHANGED vars
  <2>1. UNCHANGED recvVars
    BY <1>4 DEF Exit, Finished, vars
  <2> QED
    BY <1>2, <2>1
<1>5. ASSUME NEW f \in Flows,
             \/ SessionOnSocket(f) \/ SessionOnPipe(f) \/ SessionTimer(f)
             \/ DataThread(f) \/ DataThreadReceives(f) \/ DataThreadFails(f)
      PROVE  PortsKept'
  BY <1>5, SessionKeepsPorts, SessionPipeKeepsPorts, DataThreadKeepsPorts
<1>6. ASSUME NEW h \in Hosts, ReceiverStops(h)
      PROVE  PortsKept'
  <2>1. UNCHANGED <<thread, table, home, portVars>>
    BY <1>6 DEF ReceiverStops, Interrupted
  <2> QED
    BY <2>1, OthersKeepPorts
<1> QED
  BY <1>1, <1>2, <1>3, <1>4, <1>5, <1>6 DEF Next, PortInv

\* The invariant holds initially.
LEMMA InitPortInv == Init => PortInv
<1> SUFFICES ASSUME Init PROVE PortInv
  OBVIOUS
<1> USE DEF Init, NetInit, SendInit, RecvInit
<1>1. FlowInv
  BY InitChannelInv, InitFlowsServed DEF FlowInv
<1>2. LocksKept /\ SharedSocketKept
  BY ReceiverAssumption DEF LocksKept, SharedSocketKept
<1>3. \A p \in Ports : Counted(p) = {}
  BY DEF Counted, CountedFlow
<1> QED
  BY <1>1, <1>2, <1>3, FS_EmptySet DEF PortInv, PortsKept

\* No socket is closed under a data thread that uses it.
THEOREM SocketsShared == Spec => []SharedSocketKept
<1>1. PortInv => SharedSocketKept
  BY DEF PortInv, PortsKept
<1> QED
  BY InitPortInv, NextKeepsPorts, <1>1, PTL DEF Spec

-----------------------------------------------------------------------------
(***************************************************************************)
(* The ends of flows, connections and processes: a flow leaves its channel *)
(* before the channel is left, RELEASE is the last request, a connection   *)
(* goes through its phases in order while every receiver runs, and then no *)
(* session leaves a data thread behind and no process ends too early.      *)
(***************************************************************************)

\* No receiver has been stopped or has stopped itself.
AllUp == \A h \in Hosts : hostUp[h]

\* The state of a session that serves its connection, and of a manager whose last
\* flow has left its channel.
Served  == {"serve"} \cup Closing
LeftPCs == {"releasing", "lastNotify", "exited"}

\* An open channel has a flow that uses it, or its manager is closing it.
ChannelsUsed ==
  \A c \in Chans :
    chanSock[c] # NoFlow => holders[c] # {} \/ manager[chanSock[c]].pc = "releasing"

\* Only a flow whose sender failed is told before it has left its channel.
HoldersKept ==
  \A c \in Chans : \A f \in holders[c] :
    /\ parserPipe[f] # <<>> \/ parser[f] = "ended" => sender[f] = "failed"
    /\ \A g \in Flows : manager[g].flow = f => manager[g].pc \notin {"notify", "lastNotify"}

\* The receiver of a flow whose sender failed is still to be told, or is being told.
FailedTold ==
  \A f \in Flows :
    thread[f] \in Alive /\ sender[f] = "failed" =>
      \/ sigChan[f] \in Chans /\ OnPipeTo(sigChan[f], "ERRFLOW", f)
      \/ manager[home[f]].pc = "closedErr" /\ manager[home[f]].flow = f
      \/ Asked(home[f], "CLOSED_ERR", f)

\* Nothing follows RELEASE.
ReleaseLast ==
  \A g \in Flows : \A i \in DOMAIN toRecv[g] :
    toRecv[g][i] = Plain("RELEASE") => i = Len(toRecv[g]) /\ manager[g].pc \in LeftPCs

\* What the end of a flow leaves behind is in order, whatever happens to the receivers.
LeavingKept == ChannelsUsed /\ HoldersKept /\ FailedTold /\ ReleaseLast

\* The only message in q that is not about a flow is of this type.
PlainOnly(q, type) == \A i \in DOMAIN q : q[i].type \in PlainTypes => q[i].type = type

\* Connection g has not been opened, is being opened, is in use, or is left.
Unopened(g) ==
  session[g] = "none" /\ toRecv[g] = <<>> /\ toSend[g] = <<>> /\ ~connOpen[g]
Requested(g, request, before) ==
  connOpen[g] /\ session[g] \in before /\ toRecv[g] = <<Plain(request)>> /\ toSend[g] = <<>>
Acknowledged(g, answer) ==
  connOpen[g] /\ session[g] = "serve" /\ toRecv[g] = <<>> /\ toSend[g] = <<Plain(answer)>>
InUse(g) ==
  /\ \/ session[g] \in Served /\ (process = "run" => connOpen[g])
     \/ session[g] = "senderDown" /\ process = "exited"
  /\ PlainOnly(toRecv[g], "ACK_DISCOVERY") /\ PlainOnly(toSend[g], "DISCOVERY")
Left(g) ==
  \/ session[g] \in Served /\ Has(toRecv[g], Plain("RELEASE"))
  \/ session[g] = "released"

Phase(g) ==
  /\ parser[g] \notin Opening /\ manager[g].pc = "none" => Unopened(g)
  /\ parser[g] = "connecting" =>
       Requested(g, "CONNECT", {"none", "connect"}) \/ Acknowledged(g, "ACK_CONNECT")
  /\ parser[g] = "naming" =>
       Requested(g, "SEND_NAME_LOG", {"serve"}) \/ Acknowledged(g, "ACK_SEND_NAME_LOG")
  /\ manager[g].pc \in {"idle", "closedErr", "closing", "notify"} => InUse(g)
  /\ manager[g].pc \in LeftPCs => Left(g)

\* The process does not abort; it exits after all parsers, which have read their outcomes;
\* and the two properties of the sessions.
EndsKept ==
  /\ process # "aborted"
  /\ process = "exited" => \A f \in Flows : parser[f] = "ended"
  /\ \A f \in Flows : parser[f] = "ended" => outcome[f] # "none"
  /\ NoOrphanThread /\ OrderlyEnd

\* What holds while every receiver runs.
Orderly == EndsKept /\ \A g \in Flows : Phase(g)

\* The inductive invariant.
SessionInv == VerdictInv /\ LeavingKept /\ (AllUp => Orderly)

-----------------------------------------------------------------------------
(* What the steps that change signalChannels[] do. *)

\* identifySignalManager joins an open channel.
LEMMA JoinEffect ==
  ASSUME FlowInv, NEW f \in Flows, JoinChannel(f)
  PROVE  \E c \in Chans :
           /\ chanSock[c] # NoFlow /\ parser[f] = "idle"
           /\ holders'[c] = holders[c] \cup {f} /\ sigChan'[f] = c
           /\ \A d \in Chans : d # c => holders'[d] = holders[d]
           /\ \A e \in Flows : e # f => sigChan'[e] = sigChan[e] /\ parser'[e] = parser[e]
           /\ parser'[f] = "attached"
           /\ UNCHANGED <<chanSock, chanPipe, manager, sender, parserPipe>>
<1>1. PICK c : c = First(SameDest(f))
  OBVIOUS
<1>2. SameDest(f) \subseteq Chans /\ SameDest(f) # {}
  BY DEF SameDest, JoinChannel
<1>3. c \in SameDest(f)
  BY <1>1, <1>2, FirstIsMember
<1>4. /\ holders' = [holders EXCEPT ![c] = @ \cup {f}]
      /\ sigChan' = [sigChan EXCEPT ![f] = c]
      /\ parser' = [parser EXCEPT ![f] = "attached"]
      /\ parser[f] = "idle"
      /\ UNCHANGED <<chanSock, chanPipe, manager, sender, parserPipe>>
  BY <1>1 DEF JoinChannel, SetParser
<1>5. c \in Chans /\ chanSock[c] # NoFlow
  BY <1>3 DEF SameDest
<1> QED
  BY <1>4, <1>5, Types DEF FlowInv

\* identifySignalManager registers a new channel in a free slot.
LEMMA RegisterEffect ==
  ASSUME FlowInv, NEW f \in Flows, RegisterChannel(f), parser[f] \in Opening
  PROVE  \E c \in Chans :
           /\ chanSock[c] = NoFlow /\ chanSock'[c] = f
           /\ holders'[c] = {f} /\ chanPipe'[c] = <<>> /\ sigChan'[f] = c
           /\ \A d \in Chans : d # c =>
                chanSock'[d] = chanSock[d] /\ holders'[d] = holders[d] /\ chanPipe'[d] = chanPipe[d]
           /\ \A e \in Flows : e # f =>
                sigChan'[e] = sigChan[e] /\ parser'[e] = parser[e] /\ manager'[e] = manager[e]
           /\ parser'[f] = "attached"
           /\ manager[f].pc = "none" /\ manager'[f] = IdleManager
           /\ UNCHANGED <<sender, parserPipe>>
<1>0. ChannelInv /\ ChannelsKept
  BY DEF FlowInv, FlowsServed
<1>1. PICK c : c = First({d \in Chans : chanSock[d] = NoFlow})
  OBVIOUS
<1>2. {d \in Chans : chanSock[d] = NoFlow} # {}
  BY <1>0, FreeSlot
<1>3. c \in {d \in Chans : chanSock[d] = NoFlow}
  BY <1>1, <1>2, FirstIsMember
<1>4. /\ chanSock' = [chanSock EXCEPT ![c] = f]
      /\ holders' = [holders EXCEPT ![c] = {f}]
      /\ chanPipe' = [chanPipe EXCEPT ![c] = <<>>]
      /\ manager' = [manager EXCEPT ![f] = IdleManager]
      /\ sigChan' = [sigChan EXCEPT ![f] = c]
      /\ parser' = [parser EXCEPT ![f] = "attached"]
      /\ UNCHANGED <<sender, parserPipe>>
  BY <1>1 DEF RegisterChannel, SetParser, SetManager
<1>5. manager[f].pc = "none"
  BY <1>0 DEF ChannelsKept, Opening
<1> QED
  BY <1>0, <1>3, <1>4, <1>5, Types

\* A manager has its flow leave the channel; the last flow makes it release the channel.
LEMMA LeaveEffect ==
  ASSUME FlowInv, NEW g \in Flows, ManagerLeaves(g), NEW f, f = manager[g].flow,
         NEW c, c = sigChan[g]
  PROVE  /\ c \in Chans /\ chanSock[c] = g /\ f \in Flows /\ f \in holders[c] /\ sigChan[f] = c
         /\ holders'[c] = holders[c] \ {f}
         /\ \A d \in Chans : d # c => holders'[d] = holders[d]
         /\ \A h \in Flows : h # g => manager'[h] = manager[h]
         /\ \/ holders'[c] = {} /\ manager'[g].pc = "releasing" /\ manager'[g].flow = f
               /\ SenderSends(g, Plain("RELEASE"))
            \/ holders'[c] # {} /\ manager'[g] = IdleManager /\ UNCHANGED toRecv
            \/ holders'[c] # {} /\ manager'[g].pc = "notify" /\ manager'[g].flow = f
               /\ UNCHANGED toRecv
         /\ UNCHANGED <<process, parser, sigChan, parserPipe, sender, chanSock, chanPipe,
                        toSend, connOpen>>
<1>0. ChannelInv /\ ChannelsKept
  BY DEF FlowInv, FlowsServed
<1>1. /\ manager[g].pc = "closing"
      /\ holders' = [holders EXCEPT ![c] = @ \ {f}]
      /\ manager' = [manager EXCEPT ![g] =
           IF chanFlows[c] = 1 THEN [manager[g] EXCEPT !.pc = "releasing"]
           ELSE IF manager[g].code = "ERR2" THEN IdleManager
           ELSE [manager[g] EXCEPT !.pc = "notify"]]
      /\ IF chanFlows[c] = 1 THEN SenderSends(chanSock[c], Plain("RELEASE")) ELSE UNCHANGED toRecv
      /\ UNCHANGED <<process, parser, sigChan, parserPipe, sender, chanSock, chanPipe,
                     toSend, connOpen>>
  BY DEF ManagerLeaves, LeaveChannel, SetManager, SendRelease
<1>2. /\ c \in Chans /\ chanSock[c] = g /\ f \in holders[c] /\ sigChan[f] = c
      /\ chanFlows[c] = Cardinality(holders[c])
  BY <1>0, <1>1 DEF ChannelsKept, ChannelInv, ChannelKnown, LivePCs
<1>3. holders[c] \in SUBSET Flows /\ IsFiniteSet(holders[c])
  BY <1>0, <1>2, Types, SenderAssumption, FS_Subset
<1>4. holders'[c] = holders[c] \ {f} /\ \A d \in Chans : d # c => holders'[d] = holders[d]
  BY <1>0, <1>1, <1>2, Types
<1>5. chanFlows[c] = 1 <=> holders[c] \ {f} = {}
  <2>1. Cardinality(holders[c] \ {f}) = Cardinality(holders[c]) - 1 /\ IsFiniteSet(holders[c] \ {f})
    BY <1>2, <1>3, FS_RemoveElement
  <2>2. Cardinality(holders[c]) = 1 => Cardinality(holders[c] \ {f}) = 0
    BY <2>1
  <2>3. holders[c] \ {f} = {} => holders[c] = {f}
    BY <1>2
  <2> QED
    BY ZenonT(60), <1>2, <2>1, <2>2, <2>3, FS_EmptySet, FS_Singleton
<1>6. manager[g] \in [pc : ManagerPCs, flow : Flows, code : ResultCodes]
  BY <1>0, <1>1, Types DEF Managers, IdleManager, Manager, ManagerPCs
<1>7. manager \in [Flows -> Managers]
  BY <1>0, Types
<1> QED
  BY <1>1, <1>2, <1>3, <1>4, <1>5, <1>6, <1>7

\* A manager closes its channel, which no flow uses any more.
LEMMA ReleaseEffect ==
  ASSUME FlowInv, NEW g \in Flows, ManagerReleased(g), NEW c, c = sigChan[g]
  PROVE  /\ c \in Chans /\ chanSock[c] = g /\ chanSock'[c] = NoFlow /\ chanPipe'[c] = <<>>
         /\ holders[c] = {} /\ manager[g].flow \in Flows /\ sigChan[manager[g].flow] = c
         /\ manager[g].pc = "releasing"
         /\ \A d \in Chans : d # c => chanSock'[d] = chanSock[d] /\ chanPipe'[d] = chanPipe[d]
         /\ \A h \in Flows : h # g => manager'[h] = manager[h]
         /\ manager'[g].pc \in {"lastNotify", "exited"} /\ manager'[g].flow = manager[g].flow
         /\ Answered(g) /\ connOpen' = [connOpen EXCEPT ![g] = FALSE]
         /\ UNCHANGED <<process, parser, sigChan, parserPipe, sender, holders, toRecv>>
<1>0. ChannelInv /\ ChannelsKept
  BY DEF FlowInv, FlowsServed
<1>1. /\ manager[g].pc = "releasing" /\ Answered(chanSock[c])
      /\ connOpen' = [connOpen EXCEPT ![chanSock[c]] = FALSE]
      /\ chanSock' = [chanSock EXCEPT ![c] = NoFlow]
      /\ chanPipe' = [chanPipe EXCEPT ![c] = <<>>]
      /\ manager' = [manager EXCEPT ![g] = [manager[g] EXCEPT !.pc =
           IF manager[g].code = "ERR2" THEN "exited" ELSE "lastNotify"]]
      /\ UNCHANGED <<process, parser, sigChan, parserPipe, sender, holders, toRecv>>
  BY DEF ManagerReleased, CloseChannel, SetManager
<1>2. c \in Chans /\ chanSock[c] = g /\ holders[c] = {} /\ sigChan[manager[g].flow] = c
  BY <1>0, <1>1 DEF ChannelsKept, ChannelInv, ChannelKnown, LivePCs
<1>3. manager[g] \in [pc : ManagerPCs, flow : Flows, code : ResultCodes]
  BY <1>0, <1>1, Types DEF Managers, IdleManager, Manager, ManagerPCs
<1>4. /\ manager \in [Flows -> Managers]
      /\ chanSock \in [Chans -> Flows \cup {NoFlow}] /\ chanPipe \in [Chans -> Seq(PipeMessages)]
  BY <1>0, Types
<1> QED
  BY <1>1, <1>2, <1>3, <1>4

\* Only these steps change who uses which channel.
LEMMA ChannelWriters ==
  ASSUME [Next]_vars
  PROVE  \/ UNCHANGED <<chanSock, holders, sigChan>>
         \/ \E f \in Flows :
              \/ JoinChannel(f)
              \/ parser[f] \in Opening /\ RegisterChannel(f)
              \/ ManagerLeaves(f) \/ ManagerReleased(f)
<1> USE DEF threadVars, chanVars, sendVars, recvVars
<1>1. CASE Finished \/ UNCHANGED vars \/ (\E h \in Hosts : ReceiverStops(h)) \/ Exit
  BY <1>1 DEF Finished, vars, ReceiverStops, Interrupted, Exit, ExitProcess
<1>2. ASSUME NEW f \in Flows, Parser(f)
      PROVE  \/ UNCHANGED <<chanSock, holders, sigChan>>
             \/ JoinChannel(f)
             \/ parser[f] \in Opening /\ RegisterChannel(f)
  BY <1>2 DEF Parser, ParserThread, OpenConnection, OpenFails, ConnectAnswered, LogRequestFails,
     LogAnswered, SubmitFlow, TakeResult, Abort, Opening
<1>3. ASSUME NEW f \in Flows, ManagerOnSocket(f) \/ ManagerOnPipe(f) \/ ManagerEnds(f)
      PROVE  \/ UNCHANGED <<chanSock, holders, sigChan>>
             \/ ManagerLeaves(f) \/ ManagerReleased(f)
  BY <1>3 DEF ManagerOnSocket, ManagerSocket, ManagerOnPipe, ManagerPipe, ManagerEnds,
     ManagerEnding,
     StartFlow, AnswerDiscovery, FlowAnswered, ReceiverLost, ForwardRequest, FlowFailed, OnPipe,
     SendClosedErr, Notify, Abort
<1>4. ASSUME NEW f \in Flows, SenderFails(f) \/ SenderConnects(f) \/ SenderFinishes(f) \/ SenderKilled(f)
      PROVE  UNCHANGED <<chanSock, holders, sigChan>>
  BY <1>4 DEF SenderFails, SenderConnects, SenderFinishes, SenderKilled, SetupFails, Connects,
     FinishFlow, BrokenPipe, Abort
<1>5. ASSUME NEW f \in Flows,
             \/ SessionOnSocket(f) \/ SessionOnPipe(f) \/ SessionTimer(f)
             \/ DataThread(f) \/ DataThreadReceives(f) \/ DataThreadFails(f)
      PROVE  UNCHANGED <<chanSock, holders, sigChan>>
  BY <1>5 DEF SessionOnSocket, SessionOnPipe, SessionTimer, DataThread, DataThreadReceives,
     DataThreadFails
<1> QED
  BY <1>1, <1>2, <1>3, <1>4, <1>5 DEF Next

-----------------------------------------------------------------------------
(* Leaving a channel: LeavingKept is inductive. *)

\* A manager that waits for ACK_RELEASE goes on waiting until it closes the channel.
LEMMA ReleasingStays ==
  ASSUME FlowInv, [Next]_vars, NEW g \in Flows, manager[g].pc = "releasing", ~ManagerReleased(g)
  PROVE  manager'[g] = manager[g]
<1>1. ChannelsKept /\ manager \in [Flows -> Managers]
  BY Types DEF FlowInv, FlowsServed
<1>2. ASSUME NEW f \in Flows, parser[f] \in Opening, RegisterChannel(f)
      PROVE  manager'[g] = manager[g]
  <2>1. manager[f].pc = "none"
    BY <1>1, <1>2 DEF ChannelsKept, Opening
  <2> QED
    BY <1>1, <1>2, <2>1 DEF RegisterChannel, SetManager
<1>3. ASSUME NEW f \in Flows,
             FlowAnswered(f) \/ FlowFailed(f) \/ SendClosedErr(f) \/ ManagerLeaves(f) \/ Notify(f)
      PROVE  manager'[g] = manager[g]
  <2>1. manager[f].pc # "releasing" /\ \E m : SetManager(f, m)
    BY <1>3 DEF FlowAnswered, FlowFailed, SendClosedErr, ManagerLeaves, Notify, OnSocket, OnPipe,
       ManagerReady, IdleManager, Manager
  <2> QED
    BY <1>1, <2>1 DEF SetManager
<1>4. ASSUME NEW f \in Flows, ManagerReleased(f)
      PROVE  manager'[g] = manager[g]
  <2>1. f # g
    BY <1>4
  <2> QED
    BY <1>1, <1>4, <2>1 DEF ManagerReleased, SetManager
<1> QED
  BY <1>2, <1>3, <1>4, Writers DEF ConnectAnswered, LogAnswered, Opening

\* An open channel is in use or about to be closed.
LEMMA UsedStays ==
  ASSUME FlowInv, ChannelsUsed, [Next]_vars, FlowInv'
  PROVE  ChannelsUsed'
<1>1. ChannelsKept /\ ChannelsKept'
  BY DEF FlowInv, FlowsServed
<1>2. SUFFICES ASSUME NEW c \in Chans, NEW g, g = chanSock'[c], g # NoFlow
               PROVE  holders'[c] # {} \/ manager'[g].pc = "releasing"
  BY DEF ChannelsUsed
<1>3. g \in Flows /\ sigChan'[g] = c
  <2>1. chanSock' \in [Chans -> Flows \cup {NoFlow}]
    BY DEF FlowInv, ChannelInv, TypeOK, SendTypeOK, ChanTypeOK
  <2> QED
    BY <1>1, <1>2, <2>1 DEF ChannelsKept
<1>4. CASE chanSock[c] = g /\ manager[g].pc = "releasing"
  <2>1. CASE ManagerReleased(g)
    <3>1. sigChan[g] = c
      BY <1>1, <1>2, <1>4 DEF ChannelsKept
    <3>2. chanSock'[c] = NoFlow
      BY <1>3, <2>1, <3>1, ReleaseEffect
    <3> QED
      BY <1>2, <3>2
  <2>2. CASE ~ManagerReleased(g)
    BY <1>3, <1>4, <2>2, ReleasingStays
  <2> QED
    BY <2>1, <2>2
<1>5. CASE chanSock[c] = g /\ holders[c] # {}
  <2>1. ASSUME NEW f \in Flows, JoinChannel(f)
        PROVE  holders'[c] # {}
    BY <1>5, <2>1, JoinEffect
  <2>2. ASSUME NEW f \in Flows, RegisterChannel(f), parser[f] \in Opening
        PROVE  holders'[c] # {}
    BY <1>5, <2>2, RegisterEffect
  <2>3. ASSUME NEW f \in Flows, ManagerLeaves(f)
        PROVE  holders'[c] # {} \/ manager'[g].pc = "releasing"
    <3>1. PICK d, e : d = sigChan[f] /\ e = manager[f].flow
      OBVIOUS
    <3>2. /\ chanSock[d] = f /\ \A b \in Chans : b # d => holders'[b] = holders[b]
          /\ holders'[d] # {} \/ manager'[f].pc = "releasing"
      BY <2>3, <3>1, LeaveEffect
    <3> QED
      BY <1>5, <3>2
  <2>4. ASSUME NEW f \in Flows, ManagerReleased(f)
        PROVE  holders'[c] # {}
    BY <1>5, <2>4, ReleaseEffect
  <2> QED
    BY <1>5, <2>1, <2>2, <2>3, <2>4, ChannelWriters
<1>6. CASE chanSock[c] # g
  <2>1. ASSUME NEW f \in Flows, RegisterChannel(f), parser[f] \in Opening
        PROVE  holders'[c] # {}
    BY <1>2, <1>6, <2>1, RegisterEffect
  <2>2. ASSUME NEW f \in Flows, JoinChannel(f) \/ ManagerLeaves(f) \/ ManagerReleased(f)
        PROVE  chanSock'[c] = chanSock[c] \/ chanSock'[c] = NoFlow
    BY <2>2, JoinEffect, LeaveEffect, ReleaseEffect
  <2> QED
    BY <1>2, <1>6, <2>1, <2>2, ChannelWriters
<1> QED
  BY <1>2, <1>4, <1>5, <1>6 DEF ChannelsUsed

\* A flow whose sender has failed never has another sender.
LEMMA FailedStays ==
  ASSUME FlowInv, [Next]_vars, NEW f \in Flows, sender[f] = "failed"
  PROVE  sender'[f] = "failed"
<1>1. ChannelInv /\ \A e \in Flows : FlowKept(e)
  BY DEF FlowInv, FlowsServed
<1>2. ASSUME NEW g \in Flows, StartFlow(g)
      PROVE  sender'[f] = "failed"
  <2>1. PICK e : e = Head(toSend[g]).flow
    OBVIOUS
  <2>2. /\ toSend[g] # <<>> /\ Head(toSend[g]).type = "ACK_SEND_FLOW"
        /\ sender' = [sender EXCEPT ![e] = "setup"]
    BY <1>2, <2>1 DEF StartFlow, OnSocket
  <2>3. e \in Flows /\ Replied(g, "ACK_SEND_FLOW", e)
    BY <1>1, <2>1, <2>2, HeadReplied DEF FlowTypes
  <2>4. sender[e] = "none"
    BY <1>1, <2>3 DEF FlowKept, ReplyPart
  <2> QED
    BY <1>1, <2>2, <2>4, Types
<1>3. ASSUME NEW g \in Flows, SenderFails(g) \/ SenderConnects(g) \/ SenderFinishes(g) \/ SenderKilled(g)
      PROVE  sender'[f] = "failed"
  <2>1. sender' = sender \/ (sender[g] # "failed" /\ \E pc : sender' = [sender EXCEPT ![g] = pc])
    BY <1>3 DEF SenderFails, SenderConnects, SenderFinishes, SenderKilled, SetupFails, Connects,
       FinishFlow, BrokenPipe, Abort, threadVars
  <2> QED
    BY <1>1, <2>1, Types
<1>4. ASSUME NEW g \in Flows, Parser(g) \/ ManagerOnSocket(g) \/ ManagerOnPipe(g) \/ ManagerEnds(g)
      PROVE  sender' = sender \/ StartFlow(g)
  BY <1>4 DEF Parser, ParserThread, JoinChannel, OpenConnection, OpenFails, ConnectAnswered,
     LogRequestFails, LogAnswered, SubmitFlow, TakeResult, RegisterChannel, Abort,
     ManagerOnSocket, ManagerSocket, ManagerOnPipe, ManagerPipe, ManagerEnds, ManagerEnding,
     AnswerDiscovery, FlowAnswered, ReceiverLost, ForwardRequest, FlowFailed,
     SendClosedErr, ManagerLeaves, ManagerReleased, Notify, threadVars
<1>5. ASSUME \/ Finished \/ UNCHANGED vars \/ (\E h \in Hosts : ReceiverStops(h)) \/ Exit
             \/ \E e \in Flows : \/ SessionOnSocket(e) \/ SessionOnPipe(e) \/ SessionTimer(e)
                                 \/ DataThread(e) \/ DataThreadReceives(e) \/ DataThreadFails(e)
      PROVE  sender' = sender
  BY <1>5 DEF Finished, vars, ReceiverStops, Interrupted, Exit, ExitProcess, SessionOnSocket,
     SessionOnPipe, SessionTimer, DataThread, DataThreadReceives, DataThreadFails, sendVars,
     threadVars
<1> QED
  BY <1>2, <1>3, <1>4, <1>5 DEF Next

\* Only the signalManager thread of a connection, and the parser that starts it,
\* change where it is.
LEMMA OwnManager ==
  ASSUME ChannelInv, [Next]_vars, NEW g \in Flows, manager'[g] # manager[g]
  PROVE  \/ (ConnectAnswered(g) \/ LogAnswered(g)) /\ RegisterChannel(g)
         \/ FlowAnswered(g) \/ FlowFailed(g) \/ SendClosedErr(g)
         \/ ManagerLeaves(g) \/ ManagerReleased(g) \/ Notify(g)
<1>1. manager \in [Flows -> Managers]
  BY Types
<1>2. PICK f \in Flows : \/ (ConnectAnswered(f) \/ LogAnswered(f)) /\ RegisterChannel(f)
                         \/ FlowAnswered(f) \/ FlowFailed(f) \/ SendClosedErr(f)
                         \/ ManagerLeaves(f) \/ ManagerReleased(f) \/ Notify(f)
  BY Writers
<1>3. \E m : manager' = [manager EXCEPT ![f] = m]
  BY <1>2 DEF RegisterChannel, FlowAnswered, FlowFailed, SendClosedErr, ManagerLeaves,
     ManagerReleased,
     Notify, SetManager
<1>4. f = g
  BY <1>1, <1>3
<1> QED
  BY <1>2, <1>4

\* Only the flowParser of a flow changes where it is.
LEMMA OwnParser ==
  ASSUME ChannelInv, [Next]_vars, NEW f \in Flows, parser'[f] # parser[f]
  PROVE  \/ JoinChannel(f) \/ OpenConnection(f) \/ ConnectAnswered(f) \/ LogRequestFails(f)
         \/ LogAnswered(f) \/ SubmitFlow(f) \/ TakeResult(f)
<1>1. parser \in [Flows -> ParserPCs]
  BY Types
<1>2. ASSUME NEW e \in Flows, Parser(e)
      PROVE  \/ JoinChannel(f) \/ OpenConnection(f) \/ ConnectAnswered(f) \/ LogRequestFails(f)
             \/ LogAnswered(f) \/ SubmitFlow(f) \/ TakeResult(f)
  <2>1. parser' = parser \/ \E pc : SetParser(e, pc)
    BY <1>2 DEF Parser, ParserThread, JoinChannel, OpenConnection, OpenFails, ConnectAnswered,
       LogRequestFails, LogAnswered, SubmitFlow, TakeResult, RegisterChannel, Abort, threadVars
  <2>2. e = f
    BY <1>1, <2>1 DEF SetParser
  <2>3. ~OpenFails(f)
    BY DEF OpenFails, Abort, threadVars
  <2> QED
    BY <1>2, <2>2, <2>3 DEF Parser, ParserThread
<1>3. ASSUME NEW e \in Flows,
             \/ ManagerOnSocket(e) \/ ManagerOnPipe(e) \/ ManagerEnds(e)
             \/ SenderFails(e) \/ SenderConnects(e) \/ SenderFinishes(e) \/ SenderKilled(e)
      PROVE  UNCHANGED parser
  BY <1>3 DEF ManagerOnSocket, ManagerSocket, ManagerOnPipe, ManagerPipe, ManagerEnds,
     ManagerEnding,
     StartFlow, AnswerDiscovery, FlowAnswered, ReceiverLost, ForwardRequest, FlowFailed,
     SendClosedErr,
     ManagerLeaves, ManagerReleased, Notify, Abort, SenderFails, SenderConnects, SenderFinishes,
     SenderKilled, SetupFails, Connects, FinishFlow, BrokenPipe, threadVars
<1>4. ASSUME \/ Finished \/ UNCHANGED vars \/ (\E h \in Hosts : ReceiverStops(h)) \/ Exit
             \/ \E e \in Flows : \/ SessionOnSocket(e) \/ SessionOnPipe(e) \/ SessionTimer(e)
                                 \/ DataThread(e) \/ DataThreadReceives(e) \/ DataThreadFails(e)
      PROVE  UNCHANGED parser
  BY <1>4 DEF Finished, vars, ReceiverStops, Interrupted, Exit, ExitProcess, SessionOnSocket,
     SessionOnPipe, SessionTimer, DataThread, DataThreadReceives, DataThreadFails, sendVars,
     threadVars
<1> QED
  BY <1>2, <1>3, <1>4 DEF Next

\* Where the other steps of a manager leave it.
LEMMA ManagerTurns ==
  ASSUME ChannelInv, NEW g \in Flows
  PROVE  /\ RegisterChannel(g) => manager'[g] = IdleManager
         /\ FlowAnswered(g) => manager[g] = IdleManager /\ manager'[g].pc = "closing"
         /\ FlowFailed(g) => manager[g] = IdleManager /\ manager'[g].pc = "closedErr"
         /\ SendClosedErr(g) => manager[g].pc = "closedErr" /\ manager'[g].pc = "closing"
         /\ Notify(g) => \/ manager[g].pc = "notify" /\ manager'[g] = IdleManager
                         \/ manager[g].pc = "lastNotify" /\ manager'[g].pc = "exited"
<1>1. manager \in [Flows -> Managers]
  BY Types
<1>2. manager[g].pc \in ManagerPCs => manager[g] \in [pc : ManagerPCs, flow : Flows, code : ResultCodes]
  BY <1>1 DEF Managers, IdleManager, Manager, ManagerPCs
<1>3. RegisterChannel(g) => manager'[g] = IdleManager
  BY <1>1 DEF RegisterChannel, SetManager
<1>4. FlowAnswered(g) => manager[g] = IdleManager /\ manager'[g].pc = "closing"
  BY <1>1 DEF FlowAnswered, OnSocket, ManagerReady, SetManager, Manager
<1>5. FlowFailed(g) => manager[g] = IdleManager /\ manager'[g].pc = "closedErr"
  BY <1>1 DEF FlowFailed, OnPipe, ManagerReady, SetManager, Manager
<1>6. SendClosedErr(g) => manager[g].pc = "closedErr" /\ manager'[g].pc = "closing"
  BY <1>1, <1>2 DEF SendClosedErr, SetManager, ManagerPCs
<1>7. Notify(g) => \/ manager[g].pc = "notify" /\ manager'[g] = IdleManager
                   \/ manager[g].pc = "lastNotify" /\ manager'[g].pc = "exited"
  BY <1>1, <1>2 DEF Notify, SetManager, ManagerPCs
<1> QED
  BY <1>3, <1>4, <1>5, <1>6, <1>7

\* A flow is told its result while it is counted only if its sender has failed.
LEMMA HoldersStay ==
  ASSUME FlowInv, HoldersKept, [Next]_vars
  PROVE  HoldersKept'
<1>0. ChannelInv /\ ChannelsKept /\ \A e \in Flows : FlowKept(e)
  BY DEF FlowInv, FlowsServed
<1>1. SUFFICES ASSUME NEW c \in Chans, NEW f \in holders'[c]
               PROVE  /\ parserPipe'[f] # <<>> \/ parser'[f] = "ended" => sender'[f] = "failed"
                      /\ \A g \in Flows : manager'[g].flow = f =>
                           manager'[g].pc \notin {"notify", "lastNotify"}
  BY DEF HoldersKept
<1>2. CASE f \notin holders[c]
  <2>1. ASSUME NEW g \in Flows, ManagerLeaves(g) \/ ManagerReleased(g)
        PROVE  FALSE
    BY <1>1, <1>2, <2>1, LeaveEffect, ReleaseEffect
  <2>2. PICK g \in Flows : JoinChannel(g) \/ (parser[g] \in Opening /\ RegisterChannel(g))
    BY <1>1, <1>2, <2>1, ChannelWriters
  <2>3. g = f /\ parser[f] \notin {"waiting", "ended"}
    BY <1>1, <1>2, <2>2, JoinEffect, RegisterEffect DEF Opening
  <2>4. parserPipe[f] = <<>> /\ \A h \in Flows : ~Handles(h, f)
    BY <1>0, <2>2, <2>3, FreshFlow
  <2>5. /\ parserPipe' = parserPipe /\ parser'[f] = "attached"
        /\ \A h \in Flows : manager'[h] = manager[h] \/ manager'[h] = IdleManager
    BY <2>2, <2>3, JoinEffect, RegisterEffect
  <2> QED
    BY <2>4, <2>5 DEF Handles, IdleManager, Manager
<1>3. CASE f \in holders[c]
  <2>0. /\ f \in Flows /\ sigChan[f] = c /\ parser[f] \in {"attached", "waiting", "ended"}
        /\ parserPipe[f] # <<>> \/ parser[f] = "ended" => sender[f] = "failed"
        /\ \A g \in Flows : manager[g].flow = f => manager[g].pc \notin {"notify", "lastNotify"}
    BY <1>0, <1>3, Types DEF ChannelsKept, HoldersKept
  <2>1. parserPipe'[f] # <<>> => parserPipe[f] # <<>> \/ sender[f] = "failed"
    <3>1. ASSUME NEW g \in Flows, TakeResult(g)
          PROVE  parserPipe[f] # <<>> \/ parserPipe'[f] = parserPipe[f]
      BY <1>0, <2>0, <3>1, ResultTaken
    <3>2. ASSUME NEW g \in Flows, FlowFailed(g)
          PROVE  parserPipe'[f] = parserPipe[f] \/ sender[f] = "failed"
      <4>1. PICK d : d = Head(chanPipe[sigChan[g]]).flow
        OBVIOUS
      <4>2. OnPipe(g, "ERRFLOW") /\ PushToParser(d, "ERR2")
        BY <3>2, <4>1 DEF FlowFailed
      <4>3. d \in Flows /\ sender[d] = "failed"
        BY <4>1, <4>2, FailedFlow
      <4> QED
        BY <1>0, <2>0, <4>2, <4>3, Types DEF PushToParser
    <3>3. ASSUME NEW g \in Flows, Notify(g)
          PROVE  parserPipe'[f] = parserPipe[f]
      <4>1. PICK d : d = manager[g].flow
        OBVIOUS
      <4>2. d # f /\ \E v : PushToParser(d, v)
        BY <2>0, <3>3, <4>1 DEF Notify
      <4> QED
        BY <1>0, <2>0, <4>2, Types DEF PushToParser
    <3> QED
      BY <3>1, <3>2, <3>3, Writers
  <2>2. parser'[f] = "ended" => parser[f] = "ended" \/ parserPipe[f] # <<>>
    <3>1. CASE parser[f] = "waiting"
      BY <2>0, <3>1, <1>0, WaitsForResult DEF TakeResult
    <3>2. CASE parser[f] = "attached"
      BY <2>0, <3>2, <1>0, OwnParser, Types DEF SubmitFlow, JoinChannel, OpenConnection,
         ConnectAnswered,
         LogRequestFails, LogAnswered, TakeResult, SetParser
    <3> QED
      BY <2>0, <3>1, <3>2
  <2>3. sender[f] = "failed" => sender'[f] = "failed"
    BY <2>0, FailedStays
  <2>4. ASSUME NEW g \in Flows, manager'[g].flow = f, manager'[g].pc \in {"notify", "lastNotify"}
        PROVE  FALSE
    <3>1. manager'[g] # manager[g]
      BY <2>0, <2>4
    <3>2. PICK d, e : d = sigChan[g] /\ e = manager[g].flow
      OBVIOUS
    <3>3. CASE ManagerLeaves(g)
      <4>1. sigChan[e] = d /\ holders'[d] = holders[d] \ {e}
        BY <3>2, <3>3, LeaveEffect
      <4>2. manager'[g].flow = e
        BY <2>4, <3>2, <3>3, LeaveEffect DEF IdleManager, Manager
      <4> QED
        BY <1>1, <2>0, <2>4, <4>1, <4>2
    <3>4. CASE ManagerReleased(g)
      <4>1. sigChan[e] = d /\ holders[d] = {} /\ manager'[g].flow = e
        BY <3>2, <3>4, ReleaseEffect
      <4> QED
        BY <1>3, <2>0, <2>4, <4>1
    <3> QED
      BY <1>0, <2>4, <3>1, <3>3, <3>4, OwnManager, ManagerTurns DEF IdleManager, Manager
  <2> QED
    BY <2>0, <2>1, <2>2, <2>3, <2>4
<1> QED
  BY <1>2, <1>3

\* What ITGSend writes on connection g, and in which step.
SentBy(g, m) ==
  \/ m = Plain("CONNECT") /\ OpenConnection(g)
  \/ m = Plain("SEND_NAME_LOG") /\ ConnectAnswered(g) /\ parser'[g] = "naming"
  \/ m = Plain("ACK_DISCOVERY") /\ AnswerDiscovery(g)
  \/ (\E f \in Flows : m = Msg("SEND_FLOW", f) \/ m = Msg("CLOSED_FLOW", f)) /\ ForwardRequest(g)
  \/ m = Msg("CLOSED_ERR", manager[g].flow) /\ manager[g].flow \in Flows /\ SendClosedErr(g)
  \/ m = Plain("RELEASE") /\ ManagerLeaves(g)

\* The thread of connection g is the only writer, and its session the only reader.
LEMMA RequestWriters ==
  ASSUME FlowInv, [Next]_vars, NEW g \in Flows, toRecv'[g] # toRecv[g]
  PROVE  \/ /\ toRecv[g] # <<>> /\ toRecv'[g] = Tail(toRecv[g]) /\ SessionOnSocket(g)
         \/ /\ UNCHANGED recvVars
            /\ \E m \in Messages : toRecv'[g] = Append(toRecv[g], m) /\ SentBy(g, m)
<1>0. /\ ChannelInv /\ ChannelsKept /\ toRecv \in [Flows -> Seq(Messages)]
      /\ manager \in [Flows -> Managers]
  BY Types DEF FlowInv, FlowsServed
<1>1. ASSUME NEW f \in Flows, NEW m \in Messages, SenderSends(f, m), SentBy(f, m), UNCHANGED recvVars
      PROVE  \E x \in Messages : toRecv'[g] = Append(toRecv[g], x) /\ SentBy(g, x)
  <2>1. f = g /\ toRecv'[g] = Append(toRecv[g], m)
    BY <1>0, <1>1 DEF SenderSends
  <2> QED
    BY <1>1, <2>1
<1>2. /\ Plain("CONNECT") \in Messages /\ Plain("SEND_NAME_LOG") \in Messages
      /\ Plain("ACK_DISCOVERY") \in Messages /\ Plain("RELEASE") \in Messages
      /\ \A f \in Flows : /\ Msg("SEND_FLOW", f) \in Messages /\ Msg("CLOSED_FLOW", f) \in Messages
                          /\ Msg("CLOSED_ERR", f) \in Messages
  BY MessageKinds DEF PlainTypes, FlowTypes
<1>3. ASSUME NEW f \in Flows, Parser(f)
      PROVE  UNCHANGED recvVars /\ \E m \in Messages : SenderSends(f, m) /\ SentBy(f, m)
  <2>1. UNCHANGED recvVars /\ ParserThread(f) /\ toRecv' # toRecv
    BY <1>3 DEF Parser
  <2>2. CASE OpenConnection(f)
    BY <1>2, <2>1, <2>2 DEF SentBy, OpenConnection
  <2>3. CASE ConnectAnswered(f)
    <3>1. SendNameLog(f) /\ SetParser(f, "naming")
      BY <2>1, <2>3 DEF ConnectAnswered
    <3>2. parser'[f] = "naming"
      BY <1>0, <3>1, Types DEF SetParser
    <3> QED
      BY <1>2, <2>1, <2>3, <3>1, <3>2 DEF SentBy, SendNameLog
  <2> QED
    BY <2>1, <2>2, <2>3 DEF ParserThread, JoinChannel, OpenFails, LogRequestFails, LogAnswered,
       SubmitFlow, TakeResult, Abort, netVars
<1>4. ASSUME NEW f \in Flows, ManagerOnSocket(f) \/ ManagerOnPipe(f)
      PROVE  UNCHANGED recvVars /\ \E m \in Messages : SenderSends(f, m) /\ SentBy(f, m)
  <2>1. UNCHANGED recvVars
    BY <1>4 DEF ManagerOnSocket, ManagerOnPipe
  <2>2. CASE AnswerDiscovery(f)
    BY <1>2, <2>1, <2>2 DEF SentBy, AnswerDiscovery
  <2>3. CASE ForwardRequest(f)
    <3>1. PICK e : e = Head(chanPipe[sigChan[f]]).flow
      OBVIOUS
    <3>2. \E code \in PipeCodes : OnPipe(f, code)
      BY <2>3 DEF ForwardRequest, PipeCodes
    <3>3. e \in Flows
      BY <3>1, <3>2, ReadsOwnPipe
    <3>4. SenderSends(f, Msg("SEND_FLOW", e)) \/ SenderSends(f, Msg("CLOSED_FLOW", e))
      BY <2>3, <3>1 DEF ForwardRequest, RequestToSend, ClosedFlowSent
    <3> QED
      BY <1>2, <2>1, <2>3, <3>3, <3>4 DEF SentBy
  <2> QED
    BY <1>4, <2>2, <2>3 DEF ManagerOnSocket, ManagerSocket, ManagerOnPipe, ManagerPipe, StartFlow,
       FlowAnswered, ReceiverLost, FlowFailed, Abort, netVars
<1>5. ASSUME NEW f \in Flows, ManagerEnds(f)
      PROVE  UNCHANGED recvVars /\ \E m \in Messages : SenderSends(f, m) /\ SentBy(f, m)
  <2>1. UNCHANGED recvVars
    BY <1>5 DEF ManagerEnds
  <2>2. CASE SendClosedErr(f)
    <3>1. manager[f].flow \in Flows /\ SenderSends(f, Msg("CLOSED_ERR", manager[f].flow))
      BY <1>0, <2>2, BusyManager DEF SendClosedErr, ManagerPCs
    <3> QED
      BY <1>2, <2>1, <2>2, <3>1 DEF SentBy
  <2>3. CASE ManagerLeaves(f)
    <3>1. SenderSends(f, Plain("RELEASE")) \/ UNCHANGED toRecv
      BY <2>3, LeaveEffect
    <3> QED
      BY <1>2, <2>1, <2>3, <3>1 DEF SentBy
  <2>4. CASE ManagerReleased(f) \/ Notify(f)
    BY <2>4 DEF ManagerReleased, CloseChannel, Notify, netVars
  <2> QED
    BY <1>5, <2>2, <2>3, <2>4 DEF ManagerEnds, ManagerEnding
<1>6. ASSUME NEW f \in Flows, SessionOnSocket(f)
      PROVE  f = g /\ toRecv[g] # <<>> /\ toRecv'[g] = Tail(toRecv[g])
  <2>1. toRecv' = toRecv \/ (toRecv[f] # <<>> /\ ReceiverTakes(f))
    BY <1>6 DEF SessionOnSocket, SessionSocket, AcceptSession, Connected, NameLog, SendFlow,
       ClosedFlow, ClosedErr, FlowClosed, Release, DiscoveryAnswered, SenderDown, OnMessage, netVars
  <2> QED
    BY <1>0, <2>1 DEF ReceiverTakes
<1>7. ASSUME \/ Finished \/ UNCHANGED vars \/ (\E h \in Hosts : ReceiverStops(h)) \/ Exit
             \/ \E e \in Flows : \/ SenderFails(e) \/ SenderConnects(e) \/ SenderFinishes(e)
                                 \/ SenderKilled(e) \/ SessionOnPipe(e) \/ SessionTimer(e)
                                 \/ DataThread(e) \/ DataThreadReceives(e) \/ DataThreadFails(e)
      PROVE  toRecv' = toRecv
  BY ZenonT(40), <1>7 DEF Finished, vars, ReceiverStops, Interrupted, Exit, ExitProcess, SenderFails,
     SenderConnects,
     SenderFinishes, SenderKilled, SetupFails, Connects, FinishFlow, BrokenPipe, Abort,
     SessionOnPipe, SessionPipe, ThreadOk, ThreadNotStarted, ThreadBroke, OnReport, SessionTimer,
     Discover,
     DataThread, DataThreadStarts, BindFails, Listens, DataThreadReceives, Receives,
     DataThreadFails,
     ReceiveFails, netVars
<1> QED
  BY <1>1, <1>3, <1>4, <1>5, <1>6, <1>7 DEF Next

\* A manager whose last flow has left does not come back to its loop.
LEMMA LeftStays ==
  ASSUME FlowInv, [Next]_vars, NEW g \in Flows, manager[g].pc \in LeftPCs
  PROVE  manager'[g].pc \in LeftPCs
<1>1. ChannelInv /\ ChannelsKept
  BY DEF FlowInv, FlowsServed
<1>2. ASSUME ConnectAnswered(g) \/ LogAnswered(g)
      PROVE  FALSE
  BY <1>1, <1>2 DEF ChannelsKept, ConnectAnswered, LogAnswered, LeftPCs
<1>3. ~ManagerLeaves(g)
  BY DEF ManagerLeaves, LeftPCs
<1>4. ManagerReleased(g) => manager'[g].pc \in LeftPCs
  BY ReleaseEffect DEF LeftPCs
<1>5. FlowAnswered(g) \/ FlowFailed(g) \/ SendClosedErr(g) \/ Notify(g) => manager'[g].pc \in LeftPCs
  BY <1>1, ManagerTurns DEF LeftPCs, IdleManager, Manager
<1> QED
  BY <1>1, <1>2, <1>3, <1>4, <1>5, OwnManager

\* A session reads RELEASE last.
LEMMA ReleaseStaysLast ==
  ASSUME FlowInv, ReleaseLast, [Next]_vars
  PROVE  ReleaseLast'
<1>0. ChannelInv /\ ChannelsKept /\ toRecv \in [Flows -> Seq(Messages)]
  BY Types DEF FlowInv, FlowsServed
<1>1. SUFFICES ASSUME NEW g \in Flows, NEW i \in DOMAIN toRecv'[g], toRecv'[g][i] = Plain("RELEASE")
               PROVE  i = Len(toRecv'[g]) /\ manager'[g].pc \in LeftPCs
  BY DEF ReleaseLast
<1>2. PICK q \in Seq(Messages) : q = toRecv[g]
  BY <1>0
<1>3. CASE toRecv'[g] = q
  BY <1>1, <1>2, <1>3, LeftStays DEF ReleaseLast
<1>4. CASE q # <<>> /\ toRecv'[g] = Tail(q)
  <2>1. /\ i + 1 \in DOMAIN q /\ q[i + 1] = Plain("RELEASE")
        /\ Len(q) \in Nat /\ Len(toRecv'[g]) = Len(q) - 1 /\ i \in Int
    BY <1>1, <1>4
  <2>2. i + 1 = Len(q) /\ manager[g].pc \in LeftPCs
    BY <1>2, <2>1 DEF ReleaseLast
  <2> QED
    BY <2>1, <2>2, LeftStays
<1>5. ASSUME NEW m \in Messages, toRecv'[g] = Append(q, m), SentBy(g, m)
      PROVE  i = Len(toRecv'[g]) /\ manager'[g].pc \in LeftPCs
  <2>1. /\ Len(toRecv'[g]) = Len(q) + 1 /\ i \in 1 .. Len(q) + 1 /\ Len(q) \in Nat
        /\ i # Len(q) + 1 => i \in DOMAIN q /\ q[i] = Plain("RELEASE")
        /\ i = Len(q) + 1 => m = Plain("RELEASE")
    BY <1>1, <1>5
  <2>2. manager[g].pc \notin LeftPCs
    BY <1>0, <1>5 DEF SentBy, OpenConnection, ConnectAnswered, AnswerDiscovery, ForwardRequest,
       OnSocket,
       OnPipe, ManagerReady, SendClosedErr, ManagerLeaves, ChannelsKept, LeftPCs, IdleManager,
       Manager
  <2>3. i = Len(q) + 1
    BY <1>2, <2>1, <2>2 DEF ReleaseLast
  <2>4. ManagerLeaves(g)
    BY <1>5, <2>1, <2>3 DEF SentBy, Plain, Msg
  <2>5. SenderSends(g, Plain("RELEASE")) \/ UNCHANGED toRecv
    BY <2>4, LeaveEffect
  <2>6. toRecv' # toRecv
    BY <1>2, <2>1
  <2>7. manager'[g].pc = "releasing"
    BY <2>4, <2>6, LeaveEffect
  <2> QED
    BY <2>1, <2>3, <2>7 DEF LeftPCs
<1> QED
  BY <1>2, <1>3, <1>4, <1>5, RequestWriters

\* A message that is not the first stays in a queue that is read.
LEMMA StaysInTail ==
  ASSUME NEW S, NEW q \in Seq(S), q # <<>>, NEW m, Has(q, m), m # Head(q)
  PROVE  Has(Tail(q), m)
<1>1. PICK i \in DOMAIN q : q[i] = m
  BY DEF Has
<1>2. i # 1 /\ i \in 1 .. Len(q) /\ Len(q) \in Nat
  BY <1>1
<1>3. i - 1 \in DOMAIN Tail(q) /\ Tail(q)[i - 1] = m
  BY <1>1, <1>2
<1> QED
  BY <1>3 DEF Has

\* Anybody may write to the pipe of an open channel; only its manager reads it,
\* until that manager closes it.
LEMMA PipeWriters ==
  ASSUME FlowInv, [Next]_vars, NEW c \in Chans, NEW g, g = chanSock[c], g # NoFlow,
         chanPipe'[c] # chanPipe[c]
  PROVE  \/ \E m \in PipeMessages : chanPipe'[c] = Append(chanPipe[c], m)
         \/ /\ chanPipe[c] # <<>> /\ chanPipe'[c] = Tail(chanPipe[c]) /\ sigChan[g] = c
            /\ ForwardRequest(g) \/ FlowFailed(g)
            /\ Head(chanPipe[c]).code = "ERRFLOW" => FlowFailed(g)
         \/ ManagerReleased(g)
<1>0. ChannelInv /\ ChannelsKept /\ chanPipe \in [Chans -> Seq(PipeMessages)]
  BY Types DEF FlowInv, FlowsServed
<1> USE DEF threadVars, chanVars, sendVars, recvVars
<1>1. ASSUME NEW d, NEW code \in PipeCodes, NEW f \in Flows, PushToChannel(d, code, f)
      PROVE  \E m \in PipeMessages : chanPipe'[c] = Append(chanPipe[c], m)
  <2>1. PICK m \in PipeMessages : m = [code |-> code, flow |-> f]
    BY DEF PipeMessages
  <2>2. chanPipe' = [chanPipe EXCEPT ![d] = Append(@, m)]
    BY <1>0, <1>1, <2>1 DEF PushToChannel
  <2>3. d = c
    BY <1>0, <2>2
  <2> QED
    BY <1>0, <2>2, <2>3
<1>2. ASSUME NEW f \in Flows, Parser(f)
      PROVE  \E m \in PipeMessages : chanPipe'[c] = Append(chanPipe[c], m)
  <2>1. \/ PushToChannel(sigChan[f], "NEWFLOW", f)
        \/ parser[f] \in Opening /\ RegisterChannel(f)
        \/ chanPipe' = chanPipe
    BY <1>2 DEF Parser, ParserThread, JoinChannel, OpenConnection, OpenFails, ConnectAnswered,
       LogRequestFails, LogAnswered, SubmitFlow, TakeResult, Abort, Opening
  <2>2. CASE parser[f] \in Opening /\ RegisterChannel(f)
    BY <2>2, RegisterEffect
  <2> QED
    BY <1>1, <2>1, <2>2 DEF PipeCodes
<1>3. ASSUME NEW f \in Flows, SenderFails(f) \/ SenderConnects(f) \/ SenderFinishes(f) \/ SenderKilled(f)
      PROVE  \E m \in PipeMessages : chanPipe'[c] = Append(chanPipe[c], m)
  <2>1. (\E code \in PipeCodes : PushToChannel(sigChan[f], code, f)) \/ chanPipe' = chanPipe
    BY <1>3 DEF SenderFails, SenderConnects, SenderFinishes, SenderKilled, SetupFails, Connects,
       FinishFlow, BrokenPipe, Abort, PipeCodes
  <2> QED
    BY <1>1, <2>1
<1>4. ASSUME NEW f \in Flows, NEW code \in PipeCodes, OnPipe(f, code)
      PROVE  f = g /\ sigChan[g] = c /\ chanPipe[c] # <<>> /\ chanPipe'[c] = Tail(chanPipe[c])
             /\ Head(chanPipe[c]).code = code
  <2>1. PICK d, e : d = sigChan[f] /\ e = Head(chanPipe[d]).flow
    OBVIOUS
  <2>2. d \in Chans /\ chanSock[d] = f
    BY <1>4, <2>1, ReadsOwnPipe
  <2>3. /\ chanPipe[d] # <<>> /\ chanPipe' = [chanPipe EXCEPT ![d] = Tail(@)]
        /\ Head(chanPipe[d]).code = code
    BY <1>4, <2>1 DEF OnPipe
  <2>4. d = c
    BY <1>0, <2>2, <2>3
  <2> QED
    BY <1>0, <2>1, <2>2, <2>3, <2>4
<1>5. ASSUME NEW f \in Flows, ManagerOnSocket(f) \/ ManagerOnPipe(f) \/ ManagerEnds(f)
      PROVE  \/ /\ chanPipe[c] # <<>> /\ chanPipe'[c] = Tail(chanPipe[c]) /\ sigChan[g] = c
                /\ ForwardRequest(g) \/ FlowFailed(g)
                /\ Head(chanPipe[c]).code = "ERRFLOW" => FlowFailed(g)
             \/ ManagerReleased(g)
  <2>1. CASE ForwardRequest(f)
    BY <1>4, <2>1 DEF ForwardRequest, PipeCodes
  <2>2. CASE FlowFailed(f)
    <3>1. OnPipe(f, "ERRFLOW") /\ "ERRFLOW" \in PipeCodes
      BY <2>2 DEF FlowFailed, PipeCodes
    <3> QED
      BY <1>4, <2>2, <3>1
  <2>3. CASE ManagerReleased(f)
    <3>1. PICK d : d = sigChan[f]
      OBVIOUS
    <3>2. chanSock[d] = f /\ \A b \in Chans : b # d => chanPipe'[b] = chanPipe[b]
      BY <2>3, <3>1, ReleaseEffect
    <3> QED
      BY <2>3, <3>2
  <2> QED
    BY <1>5, <2>1, <2>2, <2>3 DEF ManagerOnSocket, ManagerSocket, ManagerOnPipe, ManagerPipe,
       ManagerEnds,
       ManagerEnding, StartFlow, AnswerDiscovery, FlowAnswered, ReceiverLost, SendClosedErr,
       ManagerLeaves,
       LeaveChannel, Notify, Abort
<1>6. ASSUME \/ Finished \/ UNCHANGED vars \/ (\E h \in Hosts : ReceiverStops(h)) \/ Exit
             \/ \E e \in Flows : \/ SessionOnSocket(e) \/ SessionOnPipe(e) \/ SessionTimer(e)
                                 \/ DataThread(e) \/ DataThreadReceives(e) \/ DataThreadFails(e)
      PROVE  chanPipe' = chanPipe
  BY <1>6 DEF Finished, vars, ReceiverStops, Interrupted, Exit, ExitProcess, SessionOnSocket,
     SessionOnPipe, SessionTimer, DataThread, DataThreadReceives, DataThreadFails
<1> QED
  BY <1>2, <1>3, <1>5, <1>6 DEF Next

\* Who starts, moves and cancels the data thread of a flow, and where it is then.
LEMMA ThreadWriters ==
  ASSUME FlowInv, [Next]_vars, NEW f \in Flows
  PROVE  \/ thread'[f] = thread[f] /\ home'[f] = home[f]
         \/ \E g \in Flows :
              /\ SendFlow(g) /\ Asked(g, "SEND_FLOW", f) /\ thread[f] = "none"
              /\ thread'[f] = "starting" /\ home'[f] = g
         \/ /\ thread[f] \in Alive /\ thread'[f] \in {"cancelled", "reaped"}
            /\ home'[f] = home[f]
         \/ /\ thread[f] \in {"starting", "listening", "receiving"}
            /\ thread'[f] \in {"listening", "receiving", "failed"} /\ home'[f] = home[f]
<1>0. /\ ChannelInv /\ SessionsKept /\ \A e \in Flows : FlowKept(e)
      /\ thread \in [Flows -> ThreadPCs] /\ home \in [Flows -> Flows \cup {NoFlow}]
      /\ table \in [Flows -> SUBSET Flows]
  BY Types DEF FlowInv, FlowsServed
<1> USE DEF recvVars
<1>1. ASSUME NEW g \in Flows, SendFlow(g)
      PROVE  \/ thread'[f] = thread[f] /\ home'[f] = home[f]
             \/ /\ Asked(g, "SEND_FLOW", f) /\ thread[f] = "none"
                /\ thread'[f] = "starting" /\ home'[f] = g
  <2>1. PICK e : e = Head(toRecv[g]).flow
    OBVIOUS
  <2>2. /\ toRecv[g] # <<>> /\ Head(toRecv[g]).type = "SEND_FLOW"
        /\ thread' = [thread EXCEPT ![e] = "starting"] /\ home' = [home EXCEPT ![e] = g]
    BY <1>1, <2>1 DEF SendFlow, OnMessage, SetThread
  <2>3. e \in Flows /\ Asked(g, "SEND_FLOW", e)
    BY <1>0, <2>1, <2>2, HeadAsked DEF FlowTypes
  <2>4. thread[e] = "none"
    BY <1>0, <2>3 DEF FlowKept, RequestPart
  <2> QED
    BY <1>0, <2>2, <2>3, <2>4
<1>2. ASSUME NEW g \in Flows, ClosedFlow(g) \/ ClosedErr(g)
      PROVE  \/ thread'[f] = thread[f] /\ home'[f] = home[f]
             \/ thread[f] \in Alive /\ thread'[f] = "cancelled" /\ home'[f] = home[f]
  <2>1. PICK e : e = Head(toRecv[g]).flow
    OBVIOUS
  <2>2. /\ home' = home /\ session[g] = "serve"
        /\ thread' = thread \/ (e \in table[g] /\ thread' = [thread EXCEPT ![e] = "cancelled"])
    BY <1>2, <2>1 DEF ClosedFlow, ClosedErr, OnMessage, Serving, SetThread
  <2>3. e \in table[g] => thread[e] \in Alive
    BY <1>0, <2>2 DEF FlowKept, ThreadPart, SessionsKept
  <2> QED
    BY <1>0, <2>2, <2>3
<1>3. ASSUME NEW g \in Flows, SessionPipe(g)
      PROVE  \/ thread'[f] = thread[f] /\ home'[f] = home[f]
             \/ thread[f] \in Alive /\ thread'[f] = "reaped" /\ home'[f] = home[f]
  <2>1. PICK e : e = Head(rPipe[g]).flow
    OBVIOUS
  <2>2. /\ home' = home /\ session[g] = "serve"
        /\ thread' = thread \/ (e \in table[g] /\ thread' = [thread EXCEPT ![e] = "reaped"])
    BY <1>3, <2>1 DEF SessionPipe, ThreadOk, ThreadNotStarted, ThreadBroke, DropFlow, OnReport,
       Serving, SetThread
  <2>3. e \in table[g] => thread[e] \in Alive
    BY <1>0, <2>2 DEF FlowKept, ThreadPart, SessionsKept
  <2> QED
    BY <1>0, <2>2, <2>3
<1>4. ASSUME NEW e \in Flows, DataThread(e) \/ DataThreadReceives(e) \/ DataThreadFails(e)
      PROVE  \/ thread'[f] = thread[f] /\ home'[f] = home[f]
             \/ /\ thread[f] \in {"starting", "listening", "receiving"}
                /\ thread'[f] \in {"listening", "receiving", "failed"} /\ home'[f] = home[f]
  <2>1. /\ home' = home /\ thread[e] \in {"starting", "listening", "receiving"}
        /\ \E pc \in {"listening", "receiving", "failed"} : thread' = [thread EXCEPT ![e] = pc]
    BY <1>4 DEF DataThread, DataThreadStarts, DataThreadReceives, DataThreadFails, BindFails,
       Listens, Receives, ReceiveFails, SetThread
  <2> QED
    BY <1>0, <2>1
<1>5. ASSUME NEW g \in Flows, SessionOnSocket(g) \/ SessionTimer(g)
      PROVE  UNCHANGED <<thread, home>> \/ SendFlow(g) \/ ClosedFlow(g) \/ ClosedErr(g)
  BY <1>5 DEF SessionOnSocket, SessionSocket, SessionTimer, AcceptSession, Connected, NameLog,
     FlowClosed, Release, DiscoveryAnswered, SenderDown, Discover
<1>6. ASSUME \/ Finished \/ UNCHANGED vars \/ (\E h \in Hosts : ReceiverStops(h)) \/ Exit
             \/ \E e \in Flows :
                  \/ Parser(e) \/ ManagerOnSocket(e) \/ ManagerOnPipe(e) \/ ManagerEnds(e)
                  \/ SenderFails(e) \/ SenderConnects(e) \/ SenderFinishes(e) \/ SenderKilled(e)
      PROVE  UNCHANGED <<thread, home>>
  BY <1>6 DEF Finished, vars, ReceiverStops, Interrupted, Exit, Parser, ManagerOnSocket,
     ManagerOnPipe,
     ManagerEnds, SenderFails, SenderConnects, SenderFinishes, SenderKilled
<1> QED
  BY <1>1, <1>2, <1>3, <1>4, <1>5, <1>6 DEF Next, SessionOnPipe

\* Only the flowSender of a flow fails, and it tells the manager of its channel.
LEMMA BecomesFailed ==
  ASSUME ChannelInv, [Next]_vars, NEW f \in Flows, sender[f] # "failed", sender'[f] = "failed"
  PROVE  SetupFails(f) /\ UNCHANGED recvVars
<1>1. sender \in [Flows -> SenderPCs]
  BY Types
<1> USE DEF threadVars, chanVars, sendVars
<1>2. ASSUME NEW e \in Flows, SenderFails(e)
      PROVE  e = f
  BY <1>1, <1>2 DEF SenderFails, SetupFails
<1>3. ASSUME NEW e \in Flows, SenderConnects(e) \/ SenderFinishes(e) \/ SenderKilled(e)
      PROVE  FALSE
  <2>1. sender' = sender \/ \E pc \in {"sending", "finished"} : sender' = [sender EXCEPT ![e] = pc]
    BY <1>3 DEF SenderConnects, SenderFinishes, SenderKilled, Connects, FinishFlow, BrokenPipe,
       Abort
  <2> QED
    BY <1>1, <2>1
<1>4. ASSUME NEW e \in Flows, Parser(e) \/ ManagerOnSocket(e) \/ ManagerOnPipe(e) \/ ManagerEnds(e)
      PROVE  FALSE
  <2>1. \/ sender' = sender
        \/ \E d : sender' = [sender EXCEPT ![d] = "setup"]
    BY <1>4 DEF Parser, ParserThread, JoinChannel, OpenConnection, OpenFails, ConnectAnswered,
     LogRequestFails, LogAnswered, SubmitFlow, TakeResult, RegisterChannel, Abort,
     ManagerOnSocket, ManagerSocket, ManagerOnPipe, ManagerPipe, ManagerEnds, ManagerEnding,
     StartFlow,
     AnswerDiscovery, FlowAnswered, ReceiverLost, ForwardRequest, FlowFailed,
     SendClosedErr, ManagerLeaves, ManagerReleased, Notify
  <2> QED
    BY <1>1, <2>1
<1>5. ASSUME \/ Finished \/ UNCHANGED vars \/ (\E h \in Hosts : ReceiverStops(h)) \/ Exit
             \/ \E e \in Flows : \/ SessionOnSocket(e) \/ SessionOnPipe(e) \/ SessionTimer(e)
                                 \/ DataThread(e) \/ DataThreadReceives(e) \/ DataThreadFails(e)
      PROVE  FALSE
  BY <1>5 DEF Finished, vars, ReceiverStops, Interrupted, Exit, ExitProcess, SessionOnSocket,
     SessionOnPipe, SessionTimer, DataThread, DataThreadReceives, DataThreadFails
<1> QED
  BY <1>2, <1>3, <1>4, <1>5 DEF Next, SenderFails

\* A channel that a flow without a verdict holds keeps its socket, and the flow its
\* place in it.
LEMMA PendingKeepsChannel ==
  ASSUME FlowInv, [Next]_vars, NEW f \in Flows, NEW g \in Flows, Pending(f, g),
         NEW c, c = sigChan[f]
  PROVE  c \in Chans /\ chanSock[c] = g /\ sigChan'[f] = c /\ ~ManagerReleased(g)
<1>1. c \in Chans /\ f \in holders[c] /\ chanSock[c] = g /\ parser[f] = "waiting"
  BY DEF Pending, Holds
<1>2. ASSUME ManagerReleased(g)
      PROVE  FALSE
  <2>1. PICK d : d = sigChan[g]
    OBVIOUS
  <2>2. d \in Chans /\ chanSock[d] = g /\ holders[d] = {}
    BY <1>2, <2>1, ReleaseEffect
  <2>3. d = c
    BY <1>1, <2>1, <2>2 DEF FlowInv, FlowsServed, ChannelsKept, ChannelInv, FlowAssumption
  <2> QED
    BY <1>1, <2>2, <2>3
<1>3. ASSUME NEW e \in Flows, JoinChannel(e) \/ (parser[e] \in Opening /\ RegisterChannel(e))
      PROVE  sigChan'[f] = c
  <2>1. e # f
    BY <1>1, <1>3 DEF JoinChannel, Opening
  <2> QED
    BY <1>3, <2>1, JoinEffect, RegisterEffect
<1>4. ASSUME NEW e \in Flows, ManagerLeaves(e) \/ ManagerReleased(e)
      PROVE  sigChan' = sigChan
  BY <1>4 DEF ManagerLeaves, ManagerReleased
<1> QED
  BY <1>1, <1>2, <1>3, <1>4, ChannelWriters

\* The receiver is told of a flow that failed, unless the thread of the flow has
\* ended already.
LEMMA FailedToldStays ==
  ASSUME FlowInv, FailedTold, [Next]_vars, FlowInv'
  PROVE  FailedTold'
<1>0. /\ ChannelInv /\ ChannelsKept /\ \A e \in Flows : FlowKept(e)
      /\ chanPipe \in [Chans -> Seq(PipeMessages)] /\ toRecv \in [Flows -> Seq(Messages)]
  BY Types DEF FlowInv, FlowsServed
<1>1. SUFFICES ASSUME NEW f \in Flows, thread'[f] \in Alive, sender'[f] = "failed"
               PROVE  \/ (sigChan[f] \in Chans /\ OnPipeTo(sigChan[f], "ERRFLOW", f))'
                      \/ manager'[home'[f]].pc = "closedErr" /\ manager'[home'[f]].flow = f
                      \/ Asked(home[f], "CLOSED_ERR", f)'
  BY DEF FailedTold
<1>2. CASE sender[f] # "failed"
  <2>1. /\ sender[f] = "setup" /\ PushToChannel(sigChan[f], "ERRFLOW", f)
        /\ sigChan' = sigChan /\ chanSock' = chanSock /\ thread' = thread
    BY <1>0, <1>1, <1>2, BecomesFailed DEF SetupFails, recvVars
  <2>2. PICK c : c = sigChan[f]
    OBVIOUS
  <2>3. c \in Chans /\ chanSock[c] # NoFlow
    <3>1. home[f] \in Flows /\ f \in table[home[f]] /\ Pending(f, home[f])
      BY <1>0, <1>1, <2>1 DEF FlowKept, ThreadPart
    <3> QED
      BY <2>2, <3>1, FlowAssumption DEF Pending, Holds
  <2>4. PICK m \in PipeMessages : m = [code |-> "ERRFLOW", flow |-> f]
    BY DEF PipeMessages, PipeCodes
  <2>5. chanPipe'[c] = Append(chanPipe[c], m)
    BY <1>0, <2>1, <2>2, <2>3, <2>4 DEF PushToChannel
  <2>6. Has(chanPipe'[c], m)
    BY <1>0, <2>3, <2>5, AppendQ
  <2> QED
    BY <2>1, <2>2, <2>3, <2>4, <2>6 DEF OnPipeTo
<1>3. CASE sender[f] = "failed"
  <2>1. thread[f] = "listening" /\ home'[f] = home[f]
    <3>1. thread[f] \in {"listening", "cancelled"}
      BY <1>0, <1>3 DEF FlowKept, ThreadPart, ThreadsOf
    <3> QED
      BY <1>1, <3>1, ThreadWriters DEF Alive
  <2>2. PICK g : g = home[f]
    OBVIOUS
  <2>3. g \in Flows /\ f \in table[g]
    BY <1>0, <2>1, <2>2 DEF FlowKept, ThreadPart, Alive
  <2>4. CASE sigChan[f] \in Chans /\ OnPipeTo(sigChan[f], "ERRFLOW", f)
    <3>1. PICK c : c = sigChan[f]
      OBVIOUS
    <3>2. PICK m \in PipeMessages : m = [code |-> "ERRFLOW", flow |-> f]
      BY DEF PipeMessages, PipeCodes
    <3>4. Pending(f, g)
      BY <1>0, <2>2, <2>4 DEF FlowKept, PipePart
    <3>5. c \in Chans /\ chanSock[c] = g /\ sigChan'[f] = c /\ ~ManagerReleased(g)
      BY <2>3, <3>1, <3>4, PendingKeepsChannel
    <3>6. Has(chanPipe[c], m)
      BY <2>4, <3>1, <3>2 DEF OnPipeTo
    <3>7. CASE Has(chanPipe'[c], m)
      BY <3>1, <3>2, <3>5, <3>7 DEF OnPipeTo
    <3>8. CASE ~Has(chanPipe'[c], m)
      <4>1. chanPipe'[c] # chanPipe[c]
        BY <3>6, <3>8
      <4>2. \A x \in PipeMessages : chanPipe'[c] # Append(chanPipe[c], x)
        <5>1. ASSUME NEW x \in PipeMessages
              PROVE  Has(Append(chanPipe[c], x), m)
          BY <1>0, <3>5, <3>6, AppendQ
        <5> QED
          BY <3>8, <5>1
      <4>3. g # NoFlow
        BY <2>3, FlowAssumption
      <4>4. /\ chanPipe[c] # <<>> /\ chanPipe'[c] = Tail(chanPipe[c]) /\ sigChan[g] = c
            /\ Head(chanPipe[c]).code = "ERRFLOW" => FlowFailed(g)
        BY <3>5, <4>1, <4>2, <4>3, PipeWriters
      <4>5. m = Head(chanPipe[c])
        BY <1>0, <3>5, <3>6, <3>8, <4>4, StaysInTail
      <4>6. FlowFailed(g)
        BY <3>2, <4>4, <4>5
      <4>7. manager' = [manager EXCEPT ![g] = Manager("closedErr", f, "ERR2")]
        <5>1. Head(chanPipe[sigChan[g]]).flow = f
          BY <3>2, <4>4, <4>5
        <5> QED
          BY <4>6, <5>1 DEF FlowFailed, SetManager
      <4> QED
        BY <1>0, <2>1, <2>2, <2>3, <4>7, Types DEF Manager
    <3> QED
      BY <3>7, <3>8
  <2>5. CASE manager[g].pc = "closedErr" /\ manager[g].flow = f
    <3>1. CASE manager'[g] = manager[g]
      BY <2>1, <2>2, <2>5, <3>1
    <3>2. CASE manager'[g] # manager[g]
      <4>1. SendClosedErr(g)
        <5>1. ~((ConnectAnswered(g) \/ LogAnswered(g)) /\ RegisterChannel(g))
          BY <1>0, <2>3, <2>5 DEF ChannelsKept, ConnectAnswered, LogAnswered
        <5>2. ~ManagerLeaves(g) /\ ~ManagerReleased(g)
          BY <2>5 DEF ManagerLeaves, ManagerReleased
        <5> QED
          BY <1>0, <2>3, <2>5, <3>2, <5>1, <5>2, OwnManager, ManagerTurns DEF IdleManager, Manager
      <4>2. PICK m \in Messages : m = Msg("CLOSED_ERR", f)
        BY MessageKinds DEF FlowTypes
      <4>3. toRecv'[g] = Append(toRecv[g], m)
        BY <1>0, <2>3, <2>5, <4>1, <4>2 DEF SendClosedErr, SenderSends
      <4>4. Has(toRecv'[g], m)
        BY <1>0, <2>3, <4>3, AppendQ
      <4> QED
        BY <2>1, <2>2, <4>2, <4>4 DEF Asked
    <3> QED
      BY <3>1, <3>2
  <2>6. CASE Asked(g, "CLOSED_ERR", f)
    <3>1. PICK m \in Messages : m = Msg("CLOSED_ERR", f)
      BY MessageKinds DEF FlowTypes
    <3>2. Has(toRecv[g], m)
      BY <2>6, <3>1 DEF Asked
    <3>3. CASE Has(toRecv'[g], m)
      BY <2>1, <2>2, <3>1, <3>3 DEF Asked
    <3>4. CASE ~Has(toRecv'[g], m)
      <4>1. toRecv'[g] # toRecv[g] /\ \A x \in Messages : toRecv'[g] # Append(toRecv[g], x)
        <5>1. ASSUME NEW x \in Messages
              PROVE  Has(Append(toRecv[g], x), m)
          BY <1>0, <2>3, <3>2, AppendQ
        <5> QED
          BY <3>2, <3>4, <5>1
      <4>2. toRecv[g] # <<>> /\ toRecv'[g] = Tail(toRecv[g]) /\ SessionOnSocket(g)
        BY <2>3, <4>1, RequestWriters
      <4>3. m = Head(toRecv[g])
        BY <1>0, <2>3, <3>2, <3>4, <4>2, StaysInTail
      <4>4. Head(toRecv[g]).type = "CLOSED_ERR" /\ Head(toRecv[g]).flow = f
        BY <3>1, <4>3 DEF Msg
      <4>5. toRecv' # toRecv
        BY <4>1
      <4>6. ClosedErr(g)
        BY <4>2, <4>4, <4>5 DEF SessionOnSocket, SessionSocket, AcceptSession, Connected, NameLog,
           SendFlow,
           ClosedFlow, FlowClosed, Release, DiscoveryAnswered, SenderDown, OnMessage, Plain, Msg,
           netVars
      <4>7. thread' = [thread EXCEPT ![f] = "cancelled"]
        BY <2>3, <4>4, <4>6 DEF ClosedErr, SetThread
      <4> QED
        BY <1>0, <1>1, <4>7, Types DEF Alive
    <3> QED
      BY <3>3, <3>4
  <2> QED
    BY <1>1, <1>3, <2>1, <2>2, <2>4, <2>5, <2>6 DEF FailedTold, Alive
<1> QED
  BY <1>2, <1>3

\* What a flow leaves behind in its channel is cleared up, whoever stops.
LEMMA LeavingStays ==
  ASSUME FlowInv, LeavingKept, [Next]_vars, FlowInv'
  PROVE  LeavingKept'
BY UsedStays, HoldersStay, FailedToldStays, ReleaseStaysLast DEF LeavingKept

-----------------------------------------------------------------------------
(* While no receiver stops, every connection goes through its phases in order. *)

\* Nobody starts a receiver again.
LEMMA UpBefore ==
  ASSUME [Next]_vars, ChannelInv, AllUp'
  PROVE  AllUp
<1>1. ASSUME NEW h \in Hosts, ReceiverStops(h)
      PROVE  FALSE
  <2>1. hostUp \in [Hosts -> BOOLEAN]
    BY DEF ChannelInv, TypeOK, RecvTypeOK
  <2> QED
    BY <1>1, <2>1 DEF ReceiverStops, Interrupted, AllUp
<1>2. ASSUME NEW g \in Flows, SessionOnSocket(g)
      PROVE  hostUp' = hostUp \/ hostUp' = [hostUp EXCEPT ![Dest[g]] = FALSE]
  BY <1>2 DEF SessionOnSocket, SessionSocket, AcceptSession, Connected, NameLog, SendFlow,
     ClosedFlow,
     ClosedErr, FlowClosed, Release, DiscoveryAnswered, SenderDown
<1>3. ASSUME NEW g \in Flows, SessionOnSocket(g)
      PROVE  AllUp
  <2>1. hostUp \in [Hosts -> BOOLEAN] /\ Dest[g] \in Hosts
    BY FlowAssumption DEF ChannelInv, TypeOK, RecvTypeOK
  <2> QED
    BY <1>2, <1>3, <2>1 DEF AllUp
<1>4. ASSUME \/ Finished \/ UNCHANGED vars \/ Exit
             \/ \E f \in Flows :
                  \/ Parser(f) \/ ManagerOnSocket(f) \/ ManagerOnPipe(f) \/ ManagerEnds(f)
                  \/ SenderFails(f) \/ SenderConnects(f) \/ SenderFinishes(f) \/ SenderKilled(f)
                  \/ SessionOnPipe(f) \/ SessionTimer(f)
                  \/ DataThread(f) \/ DataThreadReceives(f) \/ DataThreadFails(f)
      PROVE  hostUp' = hostUp
  BY <1>4 DEF Finished, vars, Exit, Parser, ManagerOnSocket, ManagerOnPipe, ManagerEnds,
     SenderFails,
     SenderConnects, SenderFinishes, SenderKilled, recvVars, SessionOnPipe, SessionPipe, ThreadOk,
     ThreadNotStarted, ThreadBroke, OnReport, SessionTimer, Discover, DataThread, DataThreadStarts,
     BindFails, Listens, DataThreadReceives, Receives, DataThreadFails, ReceiveFails
<1> QED
  BY <1>1, <1>3, <1>4 DEF Next, AllUp

\* Messages about flows, and those of type t, do not change what q holds besides.
LEMMA PlainOnlyQ ==
  ASSUME NEW t, NEW q \in Seq(Messages), PlainOnly(q, t)
  PROVE  /\ \A m \in Messages : m.type \in FlowTypes \/ m.type = t => PlainOnly(Append(q, m), t)
         /\ q # <<>> => PlainOnly(Tail(q), t)
         /\ q # <<>> /\ Head(q).type \in PlainTypes => Head(q).type = t
<1>1. Len(q) \in Nat /\ DOMAIN q = 1 .. Len(q)
  OBVIOUS
<1>2. ASSUME NEW m \in Messages, m.type \in FlowTypes \/ m.type = t
      PROVE  PlainOnly(Append(q, m), t)
  <2>1. SUFFICES ASSUME NEW i \in DOMAIN Append(q, m), Append(q, m)[i].type \in PlainTypes
                 PROVE  Append(q, m)[i].type = t
    BY DEF PlainOnly
  <2>2. CASE i = Len(q) + 1
    <3>1. Append(q, m)[i] = m
      BY <1>1, <2>2
    <3> QED
      BY <1>2, <2>1, <3>1 DEF FlowTypes, PlainTypes
  <2>3. CASE i # Len(q) + 1
    <3>1. i \in DOMAIN q /\ Append(q, m)[i] = q[i]
      BY <1>1, <2>1, <2>3
    <3> QED
      BY <2>1, <3>1 DEF PlainOnly
  <2> QED
    BY <2>2, <2>3
<1>3. ASSUME q # <<>>
      PROVE  /\ PlainOnly(Tail(q), t)
             /\ Head(q).type \in PlainTypes => Head(q).type = t
  <2>1. \A i \in DOMAIN Tail(q) : i + 1 \in DOMAIN q /\ Tail(q)[i] = q[i + 1]
    BY <1>1, <1>3
  <2>2. 1 \in DOMAIN q /\ Head(q) = q[1]
    BY <1>1, <1>3
  <2> QED
    BY <2>1, <2>2 DEF PlainOnly
<1> QED
  BY <1>2, <1>3

\* While every receiver runs, nothing ends ITGSend early.
LEMMA NoAbort ==
  ASSUME FlowInv, AllUp, Orderly, [Next]_vars
  PROVE  process' # "aborted"
<1>0. ChannelInv /\ toSend \in [Flows -> Seq(Messages)]
  BY Types DEF FlowInv
<1>1. process # "aborted"
  BY DEF Orderly, EndsKept
<1>2. \A g \in Flows : ~PeerGone(g)
  BY FlowAssumption DEF AllUp, PeerGone
<1>3. ASSUME NEW g \in Flows, AnswerDiscovery(g)
      PROVE  process' # "aborted"
  <2>1. /\ manager[g] = IdleManager /\ toSend[g] # <<>> /\ Head(toSend[g]).type \in PlainTypes
        /\ Head(toSend[g]).type = "DISCOVERY" => process' = process
    BY <1>3 DEF AnswerDiscovery, OnSocket, ManagerReady
  <2>2. PlainOnly(toSend[g], "DISCOVERY")
    BY <2>1 DEF Orderly, Phase, InUse, IdleManager, Manager
  <2>3. Head(toSend[g]).type = "DISCOVERY"
    BY <1>0, <2>1, <2>2, PlainOnlyQ
  <2> QED
    BY <1>1, <2>1, <2>3
<1>4. ASSUME NEW g \in Flows, Parser(g)
      PROVE  process' # "aborted"
  BY <1>1, <1>2, <1>4 DEF Parser, ParserThread, JoinChannel, OpenConnection, OpenFails,
     ConnectAnswered,
     RegisterChannel, LogRequestFails, LogAnswered, SubmitFlow, TakeResult
<1>5. ASSUME NEW g \in Flows, ManagerOnSocket(g) \/ ManagerOnPipe(g) \/ ManagerEnds(g)
      PROVE  process' # "aborted"
  BY <1>1, <1>2, <1>3, <1>5 DEF ManagerOnSocket, ManagerSocket, ManagerOnPipe, ManagerPipe,
     ManagerEnds,
     ManagerEnding, StartFlow, FlowAnswered, ReceiverLost, ForwardRequest, FlowFailed,
     SendClosedErr,
     ManagerLeaves, ManagerReleased, Notify
<1>6. ASSUME NEW g \in Flows, SenderFails(g) \/ SenderConnects(g) \/ SenderFinishes(g) \/ SenderKilled(g)
      PROVE  process' # "aborted"
  BY <1>1, <1>2, <1>6 DEF SenderFails, SenderConnects, SenderFinishes, SenderKilled, SetupFails,
     Connects,
     FinishFlow, BrokenPipe
<1>7. ASSUME \/ Finished \/ UNCHANGED vars \/ (\E h \in Hosts : ReceiverStops(h))
             \/ \E e \in Flows : \/ SessionOnSocket(e) \/ SessionOnPipe(e) \/ SessionTimer(e)
                                 \/ DataThread(e) \/ DataThreadReceives(e) \/ DataThreadFails(e)
      PROVE  process' = process
  BY <1>7 DEF Finished, vars, ReceiverStops, SessionOnSocket, SessionOnPipe, SessionTimer,
     DataThread, DataThreadReceives, DataThreadFails, sendVars
<1>8. Exit => process' = "exited"
  BY DEF Exit, ExitProcess
<1> QED
  BY <1>1, <1>4, <1>5, <1>6, <1>7, <1>8 DEF Next

\* What a phase of connection g depends on, and who changes it.
View(g) == <<parser[g], manager[g], session[g], toRecv[g], toSend[g], connOpen[g], process>>
OwnThread(g) == Parser(g) \/ ManagerOnSocket(g) \/ ManagerOnPipe(g) \/ ManagerEnds(g)
SessionOf(g) == SessionOnSocket(g) \/ SessionOnPipe(g) \/ SessionTimer(g)

\* The threads of the other connections leave this one alone.
LEMMA OtherConnections ==
  ASSUME FlowInv, AllUp, [Next]_vars, process' # "aborted", NEW g \in Flows
  PROVE  UNCHANGED View(g) \/ OwnThread(g) \/ SessionOf(g) \/ Exit
<1>0. /\ ChannelInv /\ ChannelsKept
      /\ parser \in [Flows -> ParserPCs] /\ manager \in [Flows -> Managers]
      /\ session \in [Flows -> SessionPCs] /\ toRecv \in [Flows -> Seq(Messages)]
      /\ toSend \in [Flows -> Seq(Messages)] /\ connOpen \in [Flows -> BOOLEAN]
  BY Types DEF FlowInv, FlowsServed, ChannelInv, TypeOK, NetTypeOK
<1>1. \A h \in Flows : ~PeerGone(h)
  BY FlowAssumption DEF AllUp, PeerGone
<1>2. ~Abort
  BY DEF Abort
<1>3. ASSUME NEW h \in Flows, h # g, OwnThread(h)
      PROVE  UNCHANGED View(g)
  <2>1. UNCHANGED session
    BY <1>3 DEF OwnThread, Parser, ManagerOnSocket, ManagerOnPipe, ManagerEnds, recvVars
  <2>2. CASE Parser(h)
    <3>1. /\ parser' = parser \/ \E pc : SetParser(h, pc)
          /\ manager' = manager \/ \E m : SetManager(h, m)
          /\ toRecv' = toRecv \/ \E m : SenderSends(h, m)
          /\ toSend' = toSend \/ SenderTakes(h)
          /\ connOpen' = connOpen \/ connOpen' = [connOpen EXCEPT ![h] = TRUE]
          /\ process' = process
      BY <1>1, <1>2, <2>2 DEF Parser, ParserThread, JoinChannel, OpenConnection, OpenFails,
         ConnectAnswered,
         LogRequestFails, LogAnswered, SubmitFlow, TakeResult, RegisterChannel, Answered,
         SendNameLog,
         CreateTransportChan, netVars
    <3> QED
      BY <1>0, <1>3, <2>1, <3>1 DEF View, SetParser, SetManager, SenderSends, SenderTakes
  <2>3. CASE ManagerOnSocket(h) \/ ManagerOnPipe(h)
    <3>1. /\ parser' = parser /\ process' = process /\ connOpen' = connOpen
          /\ manager' = manager \/ \E m : SetManager(h, m)
          /\ toRecv' = toRecv \/ \E m : SenderSends(h, m)
          /\ toSend' = toSend \/ SenderTakes(h)
      BY <1>1, <1>2, <2>3 DEF ManagerOnSocket, ManagerSocket, ManagerOnPipe, ManagerPipe, StartFlow,
         AnswerDiscovery, FlowAnswered, ReceiverLost, ForwardRequest, FlowFailed, OnSocket,
         RequestToSend,
         ClosedFlowSent, netVars, threadVars
    <3> QED
      BY <1>0, <1>3, <2>1, <3>1 DEF View, SetManager, SenderSends, SenderTakes
  <2>4. CASE ManagerEnds(h)
    <3>1. CASE ManagerLeaves(h)
      <4>1. /\ parser' = parser /\ process' = process /\ connOpen' = connOpen /\ toSend' = toSend
            /\ manager'[g] = manager[g]
            /\ toRecv' = toRecv \/ \E m : SenderSends(h, m)
        BY <1>3, <3>1, LeaveEffect
      <4> QED
        BY <1>0, <1>3, <2>1, <4>1 DEF View, SenderSends
    <3>2. CASE ManagerReleased(h)
      <4>1. /\ parser' = parser /\ process' = process /\ toRecv' = toRecv
            /\ manager'[g] = manager[g] /\ Answered(h)
            /\ connOpen' = [connOpen EXCEPT ![h] = FALSE]
        BY <1>3, <3>2, ReleaseEffect
      <4> QED
        BY <1>0, <1>1, <1>3, <2>1, <4>1 DEF View, Answered, SenderTakes
    <3>3. CASE SendClosedErr(h) \/ Notify(h)
      <4>1. /\ parser' = parser /\ process' = process /\ connOpen' = connOpen /\ toSend' = toSend
            /\ \E m : SetManager(h, m)
            /\ toRecv' = toRecv \/ \E m : SenderSends(h, m)
        BY <3>3 DEF SendClosedErr, Notify, netVars
      <4> QED
        BY <1>0, <1>3, <2>1, <4>1 DEF View, SetManager, SenderSends
    <3> QED
      BY <2>4, <3>1, <3>2, <3>3 DEF ManagerEnds, ManagerEnding
  <2> QED
    BY <1>3, <2>2, <2>3, <2>4 DEF OwnThread
<1>4. ASSUME NEW h \in Flows, h # g, SessionOf(h)
      PROVE  UNCHANGED View(g)
  <2>1. /\ parser' = parser /\ manager' = manager /\ process' = process /\ connOpen' = connOpen
        /\ session' = session \/ \E pc : session' = [session EXCEPT ![h] = pc]
        /\ toRecv' = toRecv \/ ReceiverTakes(h)
        /\ toSend' = toSend \/ \E m : ReceiverSends(h, m)
    BY <1>4 DEF SessionOf, SessionOnSocket, SessionSocket, SessionOnPipe, SessionPipe, SessionTimer,
       AcceptSession, Connected, NameLog, SendFlow, ClosedFlow, ClosedErr, FlowClosed, Release,
       DiscoveryAnswered, SenderDown, Discover, ThreadOk, ThreadNotStarted, ThreadBroke, OnReport,
       OnMessage, netVars, sendVars, threadVars
  <2> QED
    BY <1>0, <1>4, <2>1 DEF View, ReceiverTakes, ReceiverSends
<1>5. ASSUME \/ Finished \/ UNCHANGED vars \/ (\E h \in Hosts : ReceiverStops(h))
             \/ \E e \in Flows :
                  \/ SenderFails(e) \/ SenderConnects(e) \/ SenderFinishes(e) \/ SenderKilled(e)
                  \/ DataThread(e) \/ DataThreadReceives(e) \/ DataThreadFails(e)
      PROVE  UNCHANGED View(g)
  BY <1>2, <1>5 DEF Finished, vars, ReceiverStops, Interrupted, SenderFails, SenderConnects,
     SenderFinishes,
     SenderKilled, SetupFails, Connects, FinishFlow, BrokenPipe, DataThread, DataThreadStarts,
     BindFails,
     Listens, DataThreadReceives, Receives, DataThreadFails, ReceiveFails, netVars, sendVars,
     threadVars,
     recvVars, View
<1> QED
  BY <1>3, <1>4, <1>5 DEF Next, OwnThread, SessionOf

\* A session writes about a flow only to a manager that serves.
LEMMA PipeReply ==
  ASSUME FlowInv, NEW g \in Flows, SessionPipe(g)
  PROVE  /\ session[g] = "serve" /\ UNCHANGED <<session, toRecv, connOpen>>
         /\ \/ toSend' = toSend
            \/ /\ manager[g].pc \in LivePCs
               /\ \E m \in Messages : m.type \in FlowTypes /\ ReceiverSends(g, m)
<1>0. ChannelInv /\ ChannelsKept /\ SessionsKept /\ \A e \in Flows : FlowKept(e)
  BY DEF FlowInv, FlowsServed
<1>1. PICK f, code : f = Head(rPipe[g]).flow /\ code = Head(rPipe[g]).code
  OBVIOUS
<1>2. /\ rPipe[g] # <<>> /\ session[g] = "serve" /\ UNCHANGED <<session, toRecv, connOpen>>
      /\ \/ toSend' = toSend
         \/ /\ f \in table[g] \/ code \in {"ERR1", "ERR2"}
            /\ \E t \in {"ACK_SEND_FLOW", "ERR_MSG_2", "ERR_MSG_3", "ERR_MSG_5"} :
                 ReceiverSends(g, Msg(t, f))
  BY <1>1 DEF SessionPipe, ThreadOk, ThreadNotStarted, ThreadBroke, OnReport, Serving
<1>3. f \in Flows /\ Reported(g, code, f)
  BY <1>0, <1>1, <1>2, HeadReported
<1>4. \A t \in {"ACK_SEND_FLOW", "ERR_MSG_2", "ERR_MSG_3", "ERR_MSG_5"} :
        Msg(t, f) \in Messages /\ Msg(t, f).type \in FlowTypes
  BY <1>3, MessageKinds DEF FlowTypes, Msg
<1>5. CASE f \in table[g] \/ code \in {"ERR1", "ERR2"}
  <2>1. /\ home[f] = g /\ sender[f] # "failed"
        /\ code \in {"ERR1", "ERR2"} => thread[f] = "failed"
        /\ code \in ReportCodes
    <3>1. code \in ReportCodes
      <4>1. rPipe[g] \in Seq(Reports) /\ rPipe[g] # <<>>
        BY <1>0, <1>2, Types
      <4>2. Head(rPipe[g]) \in Reports
        BY <4>1
      <4> QED
        BY <1>1, <4>2 DEF Reports
    <3> QED
      BY <1>0, <1>3, <3>1 DEF FlowKept, ReportPart, ReportCodes
  <2>2. f \in table[g]
    BY <1>0, <1>3, <1>5, <2>1 DEF FlowKept, ThreadPart, Alive
  <2>3. Pending(f, g)
    BY <1>0, <1>3, <2>1, <2>2 DEF FlowKept, ThreadPart
  <2>4. manager[g].pc \in LivePCs
    BY <1>0, <2>3, FlowAssumption DEF Pending, Holds, ChannelsKept
  <2> QED
    BY <1>2, <1>4, <2>4
<1>6. CASE toSend' = toSend
  BY <1>2, <1>6
<1> QED
  BY <1>2, <1>5, <1>6

\* What a session does when its connection is ready, while no receiver stops.
LEMMA SocketMoves ==
  ASSUME FlowInv, AllUp', NEW g \in Flows, SessionOnSocket(g)
  PROVE  \/ /\ session[g] = "none" /\ connOpen[g]
            /\ session'[g] = "connect" /\ UNCHANGED <<toRecv, toSend>>
         \/ /\ session[g] = "connect" /\ toRecv[g] # <<>> /\ Head(toRecv[g]) = Plain("CONNECT")
            /\ toRecv'[g] = Tail(toRecv[g]) /\ toSend'[g] = Append(toSend[g], Plain("ACK_CONNECT"))
            /\ session'[g] = "serve"
         \/ /\ session[g] = "serve" /\ toRecv[g] # <<>> /\ Head(toRecv[g]).type = "SEND_NAME_LOG"
            /\ toRecv'[g] = Tail(toRecv[g])
            /\ toSend'[g] = Append(toSend[g], Plain("ACK_SEND_NAME_LOG"))
            /\ session'[g] = "serve"
         \/ /\ session[g] = "serve" /\ toRecv[g] # <<>>
            /\ Head(toRecv[g]).type \in FlowTypes \cup {"ACK_DISCOVERY"}
            /\ toRecv'[g] = Tail(toRecv[g]) /\ toSend'[g] = toSend[g]
            /\ session'[g] \in Served
         \/ /\ session[g] \in Closing /\ session'[g] = "serve" /\ toRecv'[g] = toRecv[g]
            /\ \/ toSend'[g] = toSend[g]
               \/ \E m \in Messages : m.type \in FlowTypes /\ toSend'[g] = Append(toSend[g], m)
         \/ /\ session[g] = "serve" /\ toRecv[g] # <<>> /\ Head(toRecv[g]).type = "RELEASE"
            /\ toRecv'[g] = Tail(toRecv[g])
            /\ toSend'[g] = Append(toSend[g], Plain("ACK_RELEASE"))
            /\ session'[g] = "released"
         \/ /\ session[g] \in {"connect", "serve"} /\ ~connOpen[g] /\ toRecv[g] = <<>>
            /\ session'[g] = "senderDown" /\ UNCHANGED <<toRecv, toSend>>
<1>0. /\ session \in [Flows -> SessionPCs] /\ toRecv \in [Flows -> Seq(Messages)]
      /\ toSend \in [Flows -> Seq(Messages)] /\ table \in [Flows -> SUBSET Flows]
  BY Types DEF FlowInv
<1> USE DEF netVars
<1>1. CASE AcceptSession(g)
  BY <1>0, <1>1 DEF AcceptSession
<1>2. CASE Connected(g)
  BY <1>0, <1>2 DEF Connected, ReceiverTakes, ReceiverSends
<1>3. CASE NameLog(g)
  <2>1. Dest[g] \in Hosts /\ hostUp \in [Hosts -> BOOLEAN]
    BY FlowAssumption DEF FlowInv, ChannelInv, TypeOK, RecvTypeOK
  <2>2. hostUp' # [hostUp EXCEPT ![Dest[g]] = FALSE]
    BY <2>1 DEF AllUp
  <2> QED
    BY <1>0, <1>3, <2>2 DEF NameLog, OnMessage, Serving, ReceiverTakes, ReceiverSends
<1>4. CASE SendFlow(g) \/ DiscoveryAnswered(g)
  BY <1>0, <1>4 DEF SendFlow, DiscoveryAnswered, OnMessage, Serving, ReceiverTakes, Served,
     FlowTypes
<1>5. CASE ClosedFlow(g) \/ ClosedErr(g)
  BY <1>0, <1>5 DEF ClosedFlow, ClosedErr, OnMessage, Serving, ReceiverTakes, Served, FlowTypes,
     Closing
<1>6. CASE FlowClosed(g)
  <2>1. PICK f \in table[g] :
          UNCHANGED toSend \/ ReceiverSends(g, Msg("ACK_CLOSED_FLOW", f))
    BY <1>6 DEF FlowClosed
  <2>2. PICK m \in Messages : m = Msg("ACK_CLOSED_FLOW", f) /\ m.type \in FlowTypes
    <3>1. f \in Flows
      BY <1>0
    <3> QED
      BY <3>1, MessageKinds DEF FlowTypes, Msg
  <2>3. toSend'[g] = toSend[g] \/ toSend'[g] = Append(toSend[g], m)
    BY <1>0, <2>1, <2>2 DEF ReceiverSends
  <2> QED
    BY <1>0, <1>6, <2>2, <2>3 DEF FlowClosed
<1>7. CASE Release(g)
  BY <1>0, <1>7 DEF Release, OnMessage, Serving, ReceiverTakes, ReceiverSends
<1>8. CASE SenderDown(g)
  BY <1>0, <1>8 DEF SenderDown
<1> QED
  BY <1>1, <1>2, <1>3, <1>4, <1>5, <1>6, <1>7, <1>8 DEF SessionOnSocket, SessionSocket

\* The type of a message tells whether it is about a flow; the first of a queue of one
\* is followed by nothing.
LEMMA SmallQueues ==
  /\ FlowTypes \cap PlainTypes = {}
  /\ \A t : Plain(t).type = t
  /\ \A m : <<m>> # <<>> /\ Head(<<m>>) = m /\ Tail(<<m>>) = <<>> /\ Append(<<>>, m) = <<m>>
  /\ \A m : DOMAIN <<m>> = {1} /\ <<m>>[1] = m
  /\ \A t : PlainOnly(<<>>, t)
  /\ \A q, m : q \in Seq(Messages) /\ m \in Messages => Append(q, m) # <<>>
BY DEF FlowTypes, PlainTypes, Plain, Msg, PlainOnly

\* A session moves its connection to the next phase, or keeps it in this one.
LEMMA SessionKeepsPhase ==
  ASSUME FlowInv, AllUp, AllUp', Orderly, NEW g \in Flows, SessionOf(g)
  PROVE  Phase(g)'
<1>0. /\ ChannelInv /\ ChannelsKept
      /\ toRecv \in [Flows -> Seq(Messages)] /\ toSend \in [Flows -> Seq(Messages)]
      /\ manager \in [Flows -> Managers] /\ process \in {"run", "exited", "aborted"}
  BY Types DEF FlowInv, FlowsServed, ChannelInv, TypeOK, SendTypeOK, ThreadTypeOK
<1>1. Phase(g) /\ process # "aborted"
  BY DEF Orderly, EndsKept
<1>2. UNCHANGED <<parser, manager, process, connOpen>>
  BY DEF SessionOf, SessionOnSocket, SessionSocket, SessionOnPipe, SessionPipe, SessionTimer,
     AcceptSession, Connected, NameLog, SendFlow, ClosedFlow, ClosedErr, FlowClosed, Release,
     DiscoveryAnswered, SenderDown, Discover, ThreadOk, ThreadNotStarted, ThreadBroke, OnReport,
     netVars, sendVars, threadVars
<1>3. ASSUME SessionOnPipe(g)
      PROVE  /\ session[g] = "serve" /\ session'[g] = "serve"
             /\ UNCHANGED toRecv
             /\ \/ toSend' = toSend
                \/ /\ manager[g].pc \in LivePCs
                   /\ \E m \in Messages : m.type \in FlowTypes /\ toSend'[g] = Append(toSend[g], m)
  BY <1>0, <1>3, PipeReply DEF SessionOnPipe, ReceiverSends
<1>4. ASSUME SessionTimer(g)
      PROVE  /\ session[g] = "serve" /\ session'[g] = "serve"
             /\ toRecv' = toRecv /\ toRecv[g] = <<>> /\ toSend[g] = <<>>
             /\ toSend'[g] = <<Plain("DISCOVERY")>>
  BY <1>0, <1>4 DEF SessionTimer, Discover, Serving, ReceiverSends
<1>5. CASE parser[g] \notin Opening /\ manager[g].pc = "none"
  <2>1. session[g] = "none" /\ ~connOpen[g] /\ toRecv[g] = <<>>
    BY <1>1, <1>5 DEF Phase, Unopened
  <2> QED
    BY <1>3, <1>4, <2>1, SocketMoves DEF SessionOf, Closing
<1>6. CASE parser[g] \in Opening
  <2>1. manager[g].pc = "none"
    BY <1>0, <1>6 DEF ChannelsKept, Opening
  <2>2. ASSUME NEW request, NEW answer, NEW before,
               \/ request = "CONNECT" /\ answer = "ACK_CONNECT" /\ before = {"none", "connect"}
               \/ request = "SEND_NAME_LOG" /\ answer = "ACK_SEND_NAME_LOG" /\ before = {"serve"},
               Requested(g, request, before) \/ Acknowledged(g, answer)
        PROVE  (Requested(g, request, before) \/ Acknowledged(g, answer))'
    <3>1. CASE Requested(g, request, before)
      <4>1. /\ connOpen'[g] /\ session[g] \in before
            /\ toRecv[g] = <<Plain(request)>> /\ toSend[g] = <<>>
        BY <1>2, <3>1 DEF Requested
      <4>2. /\ toRecv[g] # <<>> /\ Head(toRecv[g]) = Plain(request) /\ Tail(toRecv[g]) = <<>>
            /\ Head(toRecv[g]).type = request /\ Append(toSend[g], Plain(answer)) = <<Plain(answer)>>
        BY <4>1, SmallQueues
      <4>3. ~SessionTimer(g) /\ request \notin FlowTypes \cup {"ACK_DISCOVERY"}
        BY <1>4, <2>2, <4>2 DEF FlowTypes
      <4>4. CASE SessionOnPipe(g)
        <5>1. /\ session'[g] = session[g] /\ toRecv'[g] = toRecv[g] /\ toSend'[g] = toSend[g]
          BY <1>3, <2>1, <4>4 DEF LivePCs
        <5> QED
          BY <4>1, <5>1 DEF Requested
      <4>5. CASE SessionOnSocket(g)
        <5>1. \/ session'[g] \in before /\ toRecv'[g] = toRecv[g] /\ toSend'[g] = toSend[g]
              \/ session'[g] = "serve" /\ toRecv'[g] = <<>> /\ toSend'[g] = <<Plain(answer)>>
          BY <2>2, <4>1, <4>2, <4>3, <4>5, <1>2, SocketMoves DEF Closing
        <5> QED
          BY <4>1, <5>1 DEF Requested, Acknowledged
      <4> QED
        BY <4>3, <4>4, <4>5 DEF SessionOf
    <3>2. CASE Acknowledged(g, answer)
      <4>1. /\ connOpen[g] /\ connOpen'[g] /\ session[g] = "serve"
            /\ toRecv[g] = <<>> /\ toSend[g] = <<Plain(answer)>>
        BY <1>2, <3>2 DEF Acknowledged
      <4>2. ~SessionTimer(g) /\ ~SessionOnSocket(g)
        BY <1>4, <4>1, SocketMoves, SmallQueues DEF Closing
      <4>3. /\ session'[g] = session[g] /\ toRecv'[g] = toRecv[g] /\ toSend'[g] = toSend[g]
        BY <1>3, <2>1, <4>1, <4>2 DEF LivePCs, SessionOf
      <4> QED
        BY <4>1, <4>3 DEF Acknowledged
    <3> QED
      BY <2>2, <3>1, <3>2
  <2>3. CASE parser[g] = "connecting"
    <3>1. (Requested(g, "CONNECT", {"none", "connect"}) \/ Acknowledged(g, "ACK_CONNECT"))'
      BY <1>1, <2>2, <2>3 DEF Phase
    <3> QED
      BY <1>2, <2>1, <2>3, <3>1 DEF Phase, Opening, LeftPCs
  <2>4. CASE parser[g] = "naming"
    <3>1. (Requested(g, "SEND_NAME_LOG", {"serve"}) \/ Acknowledged(g, "ACK_SEND_NAME_LOG"))'
      BY <1>1, <2>2, <2>4 DEF Phase
    <3> QED
      BY <1>2, <2>1, <2>4, <3>1 DEF Phase, Opening, LeftPCs
  <2> QED
    BY <1>6, <2>3, <2>4 DEF Opening
<1>7. CASE manager[g].pc \in {"idle", "closedErr", "closing", "notify"}
  <2>1. InUse(g) /\ parser[g] \notin Opening
    BY <1>0, <1>1, <1>7 DEF Phase, ChannelsKept, Opening
  <2>2. toRecv[g] \in Seq(Messages) /\ toSend[g] \in Seq(Messages)
    BY <1>0
  <2>3. PlainOnly(toRecv[g], "ACK_DISCOVERY") /\ PlainOnly(toSend[g], "DISCOVERY")
    BY <2>1 DEF InUse
  <2>4. PlainOnly(toRecv'[g], "ACK_DISCOVERY")
    <3>1. toRecv'[g] = toRecv[g] \/ (toRecv[g] # <<>> /\ toRecv'[g] = Tail(toRecv[g]))
      BY <1>3, <1>4, SocketMoves DEF SessionOf
    <3> QED
      BY <2>2, <2>3, <3>1, PlainOnlyQ
  <2>5. toRecv[g] # <<>> => Head(toRecv[g]).type \notin {"CONNECT", "SEND_NAME_LOG", "RELEASE"}
    BY <2>2, <2>3, PlainOnlyQ DEF PlainTypes
  <2>6. PlainOnly(toSend'[g], "DISCOVERY")
    <3>1. CASE \/ toSend'[g] = toSend[g]
               \/ \E m \in Messages : m.type \in FlowTypes /\ toSend'[g] = Append(toSend[g], m)
      <4>1. PICK q : q = toSend[g]
        OBVIOUS
      <4>2. \A m \in Messages : m.type \in FlowTypes => PlainOnly(Append(q, m), "DISCOVERY")
        BY <2>2, <2>3, <4>1, PlainOnlyQ
      <4> QED
        BY <2>3, <3>1, <4>1, <4>2
    <3>2. CASE toSend'[g] = <<Plain("DISCOVERY")>>
      <4>1. PICK m : m = Plain("DISCOVERY")
        OBVIOUS
      <4>2. DOMAIN <<m>> = {1} /\ <<m>>[1] = m /\ m.type = "DISCOVERY"
        BY <4>1, SmallQueues
      <4>3. PlainOnly(<<m>>, "DISCOVERY")
        BY <4>2 DEF PlainOnly
      <4> QED
        BY <3>2, <4>1, <4>3
    <3>3. CASE SessionOnSocket(g)
      <4>1. /\ session[g] \notin {"none", "connect"}
            /\ toRecv[g] # <<>> => Head(toRecv[g]).type \notin {"CONNECT", "SEND_NAME_LOG", "RELEASE"}
        BY <2>1, <2>5 DEF InUse, Served, Closing
      <4>2. \/ toSend'[g] = toSend[g]
            \/ \E m \in Messages : m.type \in FlowTypes /\ toSend'[g] = Append(toSend[g], m)
        BY <3>3, <4>1, SocketMoves
      <4> QED
        BY <3>1, <4>2
    <3> QED
      BY <1>3, <1>4, <3>1, <3>2, <3>3 DEF SessionOf
  <2>7. \/ session'[g] \in Served /\ (process' = "run" => connOpen'[g])
        \/ session'[g] = "senderDown" /\ process' = "exited"
    <3>1. \/ session[g] \in Served /\ (process = "run" => connOpen[g])
          \/ session[g] = "senderDown" /\ process = "exited"
      BY <2>1 DEF InUse
    <3>2. CASE SessionOnSocket(g)
      BY <1>0, <1>1, <1>2, <2>5, <3>1, <3>2, SocketMoves, SmallQueues DEF Served, Closing
    <3> QED
      BY <1>2, <1>3, <1>4, <3>1, <3>2 DEF SessionOf, Served
  <2>8. InUse(g)'
    BY <2>4, <2>6, <2>7 DEF InUse
  <2> QED
    BY <1>2, <1>7, <2>1, <2>8 DEF Phase, Opening, LeftPCs
<1>8. CASE manager[g].pc \in LeftPCs
  <2>1. Left(g) /\ parser[g] \notin Opening
    BY <1>0, <1>1, <1>8 DEF Phase, ChannelsKept, Opening, LeftPCs
  <2>2. PICK m \in Messages : m = Plain("RELEASE")
    BY MessageKinds DEF PlainTypes
  <2>3. toRecv[g] \in Seq(Messages) /\ m.type = "RELEASE"
    BY <1>0, <2>2, SmallQueues
  <2>4. session[g] # "released"
    BY <1>3, <1>4, SocketMoves DEF SessionOf, Closing
  <2>5. ASSUME session[g] \in Served, Has(toRecv[g], m)
        PROVE  Left(g)'
    <3>1. toRecv[g] # <<>>
      BY <2>5 DEF Has
    <3>2. /\ session[g] \notin {"none", "connect"}
          /\ Head(toRecv[g]).type # "RELEASE" => Has(Tail(toRecv[g]), m)
      BY <2>3, <2>5, <3>1, StaysInTail DEF Served, Closing
    <3>3. CASE SessionOnSocket(g)
      <4>1. \/ session'[g] = "released"
            \/ /\ session'[g] \in Served
               /\ \/ toRecv'[g] = toRecv[g]
                  \/ Head(toRecv[g]).type # "RELEASE" /\ toRecv'[g] = Tail(toRecv[g])
        BY <3>1, <3>2, <3>3, SocketMoves DEF Served, FlowTypes
      <4> QED
        BY <2>2, <2>5, <3>2, <4>1 DEF Left
    <3>4. CASE SessionOnPipe(g)
      BY <1>3, <2>2, <2>5, <3>4 DEF Left, Served
    <3>5. ~SessionTimer(g)
      BY <1>4, <3>1
    <3> QED
      BY <3>3, <3>4, <3>5 DEF SessionOf
  <2>6. Left(g)'
    BY <2>1, <2>2, <2>4, <2>5 DEF Left
  <2> QED
    BY <1>2, <1>8, <2>1, <2>6 DEF Phase, Opening, LeftPCs
<1>9. manager[g].pc \in {"none", "idle"} \cup ManagerPCs
  BY <1>0 DEF Managers, IdleManager, Manager
<1> QED
  BY <1>5, <1>6, <1>7, <1>8, <1>9 DEF ManagerPCs, LeftPCs

\* What the flowParser of flow g does to connection g.
LEMMA ParserKeepsPhase ==
  ASSUME FlowInv, AllUp, NEW g \in Flows, Phase(g), Parser(g), process' # "aborted"
  PROVE  Phase(g)'
<1>0. /\ ChannelInv /\ ChannelsKept /\ parser \in [Flows -> ParserPCs]
      /\ toRecv \in [Flows -> Seq(Messages)] /\ toSend \in [Flows -> Seq(Messages)]
      /\ manager \in [Flows -> Managers] /\ connOpen \in [Flows -> BOOLEAN]
  BY Types DEF FlowInv, FlowsServed, ChannelInv, TypeOK, NetTypeOK
<1>1. ParserThread(g) /\ session' = session /\ ~PeerGone(g)
  BY FlowAssumption DEF Parser, recvVars, AllUp, PeerGone
<1>2. parser[g] \in {"idle", "connecting", "naming"} => manager[g].pc = "none"
  BY <1>0 DEF ChannelsKept
<1>3. CASE JoinChannel(g)
  <2>1. /\ parser[g] = "idle" /\ parser'[g] = "attached"
        /\ UNCHANGED <<manager, connOpen, toRecv, toSend>>
    BY <1>0, <1>3 DEF JoinChannel, SetParser, netVars
  <2>2. Unopened(g)'
    BY <1>1, <1>2, <2>1 DEF Phase, Unopened, Opening
  <2> QED
    BY <1>2, <2>1, <2>2 DEF Phase, Opening, LeftPCs
<1>4. CASE SubmitFlow(g) \/ TakeResult(g)
  <2>1. /\ parser[g] \in {"attached", "waiting"} /\ parser'[g] \in {"waiting", "ended"}
        /\ UNCHANGED <<manager, connOpen, toRecv, toSend, process>>
    BY <1>0, <1>4 DEF SubmitFlow, TakeResult, SetParser, netVars
  <2> QED
    BY <1>1, <2>1 DEF Phase, Opening, LeftPCs, Unopened, InUse, Left
<1>5. CASE OpenConnection(g)
  <2>1. /\ parser[g] = "idle" /\ parser'[g] = "connecting" /\ UNCHANGED <<manager, toSend>>
        /\ connOpen'[g] /\ toRecv'[g] = Append(toRecv[g], Plain("CONNECT"))
    BY <1>0, <1>5 DEF OpenConnection, SetParser, CreateTransportChan, SenderSends
  <2>2. session[g] = "none" /\ toRecv[g] = <<>> /\ toSend[g] = <<>>
    BY <1>2, <2>1 DEF Phase, Unopened, Opening
  <2>3. toRecv'[g] = <<Plain("CONNECT")>>
    BY <2>1, <2>2, SmallQueues
  <2>4. Requested(g, "CONNECT", {"none", "connect"})'
    BY <1>1, <2>1, <2>2, <2>3 DEF Requested
  <2> QED
    BY <1>2, <2>1, <2>4 DEF Phase, Opening, LeftPCs
<1>6. ASSUME Answered(g), NEW answer, NEW request, NEW before,
             Requested(g, request, before) \/ Acknowledged(g, answer)
      PROVE  /\ connOpen[g] /\ session'[g] = "serve"
             /\ toRecv[g] = <<>> /\ toSend'[g] = <<>>
  <2>1. toSend[g] # <<>> /\ toSend'[g] = Tail(toSend[g])
    BY <1>0, <1>1, <1>6 DEF Answered, SenderTakes
  <2>2. Acknowledged(g, answer)
    BY <1>6, <2>1 DEF Requested
  <2> QED
    BY <1>1, <2>1, <2>2, SmallQueues DEF Acknowledged
<1>7. CASE ConnectAnswered(g)
  <2>1. parser[g] = "connecting" /\ Answered(g) /\ UNCHANGED connOpen
    BY <1>7 DEF ConnectAnswered
  <2>2. /\ connOpen[g] /\ session'[g] = "serve"
        /\ toRecv[g] = <<>> /\ toSend'[g] = <<>>
    BY <1>6, <2>1 DEF Phase
  <2>3. CASE SendNameLog(g) /\ SetParser(g, "naming") /\ UNCHANGED manager
    <3>1. parser'[g] = "naming" /\ toRecv'[g] = Append(toRecv[g], Plain("SEND_NAME_LOG"))
      BY <1>0, <2>3 DEF SetParser, SendNameLog, SenderSends
    <3>2. toRecv'[g] = <<Plain("SEND_NAME_LOG")>>
      BY <2>2, <3>1, SmallQueues
    <3>3. Requested(g, "SEND_NAME_LOG", {"serve"})'
      BY <2>1, <2>2, <3>2 DEF Requested
    <3> QED
      BY <1>2, <2>1, <2>3, <3>1, <3>3 DEF Phase, Opening, LeftPCs
  <2>4. CASE RegisterChannel(g) /\ UNCHANGED toRecv
    <3>1. parser'[g] = "attached" /\ manager'[g].pc = "idle"
      BY <1>0, <2>4 DEF RegisterChannel, SetParser, SetManager, IdleManager, Manager
    <3>2. InUse(g)'
      BY <2>1, <2>2, <2>4, SmallQueues DEF InUse, Served
    <3> QED
      BY <3>1, <3>2 DEF Phase, Opening, LeftPCs
  <2> QED
    BY <1>7, <2>3, <2>4 DEF ConnectAnswered
<1>8. CASE LogAnswered(g)
  <2>1. parser[g] = "naming" /\ Answered(g) /\ UNCHANGED <<connOpen, toRecv>> /\ RegisterChannel(g)
    BY <1>8 DEF LogAnswered
  <2>2. /\ connOpen[g] /\ session'[g] = "serve"
        /\ toRecv[g] = <<>> /\ toSend'[g] = <<>>
    BY <1>6, <2>1 DEF Phase
  <2>3. parser'[g] = "attached" /\ manager'[g].pc = "idle"
    BY <1>0, <2>1 DEF RegisterChannel, SetParser, SetManager, IdleManager, Manager
  <2>4. InUse(g)'
    BY <2>1, <2>2, SmallQueues DEF InUse, Served
  <2> QED
    BY <2>3, <2>4 DEF Phase, Opening, LeftPCs
<1>9. ~OpenFails(g) /\ ~LogRequestFails(g)
  BY <1>1 DEF OpenFails, LogRequestFails
<1> QED
  BY <1>1, <1>3, <1>4, <1>5, <1>7, <1>8, <1>9 DEF ParserThread

\* What the manager of connection g does to it.
LEMMA ManagerKeepsPhase ==
  ASSUME FlowInv, AllUp, NEW g \in Flows, Phase(g), process' # "aborted",
         ManagerOnSocket(g) \/ ManagerOnPipe(g) \/ ManagerEnds(g)
  PROVE  Phase(g)'
<1>0. /\ ChannelInv /\ ChannelsKept /\ manager \in [Flows -> Managers]
      /\ toRecv[g] \in Seq(Messages) /\ toSend[g] \in Seq(Messages)
      /\ toRecv \in [Flows -> Seq(Messages)] /\ toSend \in [Flows -> Seq(Messages)]
  BY Types DEF FlowInv, FlowsServed
<1>1. session' = session /\ ~PeerGone(g) /\ ~Abort
  BY FlowAssumption DEF ManagerOnSocket, ManagerOnPipe, ManagerEnds, recvVars, AllUp, PeerGone,
     Abort
<1>2. parser[g] \in Opening => manager[g].pc = "none"
  BY <1>0 DEF ChannelsKept, Opening
<1>3. ASSUME manager[g].pc \in {"idle", "closedErr", "closing", "notify"}, UNCHANGED <<parser, process>>,
             manager'[g].pc \in {"idle", "closedErr", "closing", "notify"}, connOpen'[g] = connOpen[g],
             \/ toSend'[g] = toSend[g]
             \/ toSend[g] # <<>> /\ toSend'[g] = Tail(toSend[g]),
             \/ toRecv'[g] = toRecv[g]
             \/ \E m \in Messages :
                  /\ m.type \in FlowTypes \/ m.type = "ACK_DISCOVERY"
                  /\ toRecv'[g] = Append(toRecv[g], m)
      PROVE  Phase(g)'
  <2>1. InUse(g)
    BY <1>3 DEF Phase
  <2>2. PICK q, r : q = toRecv[g] /\ r = toSend[g]
    OBVIOUS
  <2>3. /\ \A m \in Messages : m.type \in FlowTypes \/ m.type = "ACK_DISCOVERY" =>
             PlainOnly(Append(q, m), "ACK_DISCOVERY")
        /\ r # <<>> => PlainOnly(Tail(r), "DISCOVERY")
    BY <1>0, <2>1, <2>2, PlainOnlyQ DEF InUse
  <2>4. PlainOnly(toRecv'[g], "ACK_DISCOVERY") /\ PlainOnly(toSend'[g], "DISCOVERY")
    BY <1>3, <2>1, <2>2, <2>3 DEF InUse
  <2>5. InUse(g)'
    BY <1>1, <1>3, <2>1, <2>4 DEF InUse
  <2> QED
    BY <1>2, <1>3, <2>5 DEF Phase, Opening, LeftPCs
<1>4. ASSUME NEW types, OnSocket(g, types)
      PROVE  /\ manager[g].pc = "idle" /\ toSend[g] # <<>> /\ toSend'[g] = Tail(toSend[g])
  BY <1>0, <1>4 DEF OnSocket, ManagerReady, SenderTakes, IdleManager, Manager
<1>5. CASE StartFlow(g) \/ FlowAnswered(g)
  <2>1. /\ manager[g].pc = "idle" /\ toSend[g] # <<>> /\ toSend'[g] = Tail(toSend[g])
        /\ UNCHANGED <<parser, process, connOpen, toRecv>>
    BY <1>4, <1>5 DEF StartFlow, FlowAnswered
  <2>2. manager'[g].pc \in {"idle", "closing"}
    BY <1>0, <1>5, <2>1, ManagerTurns DEF StartFlow
  <2> QED
    BY <1>3, <2>1, <2>2
<1>6. CASE AnswerDiscovery(g)
  <2>1. /\ manager[g].pc = "idle" /\ toSend[g] # <<>> /\ toSend'[g] = Tail(toSend[g])
        /\ UNCHANGED <<parser, manager, process, connOpen>>
        /\ SenderSends(g, Plain("ACK_DISCOVERY"))
    BY <1>4, <1>6 DEF AnswerDiscovery, threadVars
  <2>2. PICK m \in Messages : m = Plain("ACK_DISCOVERY") /\ m.type = "ACK_DISCOVERY"
    BY MessageKinds, SmallQueues DEF PlainTypes
  <2>3. toRecv'[g] = Append(toRecv[g], m)
    BY <1>0, <2>1, <2>2 DEF SenderSends
  <2> QED
    BY <1>3, <2>1, <2>2, <2>3
<1>7. CASE ForwardRequest(g)
  <2>1. PICK e : e = Head(chanPipe[sigChan[g]]).flow
    OBVIOUS
  <2>2. PICK code \in PipeCodes, t \in {"SEND_FLOW", "CLOSED_FLOW"} :
          OnPipe(g, code) /\ SenderSends(g, Msg(t, e))
    BY <1>7, <2>1 DEF ForwardRequest, RequestToSend, ClosedFlowSent, PipeCodes
  <2>3. e \in Flows /\ manager[g] = IdleManager
    BY <2>1, <2>2, ReadsOwnPipe
  <2>4. PICK m \in Messages : m = Msg(t, e) /\ m.type \in FlowTypes
    BY <2>3, MessageKinds DEF FlowTypes, Msg
  <2>5. /\ toRecv'[g] = Append(toRecv[g], m) /\ manager[g].pc = "idle"
        /\ UNCHANGED <<parser, manager, process, connOpen, toSend>>
    BY <1>0, <1>7, <2>2, <2>3, <2>4 DEF SenderSends, ForwardRequest, threadVars, IdleManager,
       Manager
  <2> QED
    BY <1>3, <2>4, <2>5
<1>8. CASE FlowFailed(g)
  <2>1. /\ manager[g].pc = "idle" /\ manager'[g].pc = "closedErr"
        /\ UNCHANGED <<parser, process, connOpen, toRecv, toSend>>
    BY <1>0, <1>8, ManagerTurns DEF FlowFailed, netVars, IdleManager, Manager
  <2> QED
    BY <1>3, <2>1
<1>9. CASE SendClosedErr(g)
  <2>1. /\ manager[g].pc = "closedErr" /\ manager'[g].pc = "closing"
        /\ UNCHANGED <<parser, process, connOpen, toSend>>
    BY <1>0, <1>9, ManagerTurns DEF SendClosedErr
  <2>2. manager[g].flow \in Flows
    BY <1>0, <2>1, BusyManager DEF ManagerPCs
  <2>3. PICK m \in Messages : m = Msg("CLOSED_ERR", manager[g].flow) /\ m.type \in FlowTypes
    BY <2>2, MessageKinds DEF FlowTypes, Msg
  <2>4. toRecv'[g] = Append(toRecv[g], m)
    BY <1>0, <1>9, <2>3 DEF SendClosedErr, SenderSends
  <2> QED
    BY <1>3, <2>1, <2>3, <2>4
<1>10. CASE ManagerLeaves(g)
  <2>1. manager[g].pc = "closing" /\ process = "run"
    BY <1>10 DEF ManagerLeaves
  <2>2. /\ UNCHANGED <<parser, process, connOpen, toSend>>
        /\ \/ manager'[g].pc \in {"idle", "notify"} /\ UNCHANGED toRecv
           \/ manager'[g].pc = "releasing" /\ SenderSends(g, Plain("RELEASE"))
    BY <1>10, LeaveEffect DEF IdleManager, Manager
  <2>3. CASE manager'[g].pc = "releasing" /\ SenderSends(g, Plain("RELEASE"))
    <3>1. PICK m \in Messages : m = Plain("RELEASE")
      BY MessageKinds DEF PlainTypes
    <3>2. toRecv'[g] = Append(toRecv[g], m)
      BY <1>0, <2>3, <3>1 DEF SenderSends
    <3>3. Has(toRecv'[g], m)
      BY <1>0, <3>2, AppendQ
    <3>4. session[g] \in Served
      BY <2>1 DEF Phase, InUse
    <3>5. Left(g)'
      BY <1>1, <3>1, <3>3, <3>4 DEF Left
    <3> QED
      BY <1>2, <2>1, <2>2, <2>3, <3>5 DEF Phase, Opening, LeftPCs
  <2> QED
    BY <1>3, <2>1, <2>2, <2>3
<1>11. CASE ManagerReleased(g)
  <2>1. /\ manager[g].pc = "releasing" /\ manager'[g].pc \in {"lastNotify", "exited"}
        /\ UNCHANGED <<parser, toRecv>>
    BY <1>11, ReleaseEffect
  <2> QED
    BY <1>1, <1>2, <2>1 DEF Phase, Opening, LeftPCs, Left
<1>12. CASE Notify(g)
  <2>1. UNCHANGED <<parser, process, connOpen, toRecv, toSend>>
    BY <1>12 DEF Notify, netVars
  <2>2. CASE manager[g].pc = "notify" /\ manager'[g] = IdleManager
    BY <1>3, <2>1, <2>2 DEF IdleManager, Manager
  <2>3. CASE manager[g].pc = "lastNotify" /\ manager'[g].pc = "exited"
    BY <1>1, <1>2, <2>1, <2>3 DEF Phase, Opening, LeftPCs, Left
  <2> QED
    BY <1>0, <1>12, <2>2, <2>3, ManagerTurns
<1> QED
  BY <1>1, <1>5, <1>6, <1>7, <1>8, <1>9, <1>10, <1>11, <1>12
     DEF ManagerOnSocket, ManagerSocket, ManagerOnPipe, ManagerPipe, ManagerEnds, ManagerEnding,
         ReceiverLost

\* Every connection is in its phase after every step.
LEMMA PhaseStays ==
  ASSUME FlowInv, AllUp, AllUp', Orderly, [Next]_vars, NEW g \in Flows
  PROVE  Phase(g)'
<1>1. Phase(g)
  BY DEF Orderly
<1>2. process' # "aborted"
  BY NoAbort
<1>3. CASE UNCHANGED View(g)
  BY <1>1, <1>3 DEF View, Phase, Unopened, Requested, Acknowledged, InUse, Left
<1>4. CASE Exit
  <2>1. /\ UNCHANGED <<parser, manager, session, toRecv, toSend>> /\ process' = "exited"
        /\ parser[g] = "ended" /\ connOpen' = [h \in Flows |-> FALSE]
    BY <1>4 DEF Exit, ExitProcess, threadVars, recvVars
  <2> QED
    BY <1>1, <2>1 DEF Phase, Unopened, InUse, Left, Opening
<1>5. CASE OwnThread(g)
  BY <1>1, <1>2, <1>5, ParserKeepsPhase, ManagerKeepsPhase DEF OwnThread
<1> QED
  BY <1>2, <1>3, <1>4, <1>5, SessionKeepsPhase, OtherConnections
\* main waits for every parser, and only its verdict ends a parser.
LEMMA ParserMoves ==
  ASSUME FlowInv, AllUp, [Next]_vars, process' # "aborted", NEW f \in Flows
  PROVE  /\ process' = process \/ (process' = "exited" /\ parser'[f] = "ended" /\ parser[f] = "ended")
         /\ \/ parser'[f] = parser[f]
            \/ process = "run" /\ process' = "run" /\ (parser'[f] # "ended" \/ TakeResult(f))
<1>1. ~PeerGone(f) /\ ~Abort
  BY FlowAssumption DEF AllUp, PeerGone, Abort
<1>2. parser \in [Flows -> ParserPCs]
  BY Types DEF FlowInv
<1>3. CASE UNCHANGED View(f)
  BY <1>3 DEF View
<1>4. CASE Exit
  BY <1>4 DEF Exit, ExitProcess, threadVars
<1>5. CASE SessionOf(f)
  BY <1>5 DEF SessionOf, SessionOnSocket, SessionOnPipe, SessionTimer, sendVars, threadVars
<1>6. CASE Parser(f)
  <2>1. process = "run" /\ process' = process
    BY <1>1, <1>6 DEF Parser, ParserThread, JoinChannel, OpenConnection, OpenFails, ConnectAnswered,
       LogRequestFails, LogAnswered, SubmitFlow, TakeResult, RegisterChannel
  <2>2. TakeResult(f) \/ \E pc \in {"attached", "connecting", "naming", "waiting"} : SetParser(f, pc)
    BY <1>1, <1>6 DEF Parser, ParserThread, JoinChannel, OpenConnection, OpenFails, ConnectAnswered,
       LogRequestFails, LogAnswered, SubmitFlow, RegisterChannel
  <2> QED
    BY <1>2, <2>1, <2>2 DEF SetParser
<1>7. CASE ManagerOnSocket(f) \/ ManagerOnPipe(f) \/ ManagerEnds(f)
  <2>1. parser' = parser /\ process = "run"
    BY <1>1, <1>7 DEF ManagerOnSocket, ManagerSocket, ManagerOnPipe, ManagerPipe, ManagerEnds,
     ManagerEnding, StartFlow, AnswerDiscovery, FlowAnswered, ReceiverLost, ForwardRequest,
     FlowFailed,
     SendClosedErr, ManagerLeaves, ManagerReleased, Notify, OnSocket, OnPipe, ManagerReady,
     threadVars
  <2>2. process' = process
    BY <1>1, <1>7, <2>1 DEF ManagerOnSocket, ManagerSocket, ManagerOnPipe, ManagerPipe, ManagerEnds,
     ManagerEnding, StartFlow, AnswerDiscovery, FlowAnswered, ReceiverLost, ForwardRequest,
     FlowFailed,
     SendClosedErr, ManagerLeaves, ManagerReleased, Notify
  <2> QED
    BY <2>1, <2>2
<1> QED
  BY <1>3, <1>4, <1>5, <1>6, <1>7, OtherConnections DEF OwnThread

\* The outcome of a flow is read once, at the end of its parser.
LEMMA OutcomeStays ==
  ASSUME FlowInv, AllUp, Orderly, [Next]_vars, NEW f \in Flows
  PROVE  /\ outcome[f] # "none" => outcome'[f] = outcome[f]
         /\ parser'[f] = "ended" => outcome'[f] # "none"
<1>0. ChannelInv /\ FlowKept(f)
  BY DEF FlowInv, FlowsServed
<1>1. ASSUME NEW e \in Flows, TakeResult(e), e # f
      PROVE  outcome'[f] = outcome[f]
  BY <1>0, <1>1, ResultTaken
<1>2. ASSUME TakeResult(f)
      PROVE  outcome'[f] # "none" /\ outcome[f] = "none"
  <2>1. outcome'[f] \in ResultCodes
    BY <1>0, <1>2, ResultTaken
  <2>2. parser[f] = "waiting"
    BY <1>2 DEF TakeResult
  <2> QED
    BY <1>0, <2>1, <2>2 DEF ResultCodes, FlowKept, ParserPart
<1>3. outcome'[f] = outcome[f] \/ TakeResult(f)
  BY <1>1, Writers
<1>4. process' # "aborted"
  BY NoAbort
<1>5. parser'[f] = "ended" => parser[f] = "ended" \/ TakeResult(f)
  BY <1>4, ParserMoves
<1> QED
  BY <1>2, <1>3, <1>5 DEF Orderly, EndsKept

\* Only its own thread, on its socket, moves a session.
LEMMA SessionMoves ==
  ASSUME FlowInv, AllUp, [Next]_vars, process' # "aborted", NEW g \in Flows
  PROVE  session'[g] = session[g] \/ SessionOnSocket(g)
<1>1. CASE UNCHANGED View(g)
  BY <1>1 DEF View
<1>2. CASE OwnThread(g) \/ Exit
  BY <1>2 DEF OwnThread, Parser, ManagerOnSocket, ManagerOnPipe, ManagerEnds, Exit, recvVars
<1>3. CASE SessionOnPipe(g)
  BY <1>3, PipeReply DEF SessionOnPipe
<1>4. CASE SessionTimer(g)
  BY <1>4 DEF SessionTimer, Discover
<1> QED
  BY <1>1, <1>2, <1>3, <1>4, OtherConnections DEF SessionOf

\* A session that finds its sender gone was serving a connection that main has closed.
LEMMA DownAfterExit ==
  ASSUME FlowInv, AllUp, Orderly, NEW g \in Flows, session[g] \in {"connect"} \cup Served,
         ~connOpen[g], toRecv[g] = <<>>
  PROVE  /\ process = "exited" /\ \A f \in Flows : parser[f] = "ended" /\ outcome[f] # "none"
         /\ manager[g].pc \in {"idle", "closedErr", "closing", "notify"}
<1>1. /\ ChannelInv /\ manager \in [Flows -> Managers] /\ process \in {"run", "exited", "aborted"}
  BY Types DEF FlowInv, ChannelInv, TypeOK, SendTypeOK, ThreadTypeOK
<1>2. Phase(g)
  BY DEF Orderly
<1>3. ~Unopened(g) /\ ~Left(g)
  BY SmallQueues DEF Unopened, Left, Has, Served, Closing
<1>4. parser[g] \notin Opening
  BY <1>2 DEF Phase, Requested, Acknowledged, Opening
<1>5. manager[g].pc \notin {"none"} \cup LeftPCs
  BY <1>2, <1>3, <1>4 DEF Phase
<1>6. manager[g].pc \in {"idle", "closedErr", "closing", "notify"}
  BY <1>1, <1>5 DEF Managers, IdleManager, Manager, ManagerPCs, LeftPCs
<1>7. InUse(g)
  BY <1>2, <1>6 DEF Phase
<1>8. process = "exited"
  BY <1>1, <1>7 DEF InUse, Orderly, EndsKept
<1> QED
  BY <1>6, <1>8 DEF Orderly, EndsKept

\* What has been read of a flow whose sender failed is ERR2.
LEMMA FailedOutcome ==
  ASSUME VerdictInv, NEW f \in Flows, sender[f] = "failed", outcome[f] # "none"
  PROVE  outcome[f] = "ERR2"
<1>1. Meant(f, outcome[f]) /\ ThreadPart(f)
  BY DEF VerdictInv, TruthKept, FlowInv, FlowsServed, FlowKept
<1>2. thread[f] # "reaped"
  BY <1>1 DEF ThreadPart, ThreadsOf
<1> QED
  BY <1>1, <1>2 DEF Meant

\* A session that reads RELEASE has no data thread that runs.
LEMMA ReleasedWithoutThreads ==
  ASSUME FlowInv, LeavingKept, NEW f \in Flows, thread[f] \in Alive, NEW g, g = home[f],
         toRecv[g] # <<>>, Head(toRecv[g]).type = "RELEASE"
  PROVE  FALSE
<1>0. /\ ChannelInv /\ ChannelsKept /\ FlowKept(f) /\ toRecv \in [Flows -> Seq(Messages)]
  BY Types DEF FlowInv, FlowsServed
<1>1. g \in Flows /\ f \in table[g]
  BY <1>0 DEF FlowKept, ThreadPart
<1>2. toRecv[g][1] = Plain("RELEASE") /\ 1 \in DOMAIN toRecv[g] /\ DOMAIN toRecv[g] = 1 .. Len(toRecv[g])
  <2>1. PICK q \in Seq(Messages) : q = toRecv[g]
    BY <1>0, <1>1
  <2>2. q[1] \in Messages /\ q[1].type = "RELEASE" /\ 1 \in DOMAIN q /\ DOMAIN q = 1 .. Len(q)
    BY <2>1
  <2>3. q[1] = Plain("RELEASE")
    BY <2>2 DEF Messages, FlowTypes, Plain
  <2> QED
    BY <2>1, <2>2, <2>3
<1>3. Len(toRecv[g]) = 1 /\ manager[g].pc \in LeftPCs
  BY <1>1, <1>2 DEF LeavingKept, ReleaseLast
<1>4. ~Pending(f, g)
  <2>1. ASSUME Pending(f, g), NEW c, c = sigChan[f]
        PROVE  FALSE
    <3>1. c \in Chans /\ f \in holders[c] /\ chanSock[c] = g /\ g # NoFlow
      BY <1>1, <2>1, FlowAssumption DEF Pending, Holds
    <3>2. sigChan[g] = c /\ manager[g].pc \in LivePCs
      BY <1>0, <3>1 DEF ChannelsKept
    <3>3. manager[g].pc = "releasing"
      BY <1>3, <3>2 DEF LivePCs, LeftPCs
    <3>4. holders[c] = {}
      BY <1>0, <1>1, <3>2, <3>3 DEF ChannelsKept
    <3> QED
      BY <3>1, <3>4
  <2> QED
    BY <2>1
<1>5. sender[f] = "failed"
  BY <1>0, <1>1, <1>4 DEF FlowKept, ThreadPart
<1>6. ~(sigChan[f] \in Chans /\ OnPipeTo(sigChan[f], "ERRFLOW", f))
  BY <1>0, <1>4 DEF FlowKept, PipePart
<1>7. manager[g].pc # "closedErr"
  BY <1>3 DEF LeftPCs
<1>8. ~Asked(g, "CLOSED_ERR", f)
  <2>1. Msg("CLOSED_ERR", f) # Plain("RELEASE")
    BY DEF Msg, Plain
  <2>2. DOMAIN toRecv[g] = {1}
    BY <1>2, <1>3
  <2> QED
    BY <1>2, <2>1, <2>2 DEF Asked, Has
<1> QED
  BY <1>5, <1>6, <1>7, <1>8 DEF LeavingKept, FailedTold
\* No step leaves a data thread behind.
LEMMA ThreadsEnd ==
  ASSUME VerdictInv, LeavingKept, AllUp, AllUp', Orderly, [Next]_vars, NEW f \in Flows,
         thread'[f] \in Alive, NEW g, g = home'[f], session'[g] \notin {"serve"} \cup Closing
  PROVE  session'[g] = "senderDown" /\ outcome'[f] = "ERR2"
<1>0. FlowInv /\ ChannelInv /\ FlowKept(f) /\ process' # "aborted"
  BY NoAbort DEF VerdictInv, FlowInv, FlowsServed
<1>1. ~\E h \in Flows : SendFlow(h) /\ g = h
  <2>1. ASSUME NEW h \in Flows, SendFlow(h), g = h
        PROVE  FALSE
    BY <2>1 DEF SendFlow, OnMessage, Serving
  <2> QED
    BY <2>1
<1>2. thread[f] \in Alive /\ home[f] = g
  <2>1. /\ {"cancelled", "reaped"} \cap Alive = {}
        /\ {"starting", "listening", "receiving"} \subseteq Alive
    BY DEF Alive
  <2>2. ASSUME NEW h \in Flows, SendFlow(h), home'[f] = h
        PROVE  FALSE
    BY <1>1, <2>2
  <2> QED
    BY <1>0, <2>1, <2>2, ThreadWriters
<1>3. g \in Flows /\ f \in table[g]
  BY <1>0, <1>2 DEF FlowKept, ThreadPart
<1>4. CASE session'[g] = session[g]
  <2>1. session[g] = "senderDown" /\ outcome[f] = "ERR2"
    BY <1>2, <1>4 DEF Orderly, EndsKept, NoOrphanThread
  <2> QED
    BY <1>0, <1>4, <2>1, OutcomeStays
<1>5. CASE session'[g] # session[g]
  <2>1. SessionOnSocket(g)
    BY <1>0, <1>3, <1>5, SessionMoves
  <2>2. session[g] \in {"serve"} \cup Closing
    <3>1. session[g] # "senderDown"
      BY <1>0, <1>3, <2>1, SocketMoves DEF Closing
    <3> QED
      BY <1>2, <3>1 DEF Orderly, EndsKept, NoOrphanThread
  <2>3. ~(toRecv[g] # <<>> /\ Head(toRecv[g]).type = "RELEASE")
    BY <1>0, <1>2, ReleasedWithoutThreads
  <2>4. ~connOpen[g] /\ toRecv[g] = <<>> /\ session'[g] = "senderDown"
    BY <1>0, <1>3, <1>5, <2>1, <2>2, <2>3, SocketMoves DEF Served, Closing
  <2>5. parser[f] = "ended" /\ outcome[f] # "none"
    BY <1>0, <1>3, <2>2, <2>4, DownAfterExit DEF Served
  <2>6. sender[f] = "failed"
    BY <1>0, <1>3, <2>5 DEF FlowKept, ThreadPart, Pending
  <2>7. outcome[f] = "ERR2"
    BY <2>5, <2>6, FailedOutcome
  <2> QED
    BY <1>0, <2>4, <2>7, OutcomeStays
<1> QED
  BY <1>4, <1>5

\* No step lets a session find its sender gone without a flow that failed.
LEMMA DownForFailed ==
  ASSUME VerdictInv, LeavingKept, AllUp, AllUp', Orderly, [Next]_vars, NEW g \in Flows,
         session'[g] = "senderDown"
  PROVE  \E f \in Flows : Dest[f] = Dest[g] /\ outcome'[f] = "ERR2"
<1>0. FlowInv /\ ChannelInv /\ ChannelsKept /\ process' # "aborted"
  BY NoAbort DEF VerdictInv, FlowInv, FlowsServed
<1>1. \A f \in Flows : outcome[f] = "ERR2" => outcome'[f] = "ERR2"
  BY <1>0, OutcomeStays
<1>2. CASE session[g] = "senderDown"
  BY <1>1, <1>2 DEF Orderly, EndsKept, OrderlyEnd
<1>3. CASE session[g] # "senderDown"
  <2>1. SessionOnSocket(g)
    BY <1>0, <1>3, SessionMoves
  <2>2. session[g] \in {"connect"} \cup Served /\ ~connOpen[g] /\ toRecv[g] = <<>>
    BY <1>0, <1>3, <2>1, SocketMoves DEF Served, Closing
  <2>3. /\ \A f \in Flows : parser[f] = "ended" /\ outcome[f] # "none"
        /\ manager[g].pc \in {"idle", "closedErr", "closing", "notify"}
    BY <1>0, <2>2, DownAfterExit
  <2>4. PICK c : c = sigChan[g]
    OBVIOUS
  <2>5. c \in Chans /\ chanSock[c] = g /\ g # NoFlow
    BY <1>0, <2>3, <2>4, FlowAssumption DEF ChannelInv, ChannelKnown, ChannelsKept, LivePCs
  <2>6. PICK f : f \in holders[c]
    BY <2>3, <2>5 DEF LeavingKept, ChannelsUsed
  <2>7. f \in Flows /\ Dest[f] = Dest[g]
    BY <1>0, <2>5, <2>6, Types DEF ChannelsKept
  <2>8. sender[f] = "failed"
    BY <2>3, <2>5, <2>6, <2>7 DEF LeavingKept, HoldersKept
  <2>9. outcome[f] = "ERR2"
    BY <2>3, <2>7, <2>8, FailedOutcome
  <2> QED
    BY <1>1, <2>7, <2>9
<1> QED
  BY <1>2, <1>3

\* The end of the processes and of the sessions stays in order.
LEMMA EndsStay ==
  ASSUME VerdictInv, LeavingKept, AllUp, AllUp', Orderly, [Next]_vars
  PROVE  EndsKept'
<1>0. FlowInv /\ process' # "aborted"
  BY NoAbort DEF VerdictInv
<1>1. ASSUME process' = "exited", NEW f \in Flows
      PROVE  parser'[f] = "ended"
  BY <1>0, <1>1, ParserMoves DEF Orderly, EndsKept
<1>2. \A f \in Flows : parser'[f] = "ended" => outcome'[f] # "none"
  BY <1>0, OutcomeStays
<1>3. NoOrphanThread'
  BY ThreadsEnd DEF NoOrphanThread
<1>4. OrderlyEnd'
  BY DownForFailed DEF OrderlyEnd
<1> QED
  BY <1>0, <1>1, <1>2, <1>3, <1>4 DEF EndsKept

-----------------------------------------------------------------------------
(* The theorems. *)

\* The invariant holds initially.
LEMMA InitSessionInv == Init => SessionInv
<1> SUFFICES ASSUME Init PROVE SessionInv
  OBVIOUS
<1> USE DEF Init, NetInit, SendInit, RecvInit, Manager
<1>1. VerdictInv
  BY InitVerdictInv
<1>2. LeavingKept
  <2>1. ChannelsUsed /\ HoldersKept
    BY DEF ChannelsUsed, HoldersKept
  <2>2. FailedTold /\ ReleaseLast
    BY DEF FailedTold, ReleaseLast
  <2> QED
    BY <2>1, <2>2 DEF LeavingKept
<1>3. EndsKept
  <2>1. NoOrphanThread /\ OrderlyEnd
    BY DEF NoOrphanThread, OrderlyEnd, Alive
  <2> QED
    BY <2>1 DEF EndsKept
<1>4. ASSUME NEW g \in Flows
      PROVE  Phase(g)
  BY <1>4 DEF Phase, Unopened, LeftPCs
<1> QED
  BY <1>1, <1>2, <1>3, <1>4 DEF SessionInv, Orderly

\* Every step keeps it.
LEMMA NextKeepsSessionInv ==
  ASSUME SessionInv, [Next]_vars
  PROVE  SessionInv'
<1>1. VerdictInv /\ LeavingKept /\ FlowInv /\ ChannelInv
  BY DEF SessionInv, VerdictInv, FlowInv
<1>2. VerdictInv' /\ FlowInv'
  BY <1>1, NextKeepsVerdictInv DEF VerdictInv
<1>3. LeavingKept'
  BY <1>1, <1>2, LeavingStays
<1>4. ASSUME AllUp'
      PROVE  Orderly'
  <2>1. AllUp /\ Orderly
    BY <1>1, <1>4, UpBefore DEF SessionInv
  <2>2. EndsKept'
    BY <1>1, <1>4, <2>1, EndsStay
  <2>3. \A g \in Flows : Phase(g)'
    BY <1>1, <1>4, <2>1, PhaseStays
  <2> QED
    BY <2>2, <2>3 DEF Orderly
<1> QED
  BY <1>2, <1>3, <1>4 DEF SessionInv

\* Channels are left in order, and while every receiver runs so are processes, connections
\* and sessions.
THEOREM SessionInvariant == Spec => []SessionInv
<1>1. Init => SessionInv
  BY InitSessionInv
<1>2. SessionInv /\ [Next]_vars => SessionInv'
  BY NextKeepsSessionInv
<1> QED
  BY <1>1, <1>2, PTL DEF Spec

\* ITGSend ends before its flows do only when an ITGRecv has ended: no manager meets a
\* message that it does not know (AnswerDiscovery), and no connect() or recv() fails.
THEOREM OnlyForReceiver == Spec => []AbortsOnlyForReceiver
<1>1. SessionInv => AbortsOnlyForReceiver
  BY DEF SessionInv, AllUp, Orderly, EndsKept, AbortsOnlyForReceiver
<1> QED
  BY <1>1, SessionInvariant, PTL

\* While every receiver runs, the end of a session leaves no data thread behind (Release
\* and SenderDown), but for the flow whose connect() failed while ITGSend exited.
THEOREM NoThreadLeft == Spec => [](AllUp => NoOrphanThread)
<1>1. SessionInv => (AllUp => NoOrphanThread)
  BY DEF SessionInv, Orderly, EndsKept
<1> QED
  BY <1>1, SessionInvariant, PTL

\* While every receiver runs, ITGSend leaves a connection without RELEASE (ExitProcess
\* before the last isChannelClosable) only for a flow to that receiver that failed.
THEOREM LeftInOrder == Spec => [](AllUp => OrderlyEnd)
<1>1. SessionInv => (AllUp => OrderlyEnd)
  BY DEF SessionInv, Orderly, EndsKept
<1> QED
  BY <1>1, SessionInvariant, PTL

\* No log file is asked for on any connection.
NoLogAsked == \A g \in Flows : ~Has(toRecv[g], Plain("SEND_NAME_LOG"))

\* Without a log file to ask for, sendNameLog is not called.
LEMMA NoLogIsAsked ==
  ASSUME ~LogRequested, FlowInv, NoLogAsked, [Next]_vars
  PROVE  NoLogAsked'
<1>1. PICK log : log = Plain("SEND_NAME_LOG")
  OBVIOUS
<1>2. SUFFICES ASSUME NEW g \in Flows, ~Has(toRecv[g], log) PROVE ~Has(toRecv'[g], log)
  BY <1>1 DEF NoLogAsked
<1>3. toRecv \in [Flows -> Seq(Messages)] /\ parser \in [Flows -> ParserPCs]
  BY Types DEF FlowInv
<1>4. CASE toRecv[g] # <<>> /\ toRecv'[g] = Tail(toRecv[g])
  <2>1. PICK q \in Seq(Messages) : q = toRecv[g]
    BY <1>3
  <2>2. Fewer(q, Tail(q), {log})
    BY <1>4, <2>1, TailQ
  <2> QED
    BY <1>2, <1>4, <2>1, <2>2 DEF Fewer
<1>5. ASSUME NEW m \in Messages, toRecv'[g] = Append(toRecv[g], m), SentBy(g, m)
      PROVE  ~Has(toRecv'[g], log)
  <2>1. ~(ConnectAnswered(g) /\ parser'[g] = "naming")
    BY <1>3 DEF ConnectAnswered, RegisterChannel, SetParser
  <2>2. m # log
    BY <1>1, <1>5, <2>1 DEF SentBy, Plain, Msg
  <2>3. toRecv[g] \in Seq(Messages)
    BY <1>3
  <2> QED
    BY <1>2, <1>5, <2>2, <2>3, AppendQ
<1> QED
  BY <1>2, <1>4, <1>5, RequestWriters

\* A receiver that nobody interrupts, and that opens no log file, runs on.
LEMMA ReceiversRunOn ==
  ASSUME Interruptible = {}, FlowInv, NoLogAsked, AllUp, [Next]_vars
  PROVE  AllUp'
<1>1. ASSUME NEW g \in Flows, SessionOnSocket(g)
      PROVE  hostUp' = hostUp
  <2>1. ~NameLog(g)
    <3>1. PICK q : q = toRecv[g]
      OBVIOUS
    <3>2. q \in Seq(Messages)
      BY <3>1, Types DEF FlowInv
    <3>3. ASSUME q # <<>>, Head(q).type = "SEND_NAME_LOG"
          PROVE  Has(q, Plain("SEND_NAME_LOG"))
      <4>1. PICK m \in Messages : m = Head(q) /\ m.type = "SEND_NAME_LOG"
        BY <3>2, <3>3
      <4>2. m = Plain("SEND_NAME_LOG")
        BY <4>1 DEF Messages, FlowTypes, Plain
      <4>3. 1 \in DOMAIN q /\ q[1] = m
        BY <3>2, <3>3, <4>1
      <4> QED
        BY <4>2, <4>3 DEF Has
    <3> QED
      BY <3>1, <3>3 DEF NameLog, OnMessage, NoLogAsked
  <2> QED
    BY <1>1, <2>1 DEF SessionOnSocket, SessionSocket, AcceptSession, Connected, SendFlow,
       ClosedFlow,
       ClosedErr, FlowClosed, Release, DiscoveryAnswered, SenderDown
<1>2. ASSUME \/ Finished \/ UNCHANGED vars \/ Exit
             \/ \E f \in Flows :
                  \/ Parser(f) \/ ManagerOnSocket(f) \/ ManagerOnPipe(f) \/ ManagerEnds(f)
                  \/ SenderFails(f) \/ SenderConnects(f) \/ SenderFinishes(f) \/ SenderKilled(f)
                  \/ SessionOnPipe(f) \/ SessionTimer(f)
                  \/ DataThread(f) \/ DataThreadReceives(f) \/ DataThreadFails(f)
      PROVE  hostUp' = hostUp
  BY <1>2 DEF Finished, vars, Exit, Parser, ManagerOnSocket, ManagerOnPipe, ManagerEnds,
     SenderFails,
     SenderConnects, SenderFinishes, SenderKilled, recvVars, SessionOnPipe, SessionPipe, ThreadOk,
     ThreadNotStarted, ThreadBroke, OnReport, SessionTimer, Discover, DataThread, DataThreadStarts,
     BindFails, Listens, DataThreadReceives, Receives, DataThreadFails, ReceiveFails
<1>3. ~\E h \in Hosts : ReceiverStops(h)
  BY DEF ReceiverStops, Interrupted
<1> QED
  BY <1>1, <1>2, <1>3 DEF Next, AllUp

\* When nobody interrupts a receiver and no log file is asked for, no receiver can end:
\* sessions and connections then always end in order.
THEOREM EndsInOrder ==
  ASSUME Interruptible = {}, ~LogRequested
  PROVE  Spec => [](NoOrphanThread /\ OrderlyEnd)
<1>1. Init => SessionInv /\ NoLogAsked /\ AllUp
  BY InitSessionInv DEF Init, NetInit, RecvInit, NoLogAsked, AllUp, Has
<1>2. SessionInv /\ NoLogAsked /\ AllUp /\ [Next]_vars => (SessionInv /\ NoLogAsked /\ AllUp)'
  BY NextKeepsSessionInv, NoLogIsAsked, ReceiversRunOn DEF SessionInv, VerdictInv
<1>3. SessionInv /\ AllUp => NoOrphanThread /\ OrderlyEnd
  BY DEF SessionInv, Orderly, EndsKept
<1> QED
  BY <1>1, <1>2, <1>3, PTL DEF Spec
=============================================================================
