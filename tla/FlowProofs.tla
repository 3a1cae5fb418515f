----------------------------- MODULE FlowProofs -----------------------------
(***************************************************************************)
(* The inductive invariant of the two programs of TspSession: where a flow *)
(* is at its parser, its manager, its sender, its session and its data     *)
(* thread, and what the pipes and connections between them can hold about  *)
(* it. Every step keeps it (NextKeepsFlows); SessionProofs draws the       *)
(* properties of TspSession from it.                                       *)
(***************************************************************************)
EXTENDS ChannelProofs

\* Queue q holds message m; q holds at most one message of the set M.
Has(q, m)  == \E i \in DOMAIN q : q[i] = m
Once(q, M) == \A i, j \in DOMAIN q : q[i] \in M /\ q[j] \in M => i = j

\* The messages in which a receiver judges a flow (FlowAnswered), and everything that a
\* pipe, a report queue or a connection can hold about flow f.
AnswerTypes == {"ACK_CLOSED_FLOW", "ERR_MSG_2", "ERR_MSG_3", "ERR_MSG_5"}
PipeAbout(f)    == [code : PipeCodes, flow : {f}]
ReportsAbout(f) == [code : ReportCodes, flow : {f}]
RepliesAbout(f) == [type : {"ACK_SEND_FLOW"} \cup AnswerTypes, flow : {f}]

\* A message about flow f is on its way: to the manager of channel c, to the session of
\* connection g, in the rPipe of that session, or back to the manager.
OnPipeTo(c, code, f) == Has(chanPipe[c], [code |-> code, flow |-> f])
Asked(g, type, f)    == Has(toRecv[g], Msg(type, f))
Reported(g, code, f) == Has(rPipe[g], Report(code, f))
Replied(g, type, f)  == Has(toSend[g], Msg(type, f))

\* The manager of connection g has flow f at hand.
Handles(g, f) == manager[g].flow = f /\ manager[g].pc # "exited"
\* Flow f is counted in its channel.
Holds(f) == sigChan[f] \in Chans /\ f \in holders[sigChan[f]]
\* Flow f holds the channel of connection g and its verdict is still to come.
Pending(f, g) ==
  /\ Holds(f) /\ chanSock[sigChan[f]] = g
  /\ parser[f] = "waiting" /\ parserPipe[f] = <<>>
  /\ \A h \in Flows : ~Handles(h, f)

\* A manager that still has its channel: it has not got past CloseChannel.
LivePCs == {"idle", "closedErr", "closing", "releasing", "notify"}
\* signalChannels[]: every slot counts exactly the flows that were given its chanId and have
\* not left; it has a socket as long as it has flows, and the manager of that socket lives.
\* A manager that is about to leave a channel for a flow has that flow there, and one that
\* releases its channel has nobody there.
ChannelsKept ==
  /\ \A c \in Chans :
       /\ chanFlows[c] = Cardinality(holders[c])
       /\ \A f \in holders[c] :
            /\ sigChan[f] = c /\ parser[f] \in {"attached", "waiting", "ended"}
            /\ chanSock[c] # NoFlow /\ Dest[chanSock[c]] = Dest[f]
       /\ chanSock[c] # NoFlow =>
            sigChan[chanSock[c]] = c /\ manager[chanSock[c]].pc \in LivePCs
  /\ \A g \in Flows :
       /\ parser[g] \in {"idle", "connecting", "naming"} => manager[g].pc = "none"
       /\ manager[g].pc \in LivePCs => chanSock[sigChan[g]] = g
       /\ manager[g].pc \in {"closedErr", "closing"} => manager[g].flow \in holders[sigChan[g]]
       /\ manager[g].pc = "releasing" =>
            /\ holders[sigChan[g]] = {}
            /\ sigChan[manager[g].flow] = sigChan[g] /\ Dest[manager[g].flow] = Dest[g]

\* The table of a session holds a cancelled data thread only while the session waits for
\* the mutex of its port, and then one: the flow of the CLOSED_FLOW or CLOSED_ERR at hand.
SessionsKept ==
  \A g \in Flows : \A f \in table[g] : thread[f] = "cancelled" =>
    /\ \/ session[g] = "closingFlow" /\ sender[f] = "finished"
       \/ session[g] = "closingErr" /\ sender[f] = "failed"
    /\ \A e \in table[g] : thread[e] = "cancelled" => e = f

\* Flow f as its flowParser sees it: once it has handed the flow to the manager it is
\* in the channel, or a manager has its verdict at hand, or the verdict is in its pipe.
ParserPart(f) ==
  /\ parser[f] \notin {"waiting", "ended"} => thread[f] = "none"
  /\ parser[f] = "attached" => Holds(f)
  /\ parser[f] = "waiting" =>
       \/ Holds(f)
       \/ parserPipe[f] # <<>>
       \/ \E g \in Flows : /\ Handles(g, f) /\ manager[g].code # "ERR2"
                           /\ manager[g].pc \in {"releasing", "notify", "lastNotify"}
  /\ parserPipe[f] # <<>> =>
       /\ parser[f] = "waiting" /\ Len(parserPipe[f]) = 1
       /\ \A g \in Flows : Handles(g, f) => manager[g].code = "ERR2"
       /\ Head(parserPipe[f]) = "ERR2" <=> sender[f] = "failed"
  /\ outcome[f] # "none" => parser[f] = "ended"

\* Flow f as a manager has it at hand.  Only a flow whose sender failed (ERRFLOW) is told
\* first and leaves later; all others leave first, and their data thread has ended.
HandledPart(f) ==
  \A g \in Flows : Handles(g, f) =>
    /\ home[f] = g
    /\ IF manager[g].code = "ERR2"
       THEN /\ manager[g].pc \in {"closedErr", "closing", "releasing"}
            /\ sender[f] = "failed"
            /\ parserPipe[f] # <<>> \/ parser[f] = "ended"
       ELSE /\ manager[g].pc \in {"closing", "releasing", "notify", "lastNotify"}
            /\ sender[f] # "failed"
            /\ parser[f] = "waiting" /\ parserPipe[f] = <<>>
            /\ thread[f] \in {"reaped", "cancelled"} /\ f \notin table[g]

\* The data threads that a flow sender can have at the other end.
ThreadsOf(pc) ==
  CASE pc = "none"     -> {"none", "starting", "listening", "failed", "reaped"}
    [] pc = "setup"    -> {"listening"}
    [] pc = "sending"  -> {"listening", "receiving", "failed", "reaped"}
    [] pc = "finished" -> {"listening", "receiving", "failed", "reaped", "cancelled"}
    [] pc = "failed"   -> {"listening", "cancelled"}

\* Flow f at its receiver: its thread is in the table of the session that started it, and
\* a flow of the table whose sender has not failed still waits for its verdict.
ThreadPart(f) ==
  /\ thread[f] \in ThreadsOf(sender[f])
  /\ thread[f] = "none" =>
       /\ parserPipe[f] = <<>>
       /\ \A g \in Flows : f \notin table[g] /\ ~Handles(g, f)
  /\ thread[f] \in Alive => home[f] \in Flows /\ f \in table[home[f]]
  /\ \A g \in Flows : f \in table[g] =>
       /\ home[f] = g /\ thread[f] \in Alive \cup {"cancelled"}
       /\ sender[f] # "failed" => Pending(f, g)

\* What the pipe of a channel says about flow f: at most one message, NEWFLOW before the
\* receiver knows the flow, ENDFLOW and ERRFLOW after its sender has stopped.
PipePart(f) ==
  \A c \in Chans :
    /\ Once(chanPipe[c], PipeAbout(f))
    /\ OnPipeTo(c, "NEWFLOW", f) =>
         /\ thread[f] = "none" /\ sigChan[f] = c /\ Pending(f, chanSock[c])
         /\ \A g \in Flows : ~Asked(g, "SEND_FLOW", f)
    /\ OnPipeTo(c, "ENDFLOW", f) => sender[f] = "finished"
    /\ OnPipeTo(c, "ERRFLOW", f) =>
         /\ sender[f] = "failed" /\ thread[f] = "listening"
         /\ sigChan[f] = c /\ Pending(f, home[f])

\* What the receiver has not read about flow f: it has not started what SEND_FLOW asks for,
\* and CLOSED_FLOW and CLOSED_ERR follow the end of the sender.
RequestPart(f) ==
  \A g \in Flows :
    /\ Once(toRecv[g], {Msg("SEND_FLOW", f)})
    /\ Asked(g, "SEND_FLOW", f) => thread[f] = "none" /\ Pending(f, g)
    /\ Asked(g, "CLOSED_FLOW", f) => sender[f] = "finished"
    /\ Asked(g, "CLOSED_ERR", f) =>
         sender[f] = "failed" /\ (parserPipe[f] # <<>> \/ parser[f] = "ended")

\* What the session has not read in its rPipe about flow f: at most one report, which says
\* what the data thread is now.
ReportPart(f) ==
  \A g \in Flows :
    /\ Once(rPipe[g], ReportsAbout(f))
    /\ Reported(g, "OK", f) => home[f] = g /\ thread[f] = "listening" /\ sender[f] = "none"
    /\ Reported(g, "ERR1", f) \/ Reported(g, "ERR2", f) =>
         home[f] = g /\ thread[f] = "failed" /\ sender[f] = "none"
    /\ Reported(g, "ERR_SOCK", f) =>
         /\ home[f] = g /\ thread[f] \in {"failed", "cancelled"}
         /\ sender[f] \in {"sending", "finished"}

\* What the manager has not read about flow f: at most one reply.  ACK_SEND_FLOW comes before
\* the sender starts, and an answer after the flow has left the table.
ReplyPart(f) ==
  \A g \in Flows :
    /\ Once(toSend[g], RepliesAbout(f))
    /\ Replied(g, "ACK_SEND_FLOW", f) =>
         /\ home[f] = g /\ thread[f] = "listening" /\ sender[f] = "none"
         /\ ~Reported(g, "OK", f)
    /\ \A type \in AnswerTypes : Replied(g, type, f) =>
         /\ home[f] = g /\ thread[f] \in {"reaped", "cancelled"} /\ f \notin table[g]
         /\ sender[f] # "failed" /\ Pending(f, g)

\* What holds of every flow, whoever moves.
FlowKept(f) ==
  /\ ParserPart(f) /\ HandledPart(f) /\ ThreadPart(f)
  /\ PipePart(f) /\ RequestPart(f) /\ ReportPart(f) /\ ReplyPart(f)

\* The inductive invariant on which all proofs about the two programs rest, with ChannelInv
\* (the types, and what `mutex` protects).
FlowsServed == ChannelsKept /\ SessionsKept /\ \A f \in Flows : FlowKept(f)

FlowInv == ChannelInv /\ FlowsServed
-----------------------------------------------------------------------------
(* Queues: what read and write do to what they hold. *)

\* Queue r holds no message of M that q does not hold, and not more of them.
Fewer(q, r, M) ==
  /\ \A m \in M : Has(r, m) => Has(q, m)
  /\ Once(q, M) => Once(r, M)

\* What write() and send() do to a queue.
LEMMA AppendQ ==
  ASSUME NEW S, NEW q \in Seq(S), NEW x \in S
  PROVE  /\ \A m : Has(Append(q, x), m) <=> Has(q, m) \/ m = x
         /\ \A M : x \notin M => Fewer(q, Append(q, x), M)
         /\ \A M : (\A m \in M : ~Has(q, m)) => Once(Append(q, x), M)
<1> DEFINE r == Append(q, x)
<1>1. /\ DOMAIN r = 1 .. Len(q) + 1 /\ DOMAIN q = 1 .. Len(q) /\ Len(q) \in Nat
      /\ \A i \in 1 .. Len(q) : r[i] = q[i]
      /\ r[Len(q) + 1] = x
  OBVIOUS
<1> HIDE DEF r
<1>2. \A m : Has(r, m) <=> Has(q, m) \/ m = x
  BY <1>1 DEF Has
<1>3. ASSUME NEW M, \A m \in M : ~Has(q, m)
      PROVE  Once(r, M)
  <2>1. \A i \in DOMAIN r : r[i] \in M => i = Len(q) + 1
    BY <1>1, <1>3 DEF Has
  <2> QED
    BY <2>1 DEF Once
<1>4. ASSUME NEW M, x \notin M
      PROVE  Fewer(q, r, M)
  <2>1. \A i \in DOMAIN r : r[i] \in M => i \in DOMAIN q /\ q[i] = r[i]
    BY <1>1, <1>4
  <2>2. Once(q, M) => Once(r, M)
    BY <2>1 DEF Once
  <2> QED
    BY <1>2, <1>4, <2>2 DEF Fewer
<1> QED
  BY <1>2, <1>3, <1>4 DEF r

\* What read() and recv() do to a queue.
LEMMA TailQ ==
  ASSUME NEW S, NEW q \in Seq(S), q # <<>>
  PROVE  /\ Has(q, Head(q))
         /\ \A M : Fewer(q, Tail(q), M)
         /\ \A M : Once(q, M) /\ Head(q) \in M => \A m \in M : ~Has(Tail(q), m)
<1> DEFINE r == Tail(q)
<1>1. /\ DOMAIN r = 1 .. Len(q) - 1 /\ DOMAIN q = 1 .. Len(q) /\ Len(q) \in Nat \ {0}
      /\ \A i \in 1 .. Len(q) - 1 : r[i] = q[i + 1]
      /\ Head(q) = q[1]
  OBVIOUS
<1> HIDE DEF r
<1>2. Has(q, Head(q))
  BY <1>1 DEF Has
<1>3. \A i \in DOMAIN r : i + 1 \in DOMAIN q /\ r[i] = q[i + 1]
  BY <1>1
<1>4. ASSUME NEW M
      PROVE  Fewer(q, r, M)
  <2>1. \A m : Has(r, m) => Has(q, m)
    BY <1>3 DEF Has
  <2>2. ASSUME Once(q, M), NEW i \in DOMAIN r, NEW j \in DOMAIN r, r[i] \in M, r[j] \in M
        PROVE  i = j
    <3>1. i + 1 = j + 1
      BY <1>3, <2>2 DEF Once
    <3>2. i \in Int /\ j \in Int
      BY <1>1
    <3> QED
      BY <3>1, <3>2
  <2> QED
    BY <2>1, <2>2 DEF Fewer, Once
<1>5. ASSUME NEW M, Once(q, M), Head(q) \in M, NEW m \in M, Has(r, m)
      PROVE  FALSE
  <2>1. PICK i \in DOMAIN r : r[i] = m
    BY <1>5 DEF Has
  <2>2. i + 1 \in DOMAIN q /\ q[i + 1] \in M /\ 1 \in DOMAIN q /\ q[1] \in M
    BY <1>1, <1>3, <1>5, <2>1
  <2>3. i + 1 = 1 /\ i \in 1 .. Len(q) - 1
    BY <1>1, <1>5, <2>2 DEF Once
  <2> QED
    BY <2>3
<1> QED
  BY <1>2, <1>4, <1>5 DEF r

\* Empty queues, and queues that stay.
LEMMA EmptyQ ==
  /\ \A m : ~Has(<<>>, m)
  /\ \A M : Once(<<>>, M)
  /\ \A q, M : Fewer(q, q, M) /\ Fewer(q, <<>>, M)
  BY DEF Has, Once, Fewer
-----------------------------------------------------------------------------
(* Frames: flows that a step does not concern. *)

\* Nothing that concerns flow e moves: its threads and its entries in the tables,
SameThreads(e) ==
  /\ \/ parser'[e] = parser[e]
     \/ /\ parser[e] \in {"idle", "connecting", "naming"}
        /\ parser'[e] \in {"connecting", "naming", "ended"}
  /\ parserPipe'[e] = parserPipe[e] /\ outcome'[e] = outcome[e]
  /\ sigChan'[e] = sigChan[e] /\ sender'[e] = sender[e]
  /\ thread'[e] = thread[e] /\ home'[e] = home[e]
  /\ \A g \in Flows : e \in table'[g] <=> e \in table[g]

\* the manager that has it at hand and its channel,
SameHandling(e) ==
  /\ \A g \in Flows : manager'[g] = manager[g] \/ ~(Handles(g, e) \/ Handles(g, e)')
  /\ Holds(e) => Holds(e)' /\ chanSock'[sigChan[e]] = chanSock[sigChan[e]]

\* and what is said about it in pipes and connections, of which some may be read.
FewerMessages(e) ==
  /\ \A c \in Chans : Fewer(chanPipe[c], chanPipe'[c], PipeAbout(e))
  /\ \A g \in Flows :
       /\ \A type \in {"SEND_FLOW", "CLOSED_FLOW", "CLOSED_ERR"} :
            Fewer(toRecv[g], toRecv'[g], {Msg(type, e)})
       /\ Fewer(rPipe[g], rPipe'[g], ReportsAbout(e))
       /\ Fewer(toSend[g], toSend'[g], RepliesAbout(e))

\* The three together.
SameView(e) == SameThreads(e) /\ SameHandling(e) /\ FewerMessages(e)

\* A flow that nothing concerns goes on waiting for its verdict.
LEMMA PendingFrame ==
  ASSUME NEW e \in Flows, SameView(e), NEW g, Pending(e, g)
  PROVE  Pending(e, g)'
  BY DEF SameView, SameThreads, SameHandling, Pending, Handles

\* A message that is not written is not there.
LEMMA MessageFrame ==
  ASSUME NEW e \in Flows, FewerMessages(e)
  PROVE  /\ \A c \in Chans : 
              /\ Once(chanPipe[c], PipeAbout(e)) => Once(chanPipe[c], PipeAbout(e))'
              /\ \A code \in PipeCodes : OnPipeTo(c, code, e)' => OnPipeTo(c, code, e)
         /\ \A g \in Flows :
              /\ Once(toRecv[g], {Msg("SEND_FLOW", e)}) => Once(toRecv[g], {Msg("SEND_FLOW", e)})'
              /\ \A type \in {"SEND_FLOW", "CLOSED_FLOW", "CLOSED_ERR"} :
                   Asked(g, type, e)' => Asked(g, type, e)
              /\ Once(rPipe[g], ReportsAbout(e)) => Once(rPipe[g], ReportsAbout(e))'
              /\ \A code \in ReportCodes : Reported(g, code, e)' => Reported(g, code, e)
              /\ Once(toSend[g], RepliesAbout(e)) => Once(toSend[g], RepliesAbout(e))'
              /\ \A type \in {"ACK_SEND_FLOW"} \cup AnswerTypes :
                   Replied(g, type, e)' => Replied(g, type, e)
<1>1. \A c \in Chans : 
              /\ Once(chanPipe[c], PipeAbout(e)) => Once(chanPipe[c], PipeAbout(e))'
              /\ \A code \in PipeCodes : OnPipeTo(c, code, e)' => OnPipeTo(c, code, e)
  BY DEF FewerMessages, Fewer, PipeAbout, OnPipeTo
<1>2. \A g \in Flows :
              /\ Once(toRecv[g], {Msg("SEND_FLOW", e)}) => Once(toRecv[g], {Msg("SEND_FLOW", e)})'
              /\ \A type \in {"SEND_FLOW", "CLOSED_FLOW", "CLOSED_ERR"} :
                   Asked(g, type, e)' => Asked(g, type, e)
  BY DEF FewerMessages, Fewer, Asked, Msg
<1>3. \A g \in Flows :
              /\ Once(rPipe[g], ReportsAbout(e)) => Once(rPipe[g], ReportsAbout(e))'
              /\ \A code \in ReportCodes : Reported(g, code, e)' => Reported(g, code, e)
  BY DEF FewerMessages, Fewer, Reported, Report, ReportsAbout
<1>4. \A g \in Flows :
              /\ Once(toSend[g], RepliesAbout(e)) => Once(toSend[g], RepliesAbout(e))'
              /\ \A type \in {"ACK_SEND_FLOW"} \cup AnswerTypes :
                   Replied(g, type, e)' => Replied(g, type, e)
  BY DEF FewerMessages, Fewer, Replied, Msg, RepliesAbout
<1> QED
  BY <1>1, <1>2, <1>3, <1>4

\* What holds of a flow holds after every step that does not concern it.
LEMMA Frame ==
  ASSUME NEW e \in Flows, FlowKept(e), SameView(e)
  PROVE  FlowKept(e)'
<1> USE DEF FlowKept, SameView
<1>0. \A g : Pending(e, g) => Pending(e, g)'
  BY PendingFrame
<1>1. ParserPart(e)'
  BY DEF ParserPart, SameThreads, SameHandling, Handles
<1>2. HandledPart(e)'
  BY DEF HandledPart, SameThreads, SameHandling, Handles
<1>3. ThreadPart(e)'
  BY <1>0 DEF ThreadPart, SameThreads, SameHandling, Handles
<1>4. PipePart(e)'
  BY <1>0, MessageFrame DEF PipePart, SameThreads, SameHandling, PipeCodes, Pending
<1>5. RequestPart(e)'
  BY <1>0, MessageFrame DEF RequestPart, SameThreads
<1>6. ReportPart(e)'
  BY <1>0, MessageFrame DEF ReportPart, SameThreads, ReportCodes
<1>7. ReplyPart(e)'
  BY <1>0, MessageFrame DEF ReplyPart, SameThreads, ReportCodes
<1> QED
  BY <1>1, <1>2, <1>3, <1>4, <1>5, <1>6, <1>7

\* The types of the variables, from TypeOK.
LEMMA Types ==
  ASSUME ChannelInv
  PROVE  /\ mutex \in Owners
         /\ chanSock \in [Chans -> Flows \cup {NoFlow}]
         /\ chanFlows \in [Chans -> Int]
         /\ chanPipe \in [Chans -> Seq(PipeMessages)]
         /\ holders \in [Chans -> SUBSET Flows]
         /\ parser \in [Flows -> ParserPCs]
         /\ outcome \in [Flows -> ResultCodes \cup {"none"}]
         /\ sigChan \in [Flows -> Chans \cup {NumChans}]
         /\ parserPipe \in [Flows -> Seq(ResultCodes)]
         /\ manager \in [Flows -> Managers]
         /\ sender \in [Flows -> SenderPCs]
         /\ toRecv \in [Flows -> Seq(Messages)]
         /\ toSend \in [Flows -> Seq(Messages)]
         /\ session \in [Flows -> SessionPCs]
         /\ table \in [Flows -> SUBSET Flows]
         /\ rPipe \in [Flows -> Seq(Reports)]
         /\ thread \in [Flows -> ThreadPCs]
         /\ home \in [Flows -> Flows \cup {NoFlow}]
         /\ NoFlow \notin Flows
  BY FlowAssumption DEF ChannelInv, TypeOK, NetTypeOK, SendTypeOK, ChanTypeOK, ThreadTypeOK,
     RecvTypeOK

\* A queue that is unchanged, or has lost its oldest message, or has a message that
\* is not about flow e added, has no more messages about e.
LEMMA QuietRequests ==
  ASSUME ChannelInv, NEW e \in Flows,
         \/ toRecv' = toRecv
         \/ \E g \in Flows : toRecv[g] # <<>> /\ ReceiverTakes(g)
         \/ \E g \in Flows, m \in Messages : m.flow # e /\ SenderSends(g, m)
  PROVE  \A g \in Flows : \A type \in {"SEND_FLOW", "CLOSED_FLOW", "CLOSED_ERR"} :
            Fewer(toRecv[g], toRecv'[g], {Msg(type, e)})
<1>1. toRecv \in [Flows -> Seq(Messages)]
  BY Types
<1>2. CASE toRecv' = toRecv
  BY <1>2, EmptyQ
<1>3. ASSUME NEW g \in Flows, toRecv[g] # <<>>, ReceiverTakes(g)
      PROVE  \A y \in Flows : \A M : Fewer(toRecv[y], toRecv'[y], M)
  <2>1. /\ toRecv[g] \in Seq(Messages) /\ toRecv'[g] = Tail(toRecv[g])
        /\ \A y \in Flows : y # g => toRecv'[y] = toRecv[y]
    BY <1>1, <1>3 DEF ReceiverTakes
  <2> QED
    BY <1>3, <2>1, TailQ, EmptyQ
<1>4. ASSUME NEW g \in Flows, NEW m \in Messages, m.flow # e, SenderSends(g, m)
      PROVE  \A y \in Flows : \A type : Fewer(toRecv[y], toRecv'[y], {Msg(type, e)})
  <2>1. /\ toRecv[g] \in Seq(Messages) /\ toRecv'[g] = Append(toRecv[g], m)
        /\ \A y \in Flows : y # g => toRecv'[y] = toRecv[y]
    BY <1>1, <1>4 DEF SenderSends
  <2>2. \A type : m \notin {Msg(type, e)}
    BY <1>4 DEF Msg
  <2>3. \A M : m \notin M => Fewer(toRecv[g], toRecv'[g], M)
    BY <2>1, <2>2, AppendQ
  <2> QED
    BY <2>1, <2>2, <2>3, EmptyQ
<1> QED
  BY <1>2, <1>3, <1>4

\* The same for what the receiver writes on a connection.
LEMMA QuietReplies ==
  ASSUME ChannelInv, NEW e \in Flows,
         \/ toSend' = toSend
         \/ \E g \in Flows : toSend[g] # <<>> /\ SenderTakes(g)
         \/ \E g \in Flows, m \in Messages : m.flow # e /\ ReceiverSends(g, m)
  PROVE  \A g \in Flows : Fewer(toSend[g], toSend'[g], RepliesAbout(e))
<1>1. toSend \in [Flows -> Seq(Messages)]
  BY Types
<1>2. CASE toSend' = toSend
  BY <1>2, EmptyQ
<1>3. ASSUME NEW g \in Flows, toSend[g] # <<>>, SenderTakes(g)
      PROVE  \A y \in Flows : \A M : Fewer(toSend[y], toSend'[y], M)
  <2>1. /\ toSend[g] \in Seq(Messages) /\ toSend'[g] = Tail(toSend[g])
        /\ \A y \in Flows : y # g => toSend'[y] = toSend[y]
    BY <1>1, <1>3 DEF SenderTakes
  <2> QED
    BY <1>3, <2>1, TailQ, EmptyQ
<1>4. ASSUME NEW g \in Flows, NEW m \in Messages, m.flow # e, ReceiverSends(g, m)
      PROVE  \A y \in Flows : Fewer(toSend[y], toSend'[y], RepliesAbout(e))
  <2>1. /\ toSend[g] \in Seq(Messages) /\ toSend'[g] = Append(toSend[g], m)
        /\ \A y \in Flows : y # g => toSend'[y] = toSend[y]
    BY <1>1, <1>4 DEF ReceiverSends
  <2>2. m \notin RepliesAbout(e)
    BY <1>4 DEF RepliesAbout
  <2>3. \A M : m \notin M => Fewer(toSend[g], toSend'[g], M)
    BY <2>1, <2>2, AppendQ
  <2> QED
    BY <2>1, <2>2, <2>3, EmptyQ
<1> QED
  BY <1>2, <1>3, <1>4

\* The same for the pipes of the channels.
LEMMA QuietChannelPipe ==
  ASSUME ChannelInv, NEW e \in Flows,
         \/ chanPipe' = chanPipe
         \/ \E c \in Chans : chanPipe[c] # <<>> /\ chanPipe' = [chanPipe EXCEPT ![c] = Tail(@)]
         \/ \E c \in Chans : chanPipe' = [chanPipe EXCEPT ![c] = <<>>]
         \/ \E c \in Chans, code \in PipeCodes, f \in Flows : f # e /\ PushToChannel(c, code, f)
  PROVE  \A c \in Chans : Fewer(chanPipe[c], chanPipe'[c], PipeAbout(e))
<1>1. chanPipe \in [Chans -> Seq(PipeMessages)]
  BY Types
<1>2. CASE chanPipe' = chanPipe
  BY <1>2, EmptyQ
<1>3. ASSUME NEW c \in Chans, chanPipe[c] # <<>>, chanPipe' = [chanPipe EXCEPT ![c] = Tail(@)]
      PROVE  \A y \in Chans : \A M : Fewer(chanPipe[y], chanPipe'[y], M)
  <2>1. /\ chanPipe[c] \in Seq(PipeMessages) /\ chanPipe'[c] = Tail(chanPipe[c])
        /\ \A y \in Chans : y # c => chanPipe'[y] = chanPipe[y]
    BY <1>1, <1>3
  <2> QED
    BY <1>3, <2>1, TailQ, EmptyQ
<1>4. ASSUME NEW c \in Chans, chanPipe' = [chanPipe EXCEPT ![c] = <<>>]
      PROVE  \A y \in Chans : \A M : Fewer(chanPipe[y], chanPipe'[y], M)
  <2>1. \A y \in Chans : chanPipe'[y] = chanPipe[y] \/ chanPipe'[y] = <<>>
    BY <1>1, <1>4
  <2> QED
    BY <2>1, EmptyQ
<1>5. ASSUME NEW c \in Chans, NEW code \in PipeCodes, NEW f \in Flows, f # e,
             PushToChannel(c, code, f), chanPipe' # chanPipe
      PROVE  \A y \in Chans : Fewer(chanPipe[y], chanPipe'[y], PipeAbout(e))
  <2> DEFINE m == [code |-> code, flow |-> f]
  <2>1. /\ chanPipe[c] \in Seq(PipeMessages) /\ chanPipe'[c] = Append(chanPipe[c], m)
        /\ \A y \in Chans : y # c => chanPipe'[y] = chanPipe[y]
    BY <1>1, <1>5 DEF PushToChannel
  <2>2. m \in PipeMessages /\ m \notin PipeAbout(e)
    BY <1>5 DEF PipeMessages, PipeAbout
  <2> HIDE DEF m
  <2>3. \A M : m \notin M => Fewer(chanPipe[c], chanPipe'[c], M)
    BY <2>1, <2>2, AppendQ
  <2> QED
    BY <2>1, <2>2, <2>3, EmptyQ
<1> QED
  BY <1>2, <1>3, <1>4, <1>5

\* The same for the rPipe of a session.
LEMMA QuietReports ==
  ASSUME ChannelInv, NEW e \in Flows,
         \/ rPipe' = rPipe
         \/ \E g \in Flows : rPipe[g] # <<>> /\ rPipe' = [rPipe EXCEPT ![g] = Tail(@)]
         \/ \E code \in ReportCodes, f \in Flows : f # e /\ home[f] \in Flows /\ PushReport(f, code)
  PROVE  \A g \in Flows : Fewer(rPipe[g], rPipe'[g], ReportsAbout(e))
<1>1. rPipe \in [Flows -> Seq(Reports)]
  BY Types
<1>2. CASE rPipe' = rPipe
  BY <1>2, EmptyQ
<1>3. ASSUME NEW g \in Flows, rPipe[g] # <<>>, rPipe' = [rPipe EXCEPT ![g] = Tail(@)]
      PROVE  \A y \in Flows : \A M : Fewer(rPipe[y], rPipe'[y], M)
  <2>1. /\ rPipe[g] \in Seq(Reports) /\ rPipe'[g] = Tail(rPipe[g])
        /\ \A y \in Flows : y # g => rPipe'[y] = rPipe[y]
    BY <1>1, <1>3
  <2> QED
    BY <1>3, <2>1, TailQ, EmptyQ
<1>5. ASSUME NEW code \in ReportCodes, NEW f \in Flows, f # e, home[f] \in Flows,
             PushReport(f, code), rPipe' # rPipe
      PROVE  \A y \in Flows : Fewer(rPipe[y], rPipe'[y], ReportsAbout(e))
  <2> DEFINE m == Report(code, f)
             g == home[f]
  <2>1. /\ rPipe[g] \in Seq(Reports) /\ rPipe'[g] = Append(rPipe[g], m)
        /\ \A y \in Flows : y # g => rPipe'[y] = rPipe[y]
    BY <1>1, <1>5 DEF PushReport
  <2>2. m \in Reports /\ m \notin ReportsAbout(e) /\ g \in Flows
    BY <1>5 DEF Reports, ReportsAbout, Report
  <2> HIDE DEF m, g
  <2>3. \A M : m \notin M => Fewer(rPipe[g], rPipe'[g], M)
    BY <2>1, <2>2, AppendQ
  <2> QED
    BY <2>1, <2>2, <2>3, EmptyQ
<1> QED
  BY <1>2, <1>3, <1>5

\* The three parts of FlowsServed when nothing they are about moves.
LEMMA ChannelsFrame ==
  ASSUME FlowInv, UNCHANGED <<chanSock, chanFlows, holders, sigChan, manager>>,
         \A f \in Flows : \/ parser'[f] = parser[f]
                          \/ parser[f] \in {"idle", "connecting", "naming"}
                          \/ parser'[f] \in {"attached", "waiting", "ended"}
  PROVE  ChannelsKept'
<1>1. \A c \in Chans : holders[c] \subseteq Flows
  BY Types DEF FlowInv
<1> QED
  BY <1>1 DEF FlowInv, FlowsServed, ChannelsKept

\* A session that is not closing a flow has no cancelled thread in its table.
LEMMA SessionsFrame ==
  ASSUME FlowInv, UNCHANGED <<table, thread, sender>>,
         \A g \in Flows : session'[g] = session[g] \/ session[g] \notin Closing
  PROVE  SessionsKept'
  BY DEF FlowInv, FlowsServed, SessionsKept, Closing

\* A step that moves no thread of a flow and writes only messages without a flow keeps
\* the invariant.
LEMMA QuietStep ==
  ASSUME FlowInv, NEW f \in Flows,
         \/ parser' = parser
         \/ /\ parser[f] \in {"idle", "connecting", "naming"}
            /\ \E pc \in {"connecting", "naming", "ended"} : SetParser(f, pc),
         UNCHANGED <<outcome, sigChan, parserPipe, chanSock, chanFlows, chanPipe,
                     manager, sender, holders, table, rPipe, thread, home>>,
         \A g \in Flows : session'[g] = session[g] \/ session[g] \notin Closing,
         \/ toRecv' = toRecv
         \/ \E g \in Flows : toRecv[g] # <<>> /\ ReceiverTakes(g)
         \/ \E g \in Flows, t \in PlainTypes : SenderSends(g, Plain(t)),
         \/ toSend' = toSend
         \/ \E g \in Flows : toSend[g] # <<>> /\ SenderTakes(g)
         \/ \E g \in Flows, t \in PlainTypes : ReceiverSends(g, Plain(t))
  PROVE  FlowsServed'
<1>0. \A e \in Flows : \/ parser'[e] = parser[e]
                       \/ /\ parser[e] \in {"idle", "connecting", "naming"}
                          /\ parser'[e] \in {"connecting", "naming", "ended"}
  BY Types DEF FlowInv, SetParser
<1>1. ChannelsKept'
  BY <1>0, ChannelsFrame
<1>2. SessionsKept'
  BY SessionsFrame
<1>3. ASSUME NEW e \in Flows
      PROVE  FlowKept(e)'
  <2>1. \A t \in PlainTypes : Plain(t) \in Messages /\ Plain(t).flow # e
    BY MessageKinds, FlowAssumption DEF Plain
  <2>2. FewerMessages(e)
    <3>1. ChannelInv
      BY DEF FlowInv
    <3>2. /\ \A c \in Chans : Fewer(chanPipe[c], chanPipe'[c], PipeAbout(e))
          /\ \A g \in Flows : Fewer(rPipe[g], rPipe'[g], ReportsAbout(e))
      BY EmptyQ
    <3>3. \A g \in Flows : \A type \in {"SEND_FLOW", "CLOSED_FLOW", "CLOSED_ERR"} :
            Fewer(toRecv[g], toRecv'[g], {Msg(type, e)})
      BY <2>1, <3>1, QuietRequests
    <3>4. \A g \in Flows : Fewer(toSend[g], toSend'[g], RepliesAbout(e))
      BY <2>1, <3>1, QuietReplies
    <3> QED
      BY <3>2, <3>3, <3>4 DEF FewerMessages
  <2>3. SameThreads(e) /\ SameHandling(e)
    BY <1>0 DEF SameThreads, SameHandling, Handles, Holds
  <2>4. FlowKept(e)
    BY DEF FlowInv, FlowsServed
  <2> QED
    BY <2>2, <2>3, <2>4, Frame DEF SameView
<1> QED
  BY <1>1, <1>2, <1>3 DEF FlowsServed

\* Nothing moves that the flows are about: ITGSend exits, or a receiver is stopped.
LEMMA StandStill ==
  ASSUME FlowInv,
         UNCHANGED <<parser, outcome, sigChan, parserPipe, chanSock, chanFlows, chanPipe, holders,
                     manager, sender, table, rPipe, thread, home, session, toRecv, toSend>>
  PROVE  FlowsServed'
<1>1. ChannelsKept'
  BY ChannelsFrame
<1>2. SessionsKept'
  BY SessionsFrame
<1>3. ASSUME NEW e \in Flows
      PROVE  FlowKept(e)'
  <2>1. FewerMessages(e)
    BY EmptyQ DEF FewerMessages
  <2>2. SameThreads(e) /\ SameHandling(e)
    BY DEF SameThreads, SameHandling, Handles, Holds
  <2>3. FlowKept(e)
    BY DEF FlowInv, FlowsServed
  <2> QED
    BY <2>1, <2>2, <2>3, Frame DEF SameView
<1> QED
  BY <1>1, <1>2, <1>3 DEF FlowsServed

\* Such steps of ITGSend: the abnormal ends of the process, and the answer to DISCOVERY.
LEMMA QuietSenderSteps ==
  ASSUME FlowInv, NEW g \in Flows,
         OpenFails(g) \/ AnswerDiscovery(g) \/ ReceiverLost(g) \/ BrokenPipe(g),
         UNCHANGED recvVars
  PROVE  FlowsServed'
<1>1. UNCHANGED <<parser, outcome, sigChan, parserPipe, chanSock, chanFlows, chanPipe,
                  manager, sender, holders, table, rPipe, thread, home, session>>
  BY DEF OpenFails, AnswerDiscovery, ReceiverLost, BrokenPipe, Abort, recvVars,
         threadVars, chanVars
<1>2. CASE AnswerDiscovery(g)
  <2>1. toSend[g] # <<>> /\ SenderTakes(g)
    BY <1>2 DEF AnswerDiscovery, OnSocket
  <2>2. toRecv' = toRecv \/ SenderSends(g, Plain("ACK_DISCOVERY"))
    BY <1>2 DEF AnswerDiscovery
  <2>3. "ACK_DISCOVERY" \in PlainTypes
    BY DEF PlainTypes
  <2> QED
    BY <1>1, <2>1, <2>2, <2>3, QuietStep
<1>3. CASE ~AnswerDiscovery(g)
  <2>1. UNCHANGED <<toRecv, toSend>>
    BY <1>3 DEF OpenFails, ReceiverLost, BrokenPipe, Abort
  <2> QED
    BY <1>1, <2>1, QuietStep
<1> QED
  BY <1>2, <1>3

\* Such steps of ITGRecv: a session that begins or ends, and its log file.
LEMMA QuietReceiverSteps ==
  ASSUME FlowInv, NEW g \in Flows,
         \/ AcceptSession(g) \/ Connected(g) \/ NameLog(g) \/ Release(g)
         \/ DiscoveryAnswered(g) \/ Discover(g) \/ SenderDown(g),
         UNCHANGED sendVars
  PROVE  FlowsServed'
<1>1. UNCHANGED <<parser, outcome, sigChan, parserPipe, chanSock, chanFlows, chanPipe,
                  manager, sender, holders, table, rPipe, thread, home>>
  BY DEF AcceptSession, Connected, NameLog, Release, DiscoveryAnswered, Discover, SenderDown,
     sendVars, threadVars, chanVars
<1>2. \A h \in Flows : session'[h] = session[h] \/ session[h] \notin Closing
  <2>1. session' = session \/ session[g] \in {"none", "connect", "serve"}
    BY DEF AcceptSession, Connected, NameLog, Release, DiscoveryAnswered, Discover, SenderDown,
       OnMessage, Serving
  <2>2. \A h \in Flows : h # g => session'[h] = session[h]
    BY Types DEF FlowInv, AcceptSession, Connected, NameLog, Release, DiscoveryAnswered, Discover,
       SenderDown
  <2> QED
    BY <2>1, <2>2 DEF Closing
<1>3. toRecv' = toRecv \/ (toRecv[g] # <<>> /\ ReceiverTakes(g))
  BY DEF AcceptSession, Connected, NameLog, Release, DiscoveryAnswered, Discover, SenderDown,
     OnMessage, netVars
<1>4. toSend' = toSend \/ \E t \in PlainTypes : ReceiverSends(g, Plain(t))
  <2>1. {"ACK_CONNECT", "ACK_SEND_NAME_LOG", "ACK_RELEASE", "DISCOVERY"} \subseteq PlainTypes
    BY DEF PlainTypes
  <2> QED
    BY <2>1 DEF AcceptSession, Connected, NameLog, Release, DiscoveryAnswered, Discover,
       SenderDown, netVars
<1> QED
  BY <1>1, <1>2, <1>3, <1>4, QuietStep

\* Such steps of flowParser: identifySignalManager opens a connection, or fails to.
LEMMA OpeningSteps ==
  ASSUME FlowInv, NEW f \in Flows,
         OpenConnection(f) \/ LogRequestFails(f) \/ (ConnectAnswered(f) /\ LogRequested),
         UNCHANGED recvVars
  PROVE  FlowsServed'
<1>1. UNCHANGED <<outcome, sigChan, parserPipe, chanSock, chanFlows, chanPipe,
                  manager, sender, holders, table, rPipe, thread, home, session>>
  BY DEF OpenConnection, LogRequestFails, ConnectAnswered, recvVars, chanVars
<1>2. /\ parser[f] \in {"idle", "connecting", "naming"}
      /\ \E pc \in {"connecting", "naming", "ended"} : SetParser(f, pc)
  BY DEF OpenConnection, LogRequestFails, ConnectAnswered
<1>3. toSend' = toSend \/ (toSend[f] # <<>> /\ SenderTakes(f))
  BY DEF OpenConnection, LogRequestFails, ConnectAnswered, Answered
<1>4. toRecv' = toRecv \/ \E t \in PlainTypes : SenderSends(f, Plain(t))
  <2>1. {"CONNECT", "SEND_NAME_LOG"} \subseteq PlainTypes
    BY DEF PlainTypes
  <2> QED
    BY <2>1 DEF OpenConnection, LogRequestFails, ConnectAnswered, SendNameLog
<1> QED
  BY <1>1, <1>2, <1>3, <1>4, QuietStep
-----------------------------------------------------------------------------
(* flowParser *)

\* A flow that has not been handed to a manager is not mentioned anywhere.
LEMMA FreshFlow ==
  ASSUME ChannelInv, NEW f \in Flows, FlowKept(f), parser[f] \notin {"waiting", "ended"}
  PROVE  /\ thread[f] = "none" /\ outcome[f] = "none" /\ sender[f] = "none"
         /\ parserPipe[f] = <<>>
         /\ \A g \in Flows : f \notin table[g] /\ ~Handles(g, f)
         /\ \A c \in Chans, code \in PipeCodes : ~OnPipeTo(c, code, f)
         /\ \A g \in Flows : \A type \in {"SEND_FLOW", "CLOSED_FLOW", "CLOSED_ERR"} : ~Asked(g, type, f)
         /\ \A g \in Flows, code \in ReportCodes : ~Reported(g, code, f)
         /\ \A g \in Flows, type \in {"ACK_SEND_FLOW"} \cup AnswerTypes : ~Replied(g, type, f)
<1> USE DEF FlowKept
<1>1. thread[f] = "none" /\ outcome[f] = "none"
  BY DEF ParserPart
<1>2. sender[f] = "none"
  BY <1>1, Types DEF ThreadPart, ThreadsOf, SenderPCs
<1>3. parserPipe[f] = <<>> /\ \A g \in Flows : f \notin table[g] /\ ~Handles(g, f)
  BY <1>1 DEF ThreadPart
<1>4. \A c \in Chans, code \in PipeCodes : ~OnPipeTo(c, code, f)
  BY <1>1, <1>2 DEF PipePart, PipeCodes, Pending
<1>5. \A g \in Flows : \A type \in {"SEND_FLOW", "CLOSED_FLOW", "CLOSED_ERR"} : ~Asked(g, type, f)
  BY <1>1, <1>2 DEF RequestPart, Pending
<1>6. \A g \in Flows, code \in ReportCodes : ~Reported(g, code, f)
  BY <1>1, <1>2 DEF ReportPart, ReportCodes
<1>7. \A g \in Flows, type \in {"ACK_SEND_FLOW"} \cup AnswerTypes : ~Replied(g, type, f)
  BY <1>1, <1>2 DEF ReplyPart
<1> QED
  BY <1>1, <1>2, <1>3, <1>4, <1>5, <1>6, <1>7

\* A flow that has just got its channel.
LEMMA Attached ==
  ASSUME ChannelInv, NEW f \in Flows, FlowKept(f), parser[f] \notin {"waiting", "ended"},
         parser'[f] = "attached", Holds(f)', \A g \in Flows : ~Handles(g, f)',
         UNCHANGED <<parserPipe, outcome, sender, thread, table>>,
         FewerMessages(f)
  PROVE  FlowKept(f)'
<1>1. /\ thread'[f] = "none" /\ outcome'[f] = "none" /\ sender'[f] = "none" /\ parserPipe'[f] = <<>>
      /\ \A g \in Flows : f \notin table'[g]
      /\ \A c \in Chans, code \in PipeCodes : ~OnPipeTo(c, code, f)'
      /\ \A g \in Flows : \A type \in {"SEND_FLOW", "CLOSED_FLOW", "CLOSED_ERR"} : ~Asked(g, type, f)'
      /\ \A g \in Flows, code \in ReportCodes : ~Reported(g, code, f)'
      /\ \A g \in Flows, type \in {"ACK_SEND_FLOW"} \cup AnswerTypes : ~Replied(g, type, f)'
  BY FreshFlow, MessageFrame
<1>2. /\ \A c \in Chans : Once(chanPipe[c], PipeAbout(f))'
      /\ \A g \in Flows : /\ Once(toRecv[g], {Msg("SEND_FLOW", f)})'
                          /\ Once(rPipe[g], ReportsAbout(f))'
                          /\ Once(toSend[g], RepliesAbout(f))'
  BY MessageFrame DEF FlowKept, PipePart, RequestPart, ReportPart, ReplyPart
<1>3. ParserPart(f)' /\ HandledPart(f)' /\ ThreadPart(f)'
  BY <1>1 DEF ParserPart, HandledPart, ThreadPart, ThreadsOf, Alive
<1>4. PipePart(f)' /\ RequestPart(f)' /\ ReportPart(f)' /\ ReplyPart(f)'
  BY <1>1, <1>2 DEF PipePart, RequestPart, ReportPart, ReplyPart, PipeCodes, ReportCodes
<1> QED
  BY <1>3, <1>4 DEF FlowKept

\* ConnectAnswered and LogAnswered: identifySignalManager registers the connection in a free
\* slot and starts its manager (RegisterChannel).
LEMMA RegisterKeeps ==
  ASSUME FlowInv, NEW f \in Flows, parser[f] \in Opening, Answered(f), RegisterChannel(f),
         UNCHANGED <<toRecv, recvVars>>
  PROVE  FlowsServed'
<1> DEFINE c == First({d \in Chans : chanSock[d] = NoFlow})
<1>0. ChannelInv /\ ChannelsKept /\ SessionsKept /\ \A e \in Flows : FlowKept(e)
  BY DEF FlowInv, FlowsServed
<1>1. c \in Chans /\ chanSock[c] = NoFlow
  <2>1. {d \in Chans : chanSock[d] = NoFlow} # {}
    BY <1>0, FreeSlot
  <2> HIDE DEF c
  <2>2. c \in {d \in Chans : chanSock[d] = NoFlow}
    BY <2>1, FirstIsMember DEF c
  <2> QED
    BY <2>2
<1>2. /\ chanSock' = [chanSock EXCEPT ![c] = f]
      /\ chanFlows' = [chanFlows EXCEPT ![c] = 1]
      /\ holders' = [holders EXCEPT ![c] = {f}]
      /\ chanPipe' = [chanPipe EXCEPT ![c] = <<>>]
      /\ manager' = [manager EXCEPT ![f] = IdleManager]
      /\ sigChan' = [sigChan EXCEPT ![f] = c]
      /\ parser' = [parser EXCEPT ![f] = "attached"]
      /\ UNCHANGED <<process, outcome, parserPipe, sender>>
  BY DEF RegisterChannel, SetParser, SetManager
<1>3. UNCHANGED <<table, thread, rPipe, home, session>>
  BY DEF recvVars
<1> HIDE DEF c
<1>4. holders[c] = {} /\ \A d \in Chans : f \notin holders[d]
  <2>1. holders[c] = {}
    BY <1>0, <1>1 DEF ChannelsKept
  <2>2. parser[f] \notin {"attached", "waiting", "ended"}
    BY DEF Opening
  <2>3. \A d \in Chans : f \notin holders[d]
    BY <1>0, <2>2 DEF ChannelsKept
  <2> QED
    BY <2>1, <2>3
<1>5. manager[f].pc = "none" /\ manager[f].flow = NoFlow
  <2>1. manager[f].pc = "none"
    BY <1>0 DEF ChannelsKept, Opening
  <2>2. manager[f] \in Managers
    BY <1>0, Types
  <2> QED
    BY <2>1, <2>2 DEF Managers, ManagerPCs, Manager, IdleManager
<1>6. parser[f] \notin {"waiting", "ended"} /\ \A g \in Flows : ~Handles(g, f)
  <2>1. parser[f] \notin {"waiting", "ended"}
    BY DEF Opening
  <2> QED
    BY <1>0, <2>1, FreshFlow
<1>7. ChannelsKept'
  <2>1. Cardinality({f}) = 1
    BY FS_Singleton
  <2>2. \A d \in Chans : 
       /\ chanFlows'[d] = Cardinality(holders'[d])
       /\ \A e \in holders'[d] :
            /\ sigChan'[e] = d /\ parser'[e] \in {"attached", "waiting", "ended"}
            /\ chanSock'[d] # NoFlow /\ Dest[chanSock'[d]] = Dest[e]
    BY SMTT(30), <1>0, <1>1, <1>2, <1>4, <2>1, Types DEF ChannelsKept
  <2>3. \A d \in Chans : chanSock'[d] # NoFlow =>
            sigChan'[chanSock'[d]] = d /\ manager'[chanSock'[d]].pc \in LivePCs
    BY <1>0, <1>1, <1>2, <1>5, Types DEF ChannelsKept, LivePCs, IdleManager, Manager
  <2>4. \A g \in Flows :
       /\ parser'[g] \in {"idle", "connecting", "naming"} => manager'[g].pc = "none"
       /\ manager'[g].pc \in LivePCs => chanSock'[sigChan'[g]] = g
       /\ manager'[g].pc \in {"closedErr", "closing"} => manager'[g].flow \in holders'[sigChan'[g]]
       /\ manager'[g].pc = "releasing" =>
            /\ holders'[sigChan'[g]] = {}
            /\ sigChan'[manager'[g].flow] = sigChan'[g] /\ Dest[manager'[g].flow] = Dest[g]
    <3> TAKE g \in Flows
    <3>1. CASE g = f
      BY <1>0, <1>1, <1>2, <1>5, <3>1, Types DEF ChannelsKept, LivePCs, IdleManager, Manager
    <3>2. CASE g # f
      <4>1. manager'[g] = manager[g] /\ sigChan'[g] = sigChan[g] /\ parser'[g] = parser[g]
        BY <1>0, <1>2, <3>2, Types
      <4>2. manager[g].pc \in LivePCs =>
              chanSock'[sigChan[g]] = g /\ holders'[sigChan[g]] = holders[sigChan[g]]
        <5>1. manager[g].pc \in LivePCs => sigChan[g] \in Chans /\ chanSock[sigChan[g]] = g
          BY <1>0 DEF ChannelsKept, ChannelInv, ChannelKnown, LivePCs
        <5> QED
          BY <1>0, <1>1, <1>2, <5>1, Types
      <4>3. manager[g].pc = "releasing" => sigChan'[manager[g].flow] = sigChan[manager[g].flow]
        BY <1>0, <1>2, <1>6, Types DEF Handles
      <4> QED
        BY <1>0, <4>1, <4>2, <4>3 DEF ChannelsKept, LivePCs
    <3> QED
      BY <3>1, <3>2
  <2> QED
    BY <2>2, <2>3, <2>4 DEF ChannelsKept
<1>8. SessionsKept'
  BY <1>2, <1>3, SessionsFrame
<1>9. ASSUME NEW e \in Flows
      PROVE  FewerMessages(e)
  <2>1. \A d \in Chans : Fewer(chanPipe[d], chanPipe'[d], PipeAbout(e))
    BY <1>0, <1>1, <1>2, QuietChannelPipe
  <2>2. \A g \in Flows : Fewer(toSend[g], toSend'[g], RepliesAbout(e))
    BY <1>0, QuietReplies DEF Answered
  <2>3. /\ \A g \in Flows : \A type \in {"SEND_FLOW", "CLOSED_FLOW", "CLOSED_ERR"} :
             Fewer(toRecv[g], toRecv'[g], {Msg(type, e)})
        /\ \A g \in Flows : Fewer(rPipe[g], rPipe'[g], ReportsAbout(e))
    BY <1>3, EmptyQ
  <2> QED
    BY <2>1, <2>2, <2>3 DEF FewerMessages
<1>10. ASSUME NEW e \in Flows, e # f
      PROVE  FlowKept(e)'
  <2>1. SameThreads(e)
    BY <1>0, <1>2, <1>3, <1>10, Types DEF SameThreads
  <2>2. SameHandling(e)
    BY <1>0, <1>1, <1>2, <1>4, <1>5, <1>10, Types DEF SameHandling, Handles, Holds, IdleManager,
       Manager
  <2> QED
    BY <1>0, <1>9, <2>1, <2>2, Frame DEF SameView
<1>11. FlowKept(f)'
  <2>1. \A g \in Flows : ~Handles(g, f)'
    BY <1>0, <1>2, <1>6, Types DEF Handles, IdleManager, Manager
  <2>2. Holds(f)' /\ parser'[f] = "attached"
    BY <1>0, <1>1, <1>2, Types DEF Holds
  <2> QED
    BY <1>0, <1>2, <1>3, <1>9, <1>6, <2>1, <2>2, Attached
<1> QED
  BY <1>7, <1>8, <1>10, <1>11 DEF FlowsServed

\* JoinChannel: identifySignalManager joins the flow to an open channel.
LEMMA JoinKeeps ==
  ASSUME FlowInv, NEW f \in Flows, JoinChannel(f), UNCHANGED recvVars
  PROVE  FlowsServed'
<1> DEFINE c == First(SameDest(f))
<1>1. ChannelInv /\ ChannelsKept /\ SessionsKept /\ \A e \in Flows : FlowKept(e)
  BY DEF FlowInv, FlowsServed
<1>2. c \in Chans /\ chanSock[c] # NoFlow /\ Dest[chanSock[c]] = Dest[f]
  <2>1. SameDest(f) \subseteq Chans /\ SameDest(f) # {}
    BY DEF SameDest, JoinChannel
  <2>2. c \in SameDest(f)
    BY <2>1, FirstIsMember
  <2> HIDE DEF c
  <2> QED
    BY <2>2 DEF SameDest
<1>3. /\ chanFlows' = [chanFlows EXCEPT ![c] = @ + 1]
      /\ holders' = [holders EXCEPT ![c] = @ \cup {f}]
      /\ sigChan' = [sigChan EXCEPT ![f] = c]
      /\ parser' = [parser EXCEPT ![f] = "attached"]
      /\ parser[f] = "idle" /\ mutex = Unlocked
      /\ UNCHANGED <<process, mutex, outcome, parserPipe, chanSock, chanPipe,
                     manager, sender, netVars>>
  BY DEF JoinChannel, SetParser
<1>4. UNCHANGED <<table, thread, rPipe, home, session>>
  BY DEF recvVars
<1> HIDE DEF c
<1>5. /\ \A d \in Chans : f \notin holders[d]
      /\ manager[f].pc = "none"
      /\ \A g \in Flows : manager[g].pc # "releasing"
  <2>1. \A d \in Chans : f \notin holders[d]
    BY <1>1, <1>3 DEF ChannelsKept
  <2>2. manager[f].pc = "none"
    BY <1>1, <1>3 DEF ChannelsKept
  <2>3. \A g \in Flows : manager[g].pc # "releasing"
    BY <1>1, <1>3, FlowAssumption DEF ChannelInv, MutexProtectsChannels, Unlocked
  <2> QED
    BY <2>1, <2>2, <2>3
<1>6. \A g \in Flows : ~Handles(g, f)
  BY <1>1, <1>3, FreshFlow
<1>7. ChannelsKept'
  <2>1. chanFlows'[c] = Cardinality(holders'[c])
    <3>1. IsFiniteSet(holders[c])
      BY <1>1, <1>2, SenderAssumption, FS_Subset, Types
    <3>2. Cardinality(holders[c] \cup {f}) = Cardinality(holders[c]) + 1
      BY <1>2, <1>5, <3>1, FS_AddElement
    <3> QED
      BY <1>1, <1>2, <1>3, <3>2, Types DEF ChannelsKept
  <2>2. \A d \in Chans :
       /\ d # c => chanFlows'[d] = Cardinality(holders'[d])
       /\ \A e \in holders'[d] :
            /\ sigChan'[e] = d /\ parser'[e] \in {"attached", "waiting", "ended"}
            /\ chanSock'[d] # NoFlow /\ Dest[chanSock'[d]] = Dest[e]
    BY <1>1, <1>2, <1>3, <1>5, Types DEF ChannelsKept
  <2>3. \A d \in Chans : chanSock'[d] # NoFlow =>
            sigChan'[chanSock'[d]] = d /\ manager'[chanSock'[d]].pc \in LivePCs
    BY <1>1, <1>3, <1>5, Types DEF ChannelsKept, LivePCs
  <2>4. \A g \in Flows :
       /\ parser'[g] \in {"idle", "connecting", "naming"} => manager'[g].pc = "none"
       /\ manager'[g].pc \in LivePCs => chanSock'[sigChan'[g]] = g
       /\ manager'[g].pc # "releasing"
    BY <1>1, <1>3, <1>5, Types DEF ChannelsKept, LivePCs
  <2>5. \A g \in Flows :
       manager'[g].pc \in {"closedErr", "closing"} => manager'[g].flow \in holders'[sigChan'[g]]
    <3> SUFFICES ASSUME NEW g \in Flows, manager[g].pc \in {"closedErr", "closing"}
                 PROVE  manager[g].flow \in holders'[sigChan'[g]]
      BY <1>3
    <3>1. g # f /\ manager[g].flow \in holders[sigChan[g]] /\ sigChan[g] \in Chans
      BY <1>1, <1>5 DEF ChannelsKept, ChannelInv, ChannelKnown
    <3> QED
      BY <1>1, <1>2, <1>3, <3>1, Types
  <2> QED
    BY <2>1, <2>2, <2>3, <2>4, <2>5 DEF ChannelsKept
<1>8. SessionsKept'
  BY <1>3, <1>4, SessionsFrame
<1>9. \A e \in Flows : FewerMessages(e)
  BY <1>3, <1>4, EmptyQ DEF FewerMessages, netVars
<1>10. ASSUME NEW e \in Flows, e # f
       PROVE  FlowKept(e)'
  <2>1. SameThreads(e)
    BY <1>1, <1>3, <1>4, <1>10, Types DEF SameThreads
  <2>2. SameHandling(e)
    BY <1>1, <1>2, <1>3, <1>10, Types DEF SameHandling, Handles, Holds
  <2> QED
    BY <1>1, <1>9, <1>10, <2>1, <2>2, Frame DEF SameView
<1>11. FlowKept(f)'
  <2>1. Holds(f)' /\ parser'[f] = "attached" /\ \A g \in Flows : ~Handles(g, f)'
    BY <1>1, <1>2, <1>3, <1>6, Types DEF Holds, Handles
  <2> QED
    BY <1>1, <1>3, <1>4, <1>9, <2>1, Attached
<1> QED
  BY <1>7, <1>8, <1>10, <1>11 DEF FlowsServed

\* SubmitFlow: flowParser writes NEWFLOW and waits.
LEMMA SubmitKeeps ==
  ASSUME FlowInv, NEW f \in Flows, SubmitFlow(f), UNCHANGED recvVars
  PROVE  FlowsServed'
<1> DEFINE c == sigChan[f]
           m == [code |-> "NEWFLOW", flow |-> f]
<1>1. ChannelInv /\ ChannelsKept /\ SessionsKept /\ \A e \in Flows : FlowKept(e)
  BY DEF FlowInv, FlowsServed
<1>2. /\ parser[f] = "attached" /\ parser' = [parser EXCEPT ![f] = "waiting"]
      /\ PushToChannel(c, "NEWFLOW", f)
      /\ UNCHANGED <<process, mutex, outcome, sigChan, parserPipe, chanSock,
                     chanFlows, holders, manager, sender, netVars>>
      /\ UNCHANGED <<table, thread, rPipe, home, session>>
  BY DEF SubmitFlow, SetParser, recvVars
<1>3. c \in Chans /\ f \in holders[c] /\ Holds(f) /\ chanSock[c] # NoFlow
  <2>1. Holds(f)
    BY <1>1, <1>2 DEF FlowKept, ParserPart
  <2> QED
    BY <1>1, <2>1 DEF Holds, ChannelsKept
<1>4. /\ thread[f] = "none" /\ outcome[f] = "none" /\ sender[f] = "none"
      /\ parserPipe[f] = <<>>
      /\ \A g \in Flows : f \notin table[g] /\ ~Handles(g, f)
      /\ \A d \in Chans, code \in PipeCodes : ~OnPipeTo(d, code, f)
      /\ \A g \in Flows : \A type \in {"SEND_FLOW", "CLOSED_FLOW", "CLOSED_ERR"} : ~Asked(g, type, f)
      /\ \A g \in Flows, code \in ReportCodes : ~Reported(g, code, f)
      /\ \A g \in Flows, type \in {"ACK_SEND_FLOW"} \cup AnswerTypes : ~Replied(g, type, f)
  BY <1>1, <1>2, FreshFlow
<1>5. ChannelsKept'
  BY <1>1, <1>2, Types, ChannelsFrame
<1>6. SessionsKept'
  BY <1>2, SessionsFrame
<1>7. ASSUME NEW e \in Flows, e # f
      PROVE  FlowKept(e)'
  <2>1. SameThreads(e) /\ SameHandling(e)
    BY <1>1, <1>2, <1>7, Types DEF SameThreads, SameHandling, Handles, Holds
  <2>2. \A d \in Chans : Fewer(chanPipe[d], chanPipe'[d], PipeAbout(e))
    BY <1>1, <1>2, <1>3, <1>7, QuietChannelPipe DEF PipeCodes
  <2>3. FewerMessages(e)
    BY <1>2, <2>2, EmptyQ DEF FewerMessages, netVars
  <2> QED
    BY <1>1, <2>1, <2>3, Frame DEF SameView
<1>8. FlowKept(f)'
  <2>1. /\ chanPipe[c] \in Seq(PipeMessages) /\ m \in PipeMessages
        /\ chanPipe'[c] = Append(chanPipe[c], m)
        /\ \A d \in Chans : d # c => chanPipe'[d] = chanPipe[d]
    BY <1>1, <1>2, <1>3, Types DEF PushToChannel, PipeMessages, PipeCodes
  <2>2. \A x \in PipeAbout(f) : ~Has(chanPipe[c], x)
    BY <1>3, <1>4 DEF OnPipeTo, PipeAbout
  <2> HIDE DEF m
  <2>3. Once(chanPipe'[c], PipeAbout(f)) /\ \A x : Has(chanPipe'[c], x) <=> Has(chanPipe[c], x) \/ x = m
    BY <2>1, <2>2, AppendQ
  <2>4. Pending(f, chanSock[c])'
    BY <1>1, <1>2, <1>3, <1>4, Types DEF Pending, Holds, Handles
  <2>5. PipePart(f)'
    <3>1. \A d \in Chans : Once(chanPipe'[d], PipeAbout(f))
      BY <1>1, <2>1, <2>3 DEF FlowKept, PipePart
    <3>2. \A d \in Chans, code \in PipeCodes : OnPipeTo(d, code, f)' => d = c /\ code = "NEWFLOW"
      BY <1>4, <2>1, <2>3 DEF OnPipeTo, m
    <3>3. \A g \in Flows : ~Asked(g, "SEND_FLOW", f)'
      BY <1>2, <1>4 DEF Asked, netVars
    <3> QED
      BY <1>2, <1>4, <2>4, <3>1, <3>2, <3>3 DEF PipePart, PipeCodes
  <2>6. ParserPart(f)' /\ HandledPart(f)' /\ ThreadPart(f)'
    <3>1. Holds(f)' /\ parser'[f] = "waiting" /\ \A g \in Flows : ~Handles(g, f)'
      BY <1>1, <1>2, <1>3, <1>4, Types DEF Holds, Handles
    <3> QED
      BY <1>2, <1>4, <3>1 DEF ParserPart, HandledPart, ThreadPart, ThreadsOf, Alive
  <2>7. RequestPart(f)' /\ ReportPart(f)' /\ ReplyPart(f)'
    <3>1. /\ \A g \in Flows : \A type \in {"SEND_FLOW", "CLOSED_FLOW", "CLOSED_ERR"} : ~Asked(g, type, f)'
          /\ \A g \in Flows, code \in ReportCodes : ~Reported(g, code, f)'
          /\ \A g \in Flows, type \in {"ACK_SEND_FLOW"} \cup AnswerTypes : ~Replied(g, type, f)'
      BY <1>2, <1>4 DEF Asked, Reported, Replied, netVars
    <3>2. \A g \in Flows : /\ Once(toRecv[g], {Msg("SEND_FLOW", f)})'
                           /\ Once(rPipe[g], ReportsAbout(f))'
                           /\ Once(toSend[g], RepliesAbout(f))'
      BY <1>1, <1>2 DEF FlowKept, RequestPart, ReportPart, ReplyPart, netVars
    <3> QED
      BY <3>1, <3>2 DEF RequestPart, ReportPart, ReplyPart, ReportCodes
  <2> QED
    BY <2>5, <2>6, <2>7 DEF FlowKept
<1> QED
  BY <1>5, <1>6, <1>7, <1>8 DEF FlowsServed

\* What is left of a pipe with one code.
LEMMA ShortTail ==
  ASSUME NEW S, NEW s \in Seq(S), Len(s) = 1
  PROVE  Tail(s) = <<>>
<1> DEFINE t == Tail(s)
<1>1. t \in Seq(S) /\ Len(t) = 0
  OBVIOUS
<1> HIDE DEF t
<1>2. t = <<>>
  BY <1>1
<1> QED
  BY <1>2 DEF t

\* TakeResult: flowParser reads its verdict.
LEMMA TakeResultKeeps ==
  ASSUME FlowInv, NEW f \in Flows, TakeResult(f), UNCHANGED recvVars
  PROVE  FlowsServed'
<1>1. ChannelInv /\ ChannelsKept /\ SessionsKept /\ \A e \in Flows : FlowKept(e)
  BY DEF FlowInv, FlowsServed
<1>2. /\ parser[f] = "waiting" /\ parserPipe[f] # <<>>
      /\ parser' = [parser EXCEPT ![f] = "ended"]
      /\ outcome' = [outcome EXCEPT ![f] = Head(parserPipe[f])]
      /\ parserPipe' = [parserPipe EXCEPT ![f] = Tail(@)]
      /\ UNCHANGED <<sigChan, manager, sender, chanVars, netVars>>
      /\ UNCHANGED <<table, thread, rPipe, home, session>>
  BY DEF TakeResult, SetParser, recvVars
<1>3. ChannelsKept'
  BY <1>1, <1>2, Types, ChannelsFrame DEF chanVars
<1>4. SessionsKept'
  BY <1>2, SessionsFrame
<1>5. \A e \in Flows : FewerMessages(e)
  BY <1>2, EmptyQ DEF FewerMessages, chanVars, netVars
<1>6. ASSUME NEW e \in Flows, e # f
      PROVE  FlowKept(e)'
  <2>1. SameThreads(e) /\ SameHandling(e)
    BY <1>1, <1>2, <1>6, Types DEF SameThreads, SameHandling, Handles, Holds, chanVars
  <2> QED
    BY <1>1, <1>5, <2>1, Frame DEF SameView
<1>7. FlowKept(f)'
  <2>1. parserPipe[f] \in Seq(ResultCodes) /\ Len(parserPipe[f]) = 1
    BY <1>1, <1>2, Types DEF FlowKept, ParserPart
  <2>2. parserPipe'[f] = <<>> /\ parser'[f] = "ended"
    BY <1>1, <1>2, <2>1, ShortTail, Types
  <2>3. /\ thread[f] # "none"
        /\ \A g : ~Pending(f, g)
        /\ \A g \in Flows : Handles(g, f) => manager[g].code = "ERR2"
        /\ \A g \in Flows : f \in table[g] => sender[f] = "failed"
    BY <1>1, <1>2 DEF FlowKept, ParserPart, ThreadPart, Pending
  <2>4. ParserPart(f)' /\ HandledPart(f)' /\ ThreadPart(f)'
    BY <1>1, <1>2, <2>2, <2>3 DEF FlowKept, ParserPart, HandledPart, ThreadPart, Handles
  <2>5. PipePart(f)'
    BY <1>1, <1>2, <1>5, <2>3, MessageFrame DEF FlowKept, PipePart, PipeCodes
  <2>6. RequestPart(f)'
    BY <1>1, <1>2, <1>5, <2>2, <2>3, MessageFrame DEF FlowKept, RequestPart
  <2>7. ReportPart(f)'
    BY <1>1, <1>2, <1>5, <2>3, MessageFrame DEF FlowKept, ReportPart, ReportCodes
  <2>8. ReplyPart(f)'
    BY ZenonT(60), <1>1, <1>2, <1>5, <2>3, MessageFrame DEF FlowKept, ReplyPart, ReportCodes
  <2> QED
    BY <2>4, <2>5, <2>6, <2>7, <2>8 DEF FlowKept
<1> QED
  BY <1>3, <1>4, <1>6, <1>7 DEF FlowsServed
-----------------------------------------------------------------------------
(* Reading and writing: what a read message leaves, what a written one adds. *)

\* The oldest message of a queue, and the queues without it.
LEMMA TakesReply ==
  ASSUME ChannelInv, NEW g \in Flows, toSend[g] # <<>>, SenderTakes(g),
         Head(toSend[g]).type \in {"ACK_SEND_FLOW"} \cup AnswerTypes,
         NEW f, f = Head(toSend[g]).flow,
         \A e \in Flows : FlowKept(e)
  PROVE  /\ f \in Flows /\ Replied(g, Head(toSend[g]).type, f)
         /\ \A t \in {"ACK_SEND_FLOW"} \cup AnswerTypes : ~Replied(g, t, f)'
         /\ \A e \in Flows : \A h \in Flows : Fewer(toSend[h], toSend'[h], RepliesAbout(e))
<1> DEFINE m == Head(toSend[g])
<1>1. /\ toSend[g] \in Seq(Messages) /\ toSend'[g] = Tail(toSend[g])
  BY Types DEF SenderTakes
<1>2. m \in Messages
  BY <1>1
<1>3. f \in Flows /\ m = Msg(m.type, f)
  BY <1>2, MessageKinds DEF AnswerTypes, FlowTypes, Messages, Msg, PlainTypes
<1>4. Has(toSend[g], m) /\ m \in RepliesAbout(f)
  BY <1>1, <1>3, TailQ DEF RepliesAbout, Msg
<1>5. Once(toSend[g], RepliesAbout(f))
  BY <1>3 DEF FlowKept, ReplyPart
<1>6. \A x \in RepliesAbout(f) : ~Has(toSend'[g], x)
  BY <1>1, <1>4, <1>5, TailQ
<1>7. \A e \in Flows : \A h \in Flows : Fewer(toSend[h], toSend'[h], RepliesAbout(e))
  BY QuietReplies
<1> QED
  BY <1>3, <1>4, <1>6, <1>7 DEF Replied, RepliesAbout, Msg

\* The same for a request that a session reads.
LEMMA TakesRequest ==
  ASSUME ChannelInv, NEW g \in Flows, toRecv[g] # <<>>, ReceiverTakes(g),
         Head(toRecv[g]).type \in {"SEND_FLOW", "CLOSED_FLOW", "CLOSED_ERR"},
         NEW f, f = Head(toRecv[g]).flow,
         \A e \in Flows : FlowKept(e)
  PROVE  /\ f \in Flows /\ Asked(g, Head(toRecv[g]).type, f)
         /\ Head(toRecv[g]).type = "SEND_FLOW" => ~Asked(g, "SEND_FLOW", f)'
         /\ \A e \in Flows : \A h \in Flows : \A t \in {"SEND_FLOW", "CLOSED_FLOW", "CLOSED_ERR"} :
              Fewer(toRecv[h], toRecv'[h], {Msg(t, e)})
<1> DEFINE m == Head(toRecv[g])
<1>1. /\ toRecv[g] \in Seq(Messages) /\ toRecv'[g] = Tail(toRecv[g])
  BY Types DEF ReceiverTakes
<1>2. m \in Messages
  BY <1>1
<1>3. f \in Flows /\ m = Msg(m.type, f)
  BY <1>2, MessageKinds DEF FlowTypes, Messages, Msg, PlainTypes
<1>4. Has(toRecv[g], m)
  BY <1>1, TailQ
<1>5. ASSUME m.type = "SEND_FLOW" PROVE ~Has(toRecv'[g], m)
  <2>1. Once(toRecv[g], {Msg("SEND_FLOW", f)}) /\ m \in {Msg("SEND_FLOW", f)}
    BY <1>3, <1>5 DEF FlowKept, RequestPart
  <2> QED
    BY <1>1, <2>1, TailQ
<1>6. \A e \in Flows : \A h \in Flows : \A t \in {"SEND_FLOW", "CLOSED_FLOW", "CLOSED_ERR"} :
              Fewer(toRecv[h], toRecv'[h], {Msg(t, e)})
  BY QuietRequests
<1> QED
  BY <1>3, <1>4, <1>5, <1>6 DEF Asked

\* The same for a report that a session reads.
LEMMA TakesReport ==
  ASSUME ChannelInv, NEW g \in Flows, rPipe[g] # <<>>, rPipe' = [rPipe EXCEPT ![g] = Tail(@)],
         NEW f, f = Head(rPipe[g]).flow,
         \A e \in Flows : FlowKept(e)
  PROVE  /\ f \in Flows /\ Reported(g, Head(rPipe[g]).code, f)
         /\ \A code \in ReportCodes : ~Reported(g, code, f)'
         /\ \A e \in Flows : \A h \in Flows : Fewer(rPipe[h], rPipe'[h], ReportsAbout(e))
<1> DEFINE m == Head(rPipe[g])
<1>1. /\ rPipe[g] \in Seq(Reports) /\ rPipe'[g] = Tail(rPipe[g])
  BY Types
<1>2. m \in Reports
  BY <1>1
<1>3. f \in Flows /\ m = Report(m.code, f)
  BY <1>2 DEF Reports, Report
<1>4. Has(rPipe[g], m) /\ m \in ReportsAbout(f)
  BY <1>1, <1>2, <1>3, TailQ DEF ReportsAbout, Reports
<1>5. Once(rPipe[g], ReportsAbout(f))
  BY <1>3 DEF FlowKept, ReportPart
<1>6. \A x \in ReportsAbout(f) : ~Has(rPipe'[g], x)
  BY <1>1, <1>4, <1>5, TailQ
<1>7. \A e \in Flows : \A h \in Flows : Fewer(rPipe[h], rPipe'[h], ReportsAbout(e))
  BY QuietReports
<1> QED
  BY <1>3, <1>4, <1>6, <1>7 DEF Reported, ReportsAbout, Report

\* The same for a message that a manager reads from its pipe.
LEMMA TakesFromPipe ==
  ASSUME ChannelInv, NEW c \in Chans, chanPipe[c] # <<>>,
         chanPipe' = [chanPipe EXCEPT ![c] = Tail(@)],
         NEW f, f = Head(chanPipe[c]).flow,
         \A e \in Flows : FlowKept(e)
  PROVE  /\ f \in Flows /\ OnPipeTo(c, Head(chanPipe[c]).code, f)
         /\ \A code \in PipeCodes : ~OnPipeTo(c, code, f)'
         /\ \A e \in Flows : \A d \in Chans : Fewer(chanPipe[d], chanPipe'[d], PipeAbout(e))
<1> DEFINE m == Head(chanPipe[c])
<1>1. /\ chanPipe[c] \in Seq(PipeMessages) /\ chanPipe'[c] = Tail(chanPipe[c])
  BY Types
<1>2. m \in PipeMessages
  BY <1>1
<1>3. f \in Flows /\ m = [code |-> m.code, flow |-> f]
  BY <1>2 DEF PipeMessages
<1>4. Has(chanPipe[c], m) /\ m \in PipeAbout(f)
  BY <1>1, <1>2, <1>3, TailQ DEF PipeAbout, PipeMessages
<1>5. Once(chanPipe[c], PipeAbout(f))
  BY <1>3 DEF FlowKept, PipePart
<1>6. \A x \in PipeAbout(f) : ~Has(chanPipe'[c], x)
  BY <1>1, <1>4, <1>5, TailQ
<1>7. \A e \in Flows : \A d \in Chans : Fewer(chanPipe[d], chanPipe'[d], PipeAbout(e))
  BY QuietChannelPipe
<1> QED
  BY <1>3, <1>4, <1>6, <1>7 DEF OnPipeTo, PipeAbout

\* ChannelsKept when a manager takes up or puts down a flow.
LEMMA ManagersFrame ==
  ASSUME FlowInv, UNCHANGED <<chanSock, chanFlows, holders, sigChan, parser>>,
         NEW g \in Flows, NEW m, manager' = [manager EXCEPT ![g] = m],
         manager[g].pc \in LivePCs, m.pc \in LivePCs \ {"releasing"},
         m.pc \in {"closedErr", "closing"} => m.flow \in holders[sigChan[g]]
  PROVE  ChannelsKept'
<1>1. manager'[g] = m /\ \A h \in Flows : h # g => manager'[h] = manager[h]
  BY Types DEF FlowInv
<1>2. ChannelsKept
  BY DEF FlowInv, FlowsServed
<1>3. \A c \in Chans : chanSock[c] \in Flows \cup {NoFlow}
  BY Types DEF FlowInv
<1> QED
  BY <1>1, <1>2, <1>3 DEF ChannelsKept, LivePCs
-----------------------------------------------------------------------------
(* signalManager of ITGSend *)

\* StartFlow: the manager reads ACK_SEND_FLOW and the sender starts.
LEMMA StartKeeps ==
  ASSUME FlowInv, NEW g \in Flows, StartFlow(g), UNCHANGED recvVars
  PROVE  FlowsServed'
<1>0. PICK f : f = Head(toSend[g]).flow
  OBVIOUS
<1>1. ChannelInv /\ ChannelsKept /\ SessionsKept /\ \A e \in Flows : FlowKept(e)
  BY DEF FlowInv, FlowsServed
<1>2. /\ toSend[g] # <<>> /\ SenderTakes(g) /\ Head(toSend[g]).type = "ACK_SEND_FLOW"
      /\ sender' = [sender EXCEPT ![f] = "setup"]
      /\ UNCHANGED <<parser, outcome, sigChan, parserPipe, manager, chanVars, toRecv>>
      /\ UNCHANGED <<table, thread, rPipe, home, session>>
  BY <1>0 DEF StartFlow, OnSocket, recvVars
<1>3. /\ f \in Flows /\ Replied(g, "ACK_SEND_FLOW", f)
      /\ \A t \in {"ACK_SEND_FLOW"} \cup AnswerTypes : ~Replied(g, t, f)'
      /\ \A e \in Flows : \A h \in Flows : Fewer(toSend[h], toSend'[h], RepliesAbout(e))
  BY <1>0, <1>1, <1>2, TakesReply
<1>4. home[f] = g /\ thread[f] = "listening" /\ sender[f] = "none" /\ ~Reported(g, "OK", f)
  BY <1>1, <1>3 DEF FlowKept, ReplyPart
<1>5. sender'[f] = "setup" /\ \A e \in Flows : e # f => sender'[e] = sender[e]
  BY <1>1, <1>2, <1>3, Types
<1>6. ChannelsKept'
  BY <1>1, <1>2, Types, ChannelsFrame DEF chanVars
<1>7. SessionsKept'
  <2>1. \A h \in Flows : table[h] \subseteq Flows
    BY <1>1, Types
  <2> QED
    BY <1>1, <1>2, <1>4, <1>5, <2>1 DEF SessionsKept
<1>8. \A e \in Flows : FewerMessages(e)
  BY <1>2, <1>3, EmptyQ DEF FewerMessages, chanVars
<1>9. ASSUME NEW e \in Flows, e # f
      PROVE  FlowKept(e)'
  <2>1. SameThreads(e) /\ SameHandling(e)
    BY <1>1, <1>2, <1>5, <1>9, Types DEF SameThreads, SameHandling, Handles, Holds, chanVars
  <2> QED
    BY <1>1, <1>8, <2>1, Frame DEF SameView
<1>10. FlowKept(f)'
  <2> USE DEF FlowKept
  <2>1. UNCHANGED <<chanSock, holders>>
    BY <1>2 DEF chanVars
  <2>2. \A h : Pending(f, h)' <=> Pending(f, h)
    BY <1>2, <2>1 DEF Pending, Holds, Handles
  <2>3. ParserPart(f)'
    <3>1. Pending(f, g)
      BY <1>1, <1>3, <1>4 DEF ThreadPart, Alive
    <3>2. Pending(f, g)'
      BY <2>2, <3>1
    <3>3. outcome'[f] = "none"
      BY <1>1, <1>2, <1>3, <3>1 DEF ParserPart, Pending
    <3> QED
      BY <3>2, <3>3 DEF ParserPart, Pending
  <2>4. HandledPart(f)'
    BY <1>1, <1>2, <1>3, <1>4, <1>5 DEF HandledPart, Handles
  <2>5. ThreadPart(f)'
    BY <1>1, <1>2, <1>3, <1>4, <1>5, <2>2 DEF ThreadPart, ThreadsOf, Handles
  <2>6. PipePart(f)'
    BY <1>1, <1>2, <1>3, <1>4, <1>5, <1>8, <2>2, MessageFrame DEF PipePart, PipeCodes
  <2>7. RequestPart(f)'
    BY <1>1, <1>2, <1>3, <1>4, <1>5, <1>8, <2>2, MessageFrame DEF RequestPart
  <2>8. ReportPart(f)'
    <3>1. \A h \in Flows, code \in ReportCodes : ~Reported(h, code, f)
      BY <1>1, <1>3, <1>4 DEF ReportPart, ReportCodes
    <3> QED
      BY <1>1, <1>3, <1>8, <3>1, MessageFrame DEF ReportPart, ReportCodes
  <2>9. ReplyPart(f)'
    <3>1. \A h \in Flows : h # g => \A t \in {"ACK_SEND_FLOW"} \cup AnswerTypes : ~Replied(h, t, f)
      BY <1>1, <1>3, <1>4 DEF ReplyPart
    <3>2. \A h \in Flows : \A t \in {"ACK_SEND_FLOW"} \cup AnswerTypes : ~Replied(h, t, f)'
      BY <1>3, <1>8, <3>1, MessageFrame
    <3> QED
      BY <1>1, <1>3, <1>8, <3>2, MessageFrame DEF ReplyPart
  <2> QED
    BY <2>3, <2>4, <2>5, <2>6, <2>7, <2>8, <2>9
<1> QED
  BY <1>6, <1>7, <1>9, <1>10 DEF FlowsServed

\* FlowAnswered: the manager reads the answer that ends the flow.
LEMMA AnsweredKeeps ==
  ASSUME FlowInv, NEW g \in Flows, FlowAnswered(g), UNCHANGED recvVars
  PROVE  FlowsServed'
<1>0. PICK f, code : /\ f = Head(toSend[g]).flow
                     /\ code = IF Head(toSend[g]).type = "ACK_CLOSED_FLOW" THEN "END" ELSE "ERR1"
  OBVIOUS
<1>1. ChannelInv /\ ChannelsKept /\ SessionsKept /\ \A e \in Flows : FlowKept(e)
  BY DEF FlowInv, FlowsServed
<1>2. /\ toSend[g] # <<>> /\ SenderTakes(g) /\ Head(toSend[g]).type \in AnswerTypes
      /\ manager[g] = IdleManager
      /\ manager' = [manager EXCEPT ![g] = Manager("closing", f, code)]
      /\ UNCHANGED <<parser, outcome, sigChan, parserPipe, sender, chanVars, toRecv>>
      /\ UNCHANGED <<table, thread, rPipe, home, session>>
  BY <1>0 DEF FlowAnswered, OnSocket, ManagerReady, SetManager, AnswerTypes, recvVars
<1>3. PICK type \in AnswerTypes : 
      /\ f \in Flows /\ Replied(g, type, f)
      /\ \A t \in {"ACK_SEND_FLOW"} \cup AnswerTypes : ~Replied(g, t, f)'
      /\ \A e \in Flows : \A h \in Flows : Fewer(toSend[h], toSend'[h], RepliesAbout(e))
  BY <1>0, <1>1, <1>2, TakesReply
<1>4. /\ home[f] = g /\ thread[f] \in {"reaped", "cancelled"} /\ f \notin table[g]
      /\ sender[f] # "failed" /\ Pending(f, g)
  BY <1>1, <1>3 DEF FlowKept, ReplyPart
<1>5. /\ manager'[g] = [pc |-> "closing", flow |-> f, code |-> code]
      /\ \A h \in Flows : h # g => manager'[h] = manager[h]
      /\ manager[g].flow = NoFlow /\ manager[g].pc = "idle" /\ code # "ERR2" /\ NoFlow \notin Flows
  BY <1>0, <1>1, <1>2, Types DEF IdleManager, Manager
<1>6. ChannelsKept'
  <2>1. sigChan[g] \in Chans /\ chanSock[sigChan[g]] = g
    BY <1>1, <1>5 DEF ChannelsKept, ChannelInv, ChannelKnown, LivePCs
  <2>2. f \in holders[sigChan[g]]
    BY <1>1, <1>4, <2>1 DEF Pending, Holds, ChannelsKept
  <2> QED
    BY <1>2, <1>5, <2>2, ManagersFrame DEF chanVars, LivePCs, Manager
<1>7. SessionsKept'
  BY <1>2, SessionsFrame
<1>8. \A e \in Flows : FewerMessages(e)
  BY <1>2, <1>3, EmptyQ DEF FewerMessages, chanVars
<1>9. ASSUME NEW e \in Flows, e # f
      PROVE  FlowKept(e)'
  <2>1. SameThreads(e) /\ SameHandling(e)
    BY <1>1, <1>2, <1>5, <1>9, Types DEF SameThreads, SameHandling, Handles, Holds, chanVars
  <2> QED
    BY <1>1, <1>8, <2>1, Frame DEF SameView
<1>10. FlowKept(f)'
  <2> USE DEF FlowKept
  <2>1. UNCHANGED <<chanSock, holders>>
    BY <1>2 DEF chanVars
  <2>2. \A h \in Flows : ~Replied(h, "ACK_SEND_FLOW", f)' /\ \A t \in AnswerTypes : ~Replied(h, t, f)'
    <3>1. \A h \in Flows : h # g => \A t \in {"ACK_SEND_FLOW"} \cup AnswerTypes : ~Replied(h, t, f)
      BY <1>1, <1>3, <1>4 DEF ReplyPart
    <3>2. \A h \in Flows : \A t \in {"ACK_SEND_FLOW"} \cup AnswerTypes : ~Replied(h, t, f)'
      BY <1>3, <1>8, <3>1, MessageFrame
    <3> QED
      BY <3>2
  <2>3. ParserPart(f)'
    <3>1. Holds(f)' /\ parserPipe'[f] = <<>> /\ outcome'[f] = outcome[f] /\ parser'[f] = "waiting"
      BY <1>2, <1>4, <2>1 DEF Pending, Holds
    <3> QED
      BY <1>1, <1>3, <1>4, <3>1 DEF ParserPart, Pending
  <2>4. HandledPart(f)'
    BY <1>1, <1>2, <1>3, <1>4, <1>5 DEF HandledPart, Handles, Pending
  <2>5. ThreadPart(f)'
    BY <1>1, <1>2, <1>3, <1>4 DEF ThreadPart, ThreadsOf, Alive
  <2>6. PipePart(f)'
    BY ZenonT(60), <1>1, <1>2, <1>3, <1>4, <1>8, MessageFrame DEF PipePart, PipeCodes
  <2>7. RequestPart(f)'
    BY <1>1, <1>2, <1>3, <1>4, <1>8, MessageFrame DEF RequestPart
  <2>8. ReportPart(f)'
    BY <1>1, <1>2, <1>3 DEF ReportPart, Reported
  <2>9. ReplyPart(f)'
    BY <1>1, <1>3, <1>8, <2>2, MessageFrame DEF ReplyPart
  <2> QED
    BY <2>3, <2>4, <2>5, <2>6, <2>7, <2>8, <2>9
<1> QED
  BY <1>6, <1>7, <1>9, <1>10 DEF FlowsServed

\* A new message at the end of a queue.
LEMMA SendsRequest ==
  ASSUME ChannelInv, NEW g \in Flows, NEW f \in Flows,
         NEW type \in {"SEND_FLOW", "CLOSED_FLOW", "CLOSED_ERR"}, SenderSends(g, Msg(type, f))
  PROVE  /\ \A e \in Flows : e # f =>
              \A h \in Flows : \A t \in {"SEND_FLOW", "CLOSED_FLOW", "CLOSED_ERR"} :
                Fewer(toRecv[h], toRecv'[h], {Msg(t, e)})
         /\ \A h \in Flows, t \in {"SEND_FLOW", "CLOSED_FLOW", "CLOSED_ERR"} :
              Asked(h, t, f)' <=> Asked(h, t, f) \/ (h = g /\ t = type)
         /\ \A h \in Flows :
              /\ Once(toRecv[h], {Msg("SEND_FLOW", f)})
              /\ h = g /\ type = "SEND_FLOW" => ~Asked(g, "SEND_FLOW", f)
              => Once(toRecv[h], {Msg("SEND_FLOW", f)})'
<1> DEFINE m == Msg(type, f)
<1>1. m \in Messages /\ m.flow = f /\ m.type = type
  BY MessageKinds DEF FlowTypes, Msg
<1>2. /\ toRecv[g] \in Seq(Messages) /\ toRecv'[g] = Append(toRecv[g], m)
      /\ \A h \in Flows : h # g => toRecv'[h] = toRecv[h]
  BY Types DEF SenderSends
<1>3. \A e \in Flows : e # f =>
              \A h \in Flows : \A t \in {"SEND_FLOW", "CLOSED_FLOW", "CLOSED_ERR"} :
                Fewer(toRecv[h], toRecv'[h], {Msg(t, e)})
  BY <1>1, QuietRequests
<1>4. \A t : m = Msg(t, f) <=> t = type
  BY DEF Msg
<1> HIDE DEF m
<1>5. /\ \A x : Has(toRecv'[g], x) <=> Has(toRecv[g], x) \/ x = m
      /\ \A M : m \notin M => Fewer(toRecv[g], toRecv'[g], M)
      /\ \A M : (\A x \in M : ~Has(toRecv[g], x)) => Once(toRecv'[g], M)
  BY <1>1, <1>2, AppendQ
<1>6. \A h \in Flows, t \in {"SEND_FLOW", "CLOSED_FLOW", "CLOSED_ERR"} :
         Asked(h, t, f)' <=> Asked(h, t, f) \/ (h = g /\ t = type)
  BY <1>2, <1>4, <1>5 DEF Asked
<1>7. ASSUME NEW h \in Flows, Once(toRecv[h], {Msg("SEND_FLOW", f)}),
             h = g /\ type = "SEND_FLOW" => ~Asked(g, "SEND_FLOW", f)
      PROVE  Once(toRecv'[h], {Msg("SEND_FLOW", f)})
  <2>1. CASE h # g
    BY <1>2, <1>7, <2>1
  <2>2. CASE h = g /\ type = "SEND_FLOW"
    BY <1>5, <1>7, <2>2 DEF Asked
  <2>3. CASE h = g /\ type # "SEND_FLOW"
    <3>1. m \notin {Msg("SEND_FLOW", f)}
      BY <1>4, <2>3
    <3> QED
      BY <1>5, <1>7, <2>3, <3>1 DEF Fewer
  <2> QED
    BY <2>1, <2>2, <2>3
<1> QED
  BY <1>3, <1>6, <1>7

\* The same for a reply that a session writes.
LEMMA SendsReply ==
  ASSUME ChannelInv, NEW g \in Flows, NEW f \in Flows,
         NEW type \in {"ACK_SEND_FLOW"} \cup AnswerTypes, ReceiverSends(g, Msg(type, f)),
         \A t \in {"ACK_SEND_FLOW"} \cup AnswerTypes : ~Replied(g, t, f)
  PROVE  /\ \A e \in Flows : e # f => \A h \in Flows : Fewer(toSend[h], toSend'[h], RepliesAbout(e))
         /\ \A h \in Flows, t \in {"ACK_SEND_FLOW"} \cup AnswerTypes :
              Replied(h, t, f)' <=> Replied(h, t, f) \/ (h = g /\ t = type)
         /\ \A h \in Flows : Once(toSend[h], RepliesAbout(f)) => Once(toSend[h], RepliesAbout(f))'
<1> DEFINE m == Msg(type, f)
<1>1. m \in Messages /\ m.flow = f /\ m.type = type
  BY MessageKinds DEF FlowTypes, Msg, AnswerTypes
<1>2. /\ toSend[g] \in Seq(Messages) /\ toSend'[g] = Append(toSend[g], m)
      /\ \A h \in Flows : h # g => toSend'[h] = toSend[h]
  BY Types DEF ReceiverSends
<1>3. \A e \in Flows : e # f => \A h \in Flows : Fewer(toSend[h], toSend'[h], RepliesAbout(e))
  BY <1>1, QuietReplies
<1>4. \A t : m = Msg(t, f) <=> t = type
  BY DEF Msg
<1> HIDE DEF m
<1>5. /\ \A x : Has(toSend'[g], x) <=> Has(toSend[g], x) \/ x = m
      /\ \A M : (\A x \in M : ~Has(toSend[g], x)) => Once(toSend'[g], M)
  BY <1>1, <1>2, AppendQ
<1>6. \A h \in Flows, t \in {"ACK_SEND_FLOW"} \cup AnswerTypes :
         Replied(h, t, f)' <=> Replied(h, t, f) \/ (h = g /\ t = type)
  BY <1>2, <1>4, <1>5 DEF Replied
<1>7. \A x \in RepliesAbout(f) : ~Has(toSend[g], x)
  <2>1. \A x \in RepliesAbout(f) :
          x.type \in {"ACK_SEND_FLOW"} \cup AnswerTypes /\ x = Msg(x.type, f)
    BY DEF RepliesAbout, Msg
  <2> QED
    BY <2>1 DEF Replied
<1> QED
  BY <1>2, <1>3, <1>5, <1>6, <1>7

\* The same for a report that a data thread writes.
LEMMA PushesReport ==
  ASSUME ChannelInv, NEW f \in Flows, NEW code \in ReportCodes, home[f] \in Flows,
         PushReport(f, code),
         \A t \in ReportCodes : ~Reported(home[f], t, f)
  PROVE  /\ \A e \in Flows : e # f => \A h \in Flows : Fewer(rPipe[h], rPipe'[h], ReportsAbout(e))
         /\ \A h \in Flows, t \in ReportCodes :
              Reported(h, t, f)' => Reported(h, t, f) \/ (h = home[f] /\ t = code)
         /\ \A h \in Flows : Once(rPipe[h], ReportsAbout(f)) => Once(rPipe[h], ReportsAbout(f))'
<1>3. \A e \in Flows : e # f => \A h \in Flows : Fewer(rPipe[h], rPipe'[h], ReportsAbout(e))
  BY QuietReports
<1>4. CASE rPipe' = rPipe
  BY <1>3, <1>4 DEF Reported
<1>5. CASE rPipe' # rPipe
  <2>0. PICK m, g : m = Report(code, f) /\ g = home[f]
    OBVIOUS
  <2>1. m \in Reports /\ g \in Flows
    BY <2>0 DEF Reports, Report
  <2>2. /\ rPipe[g] \in Seq(Reports) /\ rPipe'[g] = Append(rPipe[g], m)
        /\ \A h \in Flows : h # g => rPipe'[h] = rPipe[h]
    BY <1>5, <2>0, <2>1, Types DEF PushReport
  <2>3. /\ \A x : Has(rPipe'[g], x) <=> Has(rPipe[g], x) \/ x = m
        /\ \A M : (\A x \in M : ~Has(rPipe[g], x)) => Once(rPipe'[g], M)
    BY <2>1, <2>2, AppendQ
  <2>4. \A t : m = Report(t, f) <=> t = code
    BY <2>0 DEF Report
  <2>5. \A h \in Flows, t \in ReportCodes :
          Reported(h, t, f)' => Reported(h, t, f) \/ (h = g /\ t = code)
    BY <2>2, <2>3, <2>4 DEF Reported
  <2>6. \A x \in ReportsAbout(f) : ~Has(rPipe[g], x)
    BY <2>0 DEF Reported, ReportsAbout, Report
  <2> QED
    BY <1>3, <2>0, <2>2, <2>3, <2>5, <2>6
<1> QED
  BY <1>4, <1>5

\* The same for what flowParser and flowSender write to a channel.
LEMMA PushesPipe ==
  ASSUME ChannelInv, NEW c \in Chans, NEW f \in Flows, NEW code \in PipeCodes,
         PushToChannel(c, code, f),
         \A t \in PipeCodes : ~OnPipeTo(c, t, f)
  PROVE  /\ \A e \in Flows : e # f => \A d \in Chans : Fewer(chanPipe[d], chanPipe'[d], PipeAbout(e))
         /\ \A d \in Chans, t \in PipeCodes :
              OnPipeTo(d, t, f)' => OnPipeTo(d, t, f) \/ (d = c /\ t = code)
         /\ \A d \in Chans : Once(chanPipe[d], PipeAbout(f)) => Once(chanPipe[d], PipeAbout(f))'
<1>3. \A e \in Flows : e # f => \A d \in Chans : Fewer(chanPipe[d], chanPipe'[d], PipeAbout(e))
  BY QuietChannelPipe
<1>4. CASE chanPipe' = chanPipe
  BY <1>3, <1>4 DEF OnPipeTo
<1>5. CASE chanPipe' # chanPipe
  <2>0. PICK m : m = [code |-> code, flow |-> f]
    OBVIOUS
  <2>1. m \in PipeMessages
    BY <2>0 DEF PipeMessages
  <2>2. /\ chanPipe[c] \in Seq(PipeMessages) /\ chanPipe'[c] = Append(chanPipe[c], m)
        /\ \A d \in Chans : d # c => chanPipe'[d] = chanPipe[d]
    BY <1>5, <2>0, Types DEF PushToChannel
  <2>3. /\ \A x : Has(chanPipe'[c], x) <=> Has(chanPipe[c], x) \/ x = m
        /\ \A M : (\A x \in M : ~Has(chanPipe[c], x)) => Once(chanPipe'[c], M)
    BY <2>1, <2>2, AppendQ
  <2>4. \A t : m = [code |-> t, flow |-> f] <=> t = code
    BY <2>0
  <2>5. \A d \in Chans, t \in PipeCodes :
          OnPipeTo(d, t, f)' => OnPipeTo(d, t, f) \/ (d = c /\ t = code)
    BY <2>2, <2>3, <2>4 DEF OnPipeTo
  <2>6. \A x \in PipeAbout(f) : ~Has(chanPipe[c], x)
    BY DEF OnPipeTo, PipeAbout
  <2> QED
    BY <1>3, <2>2, <2>3, <2>5, <2>6
<1> QED
  BY <1>4, <1>5

\* What a manager takes from its pipe.
LEMMA ReadsOwnPipe ==
  ASSUME FlowInv, NEW g \in Flows, NEW code \in PipeCodes, OnPipe(g, code),
         NEW c, c = sigChan[g], NEW f, f = Head(chanPipe[c]).flow
  PROVE  /\ c \in Chans /\ f \in Flows /\ chanSock[c] = g
         /\ manager[g] = IdleManager /\ process = "run"
         /\ OnPipeTo(c, code, f)
         /\ \A t \in PipeCodes : ~OnPipeTo(c, t, f)'
         /\ \A e \in Flows : \A d \in Chans : Fewer(chanPipe[d], chanPipe'[d], PipeAbout(e))
         /\ UNCHANGED <<chanSock, chanFlows, holders>>
<1>1. ChannelInv /\ ChannelsKept /\ \A e \in Flows : FlowKept(e)
  BY DEF FlowInv, FlowsServed
<1>2. /\ manager[g] = IdleManager /\ process = "run"
      /\ chanPipe[c] # <<>> /\ Head(chanPipe[c]).code = code
      /\ chanPipe' = [chanPipe EXCEPT ![c] = Tail(@)]
      /\ UNCHANGED <<chanSock, chanFlows, holders>>
  BY DEF OnPipe, ManagerReady
<1>3. c \in Chans /\ chanSock[c] = g
  BY <1>1, <1>2 DEF ChannelsKept, ChannelInv, ChannelKnown, LivePCs, IdleManager, Manager
<1> QED
  BY <1>1, <1>2, <1>3, TakesFromPipe

\* ForwardRequest: NEWFLOW becomes SEND_FLOW, ENDFLOW becomes CLOSED_FLOW.
LEMMA ForwardKeeps ==
  ASSUME FlowInv, NEW g \in Flows, ForwardRequest(g), UNCHANGED recvVars
  PROVE  FlowsServed'
<1>0. PICK c, f : c = sigChan[g] /\ f = Head(chanPipe[c]).flow
  OBVIOUS
<1>1. ChannelInv /\ ChannelsKept /\ SessionsKept /\ \A e \in Flows : FlowKept(e)
  BY DEF FlowInv, FlowsServed
<1>2. PICK code \in {"NEWFLOW", "ENDFLOW"}, type \in {"SEND_FLOW", "CLOSED_FLOW"} :
      /\ OnPipe(g, code) /\ SenderSends(g, Msg(type, f))
      /\ code = "NEWFLOW" <=> type = "SEND_FLOW"
  BY <1>0 DEF ForwardRequest, RequestToSend, ClosedFlowSent
<1>3. /\ UNCHANGED <<parser, outcome, sigChan, parserPipe, manager, sender, toSend>>
      /\ UNCHANGED <<table, thread, rPipe, home, session>>
  BY DEF ForwardRequest, threadVars, recvVars
<1>4. /\ c \in Chans /\ f \in Flows /\ chanSock[c] = g
      /\ OnPipeTo(c, code, f)
      /\ \A t \in PipeCodes : ~OnPipeTo(c, t, f)'
      /\ \A e \in Flows : \A d \in Chans : Fewer(chanPipe[d], chanPipe'[d], PipeAbout(e))
      /\ UNCHANGED <<chanSock, chanFlows, holders>>
  <2>1. code \in PipeCodes
    BY DEF PipeCodes
  <2> QED
    BY <1>0, <1>2, <2>1, ReadsOwnPipe
<1>5. ChannelsKept'
  BY <1>1, <1>3, <1>4, ChannelsFrame
<1>6. SessionsKept'
  BY <1>3, SessionsFrame
<1>7. /\ code = "NEWFLOW" => /\ thread[f] = "none" /\ sigChan[f] = c /\ Pending(f, g)
                             /\ \A h \in Flows : ~Asked(h, "SEND_FLOW", f)
      /\ code = "ENDFLOW" => sender[f] = "finished"
  BY <1>1, <1>4 DEF FlowKept, PipePart
<1>8. /\ \A e \in Flows : e # f =>
              \A h \in Flows : \A t \in {"SEND_FLOW", "CLOSED_FLOW", "CLOSED_ERR"} :
                Fewer(toRecv[h], toRecv'[h], {Msg(t, e)})
      /\ \A h \in Flows, t \in {"SEND_FLOW", "CLOSED_FLOW", "CLOSED_ERR"} :
              Asked(h, t, f)' <=> Asked(h, t, f) \/ (h = g /\ t = type)
      /\ \A h \in Flows :
              /\ Once(toRecv[h], {Msg("SEND_FLOW", f)})
              /\ h = g /\ type = "SEND_FLOW" => ~Asked(g, "SEND_FLOW", f)
              => Once(toRecv[h], {Msg("SEND_FLOW", f)})'
  <2>1. /\ ChannelInv /\ f \in Flows /\ type \in {"SEND_FLOW", "CLOSED_FLOW", "CLOSED_ERR"}
        /\ SenderSends(g, Msg(type, f))
    BY <1>1, <1>2, <1>4
  <2> QED
    BY ZenonT(40), <2>1, SendsRequest DEF Asked
<1>9. ASSUME NEW e \in Flows, e # f
      PROVE  FlowKept(e)'
  <2>1. SameThreads(e) /\ SameHandling(e)
    BY <1>3, <1>4 DEF SameThreads, SameHandling, Handles, Holds
  <2>2. FewerMessages(e)
    BY <1>3, <1>4, <1>8, <1>9, EmptyQ DEF FewerMessages
  <2> QED
    BY <1>1, <2>1, <2>2, Frame DEF SameView
<1>10. FlowKept(f)'
  <2> USE DEF FlowKept
  <2>1. \A h : Pending(f, h)' <=> Pending(f, h)
    BY <1>3, <1>4 DEF Pending, Holds, Handles
  <2>2. ParserPart(f)' /\ HandledPart(f)' /\ ReportPart(f)' /\ ReplyPart(f)'
    <3>1. ParserPart(f)' /\ HandledPart(f)'
      BY <1>1, <1>3, <1>4 DEF ParserPart, HandledPart, Holds, Handles
    <3>2. ReportPart(f)'
      BY <1>1, <1>3, <1>4 DEF ReportPart, Reported
    <3>3. ReplyPart(f)'
      BY <1>1, <1>3, <1>4, <2>1 DEF ReplyPart, Replied, Reported
    <3> QED
      BY <3>1, <3>2, <3>3
  <2>3. ThreadPart(f)'
    BY <1>1, <1>3, <1>4, <2>1 DEF ThreadPart, Handles
  <2>4. PipePart(f)'
    <3>1. \A d \in Chans : d # c => ~OnPipeTo(d, "NEWFLOW", f)
      <4>1. \A d \in Chans : OnPipeTo(d, "NEWFLOW", f) => thread[f] = "none" /\ sigChan[f] = d
        BY <1>1, <1>4 DEF PipePart
      <4>2. sender[f] = "finished" => thread[f] # "none"
        BY <1>1, <1>4 DEF ThreadPart, ThreadsOf
      <4> QED
        BY <1>2, <1>7, <4>1, <4>2
    <3>2. \A d \in Chans : /\ Once(chanPipe[d], PipeAbout(f))'
                           /\ \A t \in PipeCodes : OnPipeTo(d, t, f)' => OnPipeTo(d, t, f)
      BY <1>1, <1>4 DEF PipePart, Fewer, OnPipeTo, PipeAbout
    <3>3. \A d \in Chans : ~OnPipeTo(d, "NEWFLOW", f)'
      BY <1>4, <3>1, <3>2 DEF PipeCodes
    <3> QED
      BY <1>1, <1>3, <1>4, <2>1, <3>2, <3>3 DEF PipePart, PipeCodes
  <2>5. RequestPart(f)'
    <3>1. \A h \in Flows : Once(toRecv[h], {Msg("SEND_FLOW", f)})'
      BY <1>1, <1>2, <1>4, <1>7, <1>8 DEF RequestPart
    <3>2. type = "SEND_FLOW" => thread[f] = "none" /\ Pending(f, g)
      BY <1>2, <1>7
    <3>3. type = "CLOSED_FLOW" => sender[f] = "finished"
      BY <1>2, <1>7
    <3>4. \A h \in Flows : Asked(h, "SEND_FLOW", f)' => thread'[f] = "none" /\ Pending(f, h)'
      BY <1>1, <1>3, <1>4, <1>8, <2>1, <3>2 DEF RequestPart
    <3>5. \A h \in Flows : /\ Asked(h, "CLOSED_FLOW", f)' => sender'[f] = "finished"
                           /\ Asked(h, "CLOSED_ERR", f)' =>
                                /\ sender'[f] = "failed"
                                /\ parserPipe'[f] # <<>> \/ parser'[f] = "ended"
      BY <1>1, <1>2, <1>3, <1>4, <1>8, <3>3 DEF RequestPart
    <3> QED
      BY <3>1, <3>4, <3>5 DEF RequestPart
  <2> QED
    BY <2>2, <2>3, <2>4, <2>5
<1> QED
  BY <1>5, <1>6, <1>9, <1>10 DEF FlowsServed

\* FlowFailed: the manager reads ERRFLOW and tells the parser.
LEMMA FailedKeeps ==
  ASSUME FlowInv, NEW g \in Flows, FlowFailed(g), UNCHANGED recvVars
  PROVE  FlowsServed'
<1>0. PICK c, f : c = sigChan[g] /\ f = Head(chanPipe[c]).flow
  OBVIOUS
<1>1. ChannelInv /\ ChannelsKept /\ SessionsKept /\ \A e \in Flows : FlowKept(e)
  BY DEF FlowInv, FlowsServed
<1>2. /\ OnPipe(g, "ERRFLOW")
      /\ parserPipe' = [parserPipe EXCEPT ![f] = Append(@, "ERR2")]
      /\ manager' = [manager EXCEPT ![g] = Manager("closedErr", f, "ERR2")]
      /\ UNCHANGED <<parser, outcome, sigChan, sender, toSend, toRecv>>
      /\ UNCHANGED <<table, thread, rPipe, home, session>>
  BY <1>0 DEF FlowFailed, PushToParser, SetManager, netVars, recvVars
<1>3. /\ c \in Chans /\ f \in Flows /\ chanSock[c] = g /\ manager[g] = IdleManager
      /\ OnPipeTo(c, "ERRFLOW", f)
      /\ \A t \in PipeCodes : ~OnPipeTo(c, t, f)'
      /\ \A e \in Flows : \A d \in Chans : Fewer(chanPipe[d], chanPipe'[d], PipeAbout(e))
      /\ UNCHANGED <<chanSock, chanFlows, holders>>
  <2>1. "ERRFLOW" \in PipeCodes
    BY DEF PipeCodes
  <2> QED
    BY <1>0, <1>2, <2>1, ReadsOwnPipe
<1>4. /\ sender[f] = "failed" /\ thread[f] = "listening" /\ sigChan[f] = c
      /\ home[f] = g /\ Pending(f, g)
  <2>1. /\ sender[f] = "failed" /\ thread[f] = "listening" /\ sigChan[f] = c
        /\ Pending(f, home[f])
    BY <1>1, <1>3 DEF FlowKept, PipePart
  <2> QED
    BY <1>3, <2>1 DEF Pending
<1>5. /\ manager'[g] = [pc |-> "closedErr", flow |-> f, code |-> "ERR2"]
      /\ \A h \in Flows : h # g => manager'[h] = manager[h]
      /\ manager[g].flow = NoFlow /\ manager[g].pc = "idle" /\ NoFlow \notin Flows
  BY <1>1, <1>2, <1>3, Types DEF IdleManager, Manager
<1>6. /\ parserPipe'[f] # <<>> /\ Len(parserPipe'[f]) = 1 /\ Head(parserPipe'[f]) = "ERR2"
      /\ \A e \in Flows : e # f => parserPipe'[e] = parserPipe[e]
  <2>1. parserPipe[f] = <<>>
    BY <1>4 DEF Pending
  <2> QED
    BY <1>1, <1>2, <1>3, <2>1, Types
<1>7. ChannelsKept'
  <2>1. f \in holders[sigChan[g]]
    BY <1>0, <1>4 DEF Pending, Holds
  <2> QED
    BY <1>2, <1>3, <1>5, <2>1, ManagersFrame DEF LivePCs, Manager
<1>8. SessionsKept'
  BY <1>2, SessionsFrame
<1>9. \A e \in Flows : FewerMessages(e)
  BY <1>2, <1>3, EmptyQ DEF FewerMessages
<1>10. ASSUME NEW e \in Flows, e # f
       PROVE  FlowKept(e)'
  <2>1. SameThreads(e) /\ SameHandling(e)
    BY <1>2, <1>3, <1>5, <1>6, <1>10 DEF SameThreads, SameHandling, Handles, Holds
  <2> QED
    BY <1>1, <1>9, <2>1, Frame DEF SameView
<1>11. FlowKept(f)'
  <2> USE DEF FlowKept
  <2>1. \A h \in Flows : Handles(h, f)' => h = g
    BY <1>4, <1>5 DEF Pending, Handles
  <2>2. ParserPart(f)'
    <3>1. parser'[f] = "waiting" /\ outcome'[f] = "none"
      BY <1>1, <1>2, <1>3, <1>4 DEF ParserPart, Pending
    <3> QED
      BY <1>2, <1>4, <1>5, <1>6, <2>1, <3>1 DEF ParserPart
  <2>3. HandledPart(f)'
    BY <1>2, <1>4, <1>5, <1>6, <2>1 DEF HandledPart
  <2>4. ThreadPart(f)'
    BY <1>1, <1>2, <1>3, <1>4 DEF ThreadPart
  <2>5. PipePart(f)'
    <3>1. \A d \in Chans, code \in PipeCodes : ~OnPipeTo(d, code, f)'
      <4>1. \A d \in Chans, code \in PipeCodes : d # c => ~OnPipeTo(d, code, f)
        BY <1>1, <1>3, <1>4 DEF PipePart, PipeCodes
      <4> QED
        BY <1>3, <1>9, <4>1, MessageFrame
    <3> QED
      BY <1>1, <1>3, <1>9, <3>1, MessageFrame DEF PipePart, PipeCodes
  <2>6. RequestPart(f)'
    BY <1>1, <1>2, <1>3, <1>4, <1>6, <1>9, MessageFrame DEF RequestPart
  <2>7. ReportPart(f)'
    BY <1>1, <1>2, <1>3, <1>4, <1>9, MessageFrame DEF ReportPart, ReportCodes
  <2>8. ReplyPart(f)'
    <3>1. \A h \in Flows, t \in {"ACK_SEND_FLOW"} \cup AnswerTypes : ~Replied(h, t, f)
      BY <1>1, <1>3, <1>4 DEF ReplyPart
    <3> QED
      BY <1>1, <1>3, <1>9, <3>1, MessageFrame DEF ReplyPart
  <2> QED
    BY <2>2, <2>3, <2>4, <2>5, <2>6, <2>7, <2>8
<1> QED
  BY <1>7, <1>8, <1>10, <1>11 DEF FlowsServed

\* Nothing about a flow that its manager has at hand needs it to be pending, so
\* what is said of its messages and of its data thread outlives the step.
LEMMA HandledFlowFrame ==
  ASSUME NEW f \in Flows, FlowKept(f), NEW g \in Flows, Handles(g, f),
         UNCHANGED <<parser, sender, thread, table, home>>,
         parserPipe'[f] = parserPipe[f] \/ parserPipe'[f] # <<>>,
         FewerMessages(f)
  PROVE  ThreadPart(f)' /\ PipePart(f)' /\ RequestPart(f)' /\ ReportPart(f)' /\ ReplyPart(f)'
<1> USE DEF FlowKept
<1>1. thread[f] # "none" /\ \A h : ~Pending(f, h)
  BY DEF ThreadPart, Pending
<1>2. ThreadPart(f)'
  BY <1>1 DEF ThreadPart
<1>3. PipePart(f)'
  BY <1>1, MessageFrame DEF PipePart, PipeCodes
<1>4. RequestPart(f)'
  BY <1>1, MessageFrame DEF RequestPart
<1>5. ReportPart(f)'
  BY MessageFrame DEF ReportPart, ReportCodes
<1>6. ReplyPart(f)'
  BY <1>1, MessageFrame DEF ReplyPart, ReportCodes
<1> QED
  BY <1>2, <1>3, <1>4, <1>5, <1>6

\* SendClosedErr: then it tells the receiver.
LEMMA SendClosedErrKeeps ==
  ASSUME FlowInv, NEW g \in Flows, SendClosedErr(g), UNCHANGED recvVars
  PROVE  FlowsServed'
<1>0. PICK f : f = manager[g].flow
  OBVIOUS
<1>1. ChannelInv /\ ChannelsKept /\ SessionsKept /\ \A e \in Flows : FlowKept(e)
  BY DEF FlowInv, FlowsServed
<1>2. /\ manager[g].pc = "closedErr" /\ SenderSends(g, Msg("CLOSED_ERR", f))
      /\ manager' = [manager EXCEPT ![g] = [manager[g] EXCEPT !.pc = "closing"]]
      /\ UNCHANGED <<parser, outcome, sigChan, parserPipe, sender, chanVars, toSend>>
      /\ UNCHANGED <<table, thread, rPipe, home, session>>
  BY <1>0 DEF SendClosedErr, SetManager, recvVars
<1>3. /\ f \in Flows /\ Handles(g, f)
      /\ \A h \in Flows : manager'[h].flow = manager[h].flow /\ manager'[h].code = manager[h].code
      /\ manager'[g].pc = "closing" /\ \A h \in Flows : h # g => manager'[h] = manager[h]
  <2>1. f \in Flows
    BY <1>0, <1>1, <1>2, BusyManager DEF ManagerPCs
  <2>2. manager[g] \in [pc : ManagerPCs, flow : Flows, code : ResultCodes]
    BY <1>1, <1>2, Types DEF Managers, IdleManager, Manager, ManagerPCs
  <2> QED
    BY <1>0, <1>1, <1>2, <2>1, <2>2, Types DEF Handles
<1>4. /\ home[f] = g /\ sender[f] = "failed" /\ manager[g].code = "ERR2"
      /\ parserPipe[f] # <<>> \/ parser[f] = "ended"
  BY <1>1, <1>2, <1>3 DEF FlowKept, HandledPart
<1>5. ChannelsKept'
  <2>1. f \in holders[sigChan[g]]
    BY <1>0, <1>1, <1>2 DEF ChannelsKept
  <2> QED
    BY ZenonT(60), <1>0, <1>2, <1>3, <2>1, ManagersFrame DEF chanVars, LivePCs
<1>6. SessionsKept'
  BY <1>2, SessionsFrame
<1>7. /\ \A e \in Flows : e # f =>
              \A h \in Flows : \A t \in {"SEND_FLOW", "CLOSED_FLOW", "CLOSED_ERR"} :
                Fewer(toRecv[h], toRecv'[h], {Msg(t, e)})
      /\ \A h \in Flows, t \in {"SEND_FLOW", "CLOSED_FLOW", "CLOSED_ERR"} :
              Asked(h, t, f)' <=> Asked(h, t, f) \/ (h = g /\ t = "CLOSED_ERR")
      /\ \A h \in Flows :
              Once(toRecv[h], {Msg("SEND_FLOW", f)}) => Once(toRecv[h], {Msg("SEND_FLOW", f)})'
  BY <1>1, <1>2, <1>3, SendsRequest DEF Asked
<1>8. ASSUME NEW e \in Flows, e # f
      PROVE  FlowKept(e)'
  <2>1. SameThreads(e) /\ SameHandling(e)
    BY <1>0, <1>2, <1>3, <1>8 DEF SameThreads, SameHandling, Handles, Holds, chanVars
  <2>2. FewerMessages(e)
    BY <1>2, <1>7, <1>8, EmptyQ DEF FewerMessages, chanVars
  <2> QED
    BY <1>1, <2>1, <2>2, Frame DEF SameView
<1>9. FlowKept(f)'
  <2> USE DEF FlowKept
  <2>0. thread[f] # "none" /\ \A h : ~Pending(f, h)
    BY <1>1, <1>3 DEF ThreadPart, Pending
  <2>1. ParserPart(f)'
    BY <1>1, <1>2, <1>3, <1>4 DEF ParserPart, HandledPart, Handles, Holds, chanVars
  <2>2. HandledPart(f)'
    BY <1>1, <1>2, <1>3, <1>4 DEF HandledPart, Handles
  <2>3. ThreadPart(f)'
    BY <1>1, <1>2, <1>3, <2>0 DEF ThreadPart
  <2>4. PipePart(f)'
    BY <1>1, <1>2, <1>3, <2>0 DEF PipePart, OnPipeTo, chanVars
  <2>5. RequestPart(f)'
    BY <1>1, <1>2, <1>3, <1>4, <1>7, <2>0 DEF RequestPart
  <2>6. ReportPart(f)'
    BY <1>1, <1>2, <1>3 DEF ReportPart, Reported
  <2>7. ReplyPart(f)'
    BY <1>1, <1>2, <1>3, <1>4, <2>0 DEF ReplyPart, Replied, Reported
  <2> QED
    BY <2>1, <2>2, <2>3, <2>4, <2>5, <2>6, <2>7
<1> QED
  BY <1>5, <1>6, <1>8, <1>9 DEF FlowsServed

\* ManagerLeaves: the flow leaves its channel (isChannelClosable).
LEMMA LeavesKeeps ==
  ASSUME FlowInv, NEW g \in Flows, ManagerLeaves(g), UNCHANGED recvVars
  PROVE  FlowsServed'
<1>0. PICK f, c, m : /\ f = manager[g].flow /\ c = sigChan[g]
                     /\ m = IF chanFlows[c] = 1 THEN [manager[g] EXCEPT !.pc = "releasing"]
                            ELSE IF manager[g].code = "ERR2" THEN IdleManager
                            ELSE [manager[g] EXCEPT !.pc = "notify"]
  OBVIOUS
<1>1. ChannelInv /\ ChannelsKept /\ SessionsKept /\ \A e \in Flows : FlowKept(e)
  BY DEF FlowInv, FlowsServed
<1>2. /\ manager[g].pc = "closing" /\ manager' = [manager EXCEPT ![g] = m]
      /\ chanFlows' = [chanFlows EXCEPT ![c] = @ - 1]
      /\ holders' = [holders EXCEPT ![c] = @ \ {f}]
      /\ toRecv' = toRecv \/ SenderSends(chanSock[c], Plain("RELEASE"))
      /\ UNCHANGED <<parser, outcome, sigChan, parserPipe, sender, chanSock, chanPipe, toSend>>
      /\ UNCHANGED <<table, thread, rPipe, home, session>>
  BY <1>0 DEF ManagerLeaves, LeaveChannel, SetManager, SendRelease, recvVars
<1>3. /\ c \in Chans /\ chanSock[c] = g /\ f \in holders[c] /\ sigChan[f] = c /\ Dest[g] = Dest[f]
      /\ chanFlows[c] = Cardinality(holders[c]) /\ holders[c] \in SUBSET Flows /\ IsFiniteSet(holders[c])
      /\ f \in Flows /\ Handles(g, f)
  <2>1. c \in Chans /\ chanSock[c] = g /\ f \in holders[c]
    BY <1>0, <1>1, <1>2 DEF ChannelsKept, ChannelInv, ChannelKnown, LivePCs
  <2>2. holders[c] \in SUBSET Flows
    BY <1>1, <2>1, Types
  <2>3. IsFiniteSet(holders[c])
    BY <2>2, SenderAssumption, FS_Subset
  <2> QED
    BY <1>0, <1>1, <1>2, <2>1, <2>2, <2>3 DEF ChannelsKept, Handles
<1>4. /\ chanFlows[c] = 1 => holders'[c] = {}
      /\ chanFlows'[c] = Cardinality(holders'[c])
  <2>1. holders'[c] = holders[c] \ {f} /\ chanFlows'[c] = chanFlows[c] - 1
    BY <1>1, <1>2, <1>3, Types
  <2>2. Cardinality(holders[c] \ {f}) = Cardinality(holders[c]) - 1 /\ IsFiniteSet(holders[c] \ {f})
    BY <1>3, FS_RemoveElement
  <2>3. chanFlows[c] = 1 => Cardinality(holders[c] \ {f}) = 0
    BY <1>3, <2>2
  <2> QED
    BY <1>3, <2>1, <2>2, <2>3, FS_EmptySet
<1>5. /\ manager'[g] = m /\ \A h \in Flows : h # g => manager'[h] = manager[h]
      /\ \/ m.pc = "releasing" /\ m.flow = f /\ m.code = manager[g].code /\ holders'[c] = {}
         \/ m.pc = "notify" /\ m.flow = f /\ m.code = manager[g].code /\ m.code # "ERR2"
         \/ m = IdleManager /\ manager[g].code = "ERR2"
  <2>1. manager[g] \in [pc : ManagerPCs, flow : Flows, code : ResultCodes]
    BY <1>1, <1>2, Types DEF Managers, IdleManager, Manager, ManagerPCs
  <2> QED
    BY <1>0, <1>1, <1>2, <1>4, <2>1, Types
<1>6. /\ holders'[c] = holders[c] \ {f}
      /\ \A d \in Chans : d # c => holders'[d] = holders[d] /\ chanFlows'[d] = chanFlows[d]
  BY <1>1, <1>2, <1>3, Types
<1>7. ChannelsKept'
  <2>0. parser' = parser /\ sigChan' = sigChan /\ chanSock' = chanSock /\ c = sigChan[g]
    BY <1>0, <1>2
  <2>1. \A d \in Chans :
       /\ chanFlows'[d] = Cardinality(holders'[d])
       /\ \A e \in holders'[d] :
            /\ sigChan'[e] = d /\ parser'[e] \in {"attached", "waiting", "ended"}
            /\ chanSock'[d] # NoFlow /\ Dest[chanSock'[d]] = Dest[e]
    <3>1. \A d \in Chans :
       /\ chanFlows[d] = Cardinality(holders[d])
       /\ \A e \in holders[d] :
            /\ sigChan[e] = d /\ parser[e] \in {"attached", "waiting", "ended"}
            /\ chanSock[d] # NoFlow /\ Dest[chanSock[d]] = Dest[e]
      BY <1>1 DEF ChannelsKept
    <3> TAKE d \in Chans
    <3>2. holders'[d] \subseteq holders[d] /\ chanSock'[d] = chanSock[d]
      BY <1>2, <1>6
    <3>3. chanFlows'[d] = Cardinality(holders'[d])
      BY <1>4, <1>6, <3>1
    <3> QED
      BY <1>2, <3>1, <3>2, <3>3
  <2>2. \A d \in Chans : chanSock'[d] # NoFlow =>
            sigChan'[chanSock'[d]] = d /\ manager'[chanSock'[d]].pc \in LivePCs
    <3> SUFFICES ASSUME NEW d \in Chans, chanSock[d] # NoFlow
                 PROVE  sigChan[chanSock[d]] = d /\ manager'[chanSock[d]].pc \in LivePCs
      BY <1>2
    <3>1. chanSock[d] \in Flows
      BY <1>1, Types
    <3> QED
      BY <1>1, <1>5, <3>1 DEF ChannelsKept, LivePCs, IdleManager, Manager
  <2>3. ASSUME NEW h \in Flows
        PROVE  /\ parser'[h] \in {"idle", "connecting", "naming"} => manager'[h].pc = "none"
               /\ manager'[h].pc \in LivePCs => chanSock'[sigChan'[h]] = h
               /\ manager'[h].pc \in {"closedErr", "closing"} => manager'[h].flow \in holders'[sigChan'[h]]
               /\ manager'[h].pc = "releasing" =>
                    /\ holders'[sigChan'[h]] = {}
                    /\ sigChan'[manager'[h].flow] = sigChan'[h] /\ Dest[manager'[h].flow] = Dest[h]
    <3>1. CASE h = g
      <4>1. parser[g] \notin {"idle", "connecting", "naming"}
        BY <1>1, <1>2 DEF ChannelsKept
      <4>2. m.pc \in {"releasing", "notify", "idle"}
        BY <1>5 DEF IdleManager, Manager
      <4>3. m.pc = "releasing" => m.flow = f /\ holders'[c] = {}
        BY <1>5 DEF IdleManager, Manager
      <4> QED
        BY <1>3, <1>5, <2>0, <3>1, <4>1, <4>2, <4>3
    <3>2. CASE h # g
      <4>1. /\ parser[h] \in {"idle", "connecting", "naming"} => manager[h].pc = "none"
            /\ manager[h].pc \in LivePCs => chanSock[sigChan[h]] = h
            /\ manager[h].pc \in {"closedErr", "closing"} => manager[h].flow \in holders[sigChan[h]]
            /\ manager[h].pc = "releasing" =>
                 /\ holders[sigChan[h]] = {}
                 /\ sigChan[manager[h].flow] = sigChan[h] /\ Dest[manager[h].flow] = Dest[h]
        BY <1>1 DEF ChannelsKept
      <4>2. manager[h].pc \in LivePCs => sigChan[h] \in Chans /\ sigChan[h] # c
        BY <1>1, <1>3, <3>2, <4>1 DEF ChannelInv, ChannelKnown, LivePCs
      <4>3. /\ manager'[h] = manager[h]
            /\ manager[h].pc \in LivePCs => holders'[sigChan[h]] = holders[sigChan[h]]
        BY <1>5, <1>6, <3>2, <4>2
      <4> QED
        BY <2>0, <4>1, <4>3 DEF LivePCs
    <3> QED
      BY <3>1, <3>2
  <2> QED
    BY <2>1, <2>2, <2>3 DEF ChannelsKept
<1>8. SessionsKept'
  BY <1>2, SessionsFrame
<1>9. \A e \in Flows : FewerMessages(e)
  <2> TAKE e \in Flows
  <2>1. Plain("RELEASE") \in Messages /\ Plain("RELEASE").flow # e
    BY MessageKinds, FlowAssumption DEF Plain, PlainTypes
  <2>2. \A h \in Flows : \A t \in {"SEND_FLOW", "CLOSED_FLOW", "CLOSED_ERR"} :
            Fewer(toRecv[h], toRecv'[h], {Msg(t, e)})
    BY <1>1, <1>2, <1>3, <2>1, QuietRequests
  <2> QED
    BY <1>2, <2>2, EmptyQ DEF FewerMessages
<1>10. ASSUME NEW e \in Flows, e # f
       PROVE  FlowKept(e)'
  <2>1. SameThreads(e)
    BY <1>2 DEF SameThreads
  <2>2. SameHandling(e)
    BY <1>0, <1>2, <1>5, <1>6, <1>10, FlowAssumption DEF SameHandling, Handles, Holds,
       IdleManager, Manager
  <2> QED
    BY <1>1, <1>9, <2>1, <2>2, Frame DEF SameView
<1>11. FlowKept(f)'
  <2> USE DEF FlowKept
  <2>1. /\ home[f] = g
        /\ IF manager[g].code = "ERR2"
           THEN /\ sender[f] = "failed"
                /\ parserPipe[f] # <<>> \/ parser[f] = "ended"
           ELSE /\ sender[f] # "failed"
                /\ parser[f] = "waiting" /\ parserPipe[f] = <<>>
                /\ thread[f] \in {"reaped", "cancelled"} /\ f \notin table[g]
    BY <1>1, <1>3 DEF HandledPart
  <2>2. \A h \in Flows : Handles(h, f)' => h = g /\ m # IdleManager
    BY <1>1, <1>3, <1>5, <2>1, FlowAssumption DEF HandledPart, Handles, IdleManager, Manager
  <2>3. ParserPart(f)'
    <3>1. /\ parser[f] \notin {"waiting", "ended"} => thread[f] = "none"
          /\ parser[f] # "attached"
          /\ outcome[f] # "none" => parser[f] = "ended"
      BY <1>1, <1>3, <2>1 DEF ParserPart
    <3>2. parser[f] = "waiting" => \/ parserPipe[f] # <<>>
                                   \/ /\ Handles(g, f)' /\ m.code # "ERR2"
                                      /\ m.pc \in {"releasing", "notify", "lastNotify"}
      BY <1>3, <1>5, <2>1 DEF Handles
    <3>3. parserPipe[f] # <<>> =>
            /\ parser[f] = "waiting" /\ Len(parserPipe[f]) = 1
            /\ Handles(g, f)' => m.code = "ERR2"
            /\ Head(parserPipe[f]) = "ERR2" <=> sender[f] = "failed"
      BY <1>1, <1>3, <1>5, <2>1, <2>2 DEF ParserPart
    <3> QED
      BY <1>2, <1>3, <1>5, <2>2, <3>1, <3>2, <3>3 DEF ParserPart
  <2>4. HandledPart(f)'
    BY <1>2, <1>5, <2>1, <2>2 DEF HandledPart
  <2>5. ThreadPart(f)' /\ PipePart(f)' /\ RequestPart(f)' /\ ReportPart(f)' /\ ReplyPart(f)'
    BY <1>1, <1>2, <1>3, <1>9, HandledFlowFrame
  <2> QED
    BY <2>3, <2>4, <2>5
<1> QED
  BY <1>7, <1>8, <1>10, <1>11 DEF FlowsServed

\* ManagerReleased: the channel is closed (isChannelClosable, after sendRelease).
LEMMA ReleasedKeeps ==
  ASSUME FlowInv, NEW g \in Flows, ManagerReleased(g), UNCHANGED recvVars
  PROVE  FlowsServed'
<1>0. PICK f, c, m : /\ f = manager[g].flow /\ c = sigChan[g]
                     /\ m = [manager[g] EXCEPT !.pc = IF manager[g].code = "ERR2" THEN "exited"
                                                      ELSE "lastNotify"]
  OBVIOUS
<1>1. ChannelInv /\ ChannelsKept /\ SessionsKept /\ \A e \in Flows : FlowKept(e)
  BY DEF FlowInv, FlowsServed
<1>2. /\ manager[g].pc = "releasing" /\ manager' = [manager EXCEPT ![g] = m]
      /\ Answered(chanSock[c])
      /\ chanSock' = [chanSock EXCEPT ![c] = NoFlow]
      /\ chanPipe' = [chanPipe EXCEPT ![c] = <<>>]
      /\ UNCHANGED <<parser, outcome, sigChan, parserPipe, sender, chanFlows, holders, toRecv>>
      /\ UNCHANGED <<table, thread, rPipe, home, session>>
  BY <1>0 DEF ManagerReleased, CloseChannel, SetManager, recvVars
<1>3. /\ c \in Chans /\ chanSock[c] = g /\ holders[c] = {} /\ sigChan[f] = c
      /\ f \in Flows /\ Handles(g, f)
  <2>1. c \in Chans /\ chanSock[c] = g /\ holders[c] = {} /\ sigChan[f] = c
    BY <1>0, <1>1, <1>2 DEF ChannelsKept, ChannelInv, ChannelKnown, LivePCs
  <2> QED
    BY <1>0, <1>1, <1>2, <2>1, BusyManager DEF Handles, ManagerPCs
<1>4. /\ manager'[g] = m /\ \A h \in Flows : h # g => manager'[h] = manager[h]
      /\ m.flow = f /\ m.code = manager[g].code
      /\ m.pc = IF manager[g].code = "ERR2" THEN "exited" ELSE "lastNotify"
  <2>1. manager[g] \in [pc : ManagerPCs, flow : Flows, code : ResultCodes]
    BY <1>1, <1>2, Types DEF Managers, IdleManager, Manager, ManagerPCs
  <2> QED
    BY <1>0, <1>1, <1>2, <2>1, Types
<1>5. /\ chanSock'[c] = NoFlow
      /\ \A d \in Chans : d # c => chanSock'[d] = chanSock[d]
  BY <1>1, <1>2, <1>3, Types
<1>6. ChannelsKept'
  <2>0. /\ UNCHANGED <<parser, sigChan, chanFlows, holders>>
        /\ c = sigChan[g]
    BY <1>0, <1>2
  <2>1. ASSUME NEW d \in Chans
        PROVE  /\ chanFlows'[d] = Cardinality(holders'[d])
               /\ \A e \in holders'[d] :
                    /\ sigChan'[e] = d /\ parser'[e] \in {"attached", "waiting", "ended"}
                    /\ chanSock'[d] # NoFlow /\ Dest[chanSock'[d]] = Dest[e]
    BY <1>1, <1>3, <1>5, <2>0 DEF ChannelsKept
  <2>2. ASSUME NEW d \in Chans, chanSock'[d] # NoFlow
        PROVE  sigChan'[chanSock'[d]] = d /\ manager'[chanSock'[d]].pc \in LivePCs
    <3>1. chanSock[d] \in Flows /\ d # c /\ chanSock'[d] = chanSock[d]
      BY <1>1, <1>5, <2>2, Types
    <3>2. sigChan[chanSock[d]] = d /\ manager[chanSock[d]].pc \in LivePCs
      BY <1>1, <1>5, <2>2, <3>1 DEF ChannelsKept
    <3>3. chanSock[d] # g
      BY <2>0, <3>1, <3>2
    <3> QED
      BY <1>4, <2>0, <3>1, <3>2, <3>3
  <2>3. ASSUME NEW h \in Flows
        PROVE  /\ parser'[h] \in {"idle", "connecting", "naming"} => manager'[h].pc = "none"
               /\ manager'[h].pc \in LivePCs => chanSock'[sigChan'[h]] = h
               /\ manager'[h].pc \in {"closedErr", "closing"} => manager'[h].flow \in holders'[sigChan'[h]]
               /\ manager'[h].pc = "releasing" =>
                    /\ holders'[sigChan'[h]] = {}
                    /\ sigChan'[manager'[h].flow] = sigChan'[h] /\ Dest[manager'[h].flow] = Dest[h]
    <3>1. CASE h = g
      <4>1. parser[g] \notin {"idle", "connecting", "naming"}
        BY <1>1, <1>2 DEF ChannelsKept
      <4>2. m.pc \in {"exited", "lastNotify"}
        BY <1>4
      <4> QED
        BY <1>4, <2>0, <3>1, <4>1, <4>2 DEF LivePCs
    <3>2. CASE h # g
      <4>1. /\ parser[h] \in {"idle", "connecting", "naming"} => manager[h].pc = "none"
            /\ manager[h].pc \in LivePCs => chanSock[sigChan[h]] = h
            /\ manager[h].pc \in {"closedErr", "closing"} => manager[h].flow \in holders[sigChan[h]]
            /\ manager[h].pc = "releasing" =>
                 /\ holders[sigChan[h]] = {}
                 /\ sigChan[manager[h].flow] = sigChan[h] /\ Dest[manager[h].flow] = Dest[h]
        BY <1>1 DEF ChannelsKept
      <4>2. manager[h].pc \in LivePCs => sigChan[h] \in Chans /\ sigChan[h] # c
        BY <1>1, <1>3, <3>2, <4>1 DEF ChannelInv, ChannelKnown, LivePCs
      <4>3. /\ manager'[h] = manager[h]
            /\ manager[h].pc \in LivePCs => chanSock'[sigChan[h]] = chanSock[sigChan[h]]
        BY <1>4, <1>5, <3>2, <4>2
      <4> QED
        BY <2>0, <4>1, <4>3 DEF LivePCs
    <3> QED
      BY <3>1, <3>2
  <2> QED
    BY <2>1, <2>2, <2>3 DEF ChannelsKept
<1>7. SessionsKept'
  BY <1>2, SessionsFrame
<1>8. \A e \in Flows : FewerMessages(e)
  <2> TAKE e \in Flows
  <2>1. \A d \in Chans : Fewer(chanPipe[d], chanPipe'[d], PipeAbout(e))
    BY <1>1, <1>2, <1>3, QuietChannelPipe
  <2>2. \A h \in Flows : Fewer(toSend[h], toSend'[h], RepliesAbout(e))
    BY <1>1, <1>2, <1>3, QuietReplies DEF Answered
  <2> QED
    BY <1>2, <2>1, <2>2, EmptyQ DEF FewerMessages
<1>9. ASSUME NEW e \in Flows, e # f
      PROVE  FlowKept(e)'
  <2>1. SameThreads(e)
    BY <1>2 DEF SameThreads
  <2>2. SameHandling(e)
    BY <1>0, <1>2, <1>3, <1>4, <1>5, <1>9 DEF SameHandling, Handles, Holds
  <2> QED
    BY <1>1, <1>8, <2>1, <2>2, Frame DEF SameView
<1>10. FlowKept(f)'
  <2> USE DEF FlowKept
  <2>1. /\ home[f] = g
        /\ IF manager[g].code = "ERR2"
           THEN /\ sender[f] = "failed"
                /\ parserPipe[f] # <<>> \/ parser[f] = "ended"
           ELSE /\ sender[f] # "failed"
                /\ parser[f] = "waiting" /\ parserPipe[f] = <<>>
                /\ thread[f] \in {"reaped", "cancelled"} /\ f \notin table[g]
    BY <1>1, <1>3 DEF HandledPart
  <2>2. \A h \in Flows : Handles(h, f)' => h = g /\ manager[g].code # "ERR2"
    BY <1>1, <1>3, <1>4, <2>1 DEF HandledPart, Handles
  <2>3. ParserPart(f)'
    <3>1. /\ parser[f] \notin {"waiting", "ended"} => thread[f] = "none"
          /\ parser[f] # "attached"
          /\ outcome[f] # "none" => parser[f] = "ended"
      BY <1>1, <1>3, <2>1 DEF ParserPart
    <3>2. parser[f] = "waiting" => \/ parserPipe[f] # <<>>
                                   \/ /\ Handles(g, f)' /\ m.code # "ERR2"
                                      /\ m.pc \in {"releasing", "notify", "lastNotify"}
      BY <1>3, <1>4, <2>1 DEF Handles
    <3>3. parserPipe[f] # <<>> =>
            /\ parser[f] = "waiting" /\ Len(parserPipe[f]) = 1
            /\ Handles(g, f)' => m.code = "ERR2"
            /\ Head(parserPipe[f]) = "ERR2" <=> sender[f] = "failed"
      BY <1>1, <1>3, <1>4, <2>1, <2>2 DEF ParserPart
    <3> QED
      BY <1>2, <1>3, <1>4, <2>2, <3>1, <3>2, <3>3 DEF ParserPart
  <2>4. HandledPart(f)'
    BY <1>2, <1>4, <2>1, <2>2 DEF HandledPart
  <2>5. ThreadPart(f)' /\ PipePart(f)' /\ RequestPart(f)' /\ ReportPart(f)' /\ ReplyPart(f)'
    BY <1>1, <1>2, <1>3, <1>8, HandledFlowFrame
  <2> QED
    BY <2>3, <2>4, <2>5
<1> QED
  BY <1>6, <1>7, <1>9, <1>10 DEF FlowsServed

\* Notify: the parser is told after the flow has left.
LEMMA NotifyKeeps ==
  ASSUME FlowInv, NEW g \in Flows, Notify(g), UNCHANGED recvVars
  PROVE  FlowsServed'
<1>0. PICK f, code, m : /\ f = manager[g].flow /\ code = manager[g].code
                        /\ m = IF manager[g].pc = "notify" THEN IdleManager
                               ELSE [manager[g] EXCEPT !.pc = "exited"]
  OBVIOUS
<1>1. ChannelInv /\ ChannelsKept /\ SessionsKept /\ \A e \in Flows : FlowKept(e)
  BY DEF FlowInv, FlowsServed
<1>2. /\ manager[g].pc \in {"notify", "lastNotify"}
      /\ manager' = [manager EXCEPT ![g] = m]
      /\ parserPipe' = [parserPipe EXCEPT ![f] = Append(@, code)]
      /\ UNCHANGED <<parser, outcome, sigChan, sender, chanVars, toSend, toRecv>>
      /\ UNCHANGED <<table, thread, rPipe, home, session>>
  BY <1>0 DEF Notify, PushToParser, SetManager, netVars, recvVars
<1>3. f \in Flows /\ Handles(g, f) /\ code \in ResultCodes
  BY <1>0, <1>1, <1>2, BusyManager DEF ManagerPCs, Handles
<1>4. /\ manager'[g] = m /\ \A h \in Flows : h # g => manager'[h] = manager[h]
      /\ manager[g].pc = "notify" => m.pc = "idle" /\ m.flow = NoFlow
      /\ manager[g].pc = "lastNotify" => m.pc = "exited"
  <2>1. manager[g] \in [pc : ManagerPCs, flow : Flows, code : ResultCodes]
    <3>1. manager[g] \in Managers /\ manager[g].pc \notin {"none", "idle"}
      BY <1>1, <1>2, Types
    <3> QED
      BY <3>1 DEF Managers, IdleManager, Manager
  <2> QED
    BY <1>0, <1>1, <1>2, <2>1, Types DEF IdleManager, Manager
<1>5. /\ home[f] = g /\ sender[f] # "failed" /\ code # "ERR2"
      /\ parser[f] = "waiting" /\ parserPipe[f] = <<>>
      /\ \A h \in Flows : Handles(h, f) => h = g
  BY <1>0, <1>1, <1>2, <1>3 DEF FlowKept, HandledPart
<1>6. /\ parserPipe'[f] # <<>> /\ Len(parserPipe'[f]) = 1 /\ Head(parserPipe'[f]) = code
      /\ \A e \in Flows : e # f => parserPipe'[e] = parserPipe[e]
  BY <1>1, <1>2, <1>3, <1>5, Types
<1>7. ChannelsKept'
  <2>0. /\ parser' = parser /\ sigChan' = sigChan /\ chanFlows' = chanFlows /\ holders' = holders
        /\ chanSock' = chanSock
    BY <1>2 DEF chanVars
  <2>1. ASSUME NEW d \in Chans
        PROVE  /\ chanFlows'[d] = Cardinality(holders'[d])
               /\ \A e \in holders'[d] :
                    /\ sigChan'[e] = d /\ parser'[e] \in {"attached", "waiting", "ended"}
                    /\ chanSock'[d] # NoFlow /\ Dest[chanSock'[d]] = Dest[e]
    BY <1>1, <2>0 DEF ChannelsKept
  <2>2. ASSUME NEW d \in Chans, chanSock'[d] # NoFlow
        PROVE  sigChan'[chanSock'[d]] = d /\ manager'[chanSock'[d]].pc \in LivePCs
    <3>1. chanSock[d] \in Flows
      BY <1>1, <2>0, <2>2, Types
    <3>2. sigChan[chanSock[d]] = d /\ manager[chanSock[d]].pc \in LivePCs
      BY <1>1, <2>0, <2>2 DEF ChannelsKept
    <3>3. chanSock[d] = g => m.pc = "idle"
      BY <1>2, <1>4, <3>2 DEF LivePCs
    <3> QED
      BY <1>4, <2>0, <3>1, <3>2, <3>3 DEF LivePCs
  <2>3. ASSUME NEW h \in Flows
        PROVE  /\ parser'[h] \in {"idle", "connecting", "naming"} => manager'[h].pc = "none"
               /\ manager'[h].pc \in LivePCs => chanSock'[sigChan'[h]] = h
               /\ manager'[h].pc \in {"closedErr", "closing"} => manager'[h].flow \in holders'[sigChan'[h]]
               /\ manager'[h].pc = "releasing" =>
                    /\ holders'[sigChan'[h]] = {}
                    /\ sigChan'[manager'[h].flow] = sigChan'[h] /\ Dest[manager'[h].flow] = Dest[h]
    <3>0. /\ parser[h] \in {"idle", "connecting", "naming"} => manager[h].pc = "none"
          /\ manager[h].pc \in LivePCs => chanSock[sigChan[h]] = h
          /\ manager[h].pc \in {"closedErr", "closing"} => manager[h].flow \in holders[sigChan[h]]
          /\ manager[h].pc = "releasing" =>
               /\ holders[sigChan[h]] = {}
               /\ sigChan[manager[h].flow] = sigChan[h] /\ Dest[manager[h].flow] = Dest[h]
      BY <1>1 DEF ChannelsKept
    <3>1. CASE h = g
      BY <1>2, <1>4, <2>0, <3>0, <3>1 DEF LivePCs
    <3>2. CASE h # g
      BY <1>4, <2>0, <3>0, <3>2
    <3> QED
      BY <3>1, <3>2
  <2> QED
    BY <2>1, <2>2, <2>3 DEF ChannelsKept
<1>8. SessionsKept'
  BY <1>2, SessionsFrame
<1>9. \A e \in Flows : FewerMessages(e)
  BY <1>2, EmptyQ DEF FewerMessages, chanVars
<1>10. ASSUME NEW e \in Flows, e # f
       PROVE  FlowKept(e)'
  <2>1. SameThreads(e)
    BY <1>2, <1>6, <1>10 DEF SameThreads
  <2>2. SameHandling(e)
    BY <1>0, <1>2, <1>4, <1>10, FlowAssumption DEF SameHandling, Handles, Holds, chanVars
  <2> QED
    BY <1>1, <1>9, <2>1, <2>2, Frame DEF SameView
<1>11. FlowKept(f)'
  <2> USE DEF FlowKept
  <2>1. \A h \in Flows : ~Handles(h, f)'
    BY <1>2, <1>3, <1>4, <1>5, FlowAssumption DEF Handles
  <2>2. thread[f] # "none"
    BY <1>1, <1>3 DEF ThreadPart
  <2>3. ParserPart(f)'
    <3>1. outcome[f] = "none"
      BY <1>1, <1>3, <1>5 DEF ParserPart
    <3> QED
      BY <1>2, <1>5, <1>6, <2>1, <3>1 DEF ParserPart
  <2>4. HandledPart(f)'
    BY <2>1 DEF HandledPart
  <2>5. ThreadPart(f)' /\ PipePart(f)' /\ RequestPart(f)' /\ ReportPart(f)' /\ ReplyPart(f)'
    BY <1>1, <1>2, <1>3, <1>6, <1>9, HandledFlowFrame
  <2> QED
    BY <2>3, <2>4, <2>5
<1> QED
  BY <1>7, <1>8, <1>10, <1>11 DEF FlowsServed
-----------------------------------------------------------------------------
(* flowSender *)

\* flowSender of flow f moves on, and may tell its manager.
LEMMA SenderMoves ==
  ASSUME FlowInv, NEW f \in Flows, NEW pc,
         \/ sender[f] = "setup" /\ pc = "failed" /\ PushToChannel(sigChan[f], "ERRFLOW", f)
         \/ sender[f] = "setup" /\ pc = "sending" /\ chanPipe' = chanPipe
         \/ sender[f] = "sending" /\ pc = "finished" /\ PushToChannel(sigChan[f], "ENDFLOW", f),
         sender' = [sender EXCEPT ![f] = pc],
         UNCHANGED <<parser, outcome, sigChan, parserPipe, manager, chanSock, chanFlows,
                     holders, toSend, toRecv, recvVars>>
  PROVE  FlowsServed'
<1>1. ChannelInv /\ ChannelsKept /\ SessionsKept /\ \A e \in Flows : FlowKept(e)
  BY DEF FlowInv, FlowsServed
<1>2. UNCHANGED <<table, thread, rPipe, home, session>>
  BY DEF recvVars
<1>3. sender'[f] = pc /\ \A e \in Flows : e # f => sender'[e] = sender[e]
  BY <1>1, Types
<1>4. /\ thread[f] \in ThreadsOf(sender[f])
      /\ thread[f] \in {"listening", "receiving", "failed", "reaped"}
      /\ thread[f] \in ThreadsOf(pc)
      /\ sender[f] = "setup" => thread[f] = "listening" /\ home[f] \in Flows /\ Pending(f, home[f])
  <2>1. thread[f] \in ThreadsOf(sender[f])
    BY <1>1 DEF FlowKept, ThreadPart
  <2>2. sender[f] = "setup" => thread[f] = "listening"
    BY <2>1 DEF ThreadsOf
  <2>3. sender[f] = "sending" => thread[f] \in {"listening", "receiving", "failed", "reaped"}
    BY <2>1 DEF ThreadsOf
  <2>4. thread[f] \in ThreadsOf(pc)
    BY <2>2, <2>3 DEF ThreadsOf
  <2>5. sender[f] = "setup" => home[f] \in Flows /\ Pending(f, home[f])
    BY <1>1, <2>2 DEF FlowKept, ThreadPart, Alive
  <2> QED
    BY <2>1, <2>2, <2>3, <2>4, <2>5
<1>5. /\ \A c \in Chans, code \in PipeCodes : ~OnPipeTo(c, code, f)
      /\ \A g \in Flows : \A type \in {"SEND_FLOW", "CLOSED_FLOW", "CLOSED_ERR"} : ~Asked(g, type, f)
      /\ \A g \in Flows : ~Replied(g, "ACK_SEND_FLOW", f) /\ ~Reported(g, "OK", f)
      /\ \A g \in Flows : ~Reported(g, "ERR1", f) /\ ~Reported(g, "ERR2", f)
      /\ \A g \in Flows : Reported(g, "ERR_SOCK", f) => sender[f] = "sending"
  <2>1. \A c \in Chans, code \in PipeCodes : ~OnPipeTo(c, code, f)
    BY <1>1, <1>4 DEF FlowKept, PipePart, PipeCodes
  <2>2. \A g \in Flows : \A type \in {"SEND_FLOW", "CLOSED_FLOW", "CLOSED_ERR"} : ~Asked(g, type, f)
    BY <1>1, <1>4 DEF FlowKept, RequestPart
  <2>3. \A g \in Flows : ~Replied(g, "ACK_SEND_FLOW", f) /\ ~Reported(g, "OK", f)
    BY <1>1, <1>4 DEF FlowKept, ReplyPart, ReportPart
  <2>4. \A g \in Flows : ~Reported(g, "ERR1", f) /\ ~Reported(g, "ERR2", f)
    BY <1>1, <1>4 DEF FlowKept, ReportPart
  <2>5. \A g \in Flows : Reported(g, "ERR_SOCK", f) => sender[f] = "sending"
    BY <1>1, <1>4 DEF FlowKept, ReportPart
  <2> QED
    BY <2>1, <2>2, <2>3, <2>4, <2>5
<1>6. PICK c, code : /\ c = sigChan[f] /\ code \in PipeCodes
                     /\ chanPipe' = chanPipe \/ PushToChannel(c, code, f)
                     /\ pc = "failed" => code = "ERRFLOW"
                     /\ pc # "failed" => code = "ENDFLOW"
  BY DEF PipeCodes
<1>7. c \notin Chans => chanPipe' = chanPipe
  BY <1>1, <1>6, Types DEF PushToChannel
<1>8. /\ \A e \in Flows : e # f => \A d \in Chans : Fewer(chanPipe[d], chanPipe'[d], PipeAbout(e))
      /\ \A d \in Chans, t \in PipeCodes :
           OnPipeTo(d, t, f)' => d = c /\ t = code /\ chanPipe' # chanPipe
      /\ \A d \in Chans : Once(chanPipe[d], PipeAbout(f)) => Once(chanPipe[d], PipeAbout(f))'
  <2>1. CASE chanPipe' = chanPipe
    BY <1>5, <2>1, EmptyQ DEF OnPipeTo
  <2>2. CASE chanPipe' # chanPipe
    <3>1. c \in Chans /\ PushToChannel(c, code, f)
      BY <1>6, <1>7, <2>2
    <3> QED
      BY <1>1, <1>5, <1>6, <2>2, <3>1, PushesPipe
  <2> QED
    BY <2>1, <2>2
<1>9. ChannelsKept'
  BY <1>1, ChannelsFrame
<1>10. SessionsKept'
  <2>1. \A h \in Flows : table[h] \subseteq Flows
    BY <1>1, Types
  <2> QED
    BY <1>1, <1>2, <1>3, <1>4, <2>1 DEF SessionsKept
<1>11. ASSUME NEW e \in Flows, e # f
       PROVE  FlowKept(e)'
  <2>1. SameThreads(e) /\ SameHandling(e)
    BY <1>2, <1>3, <1>11 DEF SameThreads, SameHandling, Handles, Holds
  <2>2. FewerMessages(e)
    BY <1>2, <1>8, <1>11, EmptyQ DEF FewerMessages
  <2> QED
    BY <1>1, <2>1, <2>2, Frame DEF SameView
<1>12. FlowKept(f)'
  <2> USE DEF FlowKept
  <2>1. \A h : Pending(f, h)' <=> Pending(f, h)
    BY DEF Pending, Holds, Handles
  <2>2. sender[f] # "failed" /\ (pc = "failed" => Pending(f, home[f]))
    BY <1>4
  <2>3. ParserPart(f)'
    BY <1>1, <1>2, <1>3, <1>4, <2>2 DEF ParserPart, Pending, Holds, Handles
  <2>4. HandledPart(f)'
    BY <1>1, <1>2, <1>3, <1>4, <2>2 DEF HandledPart, Pending, Handles
  <2>5. ThreadPart(f)'
    BY <1>1, <1>2, <1>3, <1>4, <2>1, <2>2 DEF ThreadPart, Handles
  <2>6. PipePart(f)'
    <3>1. \A d \in Chans : Once(chanPipe[d], PipeAbout(f))'
      BY <1>1, <1>8 DEF PipePart
    <3>2. \A d \in Chans : ~OnPipeTo(d, "NEWFLOW", f)'
      BY <1>6, <1>8 DEF PipeCodes
    <3>3. \A d \in Chans : OnPipeTo(d, "ENDFLOW", f)' => sender'[f] = "finished"
      BY <1>3, <1>6, <1>8 DEF PipeCodes
    <3>4. \A d \in Chans : OnPipeTo(d, "ERRFLOW", f)' =>
             /\ sender'[f] = "failed" /\ thread'[f] = "listening"
             /\ sigChan'[f] = d /\ Pending(f, home[f])'
      BY <1>2, <1>3, <1>4, <1>6, <1>8, <2>1 DEF PipeCodes
    <3> QED
      BY <3>1, <3>2, <3>3, <3>4 DEF PipePart
  <2>7. RequestPart(f)'
    BY <1>1, <1>2, <1>5 DEF RequestPart, Asked
  <2>8. ReportPart(f)'
    BY <1>1, <1>2, <1>3, <1>5 DEF ReportPart, Reported
  <2>9. ReplyPart(f)'
    BY <1>1, <1>2, <1>3, <1>4, <1>5, <2>1 DEF ReplyPart, Replied, Reported
  <2> QED
    BY <2>3, <2>4, <2>5, <2>6, <2>7, <2>8, <2>9
<1> QED
  BY <1>9, <1>10, <1>11, <1>12 DEF FlowsServed

\* SetupFails, Connects and FinishFlow: the steps of flowSender.
LEMMA SenderKeeps ==
  ASSUME FlowInv, NEW f \in Flows, SetupFails(f) \/ Connects(f) \/ FinishFlow(f), UNCHANGED recvVars
  PROVE  FlowsServed'
<1>1. CASE SetupFails(f)
  BY <1>1, SenderMoves DEF SetupFails, netVars
<1>2. CASE Connects(f)
  BY <1>2, SenderMoves DEF Connects, chanVars, netVars
<1>3. CASE FinishFlow(f)
  BY <1>3, SenderMoves DEF FinishFlow, netVars
<1> QED
  BY <1>1, <1>2, <1>3
-----------------------------------------------------------------------------
(* The data threads of ITGRecv *)

\* The data thread of flow f moves on, and may report to its session.
LEMMA DataThreadMoves ==
  ASSUME FlowInv, NEW f \in Flows, NEW pc,
         \/ thread[f] = "starting" /\ pc = "listening" /\ PushReport(f, "OK")
         \/ thread[f] = "starting" /\ pc = "failed" /\ (PushReport(f, "ERR1") \/ PushReport(f, "ERR2"))
         \/ thread[f] = "receiving" /\ pc = "failed" /\ PushReport(f, "ERR_SOCK")
         \/ /\ thread[f] = "listening" /\ pc = "receiving" /\ rPipe' = rPipe
            /\ sender[f] \in {"sending", "finished"},
         SetThread(f, pc),
         UNCHANGED <<sendVars, session, table, home, toRecv, toSend>>
  PROVE  FlowsServed'
<1>1. ChannelInv /\ ChannelsKept /\ SessionsKept /\ \A e \in Flows : FlowKept(e)
  BY DEF FlowInv, FlowsServed
<1>2. UNCHANGED <<parser, outcome, sigChan, parserPipe, manager, sender, chanSock, chanFlows,
                  chanPipe, holders>>
  BY DEF sendVars, chanVars, threadVars
<1>3. thread'[f] = pc /\ \A e \in Flows : e # f => thread'[e] = thread[e]
  BY <1>1, Types DEF SetThread
<1>4. /\ thread[f] = "starting" => sender[f] = "none"
      /\ thread[f] = "receiving" => sender[f] \in {"sending", "finished"}
      /\ thread[f] \in {"starting", "listening", "receiving"}
  <2>1. thread[f] \in ThreadsOf(sender[f]) /\ sender[f] \in SenderPCs
    BY <1>1, Types DEF FlowKept, ThreadPart
  <2> QED
    BY <2>1 DEF ThreadsOf, SenderPCs
<1>5. home[f] \in Flows /\ f \in table[home[f]]
  BY <1>1, <1>4 DEF FlowKept, ThreadPart, Alive
<1>6. /\ \A g \in Flows : \A t \in AnswerTypes : ~Replied(g, t, f)
      /\ \A g \in Flows : ~Replied(g, "ACK_SEND_FLOW", f)
      /\ \A g \in Flows : \A t \in ReportCodes : ~Reported(g, t, f)
      /\ \A c \in Chans : ~OnPipeTo(c, "NEWFLOW", f) /\ ~OnPipeTo(c, "ERRFLOW", f)
      /\ \A g \in Flows : ~Asked(g, "SEND_FLOW", f)
      /\ \A g \in Flows : Handles(g, f) => manager[g].code = "ERR2"
  <2>1. \A g \in Flows : \A t \in AnswerTypes : ~Replied(g, t, f)
    BY <1>1, <1>4 DEF FlowKept, ReplyPart
  <2>2. \A g \in Flows : ~Replied(g, "ACK_SEND_FLOW", f)
    BY <1>1, <1>4 DEF FlowKept, ReplyPart
  <2>3. \A g \in Flows : \A t \in ReportCodes : ~Reported(g, t, f)
    BY <1>1, <1>4 DEF FlowKept, ReportPart, ReportCodes
  <2>4. \A c \in Chans : ~OnPipeTo(c, "NEWFLOW", f) /\ ~OnPipeTo(c, "ERRFLOW", f)
    BY <1>1, <1>4 DEF FlowKept, PipePart
  <2>5. \A g \in Flows : ~Asked(g, "SEND_FLOW", f)
    BY <1>1, <1>4 DEF FlowKept, RequestPart
  <2>6. \A g \in Flows : Handles(g, f) => manager[g].code = "ERR2"
    BY <1>1, <1>4 DEF FlowKept, HandledPart
  <2> QED
    BY <2>1, <2>2, <2>3, <2>4, <2>5, <2>6
<1>7. PICK code \in ReportCodes :
        /\ rPipe' = rPipe \/ PushReport(f, code)
        /\ code = "OK" => (pc = "listening" /\ sender[f] = "none") \/ rPipe' = rPipe
        /\ code \in {"ERR1", "ERR2"} => pc = "failed" /\ sender[f] = "none"
        /\ code = "ERR_SOCK" => pc = "failed" /\ sender[f] \in {"sending", "finished"}
  BY <1>4 DEF ReportCodes
<1>8. /\ \A e \in Flows : e # f => \A h \in Flows : Fewer(rPipe[h], rPipe'[h], ReportsAbout(e))
      /\ \A h \in Flows, t \in ReportCodes :
           Reported(h, t, f)' => h = home[f] /\ t = code /\ rPipe' # rPipe
      /\ \A h \in Flows : Once(rPipe[h], ReportsAbout(f)) => Once(rPipe[h], ReportsAbout(f))'
  <2>1. CASE rPipe' = rPipe
    BY <1>6, <2>1, EmptyQ DEF Reported
  <2>2. CASE rPipe' # rPipe
    BY <1>1, <1>5, <1>6, <1>7, <2>2, PushesReport
  <2> QED
    BY <2>1, <2>2
<1>9. ChannelsKept'
  BY <1>2, ChannelsFrame
<1>10. SessionsKept'
  <2>1. \A h \in Flows : table[h] \subseteq Flows
    BY <1>1, Types
  <2> QED
    BY <1>1, <1>2, <1>3, <2>1 DEF SessionsKept
<1>11. ASSUME NEW e \in Flows, e # f
       PROVE  FlowKept(e)'
  <2>1. SameThreads(e) /\ SameHandling(e)
    BY <1>2, <1>3, <1>11 DEF SameThreads, SameHandling, Handles, Holds
  <2>2. FewerMessages(e)
    BY <1>2, <1>8, <1>11, EmptyQ DEF FewerMessages
  <2> QED
    BY <1>1, <2>1, <2>2, Frame DEF SameView
<1>12. FlowKept(f)'
  <2> USE DEF FlowKept
  <2>1. \A h : Pending(f, h)' <=> Pending(f, h)
    BY <1>2 DEF Pending, Holds, Handles
  <2>2. thread[f] # "none" /\ pc # "none" /\ pc \in {"listening", "failed", "receiving"}
    BY <1>4
  <2>3. ParserPart(f)'
    BY <1>1, <1>2, <1>3, <2>2 DEF ParserPart, Holds, Handles
  <2>4. HandledPart(f)'
    BY <1>1, <1>2, <1>6 DEF HandledPart, Handles
  <2>5. ThreadPart(f)'
    <3>1. pc \in ThreadsOf(sender[f])
      BY <1>4 DEF ThreadsOf
    <3> QED
      BY <1>1, <1>2, <1>3, <1>5, <2>1, <2>2, <3>1 DEF ThreadPart, Alive
  <2>6. PipePart(f)'
    BY <1>1, <1>2, <1>3, <1>6, <2>1 DEF PipePart, OnPipeTo, Asked
  <2>7. RequestPart(f)'
    BY <1>1, <1>2, <1>6 DEF RequestPart, Asked
  <2>8. ReportPart(f)'
    BY <1>1, <1>2, <1>3, <1>7, <1>8 DEF ReportPart, ReportCodes
  <2>9. ReplyPart(f)'
    BY <1>1, <1>6 DEF ReplyPart, Replied
  <2> QED
    BY <2>3, <2>4, <2>5, <2>6, <2>7, <2>8, <2>9
<1> QED
  BY <1>9, <1>10, <1>11, <1>12 DEF FlowsServed

\* BindFails, Listens, Receives and ReceiveFails: the steps of a data thread.
LEMMA DataThreadKeeps ==
  ASSUME FlowInv, NEW f \in Flows,
         DataThread(f) \/ DataThreadFails(f) \/ DataThreadReceives(f)
  PROVE  FlowsServed'
<1>1. CASE DataThread(f)
  BY <1>1, DataThreadMoves DEF DataThread, DataThreadStarts, BindFails, Listens, netVars
<1>2. CASE DataThreadFails(f)
  BY <1>2, DataThreadMoves DEF DataThreadFails, ReceiveFails, netVars
<1>3. CASE DataThreadReceives(f)
  BY <1>3, DataThreadMoves DEF DataThreadReceives, Receives, netVars
<1> QED
  BY <1>1, <1>2, <1>3
-----------------------------------------------------------------------------
(* signalManager of ITGRecv *)

\* SendFlow: a session enters the flow in its table and starts its data thread.
LEMMA SendFlowKeeps ==
  ASSUME FlowInv, NEW g \in Flows, SendFlow(g), UNCHANGED sendVars
  PROVE  FlowsServed'
<1>0. PICK f : f = Head(toRecv[g]).flow
  OBVIOUS
<1>1. ChannelInv /\ ChannelsKept /\ SessionsKept /\ \A e \in Flows : FlowKept(e)
  BY DEF FlowInv, FlowsServed
<1>2. /\ toRecv[g] # <<>> /\ ReceiverTakes(g) /\ Head(toRecv[g]).type = "SEND_FLOW"
      /\ table' = [table EXCEPT ![g] = @ \cup {f}]
      /\ thread' = [thread EXCEPT ![f] = "starting"]
      /\ home' = [home EXCEPT ![f] = g]
      /\ UNCHANGED <<session, rPipe, toSend>>
      /\ UNCHANGED <<parser, outcome, sigChan, parserPipe, manager, sender, chanSock, chanFlows,
                     chanPipe, holders>>
  BY <1>0 DEF SendFlow, OnMessage, SetThread, sendVars, chanVars, threadVars
<1>3. /\ f \in Flows /\ Asked(g, "SEND_FLOW", f) /\ ~Asked(g, "SEND_FLOW", f)'
      /\ \A e \in Flows : \A h \in Flows : \A t \in {"SEND_FLOW", "CLOSED_FLOW", "CLOSED_ERR"} :
              Fewer(toRecv[h], toRecv'[h], {Msg(t, e)})
  BY <1>0, <1>1, <1>2, TakesRequest
<1>4. /\ thread[f] = "none" /\ Pending(f, g) /\ sender[f] = "none"
      /\ \A h \in Flows : f \notin table[h] /\ ~Handles(h, f)
      /\ \A h \in Flows : h # g => ~Asked(h, "SEND_FLOW", f)
      /\ \A c \in Chans : ~OnPipeTo(c, "NEWFLOW", f) /\ ~OnPipeTo(c, "ERRFLOW", f)
      /\ \A h \in Flows : \A t \in AnswerTypes : ~Replied(h, t, f)
      /\ \A h \in Flows : ~Replied(h, "ACK_SEND_FLOW", f)
      /\ \A h \in Flows : \A t \in ReportCodes : ~Reported(h, t, f)
  <2>1. thread[f] = "none" /\ Pending(f, g)
    BY <1>1, <1>3 DEF FlowKept, RequestPart
  <2>2. sender[f] = "none"
    <3>1. thread[f] \in ThreadsOf(sender[f]) /\ sender[f] \in SenderPCs
      BY <1>1, <1>3, Types DEF FlowKept, ThreadPart
    <3> QED
      BY <2>1, <3>1 DEF ThreadsOf, SenderPCs
  <2>3. \A h \in Flows : f \notin table[h] /\ ~Handles(h, f)
    BY <1>1, <1>3, <2>1 DEF FlowKept, ThreadPart
  <2>4. \A h \in Flows : h # g => ~Asked(h, "SEND_FLOW", f)
    BY <1>1, <1>3, <2>1 DEF FlowKept, RequestPart, Pending
  <2>5. \A c \in Chans : ~OnPipeTo(c, "NEWFLOW", f) /\ ~OnPipeTo(c, "ERRFLOW", f)
    BY <1>1, <1>3, <2>2 DEF FlowKept, PipePart
  <2>6. \A h \in Flows : \A t \in AnswerTypes : ~Replied(h, t, f)
    BY <1>1, <1>3, <2>1 DEF FlowKept, ReplyPart
  <2>7. \A h \in Flows : ~Replied(h, "ACK_SEND_FLOW", f)
    BY <1>1, <1>3, <2>1 DEF FlowKept, ReplyPart
  <2>8. \A h \in Flows : \A t \in ReportCodes : ~Reported(h, t, f)
    BY <1>1, <1>3, <2>1 DEF FlowKept, ReportPart, ReportCodes
  <2> QED
    BY <2>1, <2>2, <2>3, <2>4, <2>5, <2>6, <2>7, <2>8
<1>5. /\ thread'[f] = "starting" /\ home'[f] = g
      /\ \A e \in Flows : e # f => thread'[e] = thread[e] /\ home'[e] = home[e]
      /\ \A h, e \in Flows : e \in table'[h] <=> e \in table[h] \/ (h = g /\ e = f)
      /\ \A h \in Flows : table[h] \subseteq Flows /\ table'[h] \subseteq Flows
  BY <1>1, <1>2, <1>3, Types
<1>6. ChannelsKept'
  BY <1>2, ChannelsFrame
<1>7. SessionsKept'
  BY <1>1, <1>2, <1>4, <1>5 DEF SessionsKept
<1>8. \A e \in Flows : FewerMessages(e)
  BY <1>2, <1>3, EmptyQ DEF FewerMessages
<1>9. ASSUME NEW e \in Flows, e # f
      PROVE  FlowKept(e)'
  <2>1. SameThreads(e) /\ SameHandling(e)
    BY <1>2, <1>5, <1>9 DEF SameThreads, SameHandling, Handles, Holds
  <2> QED
    BY <1>1, <1>8, <2>1, Frame DEF SameView
<1>10. FlowKept(f)'
  <2> USE DEF FlowKept
  <2>1. \A h : Pending(f, h)' <=> Pending(f, h)
    BY <1>2 DEF Pending, Holds, Handles
  <2>2. ParserPart(f)'
    BY <1>1, <1>2, <1>3, <1>4 DEF ParserPart, Pending, Holds, Handles
  <2>3. HandledPart(f)'
    BY <1>2, <1>4 DEF HandledPart, Handles
  <2>4. ThreadPart(f)'
    BY <1>2, <1>3, <1>4, <1>5, <2>1 DEF ThreadPart, ThreadsOf, Alive
  <2>5. PipePart(f)'
    BY <1>1, <1>2, <1>3, <1>4 DEF PipePart, OnPipeTo
  <2>6. RequestPart(f)'
    <3>1. \A h \in Flows : ~Asked(h, "SEND_FLOW", f)'
      BY <1>3, <1>4, <1>8, MessageFrame
    <3> QED
      BY <1>1, <1>2, <1>3, <1>8, <3>1, MessageFrame DEF RequestPart
  <2>7. ReportPart(f)'
    BY <1>1, <1>2, <1>3, <1>4 DEF ReportPart, Reported, ReportCodes
  <2>8. ReplyPart(f)'
    BY <1>1, <1>2, <1>3, <1>4 DEF ReplyPart, Replied
  <2> QED
    BY <2>2, <2>3, <2>4, <2>5, <2>6, <2>7, <2>8
<1> QED
  BY <1>6, <1>7, <1>9, <1>10 DEF FlowsServed

\* The sender has closed flow f, which its session still serves.
LEMMA CancelKeeps ==
  ASSUME FlowInv, NEW g \in Flows, NEW f, f = Head(toRecv[g]).flow, f \in table[g],
         \/ ClosedFlow(g)
         \/ ClosedErr(g),
         UNCHANGED sendVars
  PROVE  FlowsServed'
<1>1. ChannelInv /\ ChannelsKept /\ SessionsKept /\ \A e \in Flows : FlowKept(e)
  BY DEF FlowInv, FlowsServed
<1>2. PICK type \in {"CLOSED_FLOW", "CLOSED_ERR"}, pc \in Closing :
      /\ toRecv[g] # <<>> /\ ReceiverTakes(g) /\ Head(toRecv[g]).type = type
      /\ session[g] = "serve" /\ session' = [session EXCEPT ![g] = pc]
      /\ type = "CLOSED_FLOW" <=> pc = "closingFlow"
      /\ thread' = [thread EXCEPT ![f] = "cancelled"]
      /\ UNCHANGED <<table, home, rPipe, toSend>>
  BY DEF ClosedFlow, ClosedErr, OnMessage, Serving, SetThread, Closing
<1>3. UNCHANGED <<parser, outcome, sigChan, parserPipe, manager, sender, chanSock, chanFlows,
                  chanPipe, holders>>
  BY DEF sendVars, chanVars, threadVars
<1>4. /\ f \in Flows /\ Asked(g, type, f)
      /\ \A e \in Flows : \A h \in Flows : \A t \in {"SEND_FLOW", "CLOSED_FLOW", "CLOSED_ERR"} :
              Fewer(toRecv[h], toRecv'[h], {Msg(t, e)})
  BY <1>1, <1>2, TakesRequest
<1>5. /\ type = "CLOSED_FLOW" => sender[f] = "finished"
      /\ type = "CLOSED_ERR" => sender[f] = "failed" /\ (parserPipe[f] # <<>> \/ parser[f] = "ended")
      /\ home[f] = g /\ thread[f] \in Alive /\ thread[f] # "none"
  <2>1. /\ type = "CLOSED_FLOW" => sender[f] = "finished"
        /\ type = "CLOSED_ERR" => sender[f] = "failed" /\ (parserPipe[f] # <<>> \/ parser[f] = "ended")
    BY <1>1, <1>4 DEF FlowKept, RequestPart
  <2>2. home[f] = g /\ thread[f] \in Alive \cup {"cancelled"}
    BY <1>1, <1>4 DEF FlowKept, ThreadPart
  <2>3. thread[f] # "cancelled"
    BY <1>1, <1>2 DEF SessionsKept
  <2> QED
    BY <2>1, <2>2, <2>3 DEF Alive
<1>6. /\ \A h \in Flows : \A t \in AnswerTypes : ~Replied(h, t, f)
      /\ \A h \in Flows : ~Replied(h, "ACK_SEND_FLOW", f)
      /\ \A h \in Flows : ~Reported(h, "OK", f) /\ ~Reported(h, "ERR1", f) /\ ~Reported(h, "ERR2", f)
      /\ \A c \in Chans : ~OnPipeTo(c, "NEWFLOW", f) /\ ~OnPipeTo(c, "ERRFLOW", f)
      /\ \A h \in Flows : ~Asked(h, "SEND_FLOW", f)
      /\ \A h \in Flows : Handles(h, f) => manager[h].code = "ERR2"
  <2>1. \A h \in Flows : \A t \in AnswerTypes : ~Replied(h, t, f)
    BY <1>1, <1>4, <1>5 DEF FlowKept, ReplyPart
  <2>2. sender[f] # "none"
    BY <1>5
  <2>3. \A h \in Flows : ~Replied(h, "ACK_SEND_FLOW", f)
    BY <1>1, <1>4, <2>2 DEF FlowKept, ReplyPart
  <2>4. \A h \in Flows : ~Reported(h, "OK", f) /\ ~Reported(h, "ERR1", f) /\ ~Reported(h, "ERR2", f)
    BY <1>1, <1>4, <2>2 DEF FlowKept, ReportPart
  <2>5. \A c \in Chans : ~OnPipeTo(c, "NEWFLOW", f) /\ ~OnPipeTo(c, "ERRFLOW", f)
    BY <1>1, <1>4, <1>5 DEF FlowKept, PipePart, Pending
  <2>6. \A h \in Flows : ~Asked(h, "SEND_FLOW", f)
    BY <1>1, <1>4, <1>5 DEF FlowKept, RequestPart
  <2>7. \A h \in Flows : Handles(h, f) => manager[h].code = "ERR2"
    BY <1>1, <1>4, <1>5 DEF FlowKept, HandledPart
  <2> QED
    BY <2>1, <2>3, <2>4, <2>5, <2>6, <2>7
<1>7. /\ thread'[f] = "cancelled" /\ \A e \in Flows : e # f => thread'[e] = thread[e]
      /\ session'[g] = pc /\ \A h \in Flows : h # g => session'[h] = session[h]
      /\ \A h \in Flows : table[h] \subseteq Flows
  BY <1>1, <1>2, <1>4, Types
<1>8. ChannelsKept'
  BY <1>3, ChannelsFrame
<1>9. SessionsKept'
  <2>1. \A h \in Flows : f \in table[h] => h = g
    BY <1>1, <1>4, <1>5 DEF FlowKept, ThreadPart
  <2>2. \A e \in table[g] : thread[e] # "cancelled"
    BY <1>1, <1>2 DEF SessionsKept
  <2>3. \/ session'[g] = "closingFlow" /\ sender'[f] = "finished"
        \/ session'[g] = "closingErr" /\ sender'[f] = "failed"
    BY <1>2, <1>3, <1>5, <1>7 DEF Closing
  <2>4. ASSUME NEW h \in Flows, NEW e \in table[h], thread'[e] = "cancelled"
        PROVE  /\ \/ session'[h] = "closingFlow" /\ sender'[e] = "finished"
                  \/ session'[h] = "closingErr" /\ sender'[e] = "failed"
               /\ \A d \in table[h] : thread'[d] = "cancelled" => d = e
    <3>1. CASE h = g
      BY <1>7, <2>2, <2>3, <2>4, <3>1
    <3>2. CASE h # g
      <4>1. /\ session'[h] = session[h] /\ sender' = sender
            /\ \A d \in table[h] : thread'[d] = thread[d]
        BY <1>3, <1>7, <2>1, <3>2
      <4> QED
        BY <1>1, <2>4, <4>1 DEF SessionsKept
    <3> QED
      BY <3>1, <3>2
  <2> QED
    BY <1>2, <2>4 DEF SessionsKept
<1>10. \A e \in Flows : FewerMessages(e)
  BY <1>2, <1>3, <1>4, EmptyQ DEF FewerMessages
<1>11. ASSUME NEW e \in Flows, e # f
       PROVE  FlowKept(e)'
  <2>1. SameThreads(e) /\ SameHandling(e)
    BY <1>2, <1>3, <1>7, <1>11 DEF SameThreads, SameHandling, Handles, Holds
  <2> QED
    BY <1>1, <1>10, <2>1, Frame DEF SameView
<1>12. FlowKept(f)'
  <2> USE DEF FlowKept
  <2>1. \A h : Pending(f, h)' <=> Pending(f, h)
    BY <1>3 DEF Pending, Holds, Handles
  <2>2. ParserPart(f)'
    BY <1>1, <1>3, <1>4, <1>5, <1>7 DEF ParserPart, Holds, Handles
  <2>3. HandledPart(f)'
    BY <1>1, <1>2, <1>3, <1>4, <1>6 DEF HandledPart, Handles
  <2>4. ThreadPart(f)'
    <3>1. "cancelled" \in ThreadsOf(sender[f])
      BY <1>2, <1>5 DEF ThreadsOf
    <3> QED
      BY <1>1, <1>2, <1>3, <1>4, <1>7, <2>1, <3>1 DEF ThreadPart, Alive
  <2>5. PipePart(f)'
    BY <1>1, <1>3, <1>4, <1>6 DEF PipePart, OnPipeTo
  <2>6. RequestPart(f)'
    BY <1>1, <1>3, <1>4, <1>6, <1>10, MessageFrame DEF RequestPart
  <2>7. ReportPart(f)'
    <3>1. \A h \in Flows : Reported(h, "ERR_SOCK", f) =>
            home[f] = h /\ sender[f] \in {"sending", "finished"}
      BY <1>1, <1>4 DEF ReportPart
    <3> QED
      BY <1>1, <1>2, <1>3, <1>4, <1>6, <1>7, <3>1 DEF ReportPart, Reported
  <2>8. ReplyPart(f)'
    BY <1>1, <1>2, <1>4, <1>6 DEF ReplyPart, Replied
  <2> QED
    BY <2>2, <2>3, <2>4, <2>5, <2>6, <2>7, <2>8
<1> QED
  BY <1>8, <1>9, <1>11, <1>12 DEF FlowsServed

\* ClosedFlow and ClosedErr: a session cancels a data thread.
LEMMA ClosedKeeps ==
  ASSUME FlowInv, NEW g \in Flows, ClosedFlow(g) \/ ClosedErr(g), UNCHANGED sendVars
  PROVE  FlowsServed'
<1>1. PICK f : f = Head(toRecv[g]).flow
  OBVIOUS
<1>2. CASE f \in table[g]
  BY <1>1, <1>2, CancelKeeps
<1>3. CASE f \notin table[g]
  <2>1. /\ UNCHANGED <<table, thread, session, home, rPipe, toSend>>
        /\ toRecv[g] # <<>> /\ ReceiverTakes(g)
    BY <1>1, <1>3 DEF ClosedFlow, ClosedErr, OnMessage
  <2>2. UNCHANGED <<parser, outcome, sigChan, parserPipe, manager, sender, chanSock, chanFlows,
                    chanPipe, holders>>
    BY DEF sendVars, chanVars, threadVars
  <2> QED
    BY <2>1, <2>2, QuietStep
<1> QED
  BY <1>2, <1>3

\* FlowClosed: the entry of the flow is free, and CLOSED_FLOW is answered.
LEMMA FlowClosedKeeps ==
  ASSUME FlowInv, NEW g \in Flows, FlowClosed(g), UNCHANGED sendVars
  PROVE  FlowsServed'
<1>1. ChannelInv /\ ChannelsKept /\ SessionsKept /\ \A e \in Flows : FlowKept(e)
  BY DEF FlowInv, FlowsServed
<1>2. PICK f \in table[g] :
      /\ thread[f] = "cancelled"
      /\ table' = [table EXCEPT ![g] = @ \ {f}]
      /\ IF session[g] = "closingFlow" THEN ReceiverSends(g, Msg("ACK_CLOSED_FLOW", f))
                                       ELSE UNCHANGED toSend
  BY DEF FlowClosed
<1>3. /\ session[g] \in Closing /\ session' = [session EXCEPT ![g] = "serve"]
      /\ UNCHANGED <<rPipe, thread, home, toRecv>>
      /\ UNCHANGED <<parser, outcome, sigChan, parserPipe, manager, sender, chanSock, chanFlows,
                     chanPipe, holders>>
  BY DEF FlowClosed, sendVars, chanVars, threadVars
<1>4. /\ f \in Flows /\ home[f] = g
      /\ \A h, e \in Flows : e \in table'[h] <=> e \in table[h] /\ ~(h = g /\ e = f)
      /\ \A h \in Flows : table[h] \subseteq Flows /\ table'[h] \subseteq Flows
      /\ \A h \in Flows : f \in table[h] => h = g
      /\ session'[g] = "serve" /\ \A h \in Flows : h # g => session'[h] = session[h]
  <2>1. f \in Flows
    BY <1>1, Types
  <2>2. \A h \in Flows : f \in table[h] => home[f] = h
    BY <1>1, <2>1 DEF FlowKept, ThreadPart
  <2> QED
    BY <1>1, <1>2, <1>3, <2>1, <2>2, Types
<1>5. /\ session[g] = "closingFlow" => sender[f] = "finished" /\ Pending(f, g)
      /\ \A e \in table[g] : thread[e] = "cancelled" => e = f
  <2>1. /\ session[g] = "closingFlow" => sender[f] = "finished"
        /\ \A e \in table[g] : thread[e] = "cancelled" => e = f
    BY <1>1, <1>2 DEF SessionsKept
  <2> QED
    BY <1>1, <1>2, <1>4, <2>1 DEF FlowKept, ThreadPart
<1>6. /\ \A h \in Flows : \A t \in AnswerTypes : ~Replied(h, t, f)
      /\ \A h \in Flows : ~Replied(h, "ACK_SEND_FLOW", f)
      /\ \A c \in Chans : ~OnPipeTo(c, "NEWFLOW", f) /\ ~OnPipeTo(c, "ERRFLOW", f)
      /\ \A h \in Flows : ~Asked(h, "SEND_FLOW", f)
  <2>1. \A h \in Flows : \A t \in AnswerTypes : ~Replied(h, t, f)
    BY <1>1, <1>2, <1>4 DEF FlowKept, ReplyPart
  <2>2. \A h \in Flows : ~Replied(h, "ACK_SEND_FLOW", f)
    BY <1>1, <1>2, <1>4 DEF FlowKept, ReplyPart
  <2>3. \A c \in Chans : ~OnPipeTo(c, "NEWFLOW", f) /\ ~OnPipeTo(c, "ERRFLOW", f)
    BY <1>1, <1>2, <1>4 DEF FlowKept, PipePart
  <2>4. \A h \in Flows : ~Asked(h, "SEND_FLOW", f)
    BY <1>1, <1>2, <1>4 DEF FlowKept, RequestPart
  <2> QED
    BY <2>1, <2>2, <2>3, <2>4
<1>7. /\ \A e \in Flows : e # f => \A h \in Flows : Fewer(toSend[h], toSend'[h], RepliesAbout(e))
      /\ \A h \in Flows : ~Replied(h, "ACK_SEND_FLOW", f)'
      /\ \A h \in Flows : \A t \in AnswerTypes : Replied(h, t, f)' => h = g /\ session[g] = "closingFlow"
      /\ \A h \in Flows : Once(toSend[h], RepliesAbout(f)) => Once(toSend[h], RepliesAbout(f))'
  <2>1. CASE session[g] = "closingFlow"
    <3>1. "ACK_CLOSED_FLOW" \in {"ACK_SEND_FLOW"} \cup AnswerTypes /\ "ACK_SEND_FLOW" \notin AnswerTypes
      BY DEF AnswerTypes
    <3>2. PICK type : type = "ACK_CLOSED_FLOW"
      OBVIOUS
    <3>3. /\ ChannelInv /\ f \in Flows /\ type \in {"ACK_SEND_FLOW"} \cup AnswerTypes
          /\ ReceiverSends(g, Msg(type, f))
      BY <1>1, <1>2, <1>4, <2>1, <3>1, <3>2
    <3>4. \A t \in {"ACK_SEND_FLOW"} \cup AnswerTypes : ~Replied(g, t, f)
      BY <1>6
    <3>5. /\ \A e \in Flows : e # f => \A h \in Flows : Fewer(toSend[h], toSend'[h], RepliesAbout(e))
          /\ \A h \in Flows, t \in {"ACK_SEND_FLOW"} \cup AnswerTypes :
               Replied(h, t, f)' <=> Replied(h, t, f) \/ (h = g /\ t = type)
          /\ \A h \in Flows : Once(toSend[h], RepliesAbout(f)) => Once(toSend[h], RepliesAbout(f))'
      BY <3>3, <3>4, SendsReply
    <3> QED
      BY <1>6, <2>1, <3>2, <3>5
  <2>2. CASE session[g] # "closingFlow"
    BY <1>2, <1>6, <2>2, EmptyQ DEF Replied
  <2> QED
    BY <2>1, <2>2
<1>8. ChannelsKept'
  BY <1>3, ChannelsFrame
<1>9. SessionsKept'
  BY <1>1, <1>3, <1>4, <1>5 DEF SessionsKept
<1>10. ASSUME NEW e \in Flows, e # f
       PROVE  FlowKept(e)'
  <2>1. SameThreads(e) /\ SameHandling(e)
    BY <1>3, <1>4, <1>10 DEF SameThreads, SameHandling, Handles, Holds
  <2>2. FewerMessages(e)
    BY <1>3, <1>7, <1>10, EmptyQ DEF FewerMessages
  <2> QED
    BY <1>1, <2>1, <2>2, Frame DEF SameView
<1>11. FlowKept(f)'
  <2> USE DEF FlowKept
  <2>1. \A h : Pending(f, h)' <=> Pending(f, h)
    BY <1>3 DEF Pending, Holds, Handles
  <2>2. ParserPart(f)'
    BY <1>1, <1>3, <1>4 DEF ParserPart, Holds, Handles
  <2>3. HandledPart(f)'
    BY <1>1, <1>3, <1>4 DEF HandledPart, Handles
  <2>4. ThreadPart(f)'
    BY <1>1, <1>2, <1>3, <1>4 DEF ThreadPart, Alive
  <2>5. PipePart(f)'
    BY <1>1, <1>3, <1>4, <1>6, <2>1 DEF PipePart, OnPipeTo
  <2>6. RequestPart(f)'
    BY <1>1, <1>3, <1>4, <1>6 DEF RequestPart, Asked
  <2>7. ReportPart(f)'
    BY <1>1, <1>3, <1>4 DEF ReportPart, Reported
  <2>8. ReplyPart(f)'
    BY <1>1, <1>2, <1>3, <1>4, <1>5, <1>7, <2>1 DEF ReplyPart
  <2> QED
    BY <2>2, <2>3, <2>4, <2>5, <2>6, <2>7, <2>8
<1> QED
  BY <1>8, <1>9, <1>10, <1>11 DEF FlowsServed

\* ThreadOk: a session reads that its data thread listens.
LEMMA ThreadOkKeeps ==
  ASSUME FlowInv, NEW g \in Flows, ThreadOk(g), UNCHANGED sendVars
  PROVE  FlowsServed'
<1>0. PICK f : f = Head(rPipe[g]).flow
  OBVIOUS
<1>1. ChannelInv /\ ChannelsKept /\ SessionsKept /\ \A e \in Flows : FlowKept(e)
  BY DEF FlowInv, FlowsServed
<1>2. /\ rPipe[g] # <<>> /\ Head(rPipe[g]).code = "OK" /\ rPipe' = [rPipe EXCEPT ![g] = Tail(@)]
      /\ IF f \in table[g] THEN ReceiverSends(g, Msg("ACK_SEND_FLOW", f)) ELSE UNCHANGED toSend
      /\ UNCHANGED <<table, thread, session, home, toRecv>>
      /\ UNCHANGED <<parser, outcome, sigChan, parserPipe, manager, sender, chanSock, chanFlows,
                     chanPipe, holders>>
  BY <1>0 DEF ThreadOk, OnReport, sendVars, chanVars, threadVars
<1>3. /\ f \in Flows /\ Reported(g, "OK", f)
      /\ \A code \in ReportCodes : ~Reported(g, code, f)'
      /\ \A e \in Flows : \A h \in Flows : Fewer(rPipe[h], rPipe'[h], ReportsAbout(e))
  BY <1>0, <1>1, <1>2, TakesReport
<1>4. home[f] = g /\ thread[f] = "listening" /\ sender[f] = "none" /\ f \in table[g]
  <2>1. home[f] = g /\ thread[f] = "listening" /\ sender[f] = "none"
    BY <1>1, <1>3 DEF FlowKept, ReportPart
  <2> QED
    BY <1>1, <1>3, <2>1 DEF FlowKept, ThreadPart, Alive
<1>5. /\ \A h \in Flows : \A t \in {"ACK_SEND_FLOW"} \cup AnswerTypes : ~Replied(h, t, f)
      /\ \A h \in Flows, code \in ReportCodes : ~Reported(h, code, f)'
  <2>1. \A h \in Flows : \A t \in AnswerTypes : ~Replied(h, t, f)
    BY <1>1, <1>3, <1>4 DEF FlowKept, ReplyPart
  <2>2. \A h \in Flows : ~Replied(h, "ACK_SEND_FLOW", f)
    BY <1>1, <1>3, <1>4 DEF FlowKept, ReplyPart
  <2>3. \A h \in Flows, code \in ReportCodes : h # g => ~Reported(h, code, f)
    BY <1>1, <1>3, <1>4 DEF FlowKept, ReportPart, ReportCodes
  <2>4. \A h \in Flows : h # g => rPipe'[h] = rPipe[h]
    BY <1>1, <1>2, Types
  <2>5. \A h \in Flows, code \in ReportCodes : ~Reported(h, code, f)'
    BY <1>3, <2>3, <2>4 DEF Reported
  <2> QED
    BY <2>1, <2>2, <2>5
<1>6. /\ \A e \in Flows : e # f => \A h \in Flows : Fewer(toSend[h], toSend'[h], RepliesAbout(e))
      /\ \A h \in Flows, t \in {"ACK_SEND_FLOW"} \cup AnswerTypes :
           Replied(h, t, f)' => h = g /\ t = "ACK_SEND_FLOW"
      /\ \A h \in Flows : Once(toSend[h], RepliesAbout(f)) => Once(toSend[h], RepliesAbout(f))'
  <2>1. ReceiverSends(g, Msg("ACK_SEND_FLOW", f))
    BY <1>2, <1>4
  <2> QED
    BY <1>1, <1>3, <1>5, <2>1, SendsReply DEF Replied
<1>7. ChannelsKept'
  BY <1>2, ChannelsFrame
<1>8. SessionsKept'
  BY <1>2, SessionsFrame
<1>9. ASSUME NEW e \in Flows, e # f
      PROVE  FlowKept(e)'
  <2>1. SameThreads(e) /\ SameHandling(e)
    BY <1>2, <1>9 DEF SameThreads, SameHandling, Handles, Holds
  <2>2. FewerMessages(e)
    BY <1>2, <1>3, <1>6, <1>9, EmptyQ DEF FewerMessages
  <2> QED
    BY <1>1, <2>1, <2>2, Frame DEF SameView
<1>10. FlowKept(f)'
  <2> USE DEF FlowKept
  <2>1. \A h : Pending(f, h)' <=> Pending(f, h)
    BY <1>2 DEF Pending, Holds, Handles
  <2>2. ParserPart(f)' /\ HandledPart(f)'
    BY <1>1, <1>2, <1>3 DEF ParserPart, HandledPart, Holds, Handles
  <2>3. ThreadPart(f)'
    BY <1>1, <1>2, <1>3, <2>1 DEF ThreadPart, Handles
  <2>4. PipePart(f)'
    BY <1>1, <1>2, <1>3, <2>1 DEF PipePart, OnPipeTo, Asked
  <2>5. RequestPart(f)'
    BY <1>1, <1>2, <1>3, <2>1 DEF RequestPart, Asked
  <2>6. ReportPart(f)'
    <3>1. \A h \in Flows : Once(rPipe[h], ReportsAbout(f))'
      BY <1>1, <1>3 DEF ReportPart, Fewer
    <3> QED
      BY <1>5, <3>1 DEF ReportPart, ReportCodes
  <2>7. ReplyPart(f)'
    <3>1. "ACK_SEND_FLOW" \notin AnswerTypes
      BY DEF AnswerTypes
    <3>2. \A h \in Flows : Once(toSend[h], RepliesAbout(f))'
      BY <1>1, <1>3, <1>6 DEF ReplyPart
    <3>3. \A h \in Flows : ~Reported(h, "OK", f)'
      BY <1>5 DEF ReportCodes
    <3> QED
      BY <1>2, <1>4, <1>6, <3>1, <3>2, <3>3 DEF ReplyPart
  <2> QED
    BY <2>2, <2>3, <2>4, <2>5, <2>6, <2>7
<1> QED
  BY <1>7, <1>8, <1>9, <1>10 DEF FlowsServed

\* The data thread of flow f failed, and the sender is told.
LEMMA DropKeeps ==
  ASSUME FlowInv, NEW g \in Flows, NEW f \in table[g],
         NEW code \in {"ERR1", "ERR2", "ERR_SOCK"}, NEW type \in AnswerTypes,
         OnReport(g, code), f = Head(rPipe[g]).flow,
         ReceiverSends(g, Msg(type, f)), DropFlow(g, f),
         UNCHANGED sendVars
  PROVE  FlowsServed'
<1>1. ChannelInv /\ ChannelsKept /\ SessionsKept /\ \A e \in Flows : FlowKept(e)
  BY DEF FlowInv, FlowsServed
<1>2. /\ rPipe[g] # <<>> /\ Head(rPipe[g]).code = code /\ rPipe' = [rPipe EXCEPT ![g] = Tail(@)]
      /\ session[g] = "serve"
      /\ table' = [table EXCEPT ![g] = @ \ {f}]
      /\ thread' = [thread EXCEPT ![f] = "reaped"]
      /\ UNCHANGED <<session, home, toRecv>>
      /\ UNCHANGED <<parser, outcome, sigChan, parserPipe, manager, sender, chanSock, chanFlows,
                     chanPipe, holders>>
  BY DEF OnReport, Serving, DropFlow, SetThread, sendVars, chanVars, threadVars
<1>3. /\ f \in Flows /\ Reported(g, code, f)
      /\ \A t \in ReportCodes : ~Reported(g, t, f)'
      /\ \A e \in Flows : \A h \in Flows : Fewer(rPipe[h], rPipe'[h], ReportsAbout(e))
  BY <1>1, <1>2, TakesReport
<1>4. /\ home[f] = g /\ thread[f] = "failed" /\ sender[f] \in {"none", "sending", "finished"}
      /\ Pending(f, g)
  <2>1. /\ home[f] = g /\ thread[f] \in {"failed", "cancelled"}
        /\ sender[f] \in {"none", "sending", "finished"}
    BY <1>1, <1>3 DEF FlowKept, ReportPart
  <2>2. thread[f] # "cancelled"
    BY <1>1, <1>2 DEF SessionsKept
  <2> QED
    BY <1>1, <1>3, <2>1, <2>2 DEF FlowKept, ThreadPart
<1>5. /\ \A h \in Flows : \A t \in {"ACK_SEND_FLOW"} \cup AnswerTypes : ~Replied(h, t, f)
      /\ \A h \in Flows, t \in ReportCodes : ~Reported(h, t, f)'
      /\ \A c \in Chans : ~OnPipeTo(c, "NEWFLOW", f) /\ ~OnPipeTo(c, "ERRFLOW", f)
      /\ \A h \in Flows : ~Asked(h, "SEND_FLOW", f)
      /\ \A h \in Flows : ~Handles(h, f)
  <2>1. \A h \in Flows : \A t \in AnswerTypes : ~Replied(h, t, f)
    BY <1>1, <1>3, <1>4 DEF FlowKept, ReplyPart
  <2>2. \A h \in Flows : ~Replied(h, "ACK_SEND_FLOW", f)
    BY <1>1, <1>3, <1>4 DEF FlowKept, ReplyPart
  <2>3. \A h \in Flows, t \in ReportCodes : h # g => ~Reported(h, t, f)
    BY <1>1, <1>3, <1>4 DEF FlowKept, ReportPart, ReportCodes
  <2>4. \A h \in Flows : h # g => rPipe'[h] = rPipe[h]
    BY <1>1, <1>2, Types
  <2>5. \A h \in Flows, t \in ReportCodes : ~Reported(h, t, f)'
    BY <1>3, <2>3, <2>4 DEF Reported
  <2>6. \A c \in Chans : ~OnPipeTo(c, "NEWFLOW", f) /\ ~OnPipeTo(c, "ERRFLOW", f)
    BY <1>1, <1>3, <1>4 DEF FlowKept, PipePart
  <2>7. \A h \in Flows : ~Asked(h, "SEND_FLOW", f)
    BY <1>1, <1>3, <1>4 DEF FlowKept, RequestPart
  <2>8. \A h \in Flows : ~Handles(h, f)
    BY <1>4 DEF Pending
  <2> QED
    BY <2>1, <2>2, <2>5, <2>6, <2>7, <2>8
<1>6. /\ \A e \in Flows : e # f => \A h \in Flows : Fewer(toSend[h], toSend'[h], RepliesAbout(e))
      /\ \A h \in Flows, t \in {"ACK_SEND_FLOW"} \cup AnswerTypes :
           Replied(h, t, f)' => h = g /\ t = type
      /\ \A h \in Flows : Once(toSend[h], RepliesAbout(f)) => Once(toSend[h], RepliesAbout(f))'
  <2>1. ChannelInv /\ f \in Flows /\ type \in {"ACK_SEND_FLOW"} \cup AnswerTypes
    BY <1>1, <1>3
  <2>2. \A t \in {"ACK_SEND_FLOW"} \cup AnswerTypes : ~Replied(g, t, f)
    BY <1>5
  <2>3. /\ \A e \in Flows : e # f => \A h \in Flows : Fewer(toSend[h], toSend'[h], RepliesAbout(e))
        /\ \A h \in Flows, t \in {"ACK_SEND_FLOW"} \cup AnswerTypes :
             Replied(h, t, f)' <=> Replied(h, t, f) \/ (h = g /\ t = type)
        /\ \A h \in Flows : Once(toSend[h], RepliesAbout(f)) => Once(toSend[h], RepliesAbout(f))'
    BY <2>1, <2>2, SendsReply
  <2> QED
    BY <1>5, <2>3
<1>7. /\ thread'[f] = "reaped" /\ \A e \in Flows : e # f => thread'[e] = thread[e]
      /\ \A h, e \in Flows : e \in table'[h] <=> e \in table[h] /\ ~(h = g /\ e = f)
      /\ \A h \in Flows : table[h] \subseteq Flows /\ table'[h] \subseteq Flows
      /\ \A h \in Flows : f \in table[h] => h = g
  <2>1. \A h \in Flows : f \in table[h] => home[f] = h
    BY <1>1, <1>3 DEF FlowKept, ThreadPart
  <2> QED
    BY ZenonT(40), <1>1, <1>2, <1>3, <1>4, <2>1, Types
<1>8. ChannelsKept'
  BY <1>2, ChannelsFrame
<1>9. SessionsKept'
  BY <1>1, <1>2, <1>7 DEF SessionsKept
<1>10. ASSUME NEW e \in Flows, e # f
       PROVE  FlowKept(e)'
  <2>1. SameThreads(e) /\ SameHandling(e)
    BY <1>2, <1>7, <1>10 DEF SameThreads, SameHandling, Handles, Holds
  <2>2. FewerMessages(e)
    BY <1>2, <1>3, <1>6, <1>10, EmptyQ DEF FewerMessages
  <2> QED
    BY <1>1, <2>1, <2>2, Frame DEF SameView
<1>11. FlowKept(f)'
  <2> USE DEF FlowKept
  <2>1. \A h : Pending(f, h)' <=> Pending(f, h)
    BY <1>2 DEF Pending, Holds, Handles
  <2>2. ParserPart(f)'
    BY <1>1, <1>2, <1>3, <1>4, <1>7 DEF ParserPart, Pending, Holds, Handles
  <2>3. HandledPart(f)'
    BY <1>2, <1>5 DEF HandledPart, Handles
  <2>4. ThreadPart(f)'
    <3>1. "reaped" \in ThreadsOf(sender[f])
      BY <1>4 DEF ThreadsOf
    <3> QED
      BY <1>2, <1>3, <1>7, <3>1 DEF ThreadPart, Alive
  <2>5. PipePart(f)'
    BY <1>1, <1>2, <1>3, <1>5 DEF PipePart, OnPipeTo
  <2>6. RequestPart(f)'
    BY <1>1, <1>2, <1>3, <1>5 DEF RequestPart, Asked
  <2>7. ReportPart(f)'
    <3>1. \A h \in Flows : Once(rPipe[h], ReportsAbout(f))'
      BY <1>1, <1>3 DEF ReportPart, Fewer
    <3> QED
      BY <1>5, <3>1 DEF ReportPart, ReportCodes
  <2>8. ReplyPart(f)'
    <3>1. "ACK_SEND_FLOW" \notin AnswerTypes
      BY DEF AnswerTypes
    <3>2. \A h \in Flows : Once(toSend[h], RepliesAbout(f))'
      BY <1>1, <1>3, <1>6 DEF ReplyPart
    <3>3. Pending(f, g)' /\ f \notin table'[g]
      BY <1>3, <1>4, <1>7, <2>1
    <3> QED
      BY <1>2, <1>4, <1>6, <1>7, <3>1, <3>2, <3>3 DEF ReplyPart
  <2> QED
    BY <2>2, <2>3, <2>4, <2>5, <2>6, <2>7, <2>8
<1> QED
  BY <1>8, <1>9, <1>10, <1>11 DEF FlowsServed

\* ThreadNotStarted and ThreadBroke: a session reads that its data thread failed.
LEMMA ThreadFailsKeeps ==
  ASSUME FlowInv, NEW g \in Flows, ThreadNotStarted(g) \/ ThreadBroke(g), UNCHANGED sendVars
  PROVE  FlowsServed'
<1>0. PICK f : f = Head(rPipe[g]).flow
  OBVIOUS
<1>1. ChannelInv /\ ChannelsKept /\ SessionsKept /\ \A e \in Flows : FlowKept(e)
  BY DEF FlowInv, FlowsServed
<1>2. /\ \A code : OnReport(g, code) =>
           rPipe[g] # <<>> /\ Head(rPipe[g]).code = code /\ rPipe' = [rPipe EXCEPT ![g] = Tail(@)]
  BY DEF OnReport
<1>3. {"ERR_MSG_2", "ERR_MSG_3", "ERR_MSG_5"} \subseteq AnswerTypes
  BY DEF AnswerTypes
<1>4. CASE f \in table[g]
  BY <1>0, <1>3, <1>4, DropKeeps DEF ThreadNotStarted, ThreadBroke
<1>5. CASE f \notin table[g]
  <2>1. ThreadBroke(g)
    <3> SUFFICES ASSUME ThreadNotStarted(g) PROVE FALSE
      OBVIOUS
    <3>1. PICK code \in {"ERR1", "ERR2"} : OnReport(g, code)
      BY DEF ThreadNotStarted
    <3>2. f \in Flows /\ Reported(g, code, f)
      BY <1>0, <1>1, <1>2, <3>1, TakesReport
    <3>3. home[f] = g /\ thread[f] = "failed"
      BY <1>1, <3>1, <3>2 DEF FlowKept, ReportPart
    <3> QED
      BY <1>1, <1>5, <3>2, <3>3 DEF FlowKept, ThreadPart, Alive
  <2>2. /\ rPipe[g] # <<>> /\ rPipe' = [rPipe EXCEPT ![g] = Tail(@)]
        /\ UNCHANGED <<toSend, table, thread, session, home, toRecv>>
        /\ UNCHANGED <<parser, outcome, sigChan, parserPipe, manager, sender, chanSock, chanFlows,
                       chanPipe, holders>>
    BY <1>0, <1>5, <2>1 DEF ThreadBroke, OnReport, sendVars, chanVars, threadVars
  <2>3. ChannelsKept' /\ SessionsKept'
    BY <2>2, ChannelsFrame, SessionsFrame
  <2>4. ASSUME NEW e \in Flows
        PROVE  FlowKept(e)'
    <3>1. SameThreads(e) /\ SameHandling(e)
      BY <2>2 DEF SameThreads, SameHandling, Handles, Holds
    <3>2. \A h \in Flows : Fewer(rPipe[h], rPipe'[h], ReportsAbout(e))
      BY <1>1, <2>2, QuietReports
    <3>3. FewerMessages(e)
      BY <2>2, <3>2, EmptyQ DEF FewerMessages
    <3> QED
      BY <1>1, <3>1, <3>3, Frame DEF SameView
  <2> QED
    BY <2>3, <2>4 DEF FlowsServed
<1> QED
  BY <1>4, <1>5
-----------------------------------------------------------------------------
(* The invariant *)

\* The invariant holds before anything has happened.
LEMMA InitFlowsServed == Init => FlowsServed
<1> SUFFICES ASSUME Init PROVE FlowsServed
  OBVIOUS
<1> USE DEF Init, NetInit, SendInit, RecvInit
<1>1. ChannelsKept
  BY FS_EmptySet, FlowAssumption DEF ChannelsKept, Manager, LivePCs
<1>2. SessionsKept
  BY DEF SessionsKept
<1>3. ASSUME NEW f \in Flows
      PROVE  FlowKept(f)
  <2>1. \A c \in Chans, g \in Flows :
          chanPipe[c] = <<>> /\ toRecv[g] = <<>> /\ rPipe[g] = <<>> /\ toSend[g] = <<>>
    OBVIOUS
  <2>2. \A g \in Flows : ~Handles(g, f)
    BY FlowAssumption DEF Handles, Manager
  <2>3. ParserPart(f) /\ HandledPart(f) /\ ThreadPart(f)
    BY <2>2 DEF ParserPart, HandledPart, ThreadPart, ThreadsOf, Alive
  <2>4. PipePart(f) /\ RequestPart(f) /\ ReportPart(f) /\ ReplyPart(f)
    BY <2>1, EmptyQ DEF PipePart, RequestPart, ReportPart, ReplyPart, OnPipeTo, Asked, Reported,
       Replied
  <2> QED
    BY <2>3, <2>4 DEF FlowKept
<1> QED
  BY <1>1, <1>2, <1>3 DEF FlowsServed

\* Every step of flowParser keeps it,
LEMMA ParserKeeps ==
  ASSUME FlowInv, NEW f \in Flows, Parser(f)
  PROVE  FlowsServed'
<1>1. LogRequested \in BOOLEAN
  BY SenderAssumption
<1>2. CASE \/ JoinChannel(f) \/ OpenConnection(f) \/ OpenFails(f) \/ LogRequestFails(f)
          \/ SubmitFlow(f) \/ TakeResult(f)
  BY <1>2, JoinKeeps, OpeningSteps, QuietSenderSteps, SubmitKeeps, TakeResultKeeps DEF Parser
<1>3. CASE ConnectAnswered(f)
  <2>1. CASE LogRequested
    BY <1>3, <2>1, OpeningSteps DEF Parser
  <2>2. CASE ~LogRequested
    <3>1. parser[f] \in Opening /\ Answered(f) /\ RegisterChannel(f) /\ UNCHANGED <<toRecv, recvVars>>
      BY <1>3, <2>2 DEF ConnectAnswered, Opening, Parser
    <3> QED
      BY <3>1, RegisterKeeps
  <2> QED
    BY <1>1, <2>1, <2>2
<1>4. CASE LogAnswered(f)
  <2>1. parser[f] \in Opening /\ Answered(f) /\ RegisterChannel(f) /\ UNCHANGED <<toRecv, recvVars>>
    BY <1>4 DEF LogAnswered, Opening, Parser
  <2> QED
    BY <2>1, RegisterKeeps
<1> QED
  BY <1>2, <1>3, <1>4 DEF Parser, ParserThread

\* and so does every step of the two programs.
LEMMA NextKeepsFlows ==
  ASSUME FlowInv, [Next]_vars
  PROVE  FlowInv'
<1>1. ChannelInv'
  BY NextKeepsChannelInv DEF FlowInv
<1>2. CASE Exit
  BY <1>1, <1>2, StandStill DEF Exit, ExitProcess, recvVars, chanVars, threadVars, FlowInv
<1>3. CASE Finished \/ UNCHANGED vars
  <2>1. UNCHANGED <<sendVars, recvVars, netVars>>
    BY <1>3 DEF Finished, vars
  <2> QED
    BY <1>1, <2>1, StandStill DEF sendVars, recvVars, netVars, chanVars, threadVars, FlowInv
<1>4. ASSUME NEW f \in Flows,
             \/ ManagerOnSocket(f) \/ ManagerOnPipe(f) \/ ManagerEnds(f)
             \/ SenderFails(f) \/ SenderConnects(f) \/ SenderFinishes(f) \/ SenderKilled(f)
      PROVE  FlowsServed'
  BY <1>4, StartKeeps, QuietSenderSteps, AnsweredKeeps, ForwardKeeps, FailedKeeps,
     SendClosedErrKeeps, LeavesKeeps, ReleasedKeeps, NotifyKeeps, SenderKeeps
     DEF ManagerOnSocket, ManagerSocket, ManagerOnPipe, ManagerPipe, ManagerEnds, ManagerEnding,
         SenderFails, SenderConnects, SenderFinishes, SenderKilled
<1>5. ASSUME NEW f \in Flows,
             \/ SessionOnSocket(f) \/ SessionOnPipe(f) \/ SessionTimer(f)
             \/ DataThread(f) \/ DataThreadReceives(f) \/ DataThreadFails(f)
      PROVE  FlowsServed'
  BY <1>5, QuietReceiverSteps, SendFlowKeeps, ClosedKeeps, FlowClosedKeeps, ThreadOkKeeps,
     ThreadFailsKeeps, DataThreadKeeps
     DEF SessionOnSocket, SessionSocket, SessionOnPipe, SessionPipe, SessionTimer
<1>6. ASSUME NEW h \in Hosts, ReceiverStops(h)
      PROVE  FlowsServed'
  BY <1>6, StandStill DEF ReceiverStops, Interrupted, sendVars, netVars, chanVars, threadVars
<1> QED
  BY <1>1, <1>2, <1>3, <1>4, <1>5, <1>6, ParserKeeps DEF Next, FlowInv
-----------------------------------------------------------------------------
(* What the heads of the queues say, for the modules that follow. *)

\* The reports and requests that a session reads first.
LEMMA HeadReported ==
  ASSUME ChannelInv, NEW g \in Flows, rPipe[g] # <<>>
  PROVE  /\ Head(rPipe[g]).flow \in Flows
         /\ Reported(g, Head(rPipe[g]).code, Head(rPipe[g]).flow)
<1>1. rPipe[g] \in Seq(Reports)
  BY Types
<1>2. Has(rPipe[g], Head(rPipe[g])) /\ Head(rPipe[g]) \in Reports
  BY <1>1, TailQ
<1> QED
  BY <1>2 DEF Reports, Reported, Report

\* The same for the message at the head of a connection, at the receiver
LEMMA HeadAsked ==
  ASSUME ChannelInv, NEW g \in Flows, NEW type \in FlowTypes,
         toRecv[g] # <<>>, Head(toRecv[g]).type = type
  PROVE  Head(toRecv[g]).flow \in Flows /\ Asked(g, type, Head(toRecv[g]).flow)
<1>1. toRecv[g] \in Seq(Messages)
  BY Types
<1>2. Has(toRecv[g], Head(toRecv[g])) /\ Head(toRecv[g]) \in Messages
  BY <1>1, TailQ
<1>3. Head(toRecv[g]).flow \in Flows /\ Head(toRecv[g]) = Msg(type, Head(toRecv[g]).flow)
  BY <1>2 DEF Messages, Msg, PlainTypes, FlowTypes
<1> QED
  BY <1>2, <1>3 DEF Asked

\* and at the sender.
LEMMA HeadReplied ==
  ASSUME ChannelInv, NEW g \in Flows, NEW type \in FlowTypes,
         toSend[g] # <<>>, Head(toSend[g]).type = type
  PROVE  Head(toSend[g]).flow \in Flows /\ Replied(g, type, Head(toSend[g]).flow)
<1>1. toSend[g] \in Seq(Messages)
  BY Types
<1>2. Has(toSend[g], Head(toSend[g])) /\ Head(toSend[g]) \in Messages
  BY <1>1, TailQ
<1>3. Head(toSend[g]).flow \in Flows /\ Head(toSend[g]) = Msg(type, Head(toSend[g]).flow)
  BY <1>2 DEF Messages, Msg, PlainTypes, FlowTypes
<1> QED
  BY <1>2, <1>3 DEF Replied
=============================================================================
