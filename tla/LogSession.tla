----------------------------- MODULE LogSession -----------------------------
(***************************************************************************)
(* ITGRecv and ITGLog together: packets arrive at the data threads, their  *)
(* records go through the buffers of the threads to local files or to      *)
(* ITGLog, and sessions start and end meanwhile.                           *)
(***************************************************************************)
EXTENDS RecvLogs

Init == RecvLogsInit /\ LogServerInit

\* A client connects to ITGLog when it wants a log there.
Connects(c) ==
  /\ IF c = Global THEN scenario.started = "-L" ELSE session[c] = "connecting"
  /\ AcceptLog(c)
  /\ UNCHANGED recvLogVars
Manages(c)       == ChannelManager(c) /\ UNCHANGED recvLogVars
DatagramLost(c)  == LoseDatagram(c) /\ UNCHANGED recvLogVars

\* Every sender has been released and every log that was stopped is closed.
Done ==
  /\ \A s \in Sessions : session[s] = "ended"
  /\ \A c \in Clients : manager[c] \in {"none", "ended"} \/ c = Global
  /\ UNCHANGED vars

Next ==
  \/ \E c \in Clients : Connects(c) \/ Manages(c) \/ DatagramLost(c)
  \/ StartGlobalLog
  \/ \E s \in Sessions : SessionSteps(s)
  \/ \E f \in Flows : StartFlow(f) \/ TakePacket(f) \/ DataThread(f) \/ CloseFlow(f)
  \/ Done

Spec == Init /\ [][Next]_vars

\* Threads go on when they can; packets need not arrive and senders need not close
\* their flows.
Fairness ==
  /\ \A c \in Clients : WF_vars(Connects(c)) /\ WF_vars(Manages(c))
  /\ WF_vars(StartGlobalLog)
  /\ \A s \in Sessions : WF_vars(SessionSteps(s))
  /\ \A f \in Flows : WF_vars(DataThread(f))
FairSpec == Spec /\ Fairness
-----------------------------------------------------------------------------
\* Every variable of ITGRecv's logging and of ITGLog has its type.
TypeOK == RecvLogsTypeOK /\ LogServerTypeOK

\* A data thread writes at infos[count], in a buffer of logbuffer_size records: it
\* has been emptied whenever the thread takes another packet.
BufferBounded ==
  \A f \in Flows : thread[f] \in {"receiving", "recorded"} => count[f] < LogBufferSize

\* memLogFile[].num counts the sessions that log to the file, whose stream is open
\* for just as long; allowedLogFile and closeFileLog are called by different sessions.
Users(i) == {s \in Sessions : descriptor[s] = i /\ session[s] \in {"ready", "closing", "flushed",
                                                                   "released"}}
LogUsersCounted ==
  \A i \in TableSlot :
    LET entry == memLogFile[i] IN
    /\ entry.num = IF Users(i) = {} THEN -1 ELSE Cardinality(Users(i))
    /\ Users(i) # {} => entry.stream = "open"
    /\ entry.stream = "open" =>
         Users(i) # {} \/ \E s \in Sessions : session[s] = "naming" /\ descriptor[s] = i

\* The same of memLogFile[] of ITGLog and its channel managers.
ServerUsers(i) ==
  {c \in Clients : serverSlot[c] = i /\ manager[c] \in {"listening", "receiving", "closing"}}
ServerUsersCounted ==
  \A i \in Slots :
    /\ serverTable[i].num =
         IF ServerUsers(i) = {} THEN -1 ELSE Cardinality(ServerUsers(i))
    /\ \A j \in Slots : serverTable[i].name = serverTable[j].name
                          => i = j \/ serverTable[i].name = NoLog

\* CLOSED_FLOW: when the thread of a flow that is logged locally is gone, the file
\* holds each of its packets once, in order, whoever flushed them; it does until the
\* session gives the file back.
LogsLocally(f) == scenario.started = "-l" \/ Wants(Home[f]) = "local"
UpTo(n)        == [i \in 1 .. n |-> i]
RecordsKept ==
  \A f \in Flows :
    (LogsLocally(f) /\ thread[f] = "cancelled" /\ session[Home[f]] \in {"ready", "released"})
      => written[FileOf(Home[f])][f] = UpTo(taken[f])

\* What ITGLog has written of a flow, what is under way to it and what the buffer
\* holds are together the packets received, none twice, as long as the log runs; on
\* a UDP data channel what is there is in order.
LogsRemotely(f) == scenario.started = "-L" \/ Wants(Home[f]) = "remote"
RecordsIn(batches, f) ==
  LET upTo[i \in 0 .. Len(batches)] ==
        IF i = 0 THEN <<>>
        ELSE IF batches[i].source = f THEN upTo[i - 1] \o batches[i].numbers ELSE upTo[i - 1]
  IN  upTo[Len(batches)]
UnderWay(c, f) == RecordsIn(dataTo[c], f)
InBuffer(f) ==
  IF thread[f] = "cancelled" \/ (closing[Home[f]] = f /\ session[Home[f]] = "flushed") THEN 0
  ELSE count[f] + IF thread[f] = "recorded" THEN 1 ELSE 0
RemoteRecordsKept ==
  \A f \in Flows :
    LET c == logSock[Home[f]] IN
    (LogsRemotely(f) /\ c # NoOne) =>
      LET records == logged[LogName[c]][f] \o UnderWay(c, f) IN
      IF LogProto[c] = "TCP"
      THEN logConn[c] = "open" => records = UpTo(taken[f] - InBuffer(f))
      ELSE \A i, j \in DOMAIN records : i < j => records[i] < records[j]

\* The logs of other sessions do not end the receiver.
ReceiverRuns == up

\* A thread that has to flush does: nobody keeps mutexLog or mutexLogRem.
FlushesEnd ==
  \A f \in Flows : (thread[f] = "full") ~> (thread[f] \in {"receiving", "cancelled"})

\* A session that is released leaves, and its log at ITGLog is closed.
LogsEnd ==
  \A s \in Sessions :
    (session[s] = "released") ~> (session[s] = "ended" /\ manager[s] \in {"none", "ended"})
=============================================================================
