------------------------------ MODULE RecvLogs ------------------------------
(***************************************************************************)
(* How ITGRecv logs: the modes logCheck and logRemote, which are global;   *)
(* the table memLogFile[] of the files that senders ask for with -x; the   *)
(* buffer of each data thread; and what a session does with all of them    *)
(* when it starts, closes a flow and ends.  Remote logs go to ITGLog.      *)
(*                                                                         *)
(* A record is the number of a packet of its flow.  ItgRecv models what    *)
(* else sessions and data threads do; here a session asks for its log,     *)
(* starts flows, closes them and is released.                              *)
(***************************************************************************)
EXTENDS ItgLog

CONSTANTS
  Sessions,        \* signalling connections to the receiver
  Flows,           \* the flows they ask for
  Home,            \* Home[f]: the session of flow f
  FileName,        \* FileName[s]: the file that the sender of session s asks for
  Global,          \* the connection to ITGLog that option -L opens
  LogBufferSize,   \* logbuffer_size of ITGRecv, option -q
  MaxPackets,      \* bound: packets of a flow
  TableSlots,      \* entries of memLogFile[] of ITGRecv
  Scenarios,       \* options of the receiver and of its senders
  LateData,        \* packets may still arrive when their flow is closed
  OneAtATime       \* senders ask for their logs one after another

NoOne == "no one"

ASSUME RecvLogsAssumption ==
  /\ Home \in [Flows -> Sessions]
  /\ Clients = Sessions \cup {Global} /\ Global \notin Sessions
  /\ Sources = Flows
  /\ NoLog \notin {FileName[s] : s \in Sessions}
  /\ {LogBufferSize, MaxPackets, TableSlots} \subseteq Nat \ {0}
  /\ Scenarios \subseteq [started : {"plain", "-l", "-L"},
                          wants : [Sessions -> {"none", "local", "remote"}]]
  /\ LateData \in BOOLEAN /\ OneAtATime \in BOOLEAN
  /\ NoOne \notin Flows \cup Clients

VARIABLES
  scenario,     \* the options in use
  up,           \* the receiver runs
  logCheck,     \* 0: no local log, 1: -l, 2: a sender asked for one
  logRemote,    \* 0: no remote log, 1: -L, 2: a sender asked for one
  memLogFile,   \* memLogFile[i]: name, users and state of the stream
  session,      \* session[s]: the signalManager thread
  closing,      \* closing[s]: the flow that it is closing
  descriptor,   \* descriptor[s]: its fileDescriptor, an entry or 0 for `out`
  logSock,      \* logSock[s]: its connection to ITGLog
  thread,       \* thread[f]: the data thread
  taken,        \* taken[f]: packets that it has received
  infos,        \* infos[f]: its buffer, by position
  count,        \* count[f]: its count
  mutexLog,     \* the flow whose thread has mutexLog
  mutexLogRem,  \* the flow whose thread has mutexLogRem
  written       \* written[file][f]: the records of f in that local file

sessionVars == <<session, closing, descriptor, logSock>>
threadVars  == <<thread, taken, infos, count>>
recvLogVars == <<scenario, up, logCheck, logRemote, memLogFile, sessionVars, threadVars,
                 mutexLog, mutexLogRem, written>>
vars        == <<recvLogVars, serverVars>>

OutFile    == "out"                     \* the log of option -l
Positions  == 0 .. MaxPackets - 1
TableSlot  == 1 .. TableSlots
LocalNames == {FileName[s] : s \in Sessions}
Wants(s)   == scenario.wants[s]
FreeEntry  == [name |-> NoLog, num |-> -1, stream |-> "closed"]

RecvLogsTypeOK ==
  /\ scenario \in Scenarios
  /\ up \in BOOLEAN
  /\ logCheck \in 0 .. 2 /\ logRemote \in 0 .. 2
  /\ memLogFile \in [TableSlot -> [name : LocalNames \cup {NoLog}, num : Int,
                                   stream : {"closed", "open", "failed"}]]
  /\ session \in [Sessions -> {"none", "opening", "naming", "connecting", "ready", "closing",
                               "flushed", "released", "leaving", "ended"}]
  /\ closing \in [Sessions -> Flows \cup {NoOne}]
  /\ descriptor \in [Sessions -> 0 .. TableSlots]
  /\ logSock \in [Sessions -> Clients \cup {NoOne}]
  /\ thread \in [Flows -> {"none", "receiving", "recorded", "full", "writing", "sending",
                           "cancelled"}]
  /\ taken \in [Flows -> 0 .. MaxPackets]
  /\ infos \in [Flows -> [Positions -> 0 .. MaxPackets]]
  /\ count \in [Flows -> 0 .. LogBufferSize]
  /\ mutexLog \in Flows \cup {NoOne} /\ mutexLogRem \in Flows \cup {NoOne}

RecvLogsInit ==
  /\ scenario \in Scenarios
  /\ up = TRUE
  /\ logCheck  = IF scenario.started = "-l" THEN 1 ELSE 0
  /\ logRemote = IF scenario.started = "-L" THEN 1 ELSE 0
  /\ memLogFile = [i \in TableSlot |-> FreeEntry]
  /\ session = [s \in Sessions |-> "none"]
  /\ closing = [s \in Sessions |-> NoOne]
  /\ descriptor = [s \in Sessions |-> 0]
  /\ logSock = [s \in Sessions |-> NoOne]
  /\ thread = [f \in Flows |-> "none"]
  /\ taken = [f \in Flows |-> 0]
  /\ infos = [f \in Flows |-> [p \in Positions |-> 0]]
  /\ count = [f \in Flows |-> 0]
  /\ mutexLog = NoOne /\ mutexLogRem = NoOne
  /\ written = [n \in LocalNames \cup {OutFile} |-> [f \in Flows |-> <<>>]]

SetSession(s, pc) == session' = [session EXCEPT ![s] = pc]
SetThread(f, pc)  == thread' = [thread EXCEPT ![f] = pc]
Fails             == up' = FALSE          \* reportErrorAndExit ends the process
-----------------------------------------------------------------------------
(* The log request of a session *)

\* main with -L: the connection that every session is to use.
StartGlobalLog ==
  /\ up /\ scenario.started = "-L"
  /\ AskForLog(Global) \/ ConnectData(Global)
  /\ UNCHANGED recvLogVars

\* A mutant: the connection of option -L is not copied to the session.
SessionStartsAlone(s) ==
  /\ up /\ session[s] = "none"
  /\ scenario.started = "-L" => logConn[Global] = "open"
  /\ SetSession(s, CASE Wants(s) = "local" /\ logCheck # 1   -> "opening"
                     [] Wants(s) = "remote" /\ logRemote # 1 -> "connecting"
                     [] OTHER -> "ready")
  /\ UNCHANGED <<scenario, up, logCheck, logRemote, memLogFile, closing, descriptor, logSock,
                 threadVars, mutexLog, mutexLogRem, written, serverVars>>

\* After CONNECT a session takes over the log of the receiver, if it has one; main
\* accepts none before createRemoteLogFile has returned.
SessionStarts(s) ==
  /\ up /\ session[s] = "none"
  /\ scenario.started = "-L" => logConn[Global] = "open"
  /\ OneAtATime => \A t \in Sessions : session[t] \notin {"opening", "naming", "connecting"}
  /\ logSock' = [logSock EXCEPT ![s] = IF logRemote = 1 THEN Global ELSE @]
  /\ CASE Wants(s) = "none"   -> SetSession(s, "ready")
       [] Wants(s) = "local"  -> SetSession(s, IF logCheck = 1 THEN "ready" ELSE "opening")
       [] Wants(s) = "remote" -> SetSession(s, IF logRemote = 1 THEN "ready" ELSE "connecting")
  /\ UNCHANGED <<scenario, up, logCheck, logRemote, memLogFile, closing, descriptor, threadVars,
                 mutexLog, mutexLogRem, written, serverVars>>

\* SEND_NAME_LOG, allowedLogFile: an entry of that name gets one more user ...
Granted(s, i) ==
  /\ descriptor' = [descriptor EXCEPT ![s] = i]
  /\ logCheck' = 2
  /\ SetSession(s, "ready")
  /\ UNCHANGED <<scenario, up, logRemote, closing, logSock, threadVars, mutexLog, mutexLogRem,
                 serverVars>>
Matching(s) == {i \in TableSlot : memLogFile[i].name = FileName[s]}
\* A mutant: a session that shares a file is not counted.
ShareLogUncounted(s) ==
  /\ up /\ session[s] = "opening" /\ Matching(s) # {}
  /\ \E i \in Matching(s) : Granted(s, i)
  /\ UNCHANGED <<memLogFile, written>>

ShareLog(s) ==
  /\ up /\ session[s] = "opening" /\ Matching(s) # {}
  /\ \E i \in Matching(s) :
       /\ memLogFile' = [memLogFile EXCEPT ![i].num = @ + 1]
       /\ Granted(s, i)
  /\ UNCHANGED written

\* ... or the file is opened in the first free entry, which loses what it held.  A
\* stream that is open already cannot be opened again and takes no more data.
OpenLog(s) ==
  LET free == {i \in TableSlot : memLogFile[i].num = -1}
      i    == CHOOSE j \in free : \A k \in free : j <= k
  IN
  /\ up /\ session[s] = "opening" /\ Matching(s) = {} /\ free # {}
  /\ memLogFile' = [memLogFile EXCEPT ![i].stream = IF @ = "closed" THEN "open" ELSE "failed"]
  /\ written' = IF memLogFile[i].stream = "closed"
                THEN [written EXCEPT ![FileName[s]] = [f \in Flows |-> <<>>]] ELSE written
  /\ descriptor' = [descriptor EXCEPT ![s] = i]
  /\ SetSession(s, "naming")
  /\ UNCHANGED <<scenario, up, logCheck, logRemote, closing, logSock, threadVars, mutexLog,
                 mutexLogRem, serverVars>>
NameLog(s) ==
  /\ up /\ session[s] = "naming"
  /\ memLogFile' = [memLogFile EXCEPT
       ![descriptor[s]] = [name |-> FileName[s], num |-> 1, stream |-> @.stream]]
  /\ Granted(s, descriptor[s])
  /\ UNCHANGED written

\* SEND_FLOW_LOG, createRemoteLogFile: a connection of its own, then logRemote.
AskRemoteLog(s) ==
  /\ up /\ session[s] = "connecting" /\ AskForLog(s)
  /\ UNCHANGED recvLogVars
OpenRemoteLog(s) ==
  /\ up /\ session[s] = "connecting" /\ ConnectData(s)
  /\ logSock' = [logSock EXCEPT ![s] = s]
  /\ logRemote' = 2
  /\ SetSession(s, "ready")
  /\ UNCHANGED <<scenario, up, logCheck, memLogFile, closing, descriptor, threadVars,
                 mutexLog, mutexLogRem, written>>
-----------------------------------------------------------------------------
(* Data threads: the receive loops of icmpSock, udpSock, tcpSock, sctpSock *)
(* and dccpSock log alike.                                                 *)

\* SEND_FLOW: the thread gets fileLog and logSock of its session.
StartFlow(f) ==
  /\ up /\ session[Home[f]] = "ready" /\ thread[f] = "none"
  /\ SetThread(f, "receiving")
  /\ UNCHANGED <<scenario, up, logCheck, logRemote, memLogFile, sessionVars, taken, infos, count,
                 mutexLog, mutexLogRem, written, serverVars>>

\* A packet: written at infos[count] if anything is logged ...
Logging == logCheck # 0 \/ logRemote # 0
TakePacket(f) ==
  /\ up /\ thread[f] = "receiving" /\ taken[f] < MaxPackets
  /\ LateData \/ closing[Home[f]] # f
  /\ taken' = [taken EXCEPT ![f] = @ + 1]
  /\ IF Logging
     THEN /\ infos' = [infos EXCEPT ![f][count[f]] = taken[f] + 1]
          /\ SetThread(f, "recorded")
     ELSE UNCHANGED <<infos, thread>>
  /\ UNCHANGED <<scenario, up, logCheck, logRemote, memLogFile, sessionVars, count, mutexLog,
                 mutexLogRem, written, serverVars>>

\* A mutant: the threshold is tested before the packet is counted.
CountPacketLate(f) ==
  /\ up /\ thread[f] = "recorded"
  /\ count' = [count EXCEPT ![f] = @ + 1]
  /\ SetThread(f, IF count[f] = LogBufferSize THEN "full" ELSE "receiving")
  /\ UNCHANGED <<scenario, up, logCheck, logRemote, memLogFile, sessionVars, taken, infos,
                 mutexLog, mutexLogRem, written, serverVars>>

\* ... and counted.
CountPacket(f) ==
  /\ up /\ thread[f] = "recorded"
  /\ count' = [count EXCEPT ![f] = @ + 1]
  /\ SetThread(f, IF count[f] + 1 = LogBufferSize THEN "full" ELSE "receiving")
  /\ UNCHANGED <<scenario, up, logCheck, logRemote, memLogFile, sessionVars, taken, infos,
                 mutexLog, mutexLogRem, written, serverVars>>

\* flushBuffer writes under mutexLog, and empties the buffer if its file is open.
Buffered(f) == [i \in 1 .. count[f] |-> infos[f][i - 1]]
FileOf(s)   == IF descriptor[s] = 0 THEN OutFile ELSE memLogFile[descriptor[s]].name
StreamOf(s) == IF descriptor[s] # 0 THEN memLogFile[descriptor[s]].stream
               ELSE IF scenario.started = "-l" THEN "open" ELSE "closed"
FlushBuffer(f) ==
  LET s == Home[f] IN
  /\ written' = IF StreamOf(s) = "open"
                THEN [written EXCEPT ![FileOf(s)][f] = @ \o Buffered(f)] ELSE written
  /\ count' = IF StreamOf(s) = "closed" THEN count ELSE [count EXCEPT ![f] = 0]

FlushStarts(f) ==
  /\ up /\ thread[f] = "full"
  /\ IF logCheck # 0
     THEN /\ mutexLog = NoOne /\ mutexLog' = f /\ UNCHANGED mutexLogRem
          /\ SetThread(f, "writing")
     ELSE /\ mutexLogRem = NoOne /\ mutexLogRem' = f /\ UNCHANGED mutexLog
          /\ SetThread(f, "sending")
  /\ UNCHANGED <<scenario, up, logCheck, logRemote, memLogFile, sessionVars, taken, infos, count,
                 written, serverVars>>
\* Mutants: the buffer is not emptied; mutexLog is not given back.
WriteBufferKept(f) ==
  /\ up /\ thread[f] = "writing"
  /\ written' = [written EXCEPT ![FileOf(Home[f])][f] = @ \o Buffered(f)]
  /\ mutexLog' = NoOne /\ SetThread(f, "receiving")
  /\ UNCHANGED <<scenario, up, logCheck, logRemote, memLogFile, sessionVars, taken, infos, count,
                 mutexLogRem, serverVars>>
WriteBufferLocked(f) ==
  /\ up /\ thread[f] = "writing"
  /\ FlushBuffer(f)
  /\ SetThread(f, "receiving")
  /\ UNCHANGED <<scenario, up, logCheck, logRemote, memLogFile, sessionVars, taken, infos,
                 mutexLog, mutexLogRem, serverVars>>
WriteBuffer(f) ==
  /\ up /\ thread[f] = "writing"
  /\ FlushBuffer(f)
  /\ mutexLog' = NoOne /\ SetThread(f, "receiving")
  /\ UNCHANGED <<scenario, up, logCheck, logRemote, memLogFile, sessionVars, taken, infos,
                 mutexLogRem, serverVars>>

\* sendto on logSock of the session, which is no socket if the session has no
\* remote log: the receiver ends.
SendTo(c, f) ==
  IF c = NoOne THEN Fails /\ UNCHANGED dataTo
  ELSE SendRecords(c, f, Buffered(f)) /\ UNCHANGED up
ServerElse == <<logConn, manager, signalingLog, serverName, serverSlot, serverTable, logged>>
\* A mutant: count is left alone, as by the session.
SendBufferKept(f) ==
  /\ up /\ thread[f] = "sending"
  /\ SendTo(logSock[Home[f]], f)
  /\ mutexLogRem' = NoOne /\ SetThread(f, "receiving")
  /\ UNCHANGED <<scenario, logCheck, logRemote, memLogFile, sessionVars, taken, infos, count,
                 mutexLog, written, ServerElse>>
SendBuffer(f) ==
  /\ up /\ thread[f] = "sending"
  /\ SendTo(logSock[Home[f]], f)
  /\ count' = [count EXCEPT ![f] = 0]
  /\ mutexLogRem' = NoOne /\ SetThread(f, "receiving")
  /\ UNCHANGED <<scenario, logCheck, logRemote, memLogFile, sessionVars, taken, infos,
                 mutexLog, written, ServerElse>>

DataThread(f) ==
  CountPacket(f) \/ FlushStarts(f) \/ WriteBuffer(f) \/ SendBuffer(f)
-----------------------------------------------------------------------------
(* CLOSED_FLOW: flush, wait, cancel *)

CloseFlow(f) ==
  LET s == Home[f] IN
  /\ up /\ session[s] = "ready" /\ thread[f] \notin {"none", "cancelled"}
  /\ LateData \/ thread[f] = "receiving"
  /\ closing' = [closing EXCEPT ![s] = f]
  /\ SetSession(s, "closing")
  /\ UNCHANGED <<scenario, up, logCheck, logRemote, memLogFile, descriptor, logSock, threadVars,
                 mutexLog, mutexLogRem, written, serverVars>>

\* A mutant: what is left in the buffer of the thread is not written.
SessionForgetsBuffer(s) ==
  /\ up /\ session[s] = "closing" /\ logCheck # 0 /\ mutexLog = NoOne
  /\ SetSession(s, "flushed")
  /\ UNCHANGED <<scenario, up, logCheck, logRemote, memLogFile, closing, descriptor, logSock,
                 threadVars, mutexLog, mutexLogRem, written, serverVars>>

\* The session flushes the buffer of the thread itself; it leaves count alone after
\* it has sent the buffer to ITGLog.
SessionWrites(s) ==
  /\ up /\ session[s] = "closing" /\ logCheck # 0 /\ mutexLog = NoOne
  /\ FlushBuffer(closing[s])
  /\ SetSession(s, "flushed")
  /\ UNCHANGED <<scenario, up, logCheck, logRemote, memLogFile, closing, descriptor, logSock,
                 thread, taken, infos, mutexLog, mutexLogRem, serverVars>>
SessionSends(s) ==
  /\ up /\ session[s] = "closing" /\ logCheck = 0 /\ logRemote # 0 /\ mutexLogRem = NoOne
  /\ SendTo(logSock[s], closing[s])
  /\ SetSession(s, "flushed")
  /\ UNCHANGED <<scenario, logCheck, logRemote, memLogFile, closing, descriptor, logSock,
                 threadVars, mutexLog, mutexLogRem, written, ServerElse>>
SessionLogsNothing(s) ==
  /\ up /\ session[s] = "closing" /\ ~Logging
  /\ SetSession(s, "flushed")
  /\ UNCHANGED <<scenario, up, logCheck, logRemote, memLogFile, closing, descriptor, logSock,
                 threadVars, mutexLog, mutexLogRem, written, serverVars>>

\* One second later the thread is cancelled, in whatever it is doing.
CancelThread(s) ==
  /\ up /\ session[s] = "flushed"
  /\ SetThread(closing[s], "cancelled")
  /\ closing' = [closing EXCEPT ![s] = NoOne]
  /\ SetSession(s, "ready")
  /\ UNCHANGED <<scenario, up, logCheck, logRemote, memLogFile, descriptor, logSock, taken, infos,
                 count, mutexLog, mutexLogRem, written, serverVars>>
-----------------------------------------------------------------------------
(* The end of a session *)

Release(s) ==
  /\ up /\ session[s] = "ready"
  /\ \A f \in Flows : Home[f] = s => thread[f] = "cancelled"
  /\ SetSession(s, "released")
  /\ UNCHANGED <<scenario, up, logCheck, logRemote, memLogFile, closing, descriptor, logSock,
                 threadVars, mutexLog, mutexLogRem, written, serverVars>>

\* closeFileLog: one user less; the last one closes the file.  `out` is not in the table.
CloseFileLog(s) ==
  /\ up /\ session[s] = "released"
  /\ LET i == descriptor[s] IN
     memLogFile' = IF logCheck # 2 \/ i = 0 THEN memLogFile
                   ELSE [memLogFile EXCEPT ![i] =
                           IF @.num = 1 THEN FreeEntry
                           ELSE [name |-> @.name, num |-> @.num - 1, stream |-> @.stream]]
  /\ SetSession(s, "leaving")
  /\ UNCHANGED <<scenario, up, logCheck, logRemote, closing, descriptor, logSock, threadVars,
                 mutexLog, mutexLogRem, written, serverVars>>

\* A mutant: ITGLog is not told.
CloseRemoteLogSilently(s) ==
  /\ up /\ session[s] = "leaving"
  /\ SetSession(s, "ended")
  /\ UNCHANGED <<scenario, up, logCheck, logRemote, memLogFile, closing, descriptor, logSock,
                 threadVars, mutexLog, mutexLogRem, written, serverVars>>

\* If any sender has asked for a remote log: stop one's own, or fail for want of one.
CloseRemoteLog(s) ==
  /\ up /\ session[s] = "leaving"
  /\ IF logRemote # 2 THEN UNCHANGED <<up, serverVars>>
     ELSE IF logSock[s] = NoOne THEN Fails /\ UNCHANGED serverVars
     ELSE /\ StopLog(logSock[s])
          /\ UNCHANGED <<up, manager, signalingLog, serverName, serverSlot, serverTable, dataTo,
                         logged>>
  /\ SetSession(s, "ended")
  /\ UNCHANGED <<scenario, logCheck, logRemote, memLogFile, closing, descriptor, logSock,
                 threadVars, mutexLog, mutexLogRem, written>>

SessionSteps(s) ==
  \/ SessionStarts(s) \/ ShareLog(s) \/ OpenLog(s) \/ NameLog(s)
  \/ AskRemoteLog(s) \/ OpenRemoteLog(s)
  \/ SessionWrites(s) \/ SessionSends(s) \/ SessionLogsNothing(s) \/ CancelThread(s)
  \/ Release(s) \/ CloseFileLog(s) \/ CloseRemoteLog(s)
=============================================================================
