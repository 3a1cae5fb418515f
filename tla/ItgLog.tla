------------------------------- MODULE ItgLog -------------------------------
(***************************************************************************)
(* ITGLog, the log server, and the two connections of each of its clients. *)
(* main accepts a signalling connection and starts a channelManager, which *)
(* learns what to log, opens a data channel, copies records from there to  *)
(* a file until the signalling connection says something again, and gives  *)
(* the file back.                                                          *)
(*                                                                         *)
(* A record is what a client says it is; a file is kept as the records of  *)
(* each source in the order in which they were written.                    *)
(***************************************************************************)
EXTENDS Integers, Sequences, FiniteSets

CONSTANTS
  Clients,      \* connections to ITGLog: one per remote log
  LogName,      \* LogName[c]: the file that client c asks for
  LogProto,     \* LogProto[c]: the protocol of its data channel
  ServerBuffer, \* logbuffer_size of ITGLog: records per read
  ServerSlots,  \* entries of memLogFile[] of ITGLog
  Sources,      \* where records come from
  NoLog         \* no file name

ASSUME LogServerAssumption ==
  /\ LogProto \in [Clients -> {"TCP", "UDP"}]
  /\ ServerBuffer \in Nat \ {0}
  /\ NoLog \notin {LogName[c] : c \in Clients}
  /\ IsFiniteSet(Clients)
  /\ ServerSlots \in Nat /\ Cardinality({LogName[c] : c \in Clients}) <= ServerSlots

VARIABLES
  logConn,      \* logConn[c]: the client's end: none, greeted, asked, open or stopped
  manager,      \* manager[c]: the channelManager of client c
  signalingLog, \* the global that recvInfo reads into
  serverName,   \* serverName[c]: the name that recvInfo returned
  serverSlot,   \* serverSlot[c]: the entry of memLogFile[] that it uses
  serverTable,  \* memLogFile[]: the name and the users of each open file
  dataTo,       \* dataTo[c]: what was sent on the data channel and is unread
  logged        \* logged[name][x]: the records of source x in that file

serverVars == <<logConn, manager, signalingLog, serverName, serverSlot, serverTable, dataTo, logged>>

Names    == {LogName[c] : c \in Clients}
Slots    == 1 .. ServerSlots
FreeSlot == [name |-> NoLog, num |-> -1]
\* A piece of the data channel: records of one source sent at once.
Batch(x, numbers) == [source |-> x, numbers |-> numbers]

LogServerTypeOK ==
  /\ logConn \in [Clients -> {"none", "greeted", "asked", "open", "stopped"}]
  /\ manager \in [Clients -> {"none", "greeting", "informed", "named", "listening",
                              "receiving", "closing", "ended"}]
  /\ signalingLog \in Names \cup {NoLog}
  /\ serverName \in [Clients -> Names \cup {NoLog}]
  /\ serverSlot \in [Clients -> Slots \cup {0}]
  /\ serverTable \in [Slots -> [name : Names \cup {NoLog}, num : Int]]
  /\ \A c \in Clients : \A i \in DOMAIN dataTo[c] : dataTo[c][i].source \in Sources
  /\ logged \in [Names -> [Sources -> Seq(Nat)]]

LogServerInit ==
  /\ logConn = [c \in Clients |-> "none"]
  /\ manager = [c \in Clients |-> "none"]
  /\ signalingLog = NoLog
  /\ serverName = [c \in Clients |-> NoLog]
  /\ serverSlot = [c \in Clients |-> 0]
  /\ serverTable = [i \in Slots |-> FreeSlot]
  /\ dataTo = [c \in Clients |-> <<>>]
  /\ logged = [n \in Names |-> [x \in Sources |-> <<>>]]

SetManager(c, pc) == manager' = [manager EXCEPT ![c] = pc]
SetConn(c, pc)    == logConn' = [logConn EXCEPT ![c] = pc]
-----------------------------------------------------------------------------
(* The client's end *)

\* createSignalingLogChannel, after LOG_CONNECT has arrived: ask for a file.
AskForLog(c) ==
  /\ logConn[c] = "greeted"
  /\ SetConn(c, "asked")
  /\ UNCHANGED <<manager, signalingLog, serverName, serverSlot, serverTable, dataTo, logged>>

\* createRemoteLogFile: read the port of the data channel and connect to it.
ConnectData(c) ==
  /\ logConn[c] = "asked" /\ manager[c] \in {"listening", "receiving"}
  /\ SetConn(c, "open")
  /\ UNCHANGED <<manager, signalingLog, serverName, serverSlot, serverTable, dataTo, logged>>

\* sendto on the data channel, with `numbers` of source x.
SendRecords(c, x, numbers) ==
  dataTo' = IF numbers = <<>> THEN dataTo
            ELSE [dataTo EXCEPT ![c] = Append(@, Batch(x, numbers))]

\* The stop message, and the end of both connections.
StopLog(c) ==
  /\ logConn[c] = "open"
  /\ SetConn(c, "stopped")
-----------------------------------------------------------------------------
(* channelManager *)

\* main accepts the connection; recvInfo sends LOG_CONNECT.
AcceptLog(c) ==
  /\ logConn[c] = "none"
  /\ SetManager(c, "greeting") /\ SetConn(c, "greeted")
  /\ UNCHANGED <<signalingLog, serverName, serverSlot, serverTable, dataTo, logged>>

\* recvInfo: recv() leaves the request in the global signalingLog ...
ReceiveInfo(c) ==
  /\ manager[c] = "greeting" /\ logConn[c] = "asked"
  /\ signalingLog' = LogName[c]
  /\ SetManager(c, "informed")
  /\ UNCHANGED <<logConn, serverName, serverSlot, serverTable, dataTo, logged>>

\* ... and strcpy() takes the name from there.
CopyInfo(c) ==
  /\ manager[c] = "informed"
  /\ serverName' = [serverName EXCEPT ![c] = signalingLog]
  /\ SetManager(c, "named")
  /\ UNCHANGED <<logConn, signalingLog, serverSlot, serverTable, dataTo, logged>>

\* allowedLogFile, under mutexLog: share the entry of that name, or open the file
\* anew in the first free one.
Sharing(n)  == {i \in Slots : serverTable[i].name = n}
FirstSlot   == CHOOSE i \in Slots :
                 serverTable[i].num = -1 /\ \A j \in 1 .. i - 1 : serverTable[j].num # -1
UseSlot(c, i, entry) ==
  /\ serverSlot'  = [serverSlot EXCEPT ![c] = i]
  /\ serverTable' = [serverTable EXCEPT ![i] = entry]
ShareServerFile(c, n) ==
  \E i \in Sharing(n) :
    UseSlot(c, i, [name |-> n, num |-> serverTable[i].num + 1]) /\ UNCHANGED logged
OpenServerFile(c, n) ==
  /\ UseSlot(c, FirstSlot, [name |-> n, num |-> 1])
  /\ logged' = [logged EXCEPT ![n] = [x \in Sources |-> <<>>]]
AllowLogFile(c) ==
  /\ manager[c] = "named"
  /\ LET n == serverName[c] IN
     IF Sharing(n) # {} THEN ShareServerFile(c, n) ELSE OpenServerFile(c, n)
  /\ SetManager(c, "listening")
  /\ UNCHANGED <<logConn, signalingLog, serverName, dataTo>>

\* logPacketTCP goes on when the client has connected, logPacketUDP at once.
AcceptData(c) ==
  /\ manager[c] = "listening"
  /\ logConn[c] \in {"open", "stopped"} \/ LogProto[c] = "UDP"
  /\ SetManager(c, "receiving")
  /\ UNCHANGED <<logConn, signalingLog, serverName, serverSlot, serverTable, dataTo, logged>>

\* The records of each source in the first k batches, or in a part of one.
Write(c, batch, k) ==
  LET n == serverTable[serverSlot[c]].name IN
  logged' = [logged EXCEPT ![n][batch.source] = @ \o SubSeq(batch.numbers, 1, k)]
Quiet(c) == logConn[c] # "stopped"      \* nothing to read on the signalling socket

\* logPacketTCP reads some whole records: recv() is repeated until the last is whole.
ReadStream(c) ==
  /\ manager[c] = "receiving" /\ LogProto[c] = "TCP"
  /\ Quiet(c) /\ dataTo[c] # <<>>
  /\ LET batch == Head(dataTo[c])
         n     == Len(batch.numbers)
     IN \E k \in 1 .. IF n < ServerBuffer THEN n ELSE ServerBuffer :
          /\ Write(c, batch, k)
          /\ dataTo' = [dataTo EXCEPT ![c] =
               (IF k = n THEN <<>> ELSE <<Batch(batch.source, SubSeq(batch.numbers, k + 1, n))>>)
               \o Tail(@)]
  /\ UNCHANGED <<logConn, manager, signalingLog, serverName, serverSlot, serverTable>>

\* logPacketUDP reads a datagram, of which it keeps what its buffer holds.
ReadDatagram(c) ==
  /\ manager[c] = "receiving" /\ LogProto[c] = "UDP"
  /\ Quiet(c) /\ dataTo[c] # <<>>
  /\ LET batch == Head(dataTo[c])
         n     == Len(batch.numbers)
     IN Write(c, batch, IF n < ServerBuffer THEN n ELSE ServerBuffer)
  /\ dataTo' = [dataTo EXCEPT ![c] = Tail(@)]
  /\ UNCHANGED <<logConn, manager, signalingLog, serverName, serverSlot, serverTable>>

\* select() says that the signalling socket is readable: the loop ends, whatever
\* the data channel still holds.
EndLog(c) ==
  /\ manager[c] = "receiving" /\ ~Quiet(c)
  /\ SetManager(c, "closing")
  /\ dataTo' = [dataTo EXCEPT ![c] = <<>>]
  /\ UNCHANGED <<logConn, signalingLog, serverName, serverSlot, serverTable, logged>>

\* A mutant: the first thread that ends frees the entry.
CloseServerFileAtOnce(c) ==
  /\ manager[c] = "closing"
  /\ serverTable' = [serverTable EXCEPT ![serverSlot[c]] = FreeSlot]
  /\ SetManager(c, "ended")
  /\ UNCHANGED <<logConn, signalingLog, serverName, serverSlot, dataTo, logged>>

\* closeFileLog, under mutexLog; the thread exits and leaves the signalling socket open.
CloseServerFile(c) ==
  /\ manager[c] = "closing"
  /\ LET i == serverSlot[c] IN
     serverTable' = [serverTable EXCEPT ![i] =
       IF @.num = 1 THEN FreeSlot ELSE [name |-> @.name, num |-> @.num - 1]]
  /\ SetManager(c, "ended")
  /\ UNCHANGED <<logConn, signalingLog, serverName, serverSlot, dataTo, logged>>

\* The network drops a datagram of a UDP data channel.
LoseDatagram(c) ==
  /\ LogProto[c] = "UDP" /\ dataTo[c] # <<>>
  /\ dataTo' = [dataTo EXCEPT ![c] = Tail(@)]
  /\ UNCHANGED <<logConn, manager, signalingLog, serverName, serverSlot, serverTable, logged>>

ChannelManager(c) ==
  \/ ReceiveInfo(c) \/ CopyInfo(c) \/ AllowLogFile(c) \/ AcceptData(c)
  \/ ReadStream(c) \/ ReadDatagram(c) \/ EndLog(c) \/ CloseServerFile(c)
=============================================================================
