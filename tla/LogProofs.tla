----------------------------- MODULE LogProofs -----------------------------
(***************************************************************************)
(* The logs of ITGLog and ITGRecv, proved for any number of clients,       *)
(* sessions and flows.                                                     *)
(*                                                                         *)
(* ITGLog's table is right however requests overlap, as mutexLog is held   *)
(* from the search to the entry: ServerInv says which manager has which    *)
(* entry.  ITGRecv searches its own without a lock: it is right as long as *)
(* one session asks at a time, and FileInv says what such a session has.   *)
(*                                                                         *)
(* On these two rest the buffers of the data threads: ModeInv relates the  *)
(* global modes to what senders want, FilesOwn a session to its file,      *)
(* BuffersInTime a buffer to the state of its thread, and LocalInv what a  *)
(* flow has received to its buffer and its file.                           *)
(*                                                                         *)
(* RemoteInv joins the two sides: each client has the entry it asked for   *)
(* (RequestsOwn), a session its connection (SocketsOpen), a connection     *)
(* only records of its session (RecordsOwn), and what has been received of *)
(* a flow is at ITGLog, under way or in the buffer (FlowsSent).  What a    *)
(* step does to the records of a flow in a queue of batches is shown by    *)
(* induction over the queue (Induction, RecordsInHead, RecordsInAppend).   *)
(***************************************************************************)
EXTENDS LogSession, TLAPS, FiniteSetTheorems, SequenceTheorems, WellFoundedInduction

(***************************************************************************)
(* ITGLog                                                                  *)
(***************************************************************************)

\* What the entries of memLogFile[] depend on.
ServerTypes ==
  /\ logConn \in [Clients -> {"none", "greeted", "asked", "open", "stopped"}]
  /\ manager \in [Clients -> {"none", "greeting", "informed", "named", "listening",
                              "receiving", "closing", "ended"}]
  /\ signalingLog \in Names \cup {NoLog}
  /\ serverName \in [Clients -> Names \cup {NoLog}]
  /\ serverSlot \in [Clients -> Slots \cup {0}]
  /\ serverTable \in [Slots -> [name : Names \cup {NoLog}, num : Int]]

\* A request that has been received has a name, whoever's it is by then.
RequestsNamed ==
  \A c \in Clients :
    /\ logConn[c] = "none" => manager[c] = "none"
    /\ manager[c] = "informed" => signalingLog \in Names
    /\ manager[c] = "named" => serverName[c] \in Names
    /\ manager[c] \in {"listening", "receiving", "closing"} => serverSlot[c] \in Slots

\* An entry is free or has a name.
FreeUnnamed == \A i \in Slots : (serverTable[i].num = -1) <=> (serverTable[i].name = NoLog)

ServerInv == ServerTypes /\ RequestsNamed /\ FreeUnnamed /\ ServerUsersCounted

\* The entries and those that use them.
tableVars == <<manager, signalingLog, serverName, serverSlot, serverTable>>

\* Clients do not touch them, nor do they disconnect.
ClientStep ==
  /\ UNCHANGED tableVars
  /\ logConn' \in [Clients -> {"none", "greeted", "asked", "open", "stopped"}]
  /\ \A c \in Clients : logConn'[c] = "none" => logConn[c] = "none"

LEMMA ClientStepKeeps == ServerInv /\ ClientStep => ServerInv'
<1> SUFFICES ASSUME ServerInv, ClientStep PROVE ServerInv'
  OBVIOUS
<1>1. ServerTypes'
  BY DEF ServerInv, ServerTypes, ClientStep, tableVars
<1>2. RequestsNamed'
  BY DEF ServerInv, RequestsNamed, ClientStep, tableVars
<1>3. FreeUnnamed'
  BY DEF ServerInv, FreeUnnamed, ClientStep, tableVars
<1>4. ServerUsersCounted'
  <2>1. \A i : ServerUsers(i)' = ServerUsers(i)
    BY DEF ServerUsers, ClientStep, tableVars
  <2> QED
    BY <2>1 DEF ServerInv, ServerUsersCounted, ClientStep, tableVars
<1> QED
  BY <1>1, <1>2, <1>3, <1>4 DEF ServerInv

LEMMA UsersFinite == \A i : IsFiniteSet(ServerUsers(i))
<1> TAKE i
<1>1. ServerUsers(i) \subseteq Clients
  BY DEF ServerUsers
<1> QED
  BY <1>1, LogServerAssumption, FS_Subset

LEMMA CountGrows ==
  ASSUME NEW S, IsFiniteSet(S), NEW c, c \notin S
  PROVE  /\ Cardinality(S \cup {c}) = Cardinality(S) + 1
         /\ Cardinality(S) \in Nat /\ Cardinality({c}) = 1
         /\ S # {} => Cardinality(S) > 0
<1>1. Cardinality(S \cup {c}) = Cardinality(S) + 1
  BY FS_AddElement
<1>2. Cardinality(S) \in Nat /\ (Cardinality(S) = 0 <=> S = {})
  BY FS_CardinalityType, FS_EmptySet
<1>3. Cardinality({c}) = 1
  BY FS_Singleton
<1> QED
  BY <1>1, <1>2, <1>3

LEMMA CountShrinks ==
  ASSUME NEW S, IsFiniteSet(S), NEW c, c \in S
  PROVE  /\ Cardinality(S \ {c}) = Cardinality(S) - 1
         /\ Cardinality(S) \in Nat /\ Cardinality(S) > 0
         /\ (S \ {c} = {}) <=> (Cardinality(S) = 1)
<1>1. Cardinality(S \ {c}) = Cardinality(S) - 1 /\ Cardinality(S) \in Nat /\ Cardinality(S) > 0
  BY FS_RemoveElement, FS_CardinalityType, FS_EmptySet
<1>2. IsFiniteSet(S \ {c})
  BY FS_RemoveElement
<1>3. (S \ {c} = {}) <=> (Cardinality(S \ {c}) = 0)
  BY <1>2, FS_EmptySet
<1> QED
  BY <1>1, <1>3

-----------------------------------------------------------------------------
\* A manager that is no user before and after a step changes no count.
LEMMA OtherManagerKeeps ==
  ASSUME ServerInv, NEW c \in Clients, NEW pc,
         manager' = [manager EXCEPT ![c] = pc],
         manager[c] \in {"listening", "receiving", "closing"}
           <=> pc \in {"listening", "receiving", "closing"},
         UNCHANGED <<serverSlot, serverTable>>
  PROVE  ServerUsersCounted'
<1>1. ASSUME NEW i PROVE ServerUsers(i)' = ServerUsers(i)
  <2>1. manager \in [Clients -> {"none", "greeting", "informed", "named", "listening",
                                "receiving", "closing", "ended"}]
    BY DEF ServerInv, ServerTypes
  <2>2. \A d \in Clients : manager'[d] = IF d = c THEN pc ELSE manager[d]
    BY <2>1
  <2> QED
    BY <2>2 DEF ServerUsers
<1> QED
  BY <1>1 DEF ServerInv, ServerUsersCounted

\* The first free entry of a table that is not full: the search of allowedLogFile.
LEMMA FirstSlotIsFree ==
  ASSUME ServerInv, NEW n \in Names, Sharing(n) = {}
  PROVE  /\ FirstSlot \in Slots
         /\ serverTable[FirstSlot].num = -1
<1> DEFINE Free == {i \in Slots : serverTable[i].num = -1}
           Less == {ss \in Nat \X Nat : ss[1] < ss[2]}
           Name == [i \in Slots |-> serverTable[i].name]
<1>1. Free # {}
  <2> SUFFICES ASSUME Free = {} PROVE FALSE
    OBVIOUS
  <2>1. \A i \in Slots : serverTable[i].name \in Names \ {n}
    BY DEF ServerInv, ServerTypes, FreeUnnamed, Sharing
  <2>2. Name \in [Slots -> Names \ {n}]
    BY <2>1
  <2>3. IsFiniteSet(Names) /\ Cardinality(Names) <= ServerSlots
    <3> DEFINE Asked == [c \in Clients |-> LogName[c]]
    <3>1. Asked \in Surjection(Clients, Names)
      BY DEF Surjection, Names
    <3> QED
      BY <3>1, LogServerAssumption, FS_Surjection DEF Names
  <2>4. IsFiniteSet(Names \ {n}) /\ Cardinality(Names \ {n}) = Cardinality(Names) - 1
    BY <2>3, FS_RemoveElement
  <2>5. IsFiniteSet(Slots) /\ Cardinality(Slots) = ServerSlots
    <3>1. ServerSlots \in Nat /\ 1 \in Int /\ ServerSlots \in Int
      BY LogServerAssumption
    <3>2. /\ IsFiniteSet(Slots)
          /\ Cardinality(Slots) = IF 1 > ServerSlots THEN 0 ELSE ServerSlots - 1 + 1
      BY <3>1, FS_Interval DEF Slots
    <3> QED
      BY <3>1, <3>2
  <2>6. Cardinality(Names) \in Nat
    BY <2>3, FS_CardinalityType
  <2>7. Cardinality(Names \ {n}) < Cardinality(Slots)
    BY <2>3, <2>4, <2>5, <2>6, LogServerAssumption
  <2>8. \E i, j \in Slots : i # j /\ Name[i] = Name[j]
    <3> HIDE DEF Name
    <3> QED
      BY <2>2, <2>4, <2>5, <2>7, FS_PigeonHole
  <2> QED
    BY <2>1, <2>8, LogServerAssumption DEF ServerInv, ServerUsersCounted, Names
<1>2. Free \subseteq Nat
  BY DEF Slots
<1>3. IsWellFoundedOn(Less, Nat)
  BY NatLessThanWellFounded DEF OpToRel
<1>4. PICK i \in Free : \A j \in Free : <<j, i>> \notin Less
  BY <1>1, <1>2, <1>3, WFMin, Zenon
<1>5. \A j \in Free : ~(j < i)
  BY <1>2, <1>4
<1>6. \A j \in 1 .. i - 1 : serverTable[j].num # -1
  BY <1>2, <1>5, LogServerAssumption DEF Slots
<1>7. \E k \in Slots : serverTable[k].num = -1 /\ \A j \in 1 .. k - 1 : serverTable[j].num # -1
  BY <1>6
<1> QED
  BY <1>7 DEF FirstSlot

-----------------------------------------------------------------------------
\* The managers of ITGLog
LEMMA AcceptLogKeeps ==
  ASSUME ServerInv, NEW c \in Clients, AcceptLog(c) PROVE ServerInv'
<1> USE DEF AcceptLog, SetManager, SetConn
<1>1. ServerTypes'
  BY DEF ServerInv, ServerTypes
<1>2. RequestsNamed'
  BY DEF ServerInv, ServerTypes, RequestsNamed
<1>3. FreeUnnamed'
  BY DEF ServerInv, FreeUnnamed
<1>4. ServerUsersCounted'
  <2>1. manager[c] = "none"
    BY DEF ServerInv, RequestsNamed
  <2> QED
    BY <2>1, OtherManagerKeeps
<1> QED
  BY <1>1, <1>2, <1>3, <1>4 DEF ServerInv

LEMMA RequestKeeps ==
  ASSUME ServerInv, NEW c \in Clients, ReceiveInfo(c) \/ CopyInfo(c) PROVE ServerInv'
<1> USE DEF ReceiveInfo, CopyInfo, SetManager
<1>1. ServerTypes'
  BY DEF ServerInv, ServerTypes, Names
<1>2. RequestsNamed'
  BY DEF ServerInv, ServerTypes, RequestsNamed, Names
<1>3. FreeUnnamed'
  BY DEF ServerInv, FreeUnnamed
<1>4. ServerUsersCounted'
  BY OtherManagerKeeps
<1> QED
  BY <1>1, <1>2, <1>3, <1>4 DEF ServerInv

LEMMA ReadingKeeps ==
  ASSUME ServerInv, NEW c \in Clients,
         AcceptData(c) \/ ReadStream(c) \/ ReadDatagram(c) \/ EndLog(c) \/ LoseDatagram(c)
  PROVE  ServerInv'
<1>1. CASE AcceptData(c) \/ EndLog(c)
  <2> USE <1>1 DEF AcceptData, EndLog, SetManager
  <2>1. ServerTypes'
    BY DEF ServerInv, ServerTypes
  <2>2. RequestsNamed'
    BY DEF ServerInv, ServerTypes, RequestsNamed
  <2>3. FreeUnnamed'
    BY DEF ServerInv, FreeUnnamed
  <2>4. ServerUsersCounted'
    BY SMTT(30), OtherManagerKeeps
  <2> QED
    BY <2>1, <2>2, <2>3, <2>4 DEF ServerInv
<1>2. CASE ReadStream(c) \/ ReadDatagram(c) \/ LoseDatagram(c)
  <2>1. ClientStep
    BY <1>2 DEF ClientStep, tableVars, ReadStream, ReadDatagram, LoseDatagram, ServerInv,
       ServerTypes
  <2> QED
    BY <2>1, ClientStepKeeps
<1> QED
  BY <1>1, <1>2

\* A user of an entry: whoever gets it had none, and nobody else is concerned.
LEMMA UserArrives ==
  ASSUME ServerInv, NEW c \in Clients, NEW i \in Slots, NEW n \in Names,
         manager[c] = "named", manager' = [manager EXCEPT ![c] = "listening"],
         UseSlot(c, i, [name |-> n, num |-> Cardinality(ServerUsers(i)) + 1]),
         \A j \in Slots \ {i} : serverTable[j].name # n,
         UNCHANGED <<logConn, signalingLog, serverName>>
  PROVE  ServerInv'
<1> USE DEF UseSlot
<1> DEFINE number == Cardinality(ServerUsers(i)) + 1
<1>0. number \in Nat /\ number # -1
  BY UsersFinite, FS_CardinalityType
<1> HIDE DEF number
<1>1. ServerTypes'
  BY <1>0 DEF ServerInv, ServerTypes, number
<1>2. RequestsNamed'
  BY DEF ServerInv, ServerTypes, RequestsNamed
<1>3. /\ c \notin ServerUsers(i)
      /\ ServerUsers(i)' = ServerUsers(i) \cup {c}
      /\ \A j \in Slots \ {i} : ServerUsers(j)' = ServerUsers(j)
  BY DEF ServerUsers, ServerInv, ServerTypes
<1>4. Cardinality(ServerUsers(i)') = number
  BY <1>3, UsersFinite, CountGrows DEF number
<1>5. /\ serverTable'[i] = [name |-> n, num |-> number]
      /\ \A j \in Slots \ {i} : serverTable'[j] = serverTable[j]
  BY DEF ServerInv, ServerTypes, number
<1>7. FreeUnnamed'
  BY <1>0, <1>5, LogServerAssumption DEF ServerInv, FreeUnnamed, Names
<1>8. ServerUsersCounted'
  <2> SUFFICES ASSUME NEW j \in Slots
               PROVE  /\ serverTable'[j].num = IF ServerUsers(j)' = {} THEN -1
                                               ELSE Cardinality(ServerUsers(j)')
                      /\ \A k \in Slots : serverTable'[j].name = serverTable'[k].name
                                           => j = k \/ serverTable'[j].name = NoLog
    BY DEF ServerUsersCounted
  <2> DEFINE CountOf(k) == IF ServerUsers(k) = {} THEN -1 ELSE Cardinality(ServerUsers(k))
  <2>1. ASSUME j = i PROVE serverTable'[j].num = CountOf(j)'
    <3>1. ServerUsers(i)' # {}
      BY <1>3
    <3>2. serverTable'[i].num = number
      BY <1>5
    <3> QED
      BY <2>1, <3>1, <3>2, <1>4
  <2>2. ASSUME j # i PROVE serverTable'[j].num = CountOf(j)'
    <3>1. serverTable[j].num = IF ServerUsers(j) = {} THEN -1 ELSE Cardinality(ServerUsers(j))
      BY DEF ServerInv, ServerUsersCounted
    <3>2. serverTable'[j] = serverTable[j] /\ ServerUsers(j)' = ServerUsers(j)
      BY <1>3, <1>5, <2>2
    <3> QED
      BY <3>1, <3>2
  <2>3. \A k \in Slots : serverTable'[j].name = serverTable'[k].name
                         => j = k \/ serverTable'[j].name = NoLog
    BY <1>5 DEF ServerInv, ServerUsersCounted
  <2> QED
    BY <2>1, <2>2, <2>3
<1> QED
  BY <1>1, <1>2, <1>7, <1>8 DEF ServerInv

LEMMA AllowLogFileKeeps ==
  ASSUME ServerInv, NEW c \in Clients, AllowLogFile(c) PROVE ServerInv'
<1> DEFINE n == serverName[c]
<1>1. n \in Names /\ manager[c] = "named"
  BY DEF ServerInv, RequestsNamed, AllowLogFile
<1>2. CASE Sharing(n) # {}
  <2>1. PICK i \in Slots : /\ i \in Sharing(n)
                           /\ UseSlot(c, i, [name |-> n, num |-> serverTable[i].num + 1])
    BY <1>2 DEF AllowLogFile, ShareServerFile, Sharing
  <2>2. serverTable[i].name = n /\ serverTable[i].num \in Int
    BY <2>1 DEF Sharing, ServerInv, ServerTypes
  <2>3. ServerUsers(i) # {} /\ serverTable[i].num = Cardinality(ServerUsers(i))
    BY <1>1, <2>2, LogServerAssumption DEF ServerInv, ServerUsersCounted, FreeUnnamed, Names
  <2>4. \A j \in Slots \ {i} : serverTable[j].name # n
    BY <1>1, <2>2, LogServerAssumption DEF ServerInv, ServerUsersCounted, Names
  <2>5. /\ UNCHANGED <<logConn, signalingLog, serverName>>
        /\ manager' = [manager EXCEPT ![c] = "listening"]
    BY DEF AllowLogFile, SetManager
  <2>6. UseSlot(c, i, [name |-> n, num |-> Cardinality(ServerUsers(i)) + 1])
    BY <2>1, <2>3
  <2> HIDE DEF n
  <2> QED
    BY <1>1, <2>4, <2>5, <2>6, UserArrives
<1>3. CASE Sharing(n) = {}
  <2>1. PICK i \in Slots : i = FirstSlot /\ serverTable[i].num = -1
    BY <1>1, <1>3, FirstSlotIsFree
  <2>2. ServerUsers(i) = {}
    BY <2>1, UsersFinite, FS_CardinalityType DEF ServerInv, ServerUsersCounted
  <2>3. UseSlot(c, i, [name |-> n, num |-> Cardinality(ServerUsers(i)) + 1])
    BY <1>3, <2>1, <2>2, FS_EmptySet DEF AllowLogFile, OpenServerFile
  <2>4. \A j \in Slots \ {i} : serverTable[j].name # n
    BY <1>3 DEF Sharing
  <2>5. /\ UNCHANGED <<logConn, signalingLog, serverName>>
        /\ manager' = [manager EXCEPT ![c] = "listening"]
    BY DEF AllowLogFile, SetManager
  <2> HIDE DEF n
  <2> QED
    BY <1>1, <2>3, <2>4, <2>5, UserArrives
<1> QED
  BY <1>2, <1>3

LEMMA CloseServerFileKeeps ==
  ASSUME ServerInv, NEW c \in Clients, CloseServerFile(c) PROVE ServerInv'
<1> USE DEF CloseServerFile, SetManager
<1> DEFINE i == serverSlot[c]
           entry == IF serverTable[i].num = 1 THEN FreeSlot
                    ELSE [name |-> serverTable[i].name, num |-> serverTable[i].num - 1]
<1>1. i \in Slots /\ c \in ServerUsers(i) /\ serverTable[i].num = Cardinality(ServerUsers(i))
  BY DEF ServerInv, RequestsNamed, ServerUsers, ServerUsersCounted
<1>2. /\ ServerUsers(i)' = ServerUsers(i) \ {c}
      /\ \A j \in Slots \ {i} : ServerUsers(j)' = ServerUsers(j)
  BY <1>1 DEF ServerUsers, ServerInv, ServerTypes
<1>3. /\ Cardinality(ServerUsers(i) \ {c}) = serverTable[i].num - 1
      /\ serverTable[i].num \in Nat /\ serverTable[i].num > 0
      /\ (ServerUsers(i) \ {c} = {}) <=> (serverTable[i].num = 1)
  BY ZenonT(60), <1>1, UsersFinite, CountShrinks
<1>4. serverTable[i] \in [name : Names \cup {NoLog}, num : Int]
  BY <1>1 DEF ServerInv, ServerTypes
<1>5. /\ entry \in [name : Names \cup {NoLog}, num : Int]
      /\ entry.num = IF ServerUsers(i)' = {} THEN -1 ELSE Cardinality(ServerUsers(i)')
      /\ (entry.num = -1) <=> (entry.name = NoLog)
      /\ entry.name \in {serverTable[i].name, NoLog}
  BY <1>1, <1>2, <1>3, <1>4, LogServerAssumption DEF FreeSlot, ServerInv, FreeUnnamed, Names
<1>6. /\ serverTable' \in [Slots -> [name : Names \cup {NoLog}, num : Int]]
      /\ serverTable'[i] = entry
      /\ \A j \in Slots \ {i} : serverTable'[j] = serverTable[j]
  <2>1. serverTable' = [serverTable EXCEPT ![i] = entry]
    OBVIOUS
  <2> HIDE DEF entry
  <2> QED
    BY <1>1, <1>5, <2>1 DEF ServerInv, ServerTypes
<1> HIDE DEF entry
<1>7. ServerTypes'
  BY <1>1, <1>6 DEF ServerInv, ServerTypes
<1>8. RequestsNamed'
  BY DEF ServerInv, ServerTypes, RequestsNamed
<1>9. FreeUnnamed'
  BY <1>5, <1>6 DEF ServerInv, FreeUnnamed
<1>10. ServerUsersCounted'
  <2> SUFFICES ASSUME NEW j \in Slots
               PROVE  /\ serverTable'[j].num = IF ServerUsers(j)' = {} THEN -1
                                               ELSE Cardinality(ServerUsers(j)')
                      /\ \A k \in Slots : serverTable'[j].name = serverTable'[k].name
                                           => j = k \/ serverTable'[j].name = NoLog
    BY DEF ServerUsersCounted
  <2>1. serverTable'[j].num = IF ServerUsers(j)' = {} THEN -1 ELSE Cardinality(ServerUsers(j)')
    BY <1>2, <1>5, <1>6 DEF ServerInv, ServerUsersCounted
  <2>2. \A k \in Slots : serverTable'[j].name = serverTable'[k].name
                         => j = k \/ serverTable'[j].name = NoLog
    BY <1>5, <1>6 DEF ServerInv, ServerUsersCounted
  <2> QED
    BY <2>1, <2>2
<1> QED
  BY <1>7, <1>8, <1>9, <1>10 DEF ServerInv

-----------------------------------------------------------------------------
\* The receiver's sessions and threads only ask, connect and stop.
LEMMA SessionIsClient ==
  ASSUME ServerInv, NEW s \in Sessions, SessionSteps(s) PROVE ClientStep
<1> USE DEF ClientStep, tableVars, ServerInv, ServerTypes, serverVars
<1>1. CASE SessionStarts(s) \/ ShareLog(s) \/ OpenLog(s) \/ NameLog(s)
  BY <1>1 DEF SessionStarts, ShareLog, OpenLog, NameLog, Granted
<1>2. CASE AskRemoteLog(s) \/ OpenRemoteLog(s)
  BY <1>2 DEF AskRemoteLog, OpenRemoteLog, AskForLog, ConnectData, SetConn
<1>3. CASE SessionWrites(s) \/ SessionSends(s) \/ SessionLogsNothing(s) \/ CancelThread(s)
  BY <1>3 DEF SessionWrites, SessionSends, SessionLogsNothing, CancelThread, ServerElse
<1>4. CASE Release(s) \/ CloseFileLog(s) \/ CloseRemoteLog(s)
  BY <1>4 DEF Release, CloseFileLog, CloseRemoteLog, StopLog, SetConn
<1> QED
  BY <1>1, <1>2, <1>3, <1>4 DEF SessionSteps

LEMMA FlowIsClient ==
  ASSUME ServerInv, NEW f \in Flows,
         StartFlow(f) \/ TakePacket(f) \/ DataThread(f) \/ CloseFlow(f)
  PROVE  ClientStep
<1> USE DEF ClientStep, tableVars, ServerInv, ServerTypes, serverVars
<1>1. CASE StartFlow(f) \/ TakePacket(f) \/ CloseFlow(f)
  BY <1>1 DEF StartFlow, TakePacket, CloseFlow
<1>2. CASE DataThread(f)
  BY <1>2 DEF DataThread, CountPacket, FlushStarts, WriteBuffer, SendBuffer, ServerElse
<1> QED
  BY <1>1, <1>2

LEMMA ServerInitially == Init => ServerInv
<1> SUFFICES ASSUME LogServerInit PROVE ServerInv
  BY DEF Init
<1> USE DEF LogServerInit, FreeSlot
<1>1. ServerTypes
  BY DEF ServerTypes
<1>2. RequestsNamed
  BY DEF RequestsNamed
<1>3. FreeUnnamed
  BY DEF FreeUnnamed
<1>4. ServerUsersCounted
  <2>1. \A i : ServerUsers(i) = {}
    BY DEF ServerUsers
  <2> QED
    BY <2>1 DEF ServerUsersCounted
<1> QED
  BY <1>1, <1>2, <1>3, <1>4 DEF ServerInv

LEMMA ServerStep == ServerInv /\ [Next]_vars => ServerInv'
<1> SUFFICES ASSUME ServerInv, [Next]_vars PROVE ServerInv'
  OBVIOUS
<1>1. ASSUME NEW c \in Clients, Connects(c) PROVE ServerInv'
  BY <1>1, AcceptLogKeeps DEF Connects
<1>2. ASSUME NEW c \in Clients, Manages(c) PROVE ServerInv'
  BY <1>2, RequestKeeps, ReadingKeeps, AllowLogFileKeeps, CloseServerFileKeeps
     DEF Manages, ChannelManager
<1>3. ASSUME NEW c \in Clients, DatagramLost(c) PROVE ServerInv'
  BY <1>3, ReadingKeeps DEF DatagramLost
<1>4. CASE StartGlobalLog
  <2>1. ClientStep
    BY <1>4 DEF StartGlobalLog, AskForLog, ConnectData, SetConn, ClientStep, tableVars,
                ServerInv, ServerTypes
  <2> QED
    BY <2>1, ClientStepKeeps
<1>5. ASSUME NEW s \in Sessions, SessionSteps(s) PROVE ServerInv'
  BY <1>5, SessionIsClient, ClientStepKeeps
<1>6. ASSUME NEW f \in Flows, StartFlow(f) \/ TakePacket(f) \/ DataThread(f) \/ CloseFlow(f)
      PROVE  ServerInv'
  BY <1>6, FlowIsClient, ClientStepKeeps
<1>7. CASE Done \/ UNCHANGED vars
  <2>1. ClientStep
    BY <1>7 DEF Done, vars, serverVars, ClientStep, tableVars, ServerInv, ServerTypes
  <2> QED
    BY <2>1, ClientStepKeeps
<1> QED
  BY <1>1, <1>2, <1>3, <1>4, <1>5, <1>6, <1>7 DEF Next

\* allowedLogFile and closeFileLog of ITGLog: however many clients ask at once, an
\* entry counts the channel managers that write to its file, no two entries have
\* the same file, and a freed entry is one that nobody uses.
THEOREM ServerUsersKept == Spec => []ServerUsersCounted
<1>1. ServerInv => ServerUsersCounted
  BY DEF ServerInv
<1> QED
  BY ServerInitially, ServerStep, <1>1, PTL DEF Spec

(***************************************************************************)
(* ITGRecv                                                                 *)
(***************************************************************************)

Asking == {"opening", "naming", "connecting"}
Using  == {"ready", "closing", "flushed", "released"}

\* What the entries of its memLogFile[] depend on.
fileVars == <<scenario, logCheck, memLogFile, session, descriptor>>
Entries  == [name : LocalNames \cup {NoLog}, num : Int, stream : {"closed", "open", "failed"}]
FileTypes ==
  /\ scenario \in Scenarios
  /\ memLogFile \in [TableSlot -> Entries]
  /\ session \in [Sessions -> {"none", "opening", "naming", "connecting", "ready", "closing",
                               "flushed", "released", "leaving", "ended"}]
  /\ descriptor \in [Sessions -> 0 .. TableSlots]

\* One session asks at a time, and has no entry before it has opened the file.
OneAsks ==
  /\ \A s, t \in Sessions : session[s] \in Asking /\ session[t] \in Asking => s = t
  /\ \A s \in Sessions : session[s] \in {"none", "opening", "connecting"} => descriptor[s] = 0

\* The entry that a session has opened and not yet named is open and otherwise free.
NamingFree ==
  \A s \in Sessions : session[s] = "naming" =>
    /\ descriptor[s] \in TableSlot
    /\ memLogFile[descriptor[s]].num = -1
    /\ memLogFile[descriptor[s]].stream = "open"

\* Who uses an entry closes it; no entry has lost its stream; free ones have no name.
EntriesSound ==
  /\ \A s \in Sessions : session[s] \in Using /\ descriptor[s] # 0 => logCheck = 2
  /\ \A i \in TableSlot : /\ memLogFile[i].stream # "failed"
                          /\ memLogFile[i].num = -1 => memLogFile[i].name = NoLog

FileInv == OneAtATime /\ FileTypes /\ OneAsks /\ NamingFree /\ EntriesSound /\ LogUsersCounted

LEMMA LogUsersFinite == \A i : IsFiniteSet(Users(i))
<1> TAKE i
<1>1. Users(i) \subseteq Clients
  BY RecvLogsAssumption DEF Users
<1> QED
  BY <1>1, LogServerAssumption, FS_Subset

LEMMA FilesKept == FileInv /\ UNCHANGED fileVars => FileInv'
<1> SUFFICES ASSUME FileInv, UNCHANGED fileVars PROVE FileInv'
  OBVIOUS
<1> USE DEF FileInv, fileVars
<1>1. FileTypes' /\ OneAsks' /\ NamingFree' /\ EntriesSound'
  BY DEF FileTypes, OneAsks, NamingFree, EntriesSound
<1>2. LogUsersCounted'
  <2>1. \A i : Users(i)' = Users(i)
    BY DEF Users
  <2> QED
    BY <2>1 DEF LogUsersCounted
<1> QED
  BY <1>1, <1>2

\* A session goes on without a change to the table: it stays a user or none, or it
\* has no entry.
LEMMA SessionMoves ==
  ASSUME FileInv, NEW s \in Sessions,
         NEW pc \in {"opening", "connecting", "ready", "closing", "flushed", "released",
                     "leaving", "ended"},
         session' = [session EXCEPT ![s] = pc],
         UNCHANGED <<scenario, logCheck, memLogFile, descriptor>>,
         session[s] # "naming",
         descriptor[s] = 0 \/ (session[s] \in Using <=> pc \in Using),
         pc \in Asking => descriptor[s] = 0 /\ \A t \in Sessions : session[t] \notin Asking
  PROVE  FileInv'
<1> USE DEF FileInv
<1>1. FileTypes'
  BY DEF FileTypes
<1>2. \A t \in Sessions : session'[t] = IF t = s THEN pc ELSE session[t]
  BY DEF FileTypes
<1>3. OneAsks'
  BY <1>2 DEF OneAsks, Asking
<1>4. NamingFree'
  BY <1>2 DEF NamingFree
<1>5. EntriesSound'
  BY <1>2 DEF EntriesSound
<1>6. LogUsersCounted'
  <2>1. \A i \in TableSlot : Users(i)' = Users(i)
    BY <1>2 DEF Users, Using, TableSlot
  <2>2. \A t \in Sessions : session[t] = "naming" => session'[t] = "naming"
    BY <1>2
  <2> QED
    BY <2>1, <2>2 DEF LogUsersCounted
<1> QED
  BY <1>1, <1>3, <1>4, <1>5, <1>6

\* What LogUsersCounted says of one entry.
EntryRight(i) ==
  /\ memLogFile[i].num = IF Users(i) = {} THEN -1 ELSE Cardinality(Users(i))
  /\ Users(i) # {} => memLogFile[i].stream = "open"
  /\ memLogFile[i].stream = "open" =>
       Users(i) # {} \/ \E s \in Sessions : session[s] = "naming" /\ descriptor[s] = i

LEMMA EntriesRight == LogUsersCounted <=> \A i \in TableSlot : EntryRight(i)
  BY DEF LogUsersCounted, EntryRight

\* A session becomes a user of entry i.
LEMMA LogUserArrives ==
  ASSUME FileInv, NEW s \in Sessions, NEW i \in TableSlot, NEW entry \in Entries,
         session[s] \in {"opening", "naming"},
         session[s] = "naming" => descriptor[s] = i,
         session' = [session EXCEPT ![s] = "ready"],
         descriptor' = [descriptor EXCEPT ![s] = i],
         memLogFile' = [memLogFile EXCEPT ![i] = entry],
         entry.num = Cardinality(Users(i)) + 1, entry.stream = "open", logCheck' = 2,
         UNCHANGED scenario
  PROVE  FileInv'
<1> USE DEF FileInv
<1>1. FileTypes'
  BY DEF FileTypes, TableSlot
<1>2. \A t \in Sessions : /\ session'[t] = IF t = s THEN "ready" ELSE session[t]
                          /\ descriptor'[t] = IF t = s THEN i ELSE descriptor[t]
  BY DEF FileTypes
<1>3. \A j \in TableSlot : memLogFile'[j] = IF j = i THEN entry ELSE memLogFile[j]
  BY DEF FileTypes
<1>4. /\ s \notin Users(i) /\ Users(i)' = Users(i) \cup {s}
      /\ \A j \in TableSlot \ {i} : Users(j)' = Users(j)
  BY <1>2 DEF Users, OneAsks, TableSlot
<1>5. Cardinality(Users(i)') = entry.num /\ Cardinality(Users(i)) \in Nat
  BY <1>4, LogUsersFinite, CountGrows
<1>6. OneAsks'
  BY <1>2 DEF OneAsks, Asking
<1>7. \A t \in Sessions : session'[t] # "naming"
  BY <1>2 DEF OneAsks, Asking
<1>8. NamingFree'
  BY <1>7 DEF NamingFree
<1>9. EntriesSound'
  <2>1. \A j \in TableSlot : /\ memLogFile'[j].stream # "failed"
                             /\ memLogFile'[j].num = -1 => memLogFile'[j].name = NoLog
    BY <1>3, <1>5 DEF EntriesSound
  <2> QED
    BY <2>1 DEF EntriesSound
<1>10. LogUsersCounted'
  <2> SUFFICES ASSUME NEW j \in TableSlot PROVE EntryRight(j)'
    BY DEF LogUsersCounted, EntryRight
  <2>1. CASE j = i
    <3>1. Users(i)' # {} /\ memLogFile'[i] = entry
      BY <1>3, <1>4
    <3> QED
      BY <2>1, <3>1, <1>5 DEF EntryRight
  <2>2. CASE j # i
    <3>1. memLogFile'[j] = memLogFile[j] /\ Users(j)' = Users(j)
      BY <1>3, <1>4, <2>2
    <3>2. \A t \in Sessions : session[t] = "naming" => descriptor[t] # j
      BY <2>2 DEF OneAsks, Asking
    <3>3. EntryRight(j)
      BY EntriesRight
    <3> QED
      BY <3>1, <3>2, <3>3 DEF EntryRight
  <2> QED
    BY <2>1, <2>2
<1> QED
  BY <1>1, <1>6, <1>8, <1>9, <1>10

LEMMA GrantsKeep ==
  ASSUME FileInv, NEW s \in Sessions, ShareLog(s) \/ NameLog(s) PROVE FileInv'
<1> USE DEF Granted, SetSession
<1>1. CASE ShareLog(s)
  <2>1. PICK i \in TableSlot :
          /\ memLogFile[i].name = FileName[s]
          /\ memLogFile' = [memLogFile EXCEPT ![i].num = @ + 1]
          /\ Granted(s, i)
    BY <1>1 DEF ShareLog, Matching
  <2>2. memLogFile[i] \in Entries /\ memLogFile[i].name # NoLog
    BY <2>1, RecvLogsAssumption DEF FileInv, FileTypes
  <2>3. EntryRight(i)
    BY EntriesRight DEF FileInv
  <2>4. Users(i) # {} /\ memLogFile[i].num = Cardinality(Users(i))
    BY <2>2, <2>3 DEF EntryRight, FileInv, EntriesSound
  <2> DEFINE entry == [name |-> memLogFile[i].name, num |-> memLogFile[i].num + 1,
                       stream |-> memLogFile[i].stream]
  <2>5. memLogFile' = [memLogFile EXCEPT ![i] = entry]
    <3>1. entry = [memLogFile[i] EXCEPT !.num = @ + 1]
      BY <2>2 DEF Entries
    <3> QED
      BY <2>1, <3>1 DEF FileInv, FileTypes
  <2>6. /\ entry \in Entries /\ entry.num = Cardinality(Users(i)) + 1
        /\ entry.stream = "open"
    BY <2>2, <2>3, <2>4 DEF Entries, EntryRight
  <2>7. /\ session[s] = "opening" /\ session' = [session EXCEPT ![s] = "ready"]
        /\ descriptor' = [descriptor EXCEPT ![s] = i] /\ logCheck' = 2 /\ UNCHANGED scenario
    BY <1>1, <2>1 DEF ShareLog
  <2> HIDE DEF entry
  <2> QED
    BY <2>5, <2>6, <2>7, LogUserArrives
<1>2. CASE NameLog(s)
  <2> DEFINE i == descriptor[s]
             entry == [name |-> FileName[s], num |-> 1, stream |-> "open"]
  <2>1. /\ i \in TableSlot /\ memLogFile[i] \in Entries
        /\ memLogFile[i].num = -1 /\ memLogFile[i].stream = "open"
    BY <1>2 DEF NameLog, FileInv, NamingFree, FileTypes
  <2>2. Users(i) = {}
    <3>1. EntryRight(i)
      BY <2>1, EntriesRight DEF FileInv
    <3> QED
      BY <2>1, <3>1, LogUsersFinite, FS_CardinalityType DEF EntryRight
  <2>3. memLogFile' = [memLogFile EXCEPT ![i] = entry]
    <3>1. memLogFile' = [memLogFile EXCEPT ![i] = [name |-> FileName[s], num |-> 1,
                                                   stream |-> memLogFile[i].stream]]
      BY <1>2, <2>1 DEF NameLog, FileInv, FileTypes
    <3> QED
      BY <2>1, <3>1
  <2>4. /\ entry \in Entries /\ entry.num = Cardinality(Users(i)) + 1
        /\ entry.stream = "open"
    BY <2>2, FS_EmptySet DEF Entries, LocalNames
  <2>5. /\ session[s] = "naming" /\ session' = [session EXCEPT ![s] = "ready"]
        /\ descriptor' = [descriptor EXCEPT ![s] = i] /\ logCheck' = 2 /\ UNCHANGED scenario
    BY <1>2 DEF NameLog
  <2>6. \E j \in TableSlot : j = i
    BY <2>1
  <2> HIDE DEF entry
  <2> QED
    BY <2>1, <2>3, <2>4, <2>5, LogUserArrives
<1> QED
  BY <1>1, <1>2

LEMMA OpenLogKeeps ==
  ASSUME FileInv, NEW s \in Sessions, OpenLog(s) PROVE FileInv'
<1> USE DEF FileInv
<1>1. PICK i \in TableSlot :
        /\ memLogFile[i].num = -1
        /\ memLogFile' = [memLogFile EXCEPT ![i].stream = IF @ = "closed" THEN "open" ELSE "failed"]
        /\ descriptor' = [descriptor EXCEPT ![s] = i]
  <2> DEFINE free == {i \in TableSlot : memLogFile[i].num = -1}
  <2>1. PICK k \in free : k = CHOOSE j \in free : \A l \in free : j <= l
    <3>1. free # {}
      BY DEF OpenLog
    <3>2. \E j \in free : \A l \in free : j <= l
      <4> DEFINE Less == {ss \in Nat \X Nat : ss[1] < ss[2]}
      <4>1. IsWellFoundedOn(Less, Nat)
        BY NatLessThanWellFounded DEF OpToRel
      <4>2. free \subseteq Nat
        BY DEF TableSlot
      <4>3. PICK j \in free : \A l \in free : <<l, j>> \notin Less
        BY <3>1, <4>1, <4>2, WFMin, Zenon
      <4>4. \A l \in free : ~(l < j)
        BY <4>2, <4>3
      <4>5. \A l \in free : j <= l
        BY <4>2, <4>4
      <4> QED
        BY <4>5
    <3> QED
      BY <3>2
  <2> QED
    BY <2>1 DEF OpenLog
<1>2. session[s] = "opening" /\ session' = [session EXCEPT ![s] = "naming"]
  BY DEF OpenLog, SetSession
<1>3. UNCHANGED <<scenario, logCheck>>
  BY DEF OpenLog
<1>4. \A t \in Sessions : /\ session'[t] = IF t = s THEN "naming" ELSE session[t]
                          /\ descriptor'[t] = IF t = s THEN i ELSE descriptor[t]
  BY <1>1, <1>2 DEF FileTypes
<1>5. memLogFile[i] \in Entries /\ Users(i) = {} /\ memLogFile[i].stream = "closed"
  <2>1. EntryRight(i) /\ memLogFile[i] \in Entries
    BY EntriesRight DEF FileTypes
  <2>2. Users(i) = {}
    BY <1>1, <2>1, LogUsersFinite, FS_CardinalityType DEF EntryRight
  <2>3. \A t \in Sessions : session[t] # "naming"
    BY <1>2 DEF OneAsks, Asking
  <2> QED
    BY <2>1, <2>2, <2>3 DEF EntryRight, EntriesSound, Entries
<1> DEFINE entry == [name |-> memLogFile[i].name, num |-> -1, stream |-> "open"]
<1>6. memLogFile' = [memLogFile EXCEPT ![i] = entry] /\ entry \in Entries
  <2>1. entry = [memLogFile[i] EXCEPT !.stream = IF @ = "closed" THEN "open" ELSE "failed"]
    BY <1>1, <1>5 DEF Entries
  <2>2. entry \in Entries
    BY <1>5 DEF Entries
  <2> QED
    BY <1>1, <2>1, <2>2 DEF FileTypes
<1>7. \A j \in TableSlot : memLogFile'[j] = IF j = i THEN entry ELSE memLogFile[j]
  BY <1>6 DEF FileTypes
<1> HIDE DEF entry
<1>8. FileTypes'
  <2>1. memLogFile' \in [TableSlot -> Entries]
    BY <1>6, <1>7 DEF FileTypes
  <2>2. descriptor' \in [Sessions -> 0 .. TableSlots]
    BY <1>1 DEF FileTypes, TableSlot
  <2>3. /\ scenario' \in Scenarios
        /\ session' \in [Sessions -> {"none", "opening", "naming", "connecting", "ready",
                                      "closing", "flushed", "released", "leaving", "ended"}]
    BY <1>2, <1>3 DEF FileTypes
  <2>4. Entries' = Entries
    BY DEF Entries, LocalNames
  <2> QED
    BY <2>1, <2>2, <2>3, <2>4 DEF FileTypes
<1>9. OneAsks'
  BY <1>2, <1>4 DEF OneAsks, Asking
<1>10. NamingFree'
  BY <1>2, <1>4, <1>7 DEF NamingFree, OneAsks, Asking, entry
<1>11. EntriesSound'
  BY <1>1, <1>3, <1>4, <1>7 DEF EntriesSound, Using, entry
<1>12. LogUsersCounted'
  <2> SUFFICES ASSUME NEW j \in TableSlot PROVE EntryRight(j)'
    BY DEF LogUsersCounted, EntryRight
  <2>1. Users(j)' = Users(j)
    BY <1>2, <1>4 DEF Users
  <2>2. EntryRight(j)
    BY EntriesRight
  <2>3. CASE j = i
    BY <1>4, <1>5, <1>7, <2>1, <2>3 DEF EntryRight, entry
  <2>4. CASE j # i
    <3>1. \A t \in Sessions : session[t] # "naming"
      BY <1>2 DEF OneAsks, Asking
    <3> QED
      BY <1>4, <1>7, <2>1, <2>2, <2>4, <3>1 DEF EntryRight
  <2> QED
    BY <2>3, <2>4
<1> QED
  BY <1>8, <1>9, <1>10, <1>11, <1>12

LEMMA CloseFileLogKeeps ==
  ASSUME FileInv, NEW s \in Sessions, CloseFileLog(s) PROVE FileInv'
<1> DEFINE i == descriptor[s]
<1>1. /\ session[s] = "released" /\ session' = [session EXCEPT ![s] = "leaving"]
      /\ UNCHANGED <<scenario, logCheck, descriptor>>
  BY DEF CloseFileLog, SetSession
<1>2. CASE i = 0
  <2>1. UNCHANGED memLogFile
    BY <1>2 DEF CloseFileLog
  <2>2. "leaving" \notin Asking /\ "leaving" \notin Using
    BY DEF Asking, Using
  <2> QED
    BY <1>1, <1>2, <2>1, <2>2, SessionMoves
<1>3. CASE i # 0
  <2> USE DEF FileInv
  <2> DEFINE entry == IF memLogFile[i].num = 1 THEN FreeEntry
                      ELSE [name |-> memLogFile[i].name, num |-> memLogFile[i].num - 1,
                            stream |-> memLogFile[i].stream]
  <2>1. /\ i \in TableSlot /\ memLogFile[i] \in Entries
        /\ memLogFile' = [memLogFile EXCEPT ![i] = entry]
    <3>1. i \in TableSlot /\ logCheck = 2
      BY <1>1, <1>3, RecvLogsAssumption DEF FileTypes, TableSlot, EntriesSound, Using
    <3> QED
      BY <3>1, <1>3 DEF FileTypes, CloseFileLog
  <2>2. \A t \in Sessions : session'[t] = IF t = s THEN "leaving" ELSE session[t]
    BY <1>1 DEF FileTypes
  <2>3. /\ s \in Users(i) /\ Users(i)' = Users(i) \ {s}
        /\ \A j \in TableSlot \ {i} : Users(j)' = Users(j)
    BY <1>1, <2>2 DEF Users
  <2>4. EntryRight(i)
    BY <2>1, EntriesRight
  <2>5. /\ memLogFile[i].num = Cardinality(Users(i)) /\ memLogFile[i].stream = "open"
        /\ Cardinality(Users(i)) \in Nat /\ Cardinality(Users(i)) > 0
        /\ Cardinality(Users(i)') = memLogFile[i].num - 1
        /\ (Users(i)' = {}) <=> (memLogFile[i].num = 1)
    BY <2>3, <2>4, LogUsersFinite, CountShrinks DEF EntryRight
  <2>6. /\ entry \in Entries /\ entry.num = IF Users(i)' = {} THEN -1 ELSE Cardinality(Users(i)')
        /\ entry.stream = IF Users(i)' = {} THEN "closed" ELSE "open"
        /\ entry.num = -1 => entry.name = NoLog
    BY <2>1, <2>5 DEF Entries, FreeEntry
  <2> HIDE DEF entry
  <2>7. \A j \in TableSlot : memLogFile'[j] = IF j = i THEN entry ELSE memLogFile[j]
    BY <2>1 DEF FileTypes
  <2>8. \A t \in Sessions : session[t] = "naming" => descriptor[t] # i
    BY <2>5 DEF NamingFree
  <2>9. FileTypes'
    <3>1. Entries' = Entries
      BY DEF Entries, LocalNames
    <3>2. memLogFile' \in [TableSlot -> Entries]
      BY <2>1, <2>6 DEF FileTypes
    <3> QED
      BY <1>1, <3>1, <3>2 DEF FileTypes
  <2>10. OneAsks'
    BY <1>1, <2>2 DEF OneAsks, Asking
  <2>11. NamingFree'
    BY <1>1, <2>2, <2>7, <2>8 DEF NamingFree
  <2>12. EntriesSound'
    <3>1. \A j \in TableSlot : /\ memLogFile'[j].stream # "failed"
                               /\ memLogFile'[j].num = -1 => memLogFile'[j].name = NoLog
      BY <2>6, <2>7 DEF EntriesSound
    <3> QED
      BY <1>1, <2>2, <3>1 DEF EntriesSound, Using
  <2>13. LogUsersCounted'
    <3> SUFFICES ASSUME NEW j \in TableSlot PROVE EntryRight(j)'
      BY DEF LogUsersCounted, EntryRight
    <3>1. CASE j = i
      <4>1. /\ entry.num = IF Users(j)' = {} THEN -1 ELSE Cardinality(Users(j)')
            /\ entry.stream = IF Users(j)' = {} THEN "closed" ELSE "open"
        BY <1>1, <2>6, <3>1
      <4>2. memLogFile'[j] = entry
        BY <2>7, <3>1
      <4> QED
        BY <4>1, <4>2 DEF EntryRight
    <3>2. CASE j # i
      <4>1. memLogFile'[j] = memLogFile[j] /\ Users(j)' = Users(j)
        BY <2>3, <2>7, <3>2
      <4>2. EntryRight(j)
        BY EntriesRight
      <4>3. \A t \in Sessions : session[t] = "naming" => session'[t] = "naming"
        BY <1>1, <2>2
      <4> QED
        BY <1>1, <4>1, <4>2, <4>3 DEF EntryRight
    <3> QED
      BY <3>1, <3>2
  <2> QED
    BY <2>9, <2>10, <2>11, <2>12, <2>13
<1> QED
  BY <1>2, <1>3

\* The other steps of a session.
LEMMA SessionKeeps ==
  ASSUME FileInv, NEW s \in Sessions, SessionSteps(s) PROVE FileInv'
<1>1. CASE ShareLog(s) \/ NameLog(s) \/ OpenLog(s) \/ CloseFileLog(s)
  BY <1>1, GrantsKeep, OpenLogKeeps, CloseFileLogKeeps
<1>2. CASE SessionStarts(s)
  <2>1. PICK pc \in {"ready", "opening", "connecting"} : session' = [session EXCEPT ![s] = pc]
    <3>1. Wants(s) \in {"none", "local", "remote"}
      BY RecvLogsAssumption DEF FileInv, FileTypes, Wants
    <3> QED
      BY <1>2, <3>1 DEF SessionStarts, SetSession
  <2>2. /\ session[s] = "none" /\ \A t \in Sessions : session[t] \notin Asking
        /\ UNCHANGED <<scenario, logCheck, memLogFile, descriptor>>
    BY <1>2 DEF SessionStarts, FileInv, Asking
  <2>3. descriptor[s] = 0
    BY <2>2 DEF FileInv, OneAsks
  <2> QED
    BY <2>1, <2>2, <2>3, SessionMoves
<1>3. CASE AskRemoteLog(s)
  BY <1>3, FilesKept DEF AskRemoteLog, recvLogVars, sessionVars, fileVars
<1>4. CASE OpenRemoteLog(s)
  <2>1. /\ session[s] = "connecting" /\ session' = [session EXCEPT ![s] = "ready"]
        /\ UNCHANGED <<scenario, logCheck, memLogFile, descriptor>>
    BY <1>4 DEF OpenRemoteLog, SetSession
  <2>2. descriptor[s] = 0 /\ "ready" \notin Asking
    BY <2>1 DEF FileInv, OneAsks, Asking
  <2> QED
    BY <2>1, <2>2, SessionMoves
<1>5. CASE SessionWrites(s) \/ SessionSends(s) \/ SessionLogsNothing(s)
  <2>1. /\ session[s] = "closing" /\ session' = [session EXCEPT ![s] = "flushed"]
        /\ UNCHANGED <<scenario, logCheck, memLogFile, descriptor>>
    BY <1>5 DEF SessionWrites, SessionSends, SessionLogsNothing, SetSession
  <2> QED
    BY <2>1, SessionMoves DEF Using, Asking
<1>6. CASE CancelThread(s)
  <2>1. /\ session[s] = "flushed" /\ session' = [session EXCEPT ![s] = "ready"]
        /\ UNCHANGED <<scenario, logCheck, memLogFile, descriptor>>
    BY <1>6 DEF CancelThread, SetSession
  <2> QED
    BY <2>1, SessionMoves DEF Using, Asking
<1>7. CASE Release(s)
  <2>1. /\ session[s] = "ready" /\ session' = [session EXCEPT ![s] = "released"]
        /\ UNCHANGED <<scenario, logCheck, memLogFile, descriptor>>
    BY <1>7 DEF Release, SetSession
  <2> QED
    BY <2>1, SessionMoves DEF Using, Asking
<1>8. CASE CloseRemoteLog(s)
  <2>1. /\ session[s] = "leaving" /\ session' = [session EXCEPT ![s] = "ended"]
        /\ UNCHANGED <<scenario, logCheck, memLogFile, descriptor>>
    BY <1>8 DEF CloseRemoteLog, SetSession
  <2> QED
    BY <2>1, SessionMoves DEF Using, Asking
<1> QED
  BY <1>1, <1>2, <1>3, <1>4, <1>5, <1>6, <1>7, <1>8 DEF SessionSteps

LEMMA FlowKeeps ==
  ASSUME FileInv, NEW f \in Flows,
         StartFlow(f) \/ TakePacket(f) \/ DataThread(f) \/ CloseFlow(f)
  PROVE  FileInv'
<1>1. CASE StartFlow(f) \/ TakePacket(f) \/ DataThread(f)
  <2>1. UNCHANGED fileVars
    BY <1>1 DEF StartFlow, TakePacket, DataThread, CountPacket, FlushStarts, WriteBuffer,
                SendBuffer, sessionVars, fileVars
  <2> QED
    BY <2>1, FilesKept
<1>2. CASE CloseFlow(f)
  <2>1. /\ session[Home[f]] = "ready" /\ session' = [session EXCEPT ![Home[f]] = "closing"]
        /\ UNCHANGED <<scenario, logCheck, memLogFile, descriptor>>
    BY <1>2 DEF CloseFlow, SetSession
  <2>2. PICK s \in Sessions : s = Home[f]
    BY RecvLogsAssumption
  <2> QED
    BY <2>1, <2>2, SessionMoves DEF Using, Asking
<1> QED
  BY <1>1, <1>2

LEMMA FilesInitially == OneAtATime /\ Init => FileInv
<1> SUFFICES ASSUME OneAtATime, RecvLogsInit PROVE FileInv
  BY DEF Init
<1> USE DEF RecvLogsInit, FreeEntry
<1>1. FileTypes
  BY RecvLogsAssumption DEF FileTypes, Entries
<1>2. OneAsks /\ NamingFree
  BY DEF OneAsks, NamingFree, Asking
<1>3. EntriesSound
  BY DEF EntriesSound
<1>4. LogUsersCounted
  <2>1. \A i \in TableSlot : Users(i) = {}
    BY DEF Users, TableSlot
  <2> QED
    BY <2>1 DEF LogUsersCounted
<1> QED
  BY <1>1, <1>2, <1>3, <1>4 DEF FileInv

LEMMA FilesStep == FileInv /\ [Next]_vars => FileInv'
<1> SUFFICES ASSUME FileInv, [Next]_vars PROVE FileInv'
  OBVIOUS
<1>1. CASE \/ \E c \in Clients : Connects(c) \/ Manages(c) \/ DatagramLost(c)
           \/ StartGlobalLog \/ Done \/ UNCHANGED vars
  <2>1. UNCHANGED fileVars
    BY <1>1 DEF Connects, Manages, DatagramLost, StartGlobalLog, Done, vars, recvLogVars,
                sessionVars, fileVars
  <2> QED
    BY <2>1, FilesKept
<1>2. ASSUME NEW s \in Sessions, SessionSteps(s) PROVE FileInv'
  BY <1>2, SessionKeeps
<1>3. ASSUME NEW f \in Flows, StartFlow(f) \/ TakePacket(f) \/ DataThread(f) \/ CloseFlow(f)
      PROVE  FileInv'
  BY <1>3, FlowKeeps
<1> QED
  BY <1>1, <1>2, <1>3 DEF Next

\* allowedLogFile and closeFileLog of ITGRecv: if senders ask for their logs one after
\* another, an entry counts the sessions that log to its file and the stream is open
\* for just as long, whatever else the sessions and their data threads do.
THEOREM LogUsersKept == OneAtATime /\ Spec => []LogUsersCounted
<1>1. FileInv => LogUsersCounted
  BY DEF FileInv
<1> QED
  BY FilesInitially, FilesStep, <1>1, PTL DEF Spec

(***************************************************************************)
(* Modes, sessions and data threads                                        *)
(***************************************************************************)

Running == {"receiving", "recorded", "full", "writing", "sending"}
Served  == {"ready", "closing", "flushed"}

\* What the sessions and data threads of ITGRecv are.
ThreadTypes ==
  /\ scenario \in Scenarios
  /\ up \in BOOLEAN
  /\ logCheck \in 0 .. 2 /\ logRemote \in 0 .. 2
  /\ session \in [Sessions -> {"none", "opening", "naming", "connecting", "ready", "closing",
                               "flushed", "released", "leaving", "ended"}]
  /\ closing \in [Sessions -> Flows \cup {NoOne}]
  /\ logSock \in [Sessions -> Clients \cup {NoOne}]
  /\ thread \in [Flows -> {"none", "receiving", "recorded", "full", "writing", "sending",
                           "cancelled"}]
  /\ taken \in [Flows -> 0 .. MaxPackets]
  /\ infos \in [Flows -> [Positions -> 0 .. MaxPackets]]
  /\ count \in [Flows -> Nat]
  /\ mutexLog \in Flows \cup {NoOne} /\ mutexLogRem \in Flows \cup {NoOne}

\* logCheck and logRemote say who has asked for logs.
ModesMean ==
  /\ logCheck = 1 <=> scenario.started = "-l"
  /\ logCheck = 2 => \E s \in Sessions : Wants(s) = "local"
  /\ logRemote = 1 <=> scenario.started = "-L"
  /\ logRemote = 2 => \E s \in Sessions : Wants(s) = "remote"

\* A session asks for what its sender wants, and then has a connection of its own or
\* the one of option -L.
SessionsAsk ==
  \A s \in Sessions :
    /\ session[s] \in {"opening", "naming"} => Wants(s) = "local" /\ scenario.started # "-l"
    /\ session[s] = "connecting" => Wants(s) = "remote" /\ scenario.started # "-L"
    /\ scenario.started = "-L" /\ session[s] # "none" => logSock[s] # NoOne
    /\ Wants(s) = "remote" /\ session[s] \in Using \cup {"leaving"} => logSock[s] # NoOne

\* A data thread runs while its session serves it, and the one that is being closed runs.
ThreadsServed ==
  /\ \A f \in Flows :
       /\ thread[f] \in Running => session[Home[f]] \in Served
       /\ session[Home[f]] \in Asking \cup {"none"} => thread[f] = "none"
  /\ \A s \in Sessions :
       IF session[s] \in {"closing", "flushed"}
       THEN closing[s] \in Flows /\ Home[closing[s]] = s /\ thread[closing[s]] \in Running
       ELSE closing[s] = NoOne

\* A thread that has recorded a packet logs; one that sends has no local log.
ThreadsLog ==
  \A f \in Flows :
    /\ thread[f] \in {"recorded", "full"} => Logging
    /\ thread[f] = "writing" => logCheck # 0
    /\ thread[f] = "sending" => logRemote # 0

\* No more records in a buffer than packets received.
InHand(f) == count[f] + IF thread[f] = "recorded" THEN 1 ELSE 0
CountTaken ==
  \A f \in Flows : InHand(f) <= taken[f] /\ (thread[f] = "none" => taken[f] = 0)

ModeInv == ThreadTypes /\ ModesMean /\ SessionsAsk /\ ThreadsServed /\ ThreadsLog /\ CountTaken

\* All senders want a remote log or none does, unless option -L gives them one.
RemoteAlike ==
  \A sc \in Scenarios : sc.started # "-L" =>
    \A s, t \in Sessions : sc.wants[s] = "remote" => sc.wants[t] = "remote"
\* All senders want a local log or none does, unless option -l gives them one.
LocalAlike ==
  \A sc \in Scenarios : sc.started # "-l" =>
    \A s, t \in Sessions : sc.wants[s] = "local" => sc.wants[t] = "local"

\* A session has the entry and the file that its sender wants.
FilesOwn ==
  \A s \in Sessions : session[s] \in Using =>
    /\ Wants(s) = "local" /\ scenario.started # "-l" => descriptor[s] # 0
    /\ descriptor[s] # 0 => memLogFile[descriptor[s]].name = FileName[s]

\* Buffers are emptied in time.
BuffersInTime ==
  \A f \in Flows :
    /\ count[f] <= LogBufferSize
    /\ thread[f] \in {"none", "receiving", "recorded"} => count[f] < LogBufferSize

FileModeInv == FileInv /\ ModeInv /\ FilesOwn
BufferInv == FileModeInv /\ BuffersInTime

-----------------------------------------------------------------------------
(* ModeInv, action by action: how a session gets its log *)

\* What the sender wants and the mode of the receiver decide how the session goes on.
LEMMA SessionStartsMode ==
  ASSUME ModeInv, NEW s \in Sessions, SessionStarts(s) PROVE ModeInv'
<1> USE RecvLogsAssumption
        DEF ModeInv, ThreadTypes, SessionStarts, SetSession, sessionVars, threadVars
<1>0. PICK pc \in {"ready", "opening", "connecting"} :
        /\ session[s] = "none" /\ session' = [session EXCEPT ![s] = pc]
        /\ logSock' = [logSock EXCEPT ![s] = IF logRemote = 1 THEN Global ELSE @]
        /\ pc = "opening" => Wants(s) = "local" /\ logCheck # 1
        /\ pc = "connecting" => Wants(s) = "remote" /\ logRemote # 1
        /\ Wants(s) = "remote" /\ logRemote # 1 => pc = "connecting"
  <2>1. Wants(s) \in {"none", "local", "remote"}
    BY DEF Wants
  <2> QED
    BY <2>1
<1>1. ThreadTypes'
  BY <1>0
<1>2. ModesMean'
  BY DEF ModesMean, Wants
<1>3. SessionsAsk'
  BY <1>0 DEF SessionsAsk, Wants, Using, ModesMean
<1>4. ThreadsServed'
  BY <1>0 DEF ThreadsServed, Running, Served, Asking
<1>5. ThreadsLog'
  BY DEF ThreadsLog, Logging
<1>6. CountTaken'
  BY DEF CountTaken, InHand
<1> QED
  BY <1>1, <1>2, <1>3, <1>4, <1>5, <1>6

\* A session that got a local file had asked for one, which is what logCheck = 2 says.
LEMMA ShareLogMode ==
  ASSUME ModeInv, NEW s \in Sessions, ShareLog(s) PROVE ModeInv'
<1> USE RecvLogsAssumption
        DEF ModeInv, ThreadTypes, ShareLog, Granted, SetSession, sessionVars, threadVars
<1>0. /\ Wants(s) = "local" /\ scenario.started # "-l" /\ logCheck' = 2
      /\ UNCHANGED <<scenario, logRemote>>
  BY DEF SessionsAsk
<1>1. ThreadTypes'
  OBVIOUS
<1>2. ModesMean'
  <2>1. \E t \in Sessions : Wants(t)' = "local"
    BY <1>0 DEF Wants
  <2> QED
    BY <1>0, <2>1 DEF ModesMean, Wants
<1>3. SessionsAsk'
  <2>1. \A t \in Sessions : session'[t] = IF t = s THEN "ready" ELSE session[t]
    OBVIOUS
  <2>2. logSock' = logSock
    OBVIOUS
  <2> QED
    BY <1>0, <2>1, <2>2 DEF SessionsAsk, Wants, Using
<1>4. ThreadsServed'
  BY DEF ThreadsServed, Running, Served, Asking
<1>5. ThreadsLog'
  BY DEF ThreadsLog, Logging
<1>6. CountTaken'
  BY DEF CountTaken, InHand
<1> QED
  BY <1>1, <1>2, <1>3, <1>4, <1>5, <1>6

\* So does one that has opened a file and not yet named its entry.
LEMMA OpenLogMode ==
  ASSUME ModeInv, NEW s \in Sessions, OpenLog(s) PROVE ModeInv'
<1> USE RecvLogsAssumption DEF ModeInv, ThreadTypes, OpenLog, SetSession, sessionVars, threadVars
<1>1. ThreadTypes'
  OBVIOUS
<1>2. ModesMean'
  BY DEF ModesMean, Wants
<1>3. SessionsAsk'
  BY DEF SessionsAsk, Wants, Using
<1>4. ThreadsServed'
  BY DEF ThreadsServed, Running, Served, Asking
<1>5. ThreadsLog'
  BY DEF ThreadsLog, Logging
<1>6. CountTaken'
  BY DEF CountTaken, InHand
<1> QED
  BY <1>1, <1>2, <1>3, <1>4, <1>5, <1>6

\* As for ShareLog.
LEMMA NameLogMode ==
  ASSUME ModeInv, NEW s \in Sessions, NameLog(s) PROVE ModeInv'
<1> USE RecvLogsAssumption
        DEF ModeInv, ThreadTypes, NameLog, Granted, SetSession, sessionVars, threadVars
<1>0. /\ Wants(s) = "local" /\ scenario.started # "-l" /\ logCheck' = 2
      /\ UNCHANGED <<scenario, logRemote>>
  BY DEF SessionsAsk
<1>1. ThreadTypes'
  OBVIOUS
<1>2. ModesMean'
  <2>1. \E t \in Sessions : Wants(t)' = "local"
    BY <1>0 DEF Wants
  <2> QED
    BY <1>0, <2>1 DEF ModesMean, Wants
<1>3. SessionsAsk'
  <2>1. \A t \in Sessions : session'[t] = IF t = s THEN "ready" ELSE session[t]
    OBVIOUS
  <2>2. logSock' = logSock
    OBVIOUS
  <2> QED
    BY <1>0, <2>1, <2>2 DEF SessionsAsk, Wants, Using
<1>4. ThreadsServed'
  BY DEF ThreadsServed, Running, Served, Asking
<1>5. ThreadsLog'
  BY DEF ThreadsLog, Logging
<1>6. CountTaken'
  BY DEF CountTaken, InHand
<1> QED
  BY <1>1, <1>2, <1>3, <1>4, <1>5, <1>6

\* A session with a log at ITGLog had asked for one, and has a connection to it now.
LEMMA OpenRemoteLogMode ==
  ASSUME ModeInv, NEW s \in Sessions, OpenRemoteLog(s) PROVE ModeInv'
<1> USE RecvLogsAssumption
        DEF ModeInv, ThreadTypes, OpenRemoteLog, SetSession, sessionVars, threadVars
<1>0. /\ Wants(s) = "remote" /\ scenario.started # "-L" /\ logRemote' = 2
      /\ UNCHANGED <<scenario, logCheck>>
  BY DEF SessionsAsk
<1>1. ThreadTypes'
  OBVIOUS
<1>2. ModesMean'
  <2>1. \E t \in Sessions : Wants(t)' = "remote"
    BY <1>0 DEF Wants
  <2> QED
    BY <1>0, <2>1 DEF ModesMean, Wants
<1>3. SessionsAsk'
  BY DEF SessionsAsk, Wants, Using
<1>4. ThreadsServed'
  BY DEF ThreadsServed, Running, Served, Asking
<1>5. ThreadsLog'
  BY DEF ThreadsLog, Logging
<1>6. CountTaken'
  BY DEF CountTaken, InHand
<1> QED
  BY <1>1, <1>2, <1>3, <1>4, <1>5, <1>6

-----------------------------------------------------------------------------
(* How it closes a flow and ends *)

\* The session empties the buffer of a thread that runs on.
LEMMA SessionWritesMode ==
  ASSUME ModeInv, NEW s \in Sessions, SessionWrites(s) PROVE ModeInv'
<1> USE RecvLogsAssumption
        DEF ModeInv, ThreadTypes, SessionWrites, FlushBuffer, SetSession, sessionVars, threadVars
<1>1. ThreadTypes'
  OBVIOUS
<1>2. ModesMean'
  BY DEF ModesMean, Wants
<1>3. SessionsAsk'
  BY DEF SessionsAsk, Wants, Using
<1>4. ThreadsServed'
  BY DEF ThreadsServed, Running, Served, Asking
<1>5. ThreadsLog'
  BY DEF ThreadsLog, Logging
<1>6. CountTaken'
  BY DEF CountTaken, InHand
<1> QED
  BY <1>1, <1>2, <1>3, <1>4, <1>5, <1>6

\* It sends the buffer and leaves count alone.
LEMMA SessionSendsMode ==
  ASSUME ModeInv, NEW s \in Sessions, SessionSends(s) PROVE ModeInv'
<1> USE RecvLogsAssumption
        DEF ModeInv, ThreadTypes, SessionSends, SendTo, Fails, SetSession, sessionVars, threadVars
<1>1. ThreadTypes'
  OBVIOUS
<1>2. ModesMean'
  BY DEF ModesMean, Wants
<1>3. SessionsAsk'
  BY DEF SessionsAsk, Wants, Using
<1>4. ThreadsServed'
  BY DEF ThreadsServed, Running, Served, Asking
<1>5. ThreadsLog'
  BY DEF ThreadsLog, Logging
<1>6. CountTaken'
  BY DEF CountTaken, InHand
<1> QED
  BY <1>1, <1>2, <1>3, <1>4, <1>5, <1>6

\* Nothing is logged: it only waits.
LEMMA SessionLogsNothingMode ==
  ASSUME ModeInv, NEW s \in Sessions, SessionLogsNothing(s) PROVE ModeInv'
<1> USE RecvLogsAssumption
        DEF ModeInv, ThreadTypes, SessionLogsNothing, SetSession, sessionVars, threadVars
<1>1. ThreadTypes'
  OBVIOUS
<1>2. ModesMean'
  BY DEF ModesMean, Wants
<1>3. SessionsAsk'
  BY DEF SessionsAsk, Wants, Using
<1>4. ThreadsServed'
  BY DEF ThreadsServed, Running, Served, Asking
<1>5. ThreadsLog'
  BY DEF ThreadsLog, Logging
<1>6. CountTaken'
  BY DEF CountTaken, InHand
<1> QED
  BY <1>1, <1>2, <1>3, <1>4, <1>5, <1>6

\* The thread that was being closed is gone, and the session closes none.
LEMMA CancelThreadMode ==
  ASSUME ModeInv, NEW s \in Sessions, CancelThread(s) PROVE ModeInv'
<1> USE RecvLogsAssumption
        DEF ModeInv, ThreadTypes, CancelThread, SetSession, SetThread, sessionVars, threadVars
<1>1. ThreadTypes'
  OBVIOUS
<1>2. ModesMean'
  BY DEF ModesMean, Wants
<1>3. SessionsAsk'
  BY DEF SessionsAsk, Wants, Using
<1>4. ThreadsServed'
  BY DEF ThreadsServed, Running, Served, Asking
<1>5. ThreadsLog'
  BY DEF ThreadsLog, Logging
<1>6. CountTaken'
  BY DEF CountTaken, InHand
<1> QED
  BY <1>1, <1>2, <1>3, <1>4, <1>5, <1>6

\* A session that is released has no data thread any more.
LEMMA ReleaseMode ==
  ASSUME ModeInv, NEW s \in Sessions, Release(s) PROVE ModeInv'
<1> USE RecvLogsAssumption DEF ModeInv, ThreadTypes, Release, SetSession, sessionVars, threadVars
<1>1. ThreadTypes'
  OBVIOUS
<1>2. ModesMean'
  BY DEF ModesMean, Wants
<1>3. SessionsAsk'
  BY DEF SessionsAsk, Wants, Using
<1>4. ThreadsServed'
  BY DEF ThreadsServed, Running, Served, Asking
<1>5. ThreadsLog'
  BY DEF ThreadsLog, Logging
<1>6. CountTaken'
  BY DEF CountTaken, InHand
<1> QED
  BY <1>1, <1>2, <1>3, <1>4, <1>5, <1>6

\* The modes stay as they are when files are given back.
LEMMA CloseFileLogMode ==
  ASSUME ModeInv, NEW s \in Sessions, CloseFileLog(s) PROVE ModeInv'
<1> USE RecvLogsAssumption
        DEF ModeInv, ThreadTypes, CloseFileLog, SetSession, sessionVars, threadVars
<1>1. ThreadTypes'
  OBVIOUS
<1>2. ModesMean'
  BY DEF ModesMean, Wants
<1>3. SessionsAsk'
  BY DEF SessionsAsk, Wants, Using
<1>4. ThreadsServed'
  BY DEF ThreadsServed, Running, Served, Asking
<1>5. ThreadsLog'
  BY DEF ThreadsLog, Logging
<1>6. CountTaken'
  BY DEF CountTaken, InHand
<1> QED
  BY <1>1, <1>2, <1>3, <1>4, <1>5, <1>6

\* Its connection to ITGLog remains known when it is closed.
LEMMA CloseRemoteLogMode ==
  ASSUME ModeInv, NEW s \in Sessions, CloseRemoteLog(s) PROVE ModeInv'
<1> USE RecvLogsAssumption
        DEF ModeInv, ThreadTypes, CloseRemoteLog, SetSession, Fails, sessionVars, threadVars
<1>1. ThreadTypes'
  OBVIOUS
<1>2. ModesMean'
  BY DEF ModesMean, Wants
<1>3. SessionsAsk'
  BY DEF SessionsAsk, Wants, Using
<1>4. ThreadsServed'
  BY DEF ThreadsServed, Running, Served, Asking
<1>5. ThreadsLog'
  BY DEF ThreadsLog, Logging
<1>6. CountTaken'
  BY DEF CountTaken, InHand
<1> QED
  BY <1>1, <1>2, <1>3, <1>4, <1>5, <1>6

-----------------------------------------------------------------------------
(* What the data threads do *)

\* A thread is started by a session that is ready, so the session serves it.
LEMMA StartFlowMode ==
  ASSUME ModeInv, NEW f \in Flows, StartFlow(f) PROVE ModeInv'
<1> USE RecvLogsAssumption DEF ModeInv, ThreadTypes, StartFlow, SetThread, sessionVars, threadVars
<1>1. ThreadTypes'
  OBVIOUS
<1>2. ModesMean'
  BY DEF ModesMean, Wants
<1>3. SessionsAsk'
  BY DEF SessionsAsk, Wants, Using
<1>4. ThreadsServed'
  BY DEF ThreadsServed, Running, Served, Asking
<1>5. ThreadsLog'
  BY DEF ThreadsLog, Logging
<1>6. CountTaken'
  BY DEF CountTaken, InHand
<1> QED
  BY <1>1, <1>2, <1>3, <1>4, <1>5, <1>6

\* A packet is recorded only while something is logged, and one more has been received.
LEMMA TakePacketMode ==
  ASSUME ModeInv, NEW f \in Flows, TakePacket(f) PROVE ModeInv'
<1> USE RecvLogsAssumption
        DEF ModeInv, ThreadTypes, TakePacket, SetThread, sessionVars, threadVars
<1>1. ThreadTypes'
  <2>1. taken' \in [Flows -> 0 .. MaxPackets] /\ taken[f] + 1 \in 0 .. MaxPackets
    OBVIOUS
  <2>2. infos' \in [Flows -> [Positions -> 0 .. MaxPackets]]
    <3>1. [infos[f] EXCEPT ![count[f]] = taken[f] + 1] \in [Positions -> 0 .. MaxPackets]
      BY <2>1
    <3> QED
      BY <3>1
  <2> QED
    BY <2>1, <2>2
<1>2. ModesMean'
  BY DEF ModesMean, Wants
<1>3. SessionsAsk'
  BY DEF SessionsAsk, Wants, Using
<1>4. ThreadsServed'
  BY SMTT(30) DEF ThreadsServed, Running, Served, Asking
<1>5. ThreadsLog'
  BY DEF ThreadsLog, Logging
<1>6. CountTaken'
  BY DEF CountTaken, InHand
<1> QED
  BY <1>1, <1>2, <1>3, <1>4, <1>5, <1>6

\* What was recorded is counted.
LEMMA CountPacketMode ==
  ASSUME ModeInv, NEW f \in Flows, CountPacket(f) PROVE ModeInv'
<1> USE RecvLogsAssumption
        DEF ModeInv, ThreadTypes, CountPacket, SetThread, sessionVars, threadVars
<1>1. ThreadTypes'
  OBVIOUS
<1>2. ModesMean'
  BY DEF ModesMean, Wants
<1>3. SessionsAsk'
  BY DEF SessionsAsk, Wants, Using
<1>4. ThreadsServed'
  BY DEF ThreadsServed, Running, Served, Asking
<1>5. ThreadsLog'
  BY DEF ThreadsLog, Logging
<1>6. CountTaken'
  BY DEF CountTaken, InHand
<1> QED
  BY <1>1, <1>2, <1>3, <1>4, <1>5, <1>6

\* A full buffer is for the local file or, if there is none, for ITGLog.
LEMMA FlushStartsMode ==
  ASSUME ModeInv, NEW f \in Flows, FlushStarts(f) PROVE ModeInv'
<1> USE RecvLogsAssumption
        DEF ModeInv, ThreadTypes, FlushStarts, SetThread, sessionVars, threadVars
<1>1. ThreadTypes'
  OBVIOUS
<1>2. ModesMean'
  BY DEF ModesMean, Wants
<1>3. SessionsAsk'
  BY DEF SessionsAsk, Wants, Using
<1>4. ThreadsServed'
  <2>1. /\ thread[f] = "full"
        /\ \E pc \in {"writing", "sending"} : thread' = [thread EXCEPT ![f] = pc]
    OBVIOUS
  <2>2. UNCHANGED <<session, closing>>
    OBVIOUS
  <2> QED
    BY <2>1, <2>2 DEF ThreadsServed, Running, Served, Asking
<1>5. ThreadsLog'
  BY DEF ThreadsLog, Logging
<1>6. CountTaken'
  BY DEF CountTaken, InHand
<1> QED
  BY <1>1, <1>2, <1>3, <1>4, <1>5, <1>6

\* The thread empties its buffer, or leaves it alone, and receives again.
LEMMA WriteBufferMode ==
  ASSUME ModeInv, NEW f \in Flows, WriteBuffer(f) PROVE ModeInv'
<1> USE RecvLogsAssumption
        DEF ModeInv, ThreadTypes, WriteBuffer, FlushBuffer, SetThread, sessionVars, threadVars
<1>1. ThreadTypes'
  OBVIOUS
<1>2. ModesMean'
  BY DEF ModesMean, Wants
<1>3. SessionsAsk'
  BY DEF SessionsAsk, Wants, Using
<1>4. ThreadsServed'
  BY DEF ThreadsServed, Running, Served, Asking
<1>5. ThreadsLog'
  BY DEF ThreadsLog, Logging
<1>6. CountTaken'
  BY DEF CountTaken, InHand
<1> QED
  BY <1>1, <1>2, <1>3, <1>4, <1>5, <1>6

\* As for WriteBuffer.
LEMMA SendBufferMode ==
  ASSUME ModeInv, NEW f \in Flows, SendBuffer(f) PROVE ModeInv'
<1> USE RecvLogsAssumption
        DEF ModeInv, ThreadTypes, SendBuffer, SendTo, Fails, SetThread, sessionVars, threadVars
<1>1. ThreadTypes'
  OBVIOUS
<1>2. ModesMean'
  BY DEF ModesMean, Wants
<1>3. SessionsAsk'
  BY DEF SessionsAsk, Wants, Using
<1>4. ThreadsServed'
  BY DEF ThreadsServed, Running, Served, Asking
<1>5. ThreadsLog'
  BY DEF ThreadsLog, Logging
<1>6. CountTaken'
  BY DEF CountTaken, InHand
<1> QED
  BY <1>1, <1>2, <1>3, <1>4, <1>5, <1>6

\* A session closes one of its own flows, whose thread runs.
LEMMA CloseFlowMode ==
  ASSUME ModeInv, NEW f \in Flows, CloseFlow(f) PROVE ModeInv'
<1> USE RecvLogsAssumption
        DEF ModeInv, ThreadTypes, CloseFlow, SetSession, sessionVars, threadVars
<1>1. ThreadTypes'
  OBVIOUS
<1>2. ModesMean'
  BY DEF ModesMean, Wants
<1>3. SessionsAsk'
  BY DEF SessionsAsk, Wants, Using
<1>4. ThreadsServed'
  BY DEF ThreadsServed, Running, Served, Asking
<1>5. ThreadsLog'
  BY DEF ThreadsLog, Logging
<1>6. CountTaken'
  BY DEF CountTaken, InHand
<1> QED
  BY <1>1, <1>2, <1>3, <1>4, <1>5, <1>6


-----------------------------------------------------------------------------
\* What ModeInv depends on.
modeVars == <<scenario, up, logCheck, logRemote, sessionVars, threadVars, mutexLog, mutexLogRem>>
LEMMA ModesKept == ModeInv /\ UNCHANGED modeVars => ModeInv'
<1> SUFFICES ASSUME ModeInv, UNCHANGED modeVars PROVE ModeInv'
  OBVIOUS
<1> USE DEF ModeInv, modeVars, sessionVars, threadVars
<1>1. ThreadTypes'
  BY DEF ThreadTypes
<1>2. ModesMean' /\ SessionsAsk'
  BY DEF ModesMean, SessionsAsk, Wants
<1>3. ThreadsServed' /\ ThreadsLog' /\ CountTaken'
  BY DEF ThreadsServed, ThreadsLog, Logging, CountTaken, InHand
<1> QED
  BY <1>1, <1>2, <1>3

\* Nobody has asked for a log and no thread runs.
LEMMA ModesInitially == Init => ModeInv
<1> SUFFICES ASSUME RecvLogsInit PROVE ModeInv
  BY DEF Init
<1> USE RecvLogsAssumption DEF RecvLogsInit, ModeInv
<1>1. ThreadTypes
  BY DEF ThreadTypes
<1>2. ModesMean /\ SessionsAsk
  BY DEF ModesMean, SessionsAsk, Using
<1>3. ThreadsServed /\ ThreadsLog /\ CountTaken
  BY DEF ThreadsServed, Running, Asking, ThreadsLog, CountTaken, InHand
<1> QED
  BY <1>1, <1>2, <1>3

\* ModeInv is inductive: every step of Next preserves it.
LEMMA ModesStep == ModeInv /\ [Next]_vars => ModeInv'
<1> SUFFICES ASSUME ModeInv, [Next]_vars PROVE ModeInv'
  OBVIOUS
<1>1. CASE \/ \E c \in Clients : Connects(c) \/ Manages(c) \/ DatagramLost(c)
           \/ StartGlobalLog \/ Done \/ UNCHANGED vars
  <2>1. UNCHANGED modeVars
    BY <1>1 DEF Connects, Manages, DatagramLost, StartGlobalLog, Done, vars, recvLogVars, modeVars
  <2> QED
    BY <2>1, ModesKept
<1>2. ASSUME NEW s \in Sessions, SessionSteps(s) PROVE ModeInv'
  <2>1. CASE AskRemoteLog(s)
    BY <2>1, ModesKept DEF AskRemoteLog, recvLogVars, modeVars
  <2> QED
    BY <1>2, <2>1, SessionStartsMode, ShareLogMode, OpenLogMode, NameLogMode, OpenRemoteLogMode,
       SessionWritesMode, SessionSendsMode, SessionLogsNothingMode, CancelThreadMode, ReleaseMode,
       CloseFileLogMode, CloseRemoteLogMode DEF SessionSteps
<1>3. ASSUME NEW f \in Flows, StartFlow(f) \/ TakePacket(f) \/ DataThread(f) \/ CloseFlow(f)
      PROVE  ModeInv'
  BY <1>3, StartFlowMode, TakePacketMode, CountPacketMode, FlushStartsMode, WriteBufferMode,
     SendBufferMode, CloseFlowMode DEF DataThread
<1> QED
  BY <1>1, <1>2, <1>3 DEF Next

\* Who sends to ITGLog or stops its log there has a connection.
LEMMA ConnectedToLog ==
  ASSUME ModeInv, RemoteAlike, NEW s \in Sessions, session[s] \in Using \cup {"leaving"},
         logRemote # 0
  PROVE  logSock[s] # NoOne
<1>1. CASE scenario.started = "-L"
  BY <1>1 DEF ModeInv, SessionsAsk, Using
<1>2. CASE scenario.started # "-L"
  <2>1. \E t \in Sessions : scenario.wants[t] = "remote"
    BY <1>2 DEF ModeInv, ThreadTypes, ModesMean, Wants
  <2>2. Wants(s) = "remote"
    BY <1>2, <2>1 DEF RemoteAlike, Wants, ModeInv, ThreadTypes
  <2> QED
    BY <2>2 DEF ModeInv, SessionsAsk
<1> QED
  BY <1>1, <1>2

\* No step of a session or of a data thread ends the receiver.
LEMMA RunsOn == ModeInv /\ RemoteAlike /\ up /\ [Next]_vars => up'
<1> SUFFICES ASSUME ModeInv, RemoteAlike, up, [Next]_vars PROVE up'
  OBVIOUS
<1>1. ASSUME NEW s \in Sessions, SessionSteps(s) PROVE up'
  <2>1. CASE SessionSends(s)
    <3>1. session[s] = "closing" /\ logRemote # 0
      BY <2>1 DEF SessionSends
    <3>2. logSock[s] # NoOne
      BY <3>1, ConnectedToLog DEF Using
    <3> QED
      BY <2>1, <3>2 DEF SessionSends, SendTo
  <2>2. CASE CloseRemoteLog(s)
    <3>1. logRemote = 2 => logSock[s] # NoOne
      BY <2>2, ConnectedToLog DEF CloseRemoteLog
    <3> QED
      BY <2>2, <3>1 DEF CloseRemoteLog
  <2>3. CASE ~SessionSends(s) /\ ~CloseRemoteLog(s)
    BY <1>1, <2>3 DEF SessionSteps, SessionStarts, ShareLog, OpenLog, NameLog, Granted,
       AskRemoteLog,
       OpenRemoteLog, SessionWrites, SessionLogsNothing, CancelThread, Release, CloseFileLog,
       recvLogVars
  <2> QED
    BY <2>1, <2>2, <2>3
<1>2. ASSUME NEW f \in Flows, StartFlow(f) \/ TakePacket(f) \/ DataThread(f) \/ CloseFlow(f)
      PROVE  up'
  <2>1. CASE SendBuffer(f)
    <3>1. Home[f] \in Sessions /\ session[Home[f]] \in Using /\ logRemote # 0
      BY <2>1, RecvLogsAssumption
         DEF SendBuffer, ModeInv, ThreadsServed, Running, Served, Using, ThreadsLog
    <3>2. logSock[Home[f]] # NoOne
      BY <3>1, ConnectedToLog
    <3> QED
      BY <2>1, <3>2 DEF SendBuffer, SendTo
  <2>2. CASE ~SendBuffer(f)
    BY <1>2, <2>2 DEF StartFlow, TakePacket, DataThread, CountPacket, FlushStarts, WriteBuffer,
       CloseFlow
  <2> QED
    BY <2>1, <2>2
<1>3. CASE \/ \E c \in Clients : Connects(c) \/ Manages(c) \/ DatagramLost(c)
           \/ StartGlobalLog \/ Done \/ UNCHANGED vars
  BY <1>3 DEF Connects, Manages, DatagramLost, StartGlobalLog, Done, vars, recvLogVars
<1> QED
  BY <1>1, <1>2, <1>3 DEF Next

\* If all senders want a log at ITGLog or none does, or option -L gives every session one,
\* a session that sends records or stops its log has a connection to do so: the logs of
\* other sessions do not end ITGRecv (logRemote is global to them).
THEOREM LogsEndNobody == ASSUME RemoteAlike PROVE Spec => []ReceiverRuns
<1>1. Init => ReceiverRuns
  BY DEF Init, RecvLogsInit, ReceiverRuns
<1>2. ModeInv /\ ReceiverRuns /\ [Next]_vars => ReceiverRuns'
  BY RunsOn DEF ReceiverRuns
<1> QED
  BY <1>1, <1>2, ModesInitially, ModesStep, PTL DEF Spec

-----------------------------------------------------------------------------
(* The entry of a session, and its stream *)

\* A session that uses an entry is counted there, so the entry is neither free nor closed.
LEMMA UserHasEntry ==
  ASSUME FileInv, NEW s \in Sessions, session[s] \in Using, descriptor[s] # 0
  PROVE  /\ descriptor[s] \in TableSlot
         /\ s \in Users(descriptor[s])
         /\ memLogFile[descriptor[s]].num = Cardinality(Users(descriptor[s]))
         /\ memLogFile[descriptor[s]].num > 0
         /\ memLogFile[descriptor[s]].stream = "open"
<1>1. descriptor[s] \in TableSlot
  BY RecvLogsAssumption DEF FileInv, FileTypes, TableSlot
<1>2. PICK i \in TableSlot : i = descriptor[s]
  BY <1>1
<1>3. s \in Users(i)
  BY <1>2 DEF Users, Using
<1>4. EntryRight(i)
  BY EntriesRight DEF FileInv
<1>5. Cardinality(Users(i)) \in Nat /\ Cardinality(Users(i)) > 0
  BY <1>3, LogUsersFinite, CountShrinks
<1> QED
  BY <1>2, <1>3, <1>4, <1>5 DEF EntryRight

\* A step that leaves the names of used entries and the descriptors of their users alone.
LEMMA OwnersStay ==
  ASSUME FilesOwn, UNCHANGED scenario,
         \A s \in Sessions : session'[s] \in Using =>
           /\ session[s] \in Using /\ descriptor'[s] = descriptor[s]
           /\ descriptor[s] # 0 =>
                memLogFile'[descriptor[s]].name = memLogFile[descriptor[s]].name
  PROVE  FilesOwn'
  BY DEF FilesOwn, Wants

\* A session gets an entry of the name it asked for, and nobody else changes that entry.
LEMMA OwnersStepSession ==
  ASSUME FileModeInv, NEW s \in Sessions, SessionSteps(s) PROVE FilesOwn'
<1> USE DEF FileModeInv, SetSession
<1>0. /\ UNCHANGED scenario
      /\ \A t \in Sessions : t # s => session'[t] = session[t] /\ descriptor'[t] = descriptor[t]
  <2> USE DEF FileInv, FileTypes
  <2>1. CASE ShareLog(s) \/ OpenLog(s) \/ NameLog(s)
    <3>1. UNCHANGED scenario /\ \E i, pc : /\ descriptor' = [descriptor EXCEPT ![s] = i]
                                          /\ session' = [session EXCEPT ![s] = pc]
      BY <2>1, Zenon DEF ShareLog, OpenLog, NameLog, Granted
    <3> QED
      BY <3>1
  <2>2. CASE SessionStarts(s) \/ AskRemoteLog(s) \/ OpenRemoteLog(s)
    <3>1. CASE SessionStarts(s)
      <4>1. Wants(s) \in {"none", "local", "remote"}
        BY RecvLogsAssumption DEF Wants
      <4>2. /\ UNCHANGED <<scenario, descriptor>>
            /\ \E pc : session' = [session EXCEPT ![s] = pc]
        BY <3>1, <4>1 DEF SessionStarts
      <4> QED
        BY <4>2
    <3> QED
      BY <2>2, <3>1 DEF AskRemoteLog, OpenRemoteLog, recvLogVars, sessionVars
  <2>3. CASE SessionWrites(s) \/ SessionSends(s) \/ SessionLogsNothing(s) \/ CancelThread(s)
    BY <2>3 DEF SessionWrites, SessionSends, SessionLogsNothing, CancelThread
  <2>4. CASE Release(s) \/ CloseFileLog(s) \/ CloseRemoteLog(s)
    BY <2>4 DEF Release, CloseFileLog, CloseRemoteLog
  <2> QED
    BY <2>1, <2>2, <2>3, <2>4 DEF SessionSteps
<1>1. CASE SessionStarts(s)
  <2>1. /\ session[s] = "none" /\ UNCHANGED <<memLogFile, descriptor>>
        /\ session'[s] \in Using => ~(Wants(s) = "local" /\ logCheck # 1)
    <3>1. Wants(s) \in {"none", "local", "remote"}
      BY RecvLogsAssumption DEF Wants, FileInv, FileTypes
    <3> QED
      BY <1>1, <3>1 DEF SessionStarts, Using, FileInv, FileTypes
  <2>2. descriptor[s] = 0
    BY <2>1 DEF FileInv, OneAsks
  <2> QED
    BY <1>0, <2>1, <2>2 DEF FilesOwn, Wants, ModeInv, ModesMean
<1>2. CASE ShareLog(s)
  <2>1. PICK i \in TableSlot :
          /\ memLogFile[i].name = FileName[s] /\ Granted(s, i)
          /\ memLogFile' = [memLogFile EXCEPT ![i].num = @ + 1]
    BY <1>2 DEF ShareLog, Matching
  <2>2. /\ \A j \in TableSlot : memLogFile'[j].name = memLogFile[j].name
        /\ descriptor'[s] = i /\ i # 0
    BY <2>1 DEF Granted, FileInv, FileTypes, Entries, TableSlot
  <2> QED
    BY <1>0, <2>1, <2>2, UserHasEntry DEF FilesOwn, Wants
<1>3. CASE OpenLog(s)
  <2>1. \A j \in TableSlot : memLogFile'[j].name = memLogFile[j].name
    BY ZenonT(60), <1>3 DEF OpenLog, FileInv, FileTypes, Entries
  <2>2. session'[s] \notin Using
    BY <1>3 DEF OpenLog, Using, FileInv, FileTypes
  <2> QED
    BY <1>0, <2>1, <2>2, UserHasEntry, OwnersStay
<1>4. CASE NameLog(s)
  <2>1. /\ descriptor[s] \in TableSlot /\ memLogFile[descriptor[s]].num = -1
        /\ descriptor[s] # 0
    BY <1>4 DEF NameLog, FileInv, NamingFree, TableSlot
  <2>2. /\ memLogFile'[descriptor[s]].name = FileName[s] /\ descriptor'[s] = descriptor[s]
        /\ \A j \in TableSlot \ {descriptor[s]} : memLogFile'[j] = memLogFile[j]
    BY <1>4, <2>1 DEF NameLog, Granted, FileInv, FileTypes
  <2>3. ASSUME NEW t \in Sessions, session[t] \in Using, descriptor[t] # 0
        PROVE  descriptor[t] \in TableSlot \ {descriptor[s]}
    BY <2>1, <2>3, UserHasEntry
  <2> QED
    BY <1>0, <2>1, <2>2, <2>3 DEF FilesOwn, Wants
<1>5. CASE CloseFileLog(s)
  <2>1. session[s] = "released" /\ session'[s] \notin Using /\ UNCHANGED descriptor
    BY <1>5 DEF CloseFileLog, Using, FileInv, FileTypes
  <2>2. ASSUME NEW t \in Sessions, t # s, session[t] \in Using, descriptor[t] # 0
        PROVE  memLogFile'[descriptor[t]].name = memLogFile[descriptor[t]].name
    <3> PICK i : i = descriptor[t]
      OBVIOUS
    <3>1. /\ i \in TableSlot /\ t \in Users(i) /\ memLogFile[i].num = Cardinality(Users(i))
      BY <2>2, UserHasEntry
    <3>2. CASE descriptor[s] # i
      BY <1>5, <3>1, <3>2 DEF CloseFileLog, FileInv, FileTypes
    <3>3. CASE descriptor[s] = i
      <4>1. s \in Users(i)
        BY <2>1, <3>3 DEF Users
      <4>2. memLogFile[i].num # 1
        <5>1. IsFiniteSet(Users(i)) /\ t \in Users(i) \ {s}
          BY <2>2, <3>1, LogUsersFinite
        <5>2. (Users(i) \ {s} = {}) <=> (Cardinality(Users(i)) = 1)
          BY <4>1, <5>1, CountShrinks
        <5> QED
          BY <3>1, <5>1, <5>2
      <4> QED
        BY <1>5, <3>1, <3>3, <4>2 DEF CloseFileLog, FileInv, FileTypes
    <3> QED
      BY <3>2, <3>3
  <2> QED
    BY <1>0, <2>1, <2>2, OwnersStay
<1>6. CASE OpenRemoteLog(s)
  <2>1. session[s] = "connecting" /\ UNCHANGED <<descriptor, memLogFile>>
    BY <1>6 DEF OpenRemoteLog
  <2>2. descriptor[s] = 0 /\ Wants(s) = "remote"
    BY <2>1 DEF FileInv, OneAsks, ModeInv, SessionsAsk
  <2> QED
    BY <1>0, <2>1, <2>2 DEF FilesOwn, Wants
<1>7. CASE \/ AskRemoteLog(s) \/ SessionWrites(s) \/ SessionSends(s) \/ SessionLogsNothing(s)
           \/ CancelThread(s) \/ Release(s) \/ CloseRemoteLog(s)
  <2>1. /\ UNCHANGED <<descriptor, memLogFile>>
        /\ session'[s] \in Using => session[s] \in Using
    BY <1>7 DEF FileInv, FileTypes, AskRemoteLog, SessionWrites, SessionSends, SessionLogsNothing,
       CancelThread, Release, CloseRemoteLog, recvLogVars, sessionVars, Using
  <2> QED
    BY <1>0, <2>1, OwnersStay
<1> QED
  BY <1>1, <1>2, <1>3, <1>4, <1>5, <1>6, <1>7 DEF SessionSteps

\* The other steps change neither entries nor descriptors.
LEMMA OwnersStep == FileModeInv /\ [Next]_vars => FilesOwn'
<1> SUFFICES ASSUME FileModeInv, [Next]_vars PROVE FilesOwn'
  OBVIOUS
<1>1. CASE \/ \E c \in Clients : Connects(c) \/ Manages(c) \/ DatagramLost(c)
           \/ StartGlobalLog \/ Done \/ UNCHANGED vars
  BY <1>1, OwnersStay DEF FileModeInv, Connects, Manages, DatagramLost, StartGlobalLog, Done,
     vars,
     recvLogVars, sessionVars
<1>2. ASSUME NEW f \in Flows, StartFlow(f) \/ TakePacket(f) \/ DataThread(f) \/ CloseFlow(f)
      PROVE  FilesOwn'
  <2>1. /\ UNCHANGED <<scenario, memLogFile, descriptor>>
        /\ \A s \in Sessions : session'[s] \in Using => session[s] \in Using
    BY <1>2 DEF StartFlow, TakePacket, DataThread, CountPacket, FlushStarts, WriteBuffer,
       SendBuffer, CloseFlow, SetSession, sessionVars, Using, FileModeInv, FileInv, FileTypes
  <2> QED
    BY <2>1, OwnersStay DEF FileModeInv
<1> QED
  BY <1>1, <1>2, OwnersStepSession DEF Next

\* No session has an entry.
LEMMA FileModesInitially == OneAtATime /\ Init => FileModeInv
<1>1. Init => FilesOwn
  BY DEF Init, RecvLogsInit, FilesOwn, Using
<1> QED
  BY <1>1, FilesInitially, ModesInitially DEF FileModeInv

\* The three parts together are inductive.
LEMMA FileModesStep == FileModeInv /\ [Next]_vars => FileModeInv'
  BY FilesStep, ModesStep, OwnersStep DEF FileModeInv

\* The stream that a session passes to its data threads is open if it logs locally.
LEMMA LoggedLocally ==
  ASSUME FileModeInv, NEW s \in Sessions, session[s] \in Using,
         Wants(s) = "local" \/ scenario.started = "-l"
  PROVE  StreamOf(s) = "open" /\ logCheck # 0
<1>1. CASE scenario.started = "-l"
  <2>1. logCheck = 1
    BY <1>1 DEF FileModeInv, ModeInv, ModesMean
  <2>2. descriptor[s] = 0
    BY <2>1 DEF FileModeInv, FileInv, EntriesSound
  <2> QED
    BY <1>1, <2>1, <2>2 DEF StreamOf
<1>2. CASE scenario.started # "-l"
  <2>1. descriptor[s] # 0
    BY <1>2 DEF FileModeInv, FilesOwn
  <2>2. logCheck = 2
    BY <2>1 DEF FileModeInv, FileInv, EntriesSound
  <2> QED
    BY <2>1, <2>2, UserHasEntry DEF StreamOf, FileModeInv
<1> QED
  BY <1>1, <1>2

-----------------------------------------------------------------------------
(* The buffers of the data threads *)

\* If senders log alike, a thread that logs locally has a stream that is open.
LEMMA StreamsOpen ==
  ASSUME FileModeInv, LocalAlike, logCheck # 0, NEW s \in Sessions, session[s] \in Using
  PROVE  StreamOf(s) = "open"
<1>1. CASE scenario.started = "-l"
  BY <1>1, LoggedLocally
<1>2. CASE scenario.started # "-l"
  <2>1. \E t \in Sessions : scenario.wants[t] = "local"
    BY <1>2 DEF FileModeInv, ModeInv, ThreadTypes, ModesMean, Wants
  <2>2. Wants(s) = "local"
    BY <1>2, <2>1 DEF LocalAlike, Wants, FileModeInv, ModeInv, ThreadTypes
  <2> QED
    BY <2>2, LoggedLocally
<1> QED
  BY <1>1, <1>2

\* The threshold of a buffer, in numbers.
LEMMA NextBelow ==
  ASSUME NEW n \in Nat, NEW m \in Nat, n < m
  PROVE  n + 1 <= m /\ (n + 1 = m \/ n + 1 < m)
  OBVIOUS

\* A thread whose buffer gets full flushes before it takes another packet.
LEMMA CountPacketFits ==
  ASSUME ModeInv, BuffersInTime, NEW f \in Flows, CountPacket(f) PROVE BuffersInTime'
<1>1. LogBufferSize \in Nat
  BY RecvLogsAssumption
<1>2. thread[f] = "recorded" /\ count[f] \in Nat /\ count[f] < LogBufferSize
  BY DEF CountPacket, ModeInv, ThreadTypes, BuffersInTime
<1>3. /\ count'[f] = count[f] + 1
      /\ count[f] + 1 = LogBufferSize => thread'[f] = "full"
      /\ \A e \in Flows \ {f} : count'[e] = count[e] /\ thread'[e] = thread[e]
  BY DEF CountPacket, SetThread, ModeInv, ThreadTypes
<1>4. /\ count[f] + 1 <= LogBufferSize
      /\ count[f] + 1 = LogBufferSize \/ count[f] + 1 < LogBufferSize
  BY <1>1, <1>2, NextBelow
<1> QED
  BY <1>3, <1>4 DEF BuffersInTime

\* A thread that flushes empties its buffer: its stream is open.
LEMMA BuffersStepThread ==
  ASSUME BufferInv, LocalAlike, NEW f \in Flows, DataThread(f)
  PROVE  BuffersInTime'
<1> USE RecvLogsAssumption DEF BufferInv, FileModeInv, ModeInv, ThreadTypes, SetThread
<1>1. CASE CountPacket(f) \/ FlushStarts(f)
  <2>1. CASE CountPacket(f)
    BY <2>1, CountPacketFits DEF BufferInv
  <2>2. CASE FlushStarts(f)
    <3>1. /\ UNCHANGED count
          /\ \E pc \in {"writing", "sending"} : thread' = [thread EXCEPT ![f] = pc]
      BY <2>2 DEF FlushStarts
    <3> QED
      BY <3>1 DEF BuffersInTime
  <2> QED
    BY <1>1, <2>1, <2>2
<1>2. CASE WriteBuffer(f)
  <2>1. thread[f] = "writing" /\ logCheck # 0
    BY <1>2 DEF WriteBuffer, ThreadsLog
  <2>2. Home[f] \in Sessions /\ session[Home[f]] \in Using
    BY <2>1 DEF ThreadsServed, Running, Served, Using
  <2>3. StreamOf(Home[f]) = "open"
    BY <2>1, <2>2, StreamsOpen
  <2>4. count' = [count EXCEPT ![f] = 0] /\ thread' = [thread EXCEPT ![f] = "receiving"]
    BY <1>2, <2>3 DEF WriteBuffer, FlushBuffer
  <2> QED
    BY <2>4 DEF BuffersInTime
<1>3. CASE SendBuffer(f)
  <2>1. count' = [count EXCEPT ![f] = 0] /\ thread' = [thread EXCEPT ![f] = "receiving"]
    BY <1>3 DEF SendBuffer
  <2> QED
    BY <2>1 DEF BuffersInTime
<1> QED
  BY <1>1, <1>2, <1>3 DEF DataThread

\* No other step fills a buffer.
LEMMA BuffersStep == BufferInv /\ LocalAlike /\ [Next]_vars => BuffersInTime'
<1> SUFFICES ASSUME BufferInv, LocalAlike, [Next]_vars PROVE BuffersInTime'
  OBVIOUS
<1> USE RecvLogsAssumption DEF BufferInv, FileModeInv, ModeInv, ThreadTypes, SetThread
<1>1. ASSUME UNCHANGED <<thread, count>> PROVE BuffersInTime'
  BY <1>1 DEF BuffersInTime
<1>2. CASE \/ \E c \in Clients : Connects(c) \/ Manages(c) \/ DatagramLost(c)
           \/ StartGlobalLog \/ Done \/ UNCHANGED vars
  BY <1>1, <1>2 DEF Connects, Manages, DatagramLost, StartGlobalLog, Done, vars, recvLogVars,
                    threadVars
<1>3. ASSUME NEW s \in Sessions, SessionSteps(s) PROVE BuffersInTime'
  <2>1. CASE SessionWrites(s)
    <3>1. UNCHANGED thread /\ \A f \in Flows : count'[f] \in {0, count[f]}
      BY <2>1 DEF SessionWrites, FlushBuffer
    <3> QED
      BY <3>1 DEF BuffersInTime
  <2>2. CASE CancelThread(s)
    BY <2>2 DEF CancelThread, BuffersInTime
  <2>3. CASE ~SessionWrites(s) /\ ~CancelThread(s)
    BY <1>1, <1>3, <2>3 DEF SessionSteps, SessionStarts, ShareLog, OpenLog, NameLog, Granted,
       AskRemoteLog, OpenRemoteLog, SessionSends, SessionLogsNothing, Release, CloseFileLog,
       CloseRemoteLog, recvLogVars, threadVars
  <2> QED
    BY <2>1, <2>2, <2>3
<1>4. ASSUME NEW f \in Flows, StartFlow(f) \/ TakePacket(f) \/ CloseFlow(f) PROVE BuffersInTime'
  BY <1>4 DEF StartFlow, TakePacket, CloseFlow, BuffersInTime, threadVars
<1> QED
  BY <1>2, <1>3, <1>4, BuffersStepThread DEF Next

\* Buffers are empty, and have room for a record.
LEMMA BuffersInitially == Init => BuffersInTime
  BY RecvLogsAssumption DEF Init, RecvLogsInit, BuffersInTime

\* If senders log alike and ask one after another, a data thread never writes past the end
\* of infos[], whose positions end at logbuffer_size: flushBuffer always finds the stream
\* of its session open and resets count.
THEOREM BuffersBounded == ASSUME OneAtATime, LocalAlike PROVE Spec => []BufferBounded
<1>1. Init => BufferInv
  BY FileModesInitially, BuffersInitially DEF BufferInv
<1>2. BufferInv /\ [Next]_vars => BufferInv'
  BY FileModesStep, BuffersStep DEF BufferInv
<1>3. BufferInv => BufferBounded
  BY DEF BufferInv, BuffersInTime, BufferBounded
<1> QED
  BY <1>1, <1>2, <1>3, PTL DEF Spec

-----------------------------------------------------------------------------
(* Types *)

\* What is under way to ITGLog, and what it has written.
Batches == [source : Sources, numbers : Seq(Nat)]
DataTypes ==
  /\ dataTo \in [Clients -> Seq(Batches)]
  /\ logged \in [Names -> [Sources -> Seq(Nat)]]

\* A buffer holds numbers of packets.
LEMMA BufferHolds ==
  ASSUME ModeInv, NEW f \in Flows
  PROVE  /\ Buffered(f) \in Seq(Nat) /\ Len(Buffered(f)) = count[f]
         /\ \A i \in 1 .. count[f] : Buffered(f)[i] = infos[f][i - 1]
<1>1. /\ count[f] \in Nat /\ taken[f] \in 0 .. MaxPackets /\ MaxPackets \in Nat
      /\ infos[f] \in [Positions -> 0 .. MaxPackets]
  BY RecvLogsAssumption DEF ModeInv, ThreadTypes
<1>2. count[f] <= MaxPackets
  BY <1>1 DEF ModeInv, CountTaken, InHand
<1>3. \A i \in 1 .. count[f] : infos[f][i - 1] \in Nat
  BY <1>1, <1>2 DEF Positions
<1> QED
  BY <1>1, <1>3 DEF Buffered

\* sendto puts a batch of packet numbers on the data channel, or fails.
LEMMA SendingTyped ==
  ASSUME ModeInv, DataTypes, NEW c \in Clients \cup {NoOne}, NEW f \in Flows, SendTo(c, f),
         UNCHANGED logged
  PROVE  DataTypes'
<1>1. CASE c = NoOne
  BY <1>1 DEF SendTo, DataTypes
<1>2. CASE c # NoOne
  <2>1. Batch(f, Buffered(f)) \in Batches
    BY BufferHolds, RecvLogsAssumption DEF Batch, Batches
  <2>2. PICK b \in Batches : b = Batch(f, Buffered(f))
    BY <2>1
  <2>3. dataTo' = dataTo \/ dataTo' = [dataTo EXCEPT ![c] = Append(@, b)]
    BY <1>2, <2>2 DEF SendTo, SendRecords
  <2>4. Append(dataTo[c], b) \in Seq(Batches)
    BY <1>2 DEF DataTypes
  <2>5. dataTo' \in [Clients -> Seq(Batches)]
    BY <2>3, <2>4 DEF DataTypes
  <2> QED
    BY <2>5 DEF DataTypes
<1> QED
  BY <1>1, <1>2

\* A part of a batch, at the end of the records of its source.
LEMMA WritingTyped ==
  ASSUME DataTypes, NEW c \in Clients, NEW b \in Batches, NEW k \in Int,
         k <= Len(b.numbers), Write(c, b, k)
  PROVE  logged' \in [Names -> [Sources -> Seq(Nat)]]
<1>1. b.source \in Sources /\ b.numbers \in Seq(Nat)
  BY DEF Batches
<1>2. SubSeq(b.numbers, 1, k) \in Seq(Nat)
  <2>1. Len(b.numbers) \in Nat /\ \A i \in 1 .. k : b.numbers[i] \in Nat
    BY <1>1
  <2> QED
    BY <2>1, SubSeqProperties
<1>3. PICK part \in Seq(Nat) : part = SubSeq(b.numbers, 1, k)
  BY <1>2
<1>4. PICK n : logged' = [logged EXCEPT ![n][b.source] = @ \o part]
  BY <1>3 DEF Write
<1>5. CASE n \in Names
  <2>1. logged[n] \in [Sources -> Seq(Nat)] /\ logged[n][b.source] \o part \in Seq(Nat)
    BY <1>1, <1>5 DEF DataTypes
  <2>2. [logged[n] EXCEPT ![b.source] = @ \o part] \in [Sources -> Seq(Nat)]
    BY <1>1, <2>1
  <2> QED
    BY <1>4, <1>5, <2>2 DEF DataTypes
<1>6. CASE n \notin Names
  BY <1>4, <1>6 DEF DataTypes
<1> QED
  BY <1>5, <1>6

\* Channel managers of ITGLog take whole batches or the first part of one.
LEMMA ManagersTyped ==
  ASSUME DataTypes, NEW c \in Clients, ChannelManager(c) PROVE DataTypes'
<1> DEFINE batch == Head(dataTo[c])
           n     == Len(batch.numbers)
           kept  == IF n < ServerBuffer THEN n ELSE ServerBuffer
<1>0. dataTo[c] \in Seq(Batches) /\ ServerBuffer \in Nat
  BY LogServerAssumption DEF DataTypes
<1>1. CASE ReceiveInfo(c) \/ CopyInfo(c) \/ AcceptData(c) \/ CloseServerFile(c)
  BY <1>1 DEF ReceiveInfo, CopyInfo, AcceptData, CloseServerFile, DataTypes
<1>2. CASE AllowLogFile(c)
  <2>1. UNCHANGED dataTo
    BY <1>2 DEF AllowLogFile
  <2>2. logged' = logged \/ \E m : logged' = [logged EXCEPT ![m] = [x \in Sources |-> <<>>]]
    BY <1>2 DEF AllowLogFile, ShareServerFile, OpenServerFile
  <2>3. [x \in Sources |-> <<>>] \in [Sources -> Seq(Nat)]
    OBVIOUS
  <2> QED
    BY <2>1, <2>2, <2>3 DEF DataTypes
<1>3. CASE EndLog(c)
  BY <1>3 DEF EndLog, DataTypes
<1>4. CASE ReadStream(c) \/ ReadDatagram(c)
  <2>1. dataTo[c] # <<>>
    BY <1>4 DEF ReadStream, ReadDatagram
  <2>2. batch \in Batches /\ Tail(dataTo[c]) \in Seq(Batches)
    BY <1>0, <2>1
  <2>3. batch.numbers \in Seq(Nat) /\ batch.source \in Sources
    BY <2>2 DEF Batches
  <2>4. n \in Nat /\ kept \in Int /\ kept <= n
    BY <1>0, <2>3
  <2>5. PICK b \in Batches : b = batch
    BY <2>2
  <2>6. CASE ReadDatagram(c)
    <3>1. Write(c, b, kept) /\ dataTo' = [dataTo EXCEPT ![c] = Tail(@)]
      BY <2>5, <2>6 DEF ReadDatagram
    <3>2. dataTo' \in [Clients -> Seq(Batches)]
      BY <2>2, <3>1 DEF DataTypes
    <3> HIDE DEF kept
    <3> QED
      BY <2>4, <2>5, <3>1, <3>2, WritingTyped DEF DataTypes
  <2>7. CASE ReadStream(c)
    <3>1. PICK k \in 1 .. kept :
            /\ Write(c, b, k)
            /\ dataTo' = [dataTo EXCEPT ![c] =
                 (IF k = n THEN <<>> ELSE <<Batch(b.source, SubSeq(b.numbers, k + 1, n))>>)
                 \o Tail(@)]
      BY <2>5, <2>7 DEF ReadStream
    <3>2. k \in Int /\ k <= n
      BY <2>4, <3>1
    <3>3. SubSeq(b.numbers, k + 1, n) \in Seq(Nat)
      <4>1. ASSUME NEW i \in k + 1 .. n PROVE b.numbers[i] \in Nat
        <5>1. b.numbers \in Seq(Nat) /\ n = Len(b.numbers)
          BY <2>3, <2>5
        <5>2. i \in 1 .. n
          BY <2>4, <3>1, <4>1
        <5> QED
          BY <5>1, <5>2
      <4> QED
        BY <2>4, <3>2, <4>1, SubSeqProperties
    <3>4. PICK rest \in Seq(Batches) :
            rest = IF k = n THEN <<>> ELSE <<Batch(b.source, SubSeq(b.numbers, k + 1, n))>>
      <4>1. Batch(b.source, SubSeq(b.numbers, k + 1, n)) \in Batches
        BY <2>3, <2>5, <3>3 DEF Batch, Batches
      <4>2. /\ <<Batch(b.source, SubSeq(b.numbers, k + 1, n))>> \in Seq(Batches)
            /\ <<>> \in Seq(Batches)
        BY <4>1
      <4> QED
        BY <4>2
    <3>5. rest \o Tail(dataTo[c]) \in Seq(Batches)
      BY <2>2, <3>4
    <3>6. dataTo' = [dataTo EXCEPT ![c] = rest \o Tail(@)]
      BY <3>1, <3>4
    <3>7. dataTo' \in [Clients -> Seq(Batches)]
      BY <3>5, <3>6 DEF DataTypes
    <3>8. k <= Len(b.numbers)
      BY <2>5, <3>2
    <3> QED
      BY <3>1, <3>2, <3>7, <3>8, WritingTyped DEF DataTypes
  <2> QED
    BY <1>4, <2>6, <2>7
<1> QED
  BY <1>1, <1>2, <1>3, <1>4 DEF ChannelManager

\* DataTypes is preserved by every step, given that buffers hold packet numbers.
LEMMA DataStep == ModeInv /\ DataTypes /\ [Next]_vars => DataTypes'
<1> SUFFICES ASSUME ModeInv, DataTypes, [Next]_vars PROVE DataTypes'
  OBVIOUS
<1>1. ASSUME UNCHANGED <<dataTo, logged>> PROVE DataTypes'
  BY <1>1 DEF DataTypes
<1>2. CASE \/ \E c \in Clients : Connects(c) \/ DatagramLost(c)
           \/ StartGlobalLog \/ Done \/ UNCHANGED vars
  <2>1. ASSUME NEW c \in Clients, DatagramLost(c) PROVE DataTypes'
    BY <2>1 DEF DatagramLost, LoseDatagram, DataTypes
  <2> QED
    BY <1>1, <1>2, <2>1 DEF Connects, AcceptLog, StartGlobalLog, AskForLog, ConnectData, Done,
       vars,
                            serverVars
<1>3. ASSUME NEW c \in Clients, Manages(c) PROVE DataTypes'
  BY <1>3, ManagersTyped DEF Manages
<1>4. ASSUME NEW s \in Sessions, SessionSteps(s) PROVE DataTypes'
  <2>1. CASE SessionSends(s)
    <3>1. logSock[s] \in Clients \cup {NoOne} /\ closing[s] \in Flows
      BY <2>1 DEF SessionSends, ModeInv, ThreadTypes, ThreadsServed
    <3>2. SendTo(logSock[s], closing[s]) /\ UNCHANGED logged
      BY <2>1 DEF SessionSends, ServerElse
    <3> QED
      BY <3>1, <3>2, SendingTyped
  <2>2. CASE ~SessionSends(s)
    BY <1>1, <1>4, <2>2 DEF SessionSteps, SessionStarts, ShareLog, OpenLog, NameLog, Granted,
       AskRemoteLog, AskForLog, OpenRemoteLog, ConnectData, SessionWrites, SessionLogsNothing,
       CancelThread, Release, CloseFileLog, CloseRemoteLog, serverVars
  <2> QED
    BY <2>1, <2>2
<1>5. ASSUME NEW f \in Flows, StartFlow(f) \/ TakePacket(f) \/ DataThread(f) \/ CloseFlow(f)
      PROVE  DataTypes'
  <2>1. CASE SendBuffer(f)
    <3>1. logSock[Home[f]] \in Clients \cup {NoOne}
      BY RecvLogsAssumption DEF ModeInv, ThreadTypes
    <3> QED
      BY <2>1, <3>1, SendingTyped DEF SendBuffer, ServerElse
  <2>2. CASE ~SendBuffer(f)
    BY <1>1, <1>5, <2>2 DEF StartFlow, TakePacket, DataThread, CountPacket, FlushStarts,
                            WriteBuffer, CloseFlow, serverVars
  <2> QED
    BY <2>1, <2>2
<1> QED
  BY <1>2, <1>3, <1>4, <1>5 DEF Next

\* Nothing is under way and nothing is written.
LEMMA DataInitially == Init => DataTypes
  BY DEF Init, LogServerInit, DataTypes

\* The types of all variables are in the inductive invariants.
LEMMA InvariantsGiveTypes == ServerInv /\ BufferInv /\ DataTypes => TypeOK
<1> SUFFICES ASSUME ServerInv, BufferInv, DataTypes PROVE TypeOK
  OBVIOUS
<1>1. LogServerTypeOK
  <2>1. ASSUME NEW c \in Clients, NEW i \in DOMAIN dataTo[c] PROVE dataTo[c][i].source \in Sources
    <3>1. dataTo[c] \in Seq(Batches)
      BY DEF DataTypes
    <3>2. dataTo[c][i] \in Batches
      BY <2>1, <3>1
    <3> QED
      BY <3>2 DEF Batches
  <2> QED
    BY <2>1 DEF ServerInv, ServerTypes, DataTypes, LogServerTypeOK
<1>2. RecvLogsTypeOK
  <2>1. count \in [Flows -> 0 .. LogBufferSize]
    BY RecvLogsAssumption DEF BufferInv, BuffersInTime, FileModeInv, ModeInv, ThreadTypes
  <2> QED
    BY <2>1 DEF BufferInv, FileModeInv, ModeInv, ThreadTypes, FileInv, FileTypes, Entries,
                RecvLogsTypeOK
<1> QED
  BY <1>1, <1>2 DEF TypeOK

\* If senders log alike and ask one after another, every variable of ITGRecv's logging and
\* of ITGLog keeps its type: no index leaves its table, and a buffer its bounds.
THEOREM LogTypes == ASSUME OneAtATime, LocalAlike PROVE Spec => []TypeOK
<1>1. Init => ServerInv /\ BufferInv /\ DataTypes
  BY ServerInitially, FileModesInitially, BuffersInitially, DataInitially DEF BufferInv
<1>2. ServerInv /\ BufferInv /\ DataTypes /\ [Next]_vars => (ServerInv /\ BufferInv /\ DataTypes)'
  BY ServerStep, FileModesStep, BuffersStep, DataStep DEF BufferInv, FileModeInv
<1> QED
  BY <1>1, <1>2, InvariantsGiveTypes, PTL DEF Spec

(***************************************************************************)
(* Local log files                                                         *)
(***************************************************************************)

\* The file of a session that logs locally.
LocalFile(s) == IF scenario.started = "-l" THEN OutFile ELSE FileName[s]
LocalFiles   == LocalNames \cup {OutFile}

\* What has been received and is not in the buffer is in the file, and a thread that is
\* being closed has nothing else to do.
Kept(f) ==
  /\ written[LocalFile(Home[f])][f] = UpTo(taken[f] - InHand(f))
  /\ \A p \in 0 .. InHand(f) - 1 : infos[f][p] = taken[f] - InHand(f) + p + 1
  /\ thread[f] # "sending"
  /\ thread[f] = "cancelled" => count[f] = 0
  /\ closing[Home[f]] = f => thread[f] = "receiving"
  /\ closing[Home[f]] = f /\ session[Home[f]] = "flushed" => count[f] = 0

LocalTypes   == written \in [LocalFiles -> [Flows -> Seq(Nat)]]
FreshFlows   == \A f \in Flows : thread[f] = "none" => \A n \in LocalFiles : written[n][f] = <<>>
FlowsWritten == \A f \in Flows : LogsLocally(f) /\ session[Home[f]] \in Using => Kept(f)

LocalInv == FileModeInv /\ ~LateData /\ LocalTypes /\ FreshFlows /\ FlowsWritten

\* The next numbers in a row make the row longer.
LEMMA Appended ==
  ASSUME NEW n \in Nat, NEW k \in Nat, NEW part \in Seq(Nat), Len(part) = k,
         \A i \in 1 .. k : part[i] = n + i
  PROVE  UpTo(n) \o part = UpTo(n + k)
<1>1. UpTo(n) \in Seq(Nat) /\ Len(UpTo(n)) = n /\ \A i \in 1 .. n : UpTo(n)[i] = i
  BY DEF UpTo
<1>2. /\ UpTo(n) \o part \in Seq(Nat) /\ Len(UpTo(n) \o part) = n + k
      /\ \A i \in 1 .. n + k : (UpTo(n) \o part)[i] = IF i <= n THEN UpTo(n)[i] ELSE part[i - n]
  <2>1. PICK upTo \in Seq(Nat) : upTo = UpTo(n)
    BY <1>1
  <2>2. Len(upTo \o part) = Len(upTo) + Len(part) /\ upTo \o part \in Seq(Nat)
    BY ConcatProperties
  <2>3. \A i \in 1 .. Len(upTo) + Len(part) :
          (upTo \o part)[i] = IF i <= Len(upTo) THEN upTo[i] ELSE part[i - Len(upTo)]
    BY ConcatProperties
  <2> QED
    BY <1>1, <2>1, <2>2, <2>3
<1>3. /\ UpTo(n + k) \in Seq(Nat) /\ Len(UpTo(n + k)) = n + k
      /\ \A i \in 1 .. n + k : UpTo(n + k)[i] = i
  BY DEF UpTo
<1>4. \A i \in 1 .. n + k : (UpTo(n) \o part)[i] = i
  BY <1>1, <1>2
<1> QED
  BY <1>2, <1>3, <1>4, SeqEqual

\* A flow that takes no part in a step, and whose file keeps its records.
LEMMA BystanderKept ==
  ASSUME NEW f \in Flows, Kept(f), UNCHANGED scenario,
         thread'[f] = thread[f], taken'[f] = taken[f], infos'[f] = infos[f], count'[f] = count[f],
         written'[LocalFile(Home[f])][f] = written[LocalFile(Home[f])][f],
         closing'[Home[f]] = f => closing[Home[f]] = f,
         closing'[Home[f]] = f /\ session'[Home[f]] = "flushed" => session[Home[f]] = "flushed"
  PROVE  Kept(f)'
<1>1. LocalFile(Home[f])' = LocalFile(Home[f]) /\ InHand(f)' = InHand(f)
  BY DEF LocalFile, InHand
<1> QED
  BY <1>1 DEF Kept

\* A flow that has not been started when its session gets its file.
LEMMA FreshKept ==
  ASSUME ModeInv', FreshFlows', NEW f \in Flows, thread'[f] = "none"
  PROVE  Kept(f)'
<1>1. Home[f] \in Sessions
  BY RecvLogsAssumption
<1>2. taken'[f] = 0 /\ count'[f] = 0 /\ InHand(f)' = 0
  BY DEF ModeInv, ThreadTypes, CountTaken, InHand
<1>3. LocalFile(Home[f])' \in LocalFiles
  BY <1>1 DEF LocalFile, LocalFiles, LocalNames
<1>4. written'[LocalFile(Home[f])'][f] = <<>>
  BY <1>3 DEF FreshFlows, LocalFiles, LocalNames
<1>5. UpTo(0) = <<>>
  BY DEF UpTo
<1>6. closing'[Home[f]] # f
  BY <1>1, RecvLogsAssumption DEF ModeInv, ThreadsServed, Running
<1> QED
  BY <1>2, <1>4, <1>5, <1>6 DEF Kept

\* A buffer is written to the file: by the thread itself, or by the session for it.
LEMMA FlushKept ==
  ASSUME LocalInv, NEW f \in Flows, LogsLocally(f), session[Home[f]] \in Using,
         thread[f] # "recorded", FlushBuffer(f),
         UNCHANGED <<scenario, taken, infos, closing>>,
         thread'[f] \in {thread[f], "receiving"}
  PROVE  Kept(f)'
<1>1. Home[f] \in Sessions /\ StreamOf(Home[f]) = "open"
  BY RecvLogsAssumption, LoggedLocally DEF LocalInv, LogsLocally
<1>2. FileOf(Home[f]) = LocalFile(Home[f])
  BY <1>1 DEF FileOf, LocalFile, LogsLocally, LocalInv, FileModeInv, FilesOwn, FileInv,
              EntriesSound, ModeInv, ModesMean
<1>3. /\ written' = [written EXCEPT ![LocalFile(Home[f])][f] = @ \o Buffered(f)]
      /\ count'[f] = 0
  BY <1>1, <1>2 DEF FlushBuffer, LocalInv, FileModeInv, ModeInv, ThreadTypes
<1>4. LocalFile(Home[f])' = LocalFile(Home[f]) /\ LocalFile(Home[f]) \in LocalFiles
  BY <1>1 DEF LocalFile, LocalFiles, LocalNames
<1>5. Kept(f)
  BY DEF LocalInv, FlowsWritten
<1>6. written'[LocalFile(Home[f])][f] = written[LocalFile(Home[f])][f] \o Buffered(f)
  BY <1>3, <1>4 DEF LocalInv, LocalTypes
<1>7. /\ taken[f] \in Nat /\ count[f] \in Nat /\ count[f] <= taken[f] /\ InHand(f) = count[f]
      /\ taken[f] - count[f] \in Nat /\ taken[f] - count[f] + count[f] = taken[f]
  <2>1. taken[f] \in Nat /\ count[f] \in Nat /\ InHand(f) = count[f] /\ InHand(f) <= taken[f]
    BY DEF LocalInv, FileModeInv, ModeInv, ThreadTypes, CountTaken, InHand
  <2> QED
    BY <2>1
<1>8. /\ Buffered(f) \in Seq(Nat) /\ Len(Buffered(f)) = count[f]
      /\ \A i \in 1 .. count[f] : Buffered(f)[i] = infos[f][i - 1]
  BY BufferHolds DEF LocalInv, FileModeInv
<1>9. \A i \in 1 .. count[f] : Buffered(f)[i] = (taken[f] - count[f]) + i
  <2> SUFFICES ASSUME NEW i \in 1 .. count[f] PROVE Buffered(f)[i] = (taken[f] - count[f]) + i
    OBVIOUS
  <2>1. i - 1 \in 0 .. count[f] - 1
    BY <1>7
  <2>2. infos[f][i - 1] = taken[f] - count[f] + (i - 1) + 1
    BY <1>5, <1>7, <2>1 DEF Kept
  <2> QED
    BY <1>7, <1>8, <2>2
<1>10. UpTo(taken[f] - count[f]) \o Buffered(f) = UpTo(taken[f])
  BY ZenonT(40), <1>7, <1>8, <1>9, Appended
<1>11. InHand(f)' = 0 /\ taken'[f] = taken[f] /\ taken[f] - 0 = taken[f]
  BY <1>3, <1>7 DEF InHand
<1>12. written'[LocalFile(Home[f])'][f] = UpTo(taken'[f] - InHand(f)')
  BY <1>4, <1>5, <1>6, <1>7, <1>10, <1>11 DEF Kept
<1> QED
  BY <1>3, <1>5, <1>11, <1>12 DEF Kept

-----------------------------------------------------------------------------
\* What a flush does to local files whoever it is for.
LEMMA FlushTyped ==
  ASSUME LocalInv, NEW f \in Flows, FlushBuffer(f), thread[f] # "none",
         \A e \in Flows : thread'[e] = "none" => thread[e] = "none"
  PROVE  /\ LocalTypes' /\ FreshFlows'
         /\ \A n \in LocalFiles : \A e \in Flows \ {f} : written'[n][e] = written[n][e]
<1>1. PICK part \in Seq(Nat) : part = Buffered(f)
  BY BufferHolds DEF LocalInv, FileModeInv
<1>2. \/ written' = written
      \/ \E n : written' = [written EXCEPT ![n][f] = @ \o part]
  BY <1>1 DEF FlushBuffer
<1>3. CASE written' = written
  BY <1>3 DEF LocalInv, LocalTypes, FreshFlows, LocalFiles, LocalNames
<1>4. ASSUME NEW n, written' = [written EXCEPT ![n][f] = @ \o part]
      PROVE  /\ LocalTypes' /\ FreshFlows'
             /\ \A m \in LocalFiles : \A e \in Flows \ {f} : written'[m][e] = written[m][e]
  <2>1. /\ \A m \in LocalFiles : written[m] \in [Flows -> Seq(Nat)]
        /\ LocalFiles' = LocalFiles
    BY DEF LocalInv, LocalTypes, LocalFiles, LocalNames
  <2>2. \A m \in LocalFiles : [written[m] EXCEPT ![f] = @ \o part] \in [Flows -> Seq(Nat)]
    BY <2>1
  <2>3. LocalTypes'
    BY <1>4, <2>1, <2>2 DEF LocalInv, LocalTypes
  <2>4. \A m \in LocalFiles : \A e \in Flows \ {f} : written'[m][e] = written[m][e]
    BY <1>4, <2>1 DEF LocalInv, LocalTypes
  <2>5. FreshFlows'
    BY <2>1, <2>4 DEF LocalInv, FreshFlows
  <2> QED
    BY <2>3, <2>4, <2>5
<1> QED
  BY <1>2, <1>3, <1>4

\* A file is opened only if no session uses it.
LEMMA OpenedUnused ==
  ASSUME LocalInv, NEW t \in Sessions, OpenLog(t), NEW s \in Sessions, session[s] \in Using,
         Wants(s) = "local" \/ scenario.started = "-l"
  PROVE  LocalFile(s) # FileName[t]
<1>1. session[t] = "opening" /\ Matching(t) = {}
  BY DEF OpenLog
<1>2. scenario.started # "-l"
  BY <1>1 DEF LocalInv, FileModeInv, ModeInv, SessionsAsk
<1>3. descriptor[s] # 0 /\ memLogFile[descriptor[s]].name = FileName[s]
  BY <1>2 DEF LocalInv, FileModeInv, FilesOwn
<1>4. descriptor[s] \in TableSlot
  BY <1>3, UserHasEntry DEF LocalInv, FileModeInv
<1> QED
  BY <1>1, <1>2, <1>3, <1>4 DEF Matching, LocalFile

\* A step of a session changes no other; it gets no file when it has left, and is "flushed"
\* only after "closing".
LEMMA SessionMovesAlone ==
  ASSUME ModeInv, NEW t \in Sessions, SessionSteps(t)
  PROVE  session' = session \/ \E pc : /\ session' = [session EXCEPT ![t] = pc]
                                       /\ session[t] = "leaving" => pc = "ended"
                                       /\ session[t] # "ended"
                                       /\ pc = "flushed" => \/ SessionWrites(t) \/ SessionSends(t)
                                                            \/ SessionLogsNothing(t)
<1> USE DEF SetSession
<1>1. CASE SessionStarts(t)
  <2>1. Wants(t) \in {"none", "local", "remote"}
    BY RecvLogsAssumption DEF Wants, ModeInv, ThreadTypes
  <2> QED
    BY <1>1, <2>1 DEF SessionStarts
<1>2. CASE ShareLog(t)
  BY <1>2 DEF ShareLog, Granted
<1>3. CASE OpenLog(t) \/ NameLog(t) \/ OpenRemoteLog(t)
  BY <1>3 DEF OpenLog, NameLog, Granted, OpenRemoteLog
<1>4. CASE AskRemoteLog(t)
  BY <1>4 DEF AskRemoteLog, recvLogVars, sessionVars
<1>5. CASE SessionWrites(t) \/ SessionSends(t) \/ SessionLogsNothing(t)
  BY <1>5 DEF SessionWrites, SessionSends, SessionLogsNothing
<1>6. CASE CancelThread(t) \/ Release(t) \/ CloseFileLog(t) \/ CloseRemoteLog(t)
  BY <1>6 DEF CancelThread, Release, CloseFileLog, CloseRemoteLog
<1> QED
  BY <1>1, <1>2, <1>3, <1>4, <1>5, <1>6 DEF SessionSteps

\* A session that leaves does not come back.
LEMMA SessionsLeave ==
  ASSUME ModeInv, NEW t \in Sessions, SessionSteps(t), NEW s \in Sessions,
         session[s] \in {"leaving", "ended"}
  PROVE  session'[s] \in {"leaving", "ended"}
  BY SessionMovesAlone DEF ModeInv, ThreadTypes

\* Only the session itself makes it "flushed".
LEMMA SessionsFlush ==
  ASSUME ModeInv, NEW t \in Sessions, SessionSteps(t), NEW s \in Sessions,
         session'[s] = "flushed", session[s] # "flushed"
  PROVE  t = s /\ (SessionWrites(t) \/ SessionSends(t) \/ SessionLogsNothing(t))
  BY SessionMovesAlone DEF ModeInv, ThreadTypes

\* Steps of a session, but for those that flush and cancel.
LEMMA LocalStepSession ==
  ASSUME LocalInv, FileModeInv', NEW t \in Sessions, SessionSteps(t),
         ~SessionWrites(t), ~CancelThread(t)
  PROVE  LocalTypes' /\ FreshFlows' /\ FlowsWritten'
<1> USE DEF SetSession
<1>1. UNCHANGED <<scenario, threadVars, closing>>
  BY DEF SessionSteps, SessionStarts, ShareLog, OpenLog, NameLog, Granted, AskRemoteLog,
     OpenRemoteLog, SessionSends, SessionLogsNothing, Release, CloseFileLog, CloseRemoteLog,
     recvLogVars, sessionVars, threadVars
<1>2. \/ OpenLog(t) /\ written' = [written EXCEPT ![FileName[t]] = [e \in Flows |-> <<>>]]
      \/ written' = written
  BY DEF SessionSteps, SessionStarts, ShareLog, OpenLog, NameLog, AskRemoteLog,
     OpenRemoteLog, SessionSends, SessionLogsNothing, Release, CloseFileLog, CloseRemoteLog,
     recvLogVars
<1>3. LocalFiles' = LocalFiles /\ FileName[t] \in LocalFiles
  BY DEF LocalFiles, LocalNames
<1> DEFINE blank == [e \in Flows |-> <<>>]
<1>a. blank \in [Flows -> Seq(Nat)] /\ \A e \in Flows : blank[e] = <<>>
  OBVIOUS
<1> HIDE DEF blank
<1>b. \/ written' = written
      \/ OpenLog(t) /\ written' \in [LocalFiles -> [Flows -> Seq(Nat)]]
         /\ \A n \in LocalFiles : written'[n] = IF n = FileName[t] THEN blank ELSE written[n]
  BY <1>2, <1>3, <1>a DEF LocalInv, LocalTypes, blank
<1>4. LocalTypes'
  BY <1>3, <1>b DEF LocalInv, LocalTypes
<1>5. FreshFlows'
  BY <1>1, <1>3, <1>a, <1>b DEF LocalInv, FreshFlows, threadVars
<1>6. FlowsWritten'
  <2> SUFFICES ASSUME NEW f \in Flows, LogsLocally(f)', session'[Home[f]] \in Using PROVE Kept(f)'
    BY DEF FlowsWritten, Using
  <2>1. Home[f] \in Sessions /\ LogsLocally(f)
    BY <1>1, RecvLogsAssumption DEF LogsLocally, Wants
  <2>2. CASE thread[f] = "none"
    BY <1>1, <1>5, <2>2, FreshKept DEF FileModeInv, threadVars
  <2>3. CASE thread[f] # "none"
    <3>1. session[Home[f]] \in Using
      <4>1. session[Home[f]] \notin {"none", "opening", "naming", "connecting"}
        BY <2>1, <2>3 DEF LocalInv, FileModeInv, ModeInv, ThreadsServed, Asking
      <4>2. session[Home[f]] \notin {"leaving", "ended"}
        BY <2>1, SessionsLeave DEF LocalInv, FileModeInv, ModeInv, ThreadTypes, Using
      <4> QED
        BY <2>1, <4>1, <4>2 DEF LocalInv, FileModeInv, ModeInv, ThreadTypes, Using
    <3>2. Kept(f)
      BY <2>1, <3>1 DEF LocalInv, FlowsWritten
    <3>3. written'[LocalFile(Home[f])][f] = written[LocalFile(Home[f])][f]
      <4>1. LocalFile(Home[f]) \in LocalFiles
        BY <2>1 DEF LocalFile, LocalFiles, LocalNames
      <4>2. OpenLog(t) => LocalFile(Home[f]) # FileName[t]
        BY <2>1, <3>1, OpenedUnused DEF LogsLocally
      <4> QED
        BY <1>b, <4>1, <4>2
    <3>4. ~(session'[Home[f]] = "flushed" /\ session[Home[f]] # "flushed" /\ closing[Home[f]] = f)
      <4> SUFFICES ASSUME session'[Home[f]] = "flushed", session[Home[f]] # "flushed" PROVE FALSE
        OBVIOUS
      <4>1. t = Home[f] /\ (SessionSends(t) \/ SessionLogsNothing(t))
        BY <2>1, SessionsFlush DEF LocalInv, FileModeInv, ModeInv, ThreadTypes
      <4>2. logCheck # 0
        BY <2>1, <3>1, LoggedLocally DEF LogsLocally, LocalInv
      <4> QED
        BY <4>1, <4>2 DEF SessionSends, SessionLogsNothing, Logging
    <3> QED
      BY <1>1, <3>2, <3>3, <3>4, BystanderKept DEF threadVars
  <2> QED
    BY <2>2, <2>3
<1> QED
  BY <1>4, <1>5, <1>6

\* The session flushes the buffer of the thread that it closes.
LEMMA SessionWritesKeeps ==
  ASSUME LocalInv, FileModeInv', NEW s \in Sessions, SessionWrites(s)
  PROVE  LocalTypes' /\ FreshFlows' /\ FlowsWritten'
<1> DEFINE e == closing[s]
<1>1. /\ e \in Flows /\ Home[e] = s /\ thread[e] \in Running
      /\ session[s] = "closing"
  BY DEF SessionWrites, LocalInv, FileModeInv, ModeInv, ThreadsServed
<1>2. /\ UNCHANGED <<scenario, closing, thread, taken, infos>> /\ FlushBuffer(e)
      /\ session' = [session EXCEPT ![s] = "flushed"]
  BY DEF SessionWrites, SetSession
<1>3. /\ LocalTypes' /\ FreshFlows'
      /\ \A n \in LocalFiles : \A f \in Flows \ {e} : written'[n][f] = written[n][f]
  BY <1>1, <1>2, FlushTyped DEF Running
<1>4. ASSUME NEW f \in Flows, LogsLocally(f)', session'[Home[f]] \in Using PROVE Kept(f)'
  <2>1. LogsLocally(f) /\ session[Home[f]] \in Using
    BY <1>1, <1>2, <1>4 DEF LogsLocally, Wants, Using, LocalInv, FileModeInv, ModeInv, ThreadTypes
  <2>2. Kept(f)
    BY <2>1 DEF LocalInv, FlowsWritten
  <2>3. CASE f = e
    <3>1. thread[f] = "receiving"
      BY <1>1, <2>2, <2>3 DEF Kept
    <3> QED
      BY <1>2, <2>1, <2>3, <3>1, FlushKept
  <2>4. CASE f # e
    <3>1. LocalFile(Home[f]) \in LocalFiles
      BY RecvLogsAssumption DEF LocalFile, LocalFiles, LocalNames
    <3>2. count'[f] = count[f]
      BY <1>2, <2>4 DEF FlushBuffer, LocalInv, FileModeInv, ModeInv, ThreadTypes
    <3>3. closing[Home[f]] = f => Home[f] # s
      BY <2>4
    <3>4. Home[f] # s => session'[Home[f]] = session[Home[f]]
      BY <1>2 DEF LocalInv, FileModeInv, ModeInv, ThreadTypes
    <3> QED
      BY <1>2, <1>3, <2>2, <2>4, <3>1, <3>2, <3>3, <3>4, BystanderKept
  <2> QED
    BY <2>3, <2>4
<1> QED
  BY <1>3, <1>4 DEF FlowsWritten, Using

\* A cancelled thread leaves an empty buffer.
LEMMA CancelThreadKeeps ==
  ASSUME LocalInv, NEW s \in Sessions, CancelThread(s)
  PROVE  LocalTypes' /\ FreshFlows' /\ FlowsWritten'
<1> DEFINE e == closing[s]
<1>1. /\ e \in Flows /\ Home[e] = s /\ thread[e] \in Running
      /\ session[s] = "flushed"
  BY DEF CancelThread, LocalInv, FileModeInv, ModeInv, ThreadsServed
<1>2. /\ UNCHANGED <<scenario, taken, infos, count, written>>
      /\ thread' = [thread EXCEPT ![e] = "cancelled"]
      /\ closing' = [closing EXCEPT ![s] = NoOne]
      /\ session' = [session EXCEPT ![s] = "ready"]
  BY DEF CancelThread, SetSession, SetThread
<1>3. LocalTypes'
  BY <1>2 DEF LocalInv, LocalTypes, LocalFiles, LocalNames
<1>4. FreshFlows'
  BY <1>1, <1>2 DEF LocalInv, FreshFlows, LocalFiles, LocalNames, FileModeInv, ModeInv,
     ThreadTypes
<1>5. ASSUME NEW f \in Flows, LogsLocally(f)', session'[Home[f]] \in Using PROVE Kept(f)'
  <2>1. LogsLocally(f) /\ session[Home[f]] \in Using
    BY <1>1, <1>2, <1>5 DEF LogsLocally, Wants, Using, LocalInv, FileModeInv, ModeInv, ThreadTypes
  <2>2. Kept(f)
    BY <2>1 DEF LocalInv, FlowsWritten
  <2>3. closing'[Home[f]] # f \/ Home[f] # s
    BY <1>2, RecvLogsAssumption DEF LocalInv, FileModeInv, ModeInv, ThreadTypes
  <2>4. Home[f] # s =>
          closing'[Home[f]] = closing[Home[f]] /\ session'[Home[f]] = session[Home[f]]
    BY <1>2, RecvLogsAssumption DEF LocalInv, FileModeInv, ModeInv, ThreadTypes
  <2>5. CASE f = e
    <3>1. thread[f] = "receiving" /\ count[f] = 0 /\ Home[f] = s
      BY <1>1, <2>2, <2>5 DEF Kept
    <3>2. thread'[f] = "cancelled" /\ InHand(f)' = InHand(f)
      BY <1>2, <2>5, <3>1 DEF InHand, LocalInv, FileModeInv, ModeInv, ThreadTypes
    <3>3. LocalFile(Home[f])' = LocalFile(Home[f])
      BY <1>2 DEF LocalFile
    <3> QED
      BY <1>2, <2>2, <2>3, <3>1, <3>2, <3>3 DEF Kept
  <2>6. CASE f # e
    <3>1. thread'[f] = thread[f]
      BY <1>2, <2>6 DEF LocalInv, FileModeInv, ModeInv, ThreadTypes
    <3> QED
      BY <1>2, <2>2, <2>3, <2>4, <3>1, BystanderKept
  <2> QED
    BY <2>5, <2>6
<1> QED
  BY <1>3, <1>4, <1>5 DEF FlowsWritten, Using

\* Flows start, receive, are closed: the other flows stand by.
LEMMA LocalStepFlow ==
  ASSUME LocalInv, FileModeInv', NEW e \in Flows,
         StartFlow(e) \/ TakePacket(e) \/ CountPacket(e) \/ FlushStarts(e) \/ CloseFlow(e)
  PROVE  LocalTypes' /\ FreshFlows' /\ FlowsWritten'
<1>1. UNCHANGED <<scenario, written>>
  BY DEF StartFlow, TakePacket, CountPacket, FlushStarts, CloseFlow
<1>2. LocalTypes'
  BY <1>1 DEF LocalInv, LocalTypes, LocalFiles, LocalNames
<1>3. \A f \in Flows : /\ thread'[f] = "none" => thread[f] = "none"
                       /\ f # e => /\ thread'[f] = thread[f] /\ taken'[f] = taken[f]
                                   /\ infos'[f] = infos[f] /\ count'[f] = count[f]
  BY DEF StartFlow, TakePacket, CountPacket, FlushStarts, CloseFlow, SetThread, threadVars,
         LocalInv, FileModeInv, ModeInv, ThreadTypes
<1>4. FreshFlows'
  BY <1>1, <1>3 DEF LocalInv, FreshFlows, LocalFiles, LocalNames
<1>5. \A f \in Flows :
        /\ session'[Home[f]] \in Using => session[Home[f]] \in Using
        /\ session'[Home[f]] = "flushed" => session[Home[f]] = "flushed"
        /\ f # e /\ closing'[Home[f]] = f => closing[Home[f]] = f
  BY RecvLogsAssumption DEF StartFlow, TakePacket, CountPacket, FlushStarts, CloseFlow,
     SetSession,
     sessionVars, Using, LocalInv, FileModeInv, ModeInv, ThreadTypes
<1>6. ASSUME NEW f \in Flows, LogsLocally(f)', session'[Home[f]] \in Using PROVE Kept(f)'
  <2>1. LogsLocally(f) /\ session[Home[f]] \in Using /\ Home[f] \in Sessions
    BY <1>1, <1>5, <1>6, RecvLogsAssumption DEF LogsLocally, Wants
  <2>2. Kept(f) /\ logCheck # 0
    BY <2>1, LoggedLocally DEF LocalInv, FlowsWritten, LogsLocally
  <2>3. CASE f # e
    BY <1>1, <1>3, <1>5, <2>2, <2>3, BystanderKept
  <2>4. CASE f = e
    <3>1. LocalFile(Home[f])' = LocalFile(Home[f])
      BY <1>1 DEF LocalFile
    <3>2. CASE StartFlow(f)
      BY <1>1, <2>2, <3>1, <3>2 DEF Kept, StartFlow, SetThread, sessionVars, InHand, LocalInv,
         FileModeInv, ModeInv, ThreadTypes
    <3>3. CASE TakePacket(f)
      <4>1. /\ thread[f] = "receiving" /\ thread'[f] = "recorded"
            /\ UNCHANGED <<count, closing, session>>
            /\ taken'[f] = taken[f] + 1 /\ taken[f] < MaxPackets
            /\ infos'[f] = [infos[f] EXCEPT ![count[f]] = taken[f] + 1]
            /\ closing[Home[f]] # f
        BY <2>2, <3>3 DEF TakePacket, Logging, SetThread, sessionVars, LocalInv, FileModeInv,
           ModeInv,
           ThreadTypes
      <4>2. /\ InHand(f) = count[f] /\ InHand(f)' = count[f] + 1
            /\ count[f] \in Nat /\ taken[f] \in Nat /\ count[f] <= taken[f] /\ MaxPackets \in Nat
            /\ infos[f] \in [Positions -> 0 .. MaxPackets]
        BY <4>1, RecvLogsAssumption DEF InHand, LocalInv, FileModeInv, ModeInv, ThreadTypes,
           CountTaken
      <4>3. taken'[f] - InHand(f)' = taken[f] - InHand(f)
        BY <4>1, <4>2
      <4>4. ASSUME NEW p \in 0 .. InHand(f)' - 1
            PROVE  infos'[f][p] = taken[f] - InHand(f) + p + 1
        <5>1. count[f] \in Positions /\ p \in Positions
          BY <4>1, <4>2 DEF Positions
        <5>2. CASE p = count[f]
          BY <4>1, <4>2, <5>1, <5>2
        <5>3. CASE p # count[f]
          <6>1. p \in 0 .. InHand(f) - 1 /\ infos'[f][p] = infos[f][p]
            BY <4>1, <4>2, <5>1, <5>3
          <6> QED
            BY <2>2, <6>1 DEF Kept
        <5> QED
          BY <5>2, <5>3
      <4> QED
        BY <1>1, <2>2, <3>1, <4>1, <4>3, <4>4 DEF Kept
    <3>4. CASE CountPacket(f)
      <4>1. /\ thread[f] = "recorded" /\ thread'[f] \in {"full", "receiving"}
            /\ count'[f] = count[f] + 1 /\ count[f] \in Nat
            /\ UNCHANGED <<taken, infos, closing, session>>
        BY <3>4 DEF CountPacket, SetThread, sessionVars, LocalInv, FileModeInv, ModeInv,
           ThreadTypes
      <4>2. InHand(f)' = InHand(f)
        BY <4>1 DEF InHand
      <4> QED
        BY <1>1, <2>2, <3>1, <4>1, <4>2 DEF Kept
    <3>5. CASE FlushStarts(f)
      <4>1. /\ thread[f] = "full" /\ thread'[f] = "writing"
            /\ UNCHANGED <<taken, infos, count, closing, session>>
        BY <2>2, <3>5 DEF FlushStarts, SetThread, sessionVars, LocalInv, FileModeInv, ModeInv,
           ThreadTypes
      <4>2. InHand(f)' = InHand(f)
        BY <4>1 DEF InHand
      <4> QED
        BY <1>1, <2>2, <3>1, <4>1, <4>2 DEF Kept
    <3>6. CASE CloseFlow(f)
      <4>1. /\ thread[f] = "receiving" /\ UNCHANGED <<thread, taken, infos, count>>
            /\ session'[Home[f]] = "closing"
        BY <2>1, <3>6 DEF CloseFlow, SetSession, threadVars, LocalInv, FileModeInv, ModeInv,
           ThreadTypes
      <4>2. InHand(f)' = InHand(f)
        BY <4>1 DEF InHand
      <4> QED
        BY <1>1, <2>2, <3>1, <4>1, <4>2 DEF Kept
    <3> QED
      BY <2>4, <3>2, <3>3, <3>4, <3>5, <3>6
  <2> QED
    BY <2>3, <2>4
<1> QED
  BY <1>2, <1>4, <1>6 DEF FlowsWritten, Using

\* A thread empties its buffer into the file.
LEMMA BufferEmptiedKeeps ==
  ASSUME LocalInv, FileModeInv', NEW e \in Flows, WriteBuffer(e) \/ SendBuffer(e)
  PROVE  LocalTypes' /\ FreshFlows' /\ FlowsWritten'
<1>1. /\ UNCHANGED <<scenario, taken, infos, session, closing>>
      /\ thread[e] \in {"writing", "sending"} /\ thread' = [thread EXCEPT ![e] = "receiving"]
  BY DEF WriteBuffer, SendBuffer, SetThread, sessionVars
<1>2. \A f \in Flows \ {e} : count'[f] = count[f] /\ thread'[f] = thread[f]
  BY <1>1 DEF WriteBuffer, SendBuffer, FlushBuffer, LocalInv, FileModeInv, ModeInv, ThreadTypes
<1>3. \A f \in Flows : thread'[f] = "none" => thread[f] = "none"
  BY <1>1 DEF LocalInv, FileModeInv, ModeInv, ThreadTypes
<1>4. /\ LocalTypes' /\ FreshFlows'
      /\ \A n \in LocalFiles : \A f \in Flows \ {e} : written'[n][f] = written[n][f]
  <2>1. CASE WriteBuffer(e)
    BY <1>1, <1>3, <2>1, FlushTyped DEF WriteBuffer
  <2>2. CASE SendBuffer(e)
    <3>1. UNCHANGED written
      BY <2>2 DEF SendBuffer
    <3> QED
      BY <1>3, <3>1 DEF LocalInv, LocalTypes, FreshFlows, LocalFiles, LocalNames
  <2> QED
    BY <2>1, <2>2
<1>5. ASSUME NEW f \in Flows, LogsLocally(f)', session'[Home[f]] \in Using PROVE Kept(f)'
  <2>1. LogsLocally(f) /\ session[Home[f]] \in Using
    BY <1>1, <1>5 DEF LogsLocally, Wants
  <2>2. Kept(f)
    BY <2>1 DEF LocalInv, FlowsWritten
  <2>3. CASE f # e
    <3>1. LocalFile(Home[f]) \in LocalFiles
      BY RecvLogsAssumption DEF LocalFile, LocalFiles, LocalNames
    <3> QED
      BY <1>1, <1>2, <1>4, <2>2, <2>3, <3>1, BystanderKept
  <2>4. CASE f = e
    <3>1. thread[f] = "writing" /\ WriteBuffer(f)
      BY <1>1, <2>2, <2>4 DEF Kept, SendBuffer
    <3>2. thread'[f] = "receiving"
      BY <1>1, <2>4 DEF LocalInv, FileModeInv, ModeInv, ThreadTypes
    <3> QED
      BY <1>1, <2>1, <3>1, <3>2, FlushKept DEF WriteBuffer
  <2> QED
    BY <2>3, <2>4
<1> QED
  BY <1>4, <1>5 DEF FlowsWritten, Using

\* LocalInv is inductive.
LEMMA LocalStep == LocalInv /\ [Next]_vars => LocalInv'
<1> SUFFICES ASSUME LocalInv, [Next]_vars PROVE LocalInv'
  OBVIOUS
<1>1. FileModeInv' /\ ~LateData
  BY FileModesStep DEF LocalInv
<1>2. CASE \/ \E c \in Clients : Connects(c) \/ Manages(c) \/ DatagramLost(c)
           \/ StartGlobalLog \/ Done \/ UNCHANGED vars
  <2>1. UNCHANGED recvLogVars
    BY <1>2 DEF Connects, Manages, DatagramLost, StartGlobalLog, Done, vars
  <2>2. LocalTypes' /\ FreshFlows'
    BY <2>1 DEF recvLogVars, threadVars, LocalInv, LocalTypes, FreshFlows, LocalFiles, LocalNames
  <2>3. ASSUME NEW f \in Flows, LogsLocally(f)', session'[Home[f]] \in Using PROVE Kept(f)'
    <3>1. Kept(f)
      BY <2>1, <2>3 DEF LocalInv, FlowsWritten, LogsLocally, Wants, recvLogVars, sessionVars
    <3> QED
      BY <2>1, <3>1, BystanderKept DEF recvLogVars, sessionVars, threadVars
  <2> QED
    BY <1>1, <2>2, <2>3 DEF LocalInv, FlowsWritten, Using
<1>3. ASSUME NEW s \in Sessions, SessionSteps(s) PROVE LocalInv'
  BY <1>1, <1>3, LocalStepSession, SessionWritesKeeps, CancelThreadKeeps DEF LocalInv
<1>4. ASSUME NEW f \in Flows, StartFlow(f) \/ TakePacket(f) \/ DataThread(f) \/ CloseFlow(f)
      PROVE  LocalInv'
  BY <1>1, <1>4, LocalStepFlow, BufferEmptiedKeeps DEF LocalInv, DataThread
<1> QED
  BY <1>2, <1>3, <1>4 DEF Next

\* No flow has been started and no file holds a record.
LEMMA LocalInitially == Init /\ OneAtATime /\ ~LateData => LocalInv
<1> SUFFICES ASSUME Init, OneAtATime, ~LateData PROVE LocalInv
  OBVIOUS
<1>1. LocalTypes /\ FreshFlows
  BY DEF Init, RecvLogsInit, LocalTypes, FreshFlows, LocalFiles
<1>2. FlowsWritten
  BY RecvLogsAssumption DEF Init, RecvLogsInit, FlowsWritten, Using
<1> QED
  BY <1>1, <1>2, FileModesInitially DEF LocalInv

\* When the thread is gone the buffer is empty, and what is left is in the file.
LEMMA LocalInvKeepsRecords == LocalInv => RecordsKept
<1> SUFFICES ASSUME LocalInv, NEW f \in Flows, LogsLocally(f), thread[f] = "cancelled",
                    session[Home[f]] \in {"ready", "released"}
             PROVE  written[FileOf(Home[f])][f] = UpTo(taken[f])
  BY DEF RecordsKept
<1>1. session[Home[f]] \in Using /\ Home[f] \in Sessions
  BY RecvLogsAssumption DEF Using
<1>2. FileOf(Home[f]) = LocalFile(Home[f])
  BY <1>1 DEF FileOf, LocalFile, LogsLocally, LocalInv, FileModeInv, FilesOwn, FileInv,
              EntriesSound, ModeInv, ModesMean
<1>3. Kept(f)
  BY <1>1 DEF LocalInv, FlowsWritten
<1>4. taken[f] - InHand(f) = taken[f]
  BY <1>3 DEF Kept, InHand, LocalInv, FileModeInv, ModeInv, ThreadTypes
<1> QED
  BY <1>2, <1>3, <1>4 DEF Kept

\* CLOSED_FLOW and flushBuffer: if senders ask one after another and no packet arrives for a
\* flow that is being closed, then a flow that is logged locally and whose thread is gone has
\* each of its packets in its file once and in order, whatever else the sessions of that file
\* do with it, and whether the thread or its session emptied the buffer.
THEOREM LocalRecords == ASSUME OneAtATime, ~LateData PROVE Spec => []RecordsKept
  BY LocalInitially, LocalStep, LocalInvKeepsRecords, PTL DEF Spec

(***************************************************************************)
(* The logs at ITGLog: what is in its files and under way to them          *)
(***************************************************************************)

\* Induction over the numbers of a set.
LEMMA Induction ==
  ASSUME NEW S, 0 \in S, \A n \in Nat : n \in S => n + 1 \in S
  PROVE  \A n \in Nat : n \in S
<1> DEFINE Less    == {ss \in Nat \X Nat : ss[1] < ss[2]}
           Missing == {n \in Nat : n \notin S}
<1> SUFFICES ASSUME Missing # {} PROVE FALSE
  OBVIOUS
<1>1. IsWellFoundedOn(Less, Nat)
  BY NatLessThanWellFounded DEF OpToRel
<1>2. Missing \subseteq Nat
  OBVIOUS
<1>3. PICK n \in Missing : \A m \in Missing : <<m, n>> \notin Less
  <2> HIDE DEF Less, Missing
  <2> QED
    BY <1>1, <1>2, WFMin, Zenon
<1>4. \A m \in Missing : ~(m < n)
  BY <1>2, <1>3
<1>5. n \in Nat /\ n \notin S /\ n # 0
  BY <1>3
<1>6. n - 1 \in Nat /\ n - 1 < n /\ (n - 1) + 1 = n
  BY <1>5
<1>7. n - 1 \in S
  BY <1>4, <1>6
<1> QED
  BY <1>5, <1>6, <1>7

\* The function that RecordsIn defines.
Part(batch, f) == IF batch.source = f THEN batch.numbers ELSE <<>>
Joined(batches, f, n, upTo) ==
  /\ upTo \in [0 .. n -> Seq(Nat)]
  /\ upTo[0] = <<>>
  /\ \A i \in 1 .. n : upTo[i] = upTo[i - 1] \o Part(batches[i], f)

\* What a batch has of a flow.
LEMMA PartIsSeq ==
  ASSUME NEW b \in Batches, NEW f PROVE Part(b, f) \in Seq(Nat)
  BY DEF Part, Batches

\* The sequence of partial results that RecordsIn is defined by exists.
LEMMA JoinedExists ==
  ASSUME NEW s \in Seq(Batches), NEW f, NEW n \in Nat, n <= Len(s)
  PROVE  \E upTo : Joined(s, f, n, upTo)
<1> DEFINE Good == {m \in Nat : m <= Len(s) => \E upTo : Joined(s, f, m, upTo)}
<1>1. 0 \in Good
  <2>1. Joined(s, f, 0, [i \in 0 .. 0 |-> <<>>])
    BY DEF Joined
  <2> QED
    BY <2>1
<1>2. ASSUME NEW m \in Nat, m \in Good PROVE m + 1 \in Good
  <2> SUFFICES ASSUME m + 1 <= Len(s) PROVE \E upTo : Joined(s, f, m + 1, upTo)
    BY <1>2
  <2>1. PICK upTo : Joined(s, f, m, upTo)
    BY <1>2
  <2>2. PICK last \in Seq(Nat) : last = upTo[m] \o Part(s[m + 1], f)
    <3>1. Part(s[m + 1], f) \in Seq(Nat)
      BY PartIsSeq
    <3>2. upTo[m] \in Seq(Nat)
      BY <2>1 DEF Joined
    <3>3. \A a, b \in Seq(Nat) : a \o b \in Seq(Nat)
      OBVIOUS
    <3> QED
      BY <3>1, <3>2, <3>3
  <2> DEFINE next == [i \in 0 .. m + 1 |-> IF i = m + 1 THEN last ELSE upTo[i]]
  <2>3. next \in [0 .. m + 1 -> Seq(Nat)] /\ next[0] = <<>>
    BY <2>1 DEF Joined
  <2>4. ASSUME NEW i \in 1 .. m + 1 PROVE next[i] = next[i - 1] \o Part(s[i], f)
    <3>1. i \in 0 .. m + 1 /\ i - 1 \in 0 .. m + 1 /\ i - 1 # m + 1
      OBVIOUS
    <3>2. next[i] = (IF i = m + 1 THEN last ELSE upTo[i]) /\ next[i - 1] = upTo[i - 1]
      BY <3>1
    <3>3. i # m + 1 => upTo[i] = upTo[i - 1] \o Part(s[i], f)
      <4>1. i # m + 1 => i \in 1 .. m
        OBVIOUS
      <4> QED
        BY <2>1, <4>1 DEF Joined
    <3>4. i = m + 1 => i - 1 = m
      OBVIOUS
    <3> HIDE DEF next
    <3> QED
      BY <2>2, <3>2, <3>3, <3>4
  <2>5. Joined(s, f, m + 1, next)
    BY <2>3, <2>4 DEF Joined
  <2> QED
    BY <2>5
<1>3. n \in Good
  <2> HIDE DEF Good
  <2> QED
    BY <1>1, <1>2, Induction
<1> QED
  BY <1>3

\* They agree as far as the batches do.
LEMMA JoinedAlike ==
  ASSUME NEW s, NEW t, NEW f, NEW m \in Nat, NEW n \in Nat, NEW first, NEW second,
         Joined(s, f, m, first), Joined(t, f, n, second), m <= n, \A i \in 1 .. m : s[i] = t[i]
  PROVE  first[m] = second[m]
<1> DEFINE Same == {k \in Nat : k <= m => first[k] = second[k]}
<1>1. 0 \in Same
  BY DEF Joined
<1>2. ASSUME NEW k \in Nat, k \in Same PROVE k + 1 \in Same
  <2> SUFFICES ASSUME k + 1 <= m PROVE first[k + 1] = second[k + 1]
    BY <1>2
  <2>1. first[k] = second[k]
    BY <1>2
  <2>2. k + 1 \in 1 .. m /\ k + 1 \in 1 .. n /\ (k + 1) - 1 = k
    OBVIOUS
  <2>3. /\ first[k + 1] = first[k] \o Part(s[k + 1], f)
        /\ second[k + 1] = second[k] \o Part(t[k + 1], f)
    BY <2>2 DEF Joined
  <2> QED
    BY <2>1, <2>2, <2>3
<1>3. m \in Same
  <2> HIDE DEF Same
  <2> QED
    BY <1>1, <1>2, Induction
<1> QED
  BY <1>3

\* RecordsIn is the last of them.
LEMMA RecordsInJoined ==
  ASSUME NEW s \in Seq(Batches), NEW f
  PROVE  \E upTo : Joined(s, f, Len(s), upTo) /\ RecordsIn(s, f) = upTo[Len(s)]
<1> DEFINE def == CHOOSE upTo : upTo = [i \in 0 .. Len(s) |->
                    IF i = 0 THEN <<>>
                    ELSE IF s[i].source = f THEN upTo[i - 1] \o s[i].numbers ELSE upTo[i - 1]]
<1>0. Len(s) \in Nat /\ Len(s) <= Len(s)
  OBVIOUS
<1>1. PICK upTo : Joined(s, f, Len(s), upTo)
  BY <1>0, JoinedExists
<1>2. ASSUME NEW i \in 0 .. Len(s)
      PROVE  upTo[i] = IF i = 0 THEN <<>>
                       ELSE IF s[i].source = f THEN upTo[i - 1] \o s[i].numbers ELSE upTo[i - 1]
  <2>1. CASE i = 0
    BY <1>1, <2>1 DEF Joined
  <2>2. CASE i # 0
    <3>1. i \in 1 .. Len(s) /\ i - 1 \in 0 .. Len(s)
      BY <1>0, <2>2
    <3>2. upTo[i] = upTo[i - 1] \o Part(s[i], f) /\ upTo[i - 1] \in Seq(Nat)
      BY <1>1, <3>1 DEF Joined
    <3>3. upTo[i - 1] \o <<>> = upTo[i - 1]
      BY <3>2
    <3> QED
      BY <2>2, <3>2, <3>3 DEF Part
  <2> QED
    BY <2>1, <2>2
<1>3. upTo = [i \in 0 .. Len(s) |-> IF i = 0 THEN <<>>
                ELSE IF s[i].source = f THEN upTo[i - 1] \o s[i].numbers ELSE upTo[i - 1]]
  BY <1>1, <1>2 DEF Joined
<1>4. def = [i \in 0 .. Len(s) |-> IF i = 0 THEN <<>>
               ELSE IF s[i].source = f THEN def[i - 1] \o s[i].numbers ELSE def[i - 1]]
  BY <1>3
<1>5. RecordsIn(s, f) = def[Len(s)]
  BY DEF RecordsIn
<1> HIDE DEF def
<1> DEFINE Same == {m \in Nat : m <= Len(s) => def[m] = upTo[m]}
<1>6. 0 \in Same
  BY <1>1, <1>4 DEF Joined
<1>7. ASSUME NEW m \in Nat, m \in Same PROVE m + 1 \in Same
  <2> SUFFICES ASSUME m + 1 <= Len(s) PROVE def[m + 1] = upTo[m + 1]
    BY <1>7
  <2>1. m + 1 \in 0 .. Len(s) /\ m + 1 # 0 /\ (m + 1) - 1 = m /\ def[m] = upTo[m]
    BY <1>0, <1>7
  <2>2. upTo[m + 1] = IF s[m + 1].source = f THEN upTo[m] \o s[m + 1].numbers ELSE upTo[m]
    BY <1>2, <2>1
  <2>3. def[m + 1] = IF s[m + 1].source = f THEN def[m] \o s[m + 1].numbers ELSE def[m]
    BY <1>4, <2>1
  <2> QED
    BY <2>1, <2>2, <2>3
<1>8. Len(s) \in Same
  <2> HIDE DEF Same
  <2> QED
    BY <1>0, <1>6, <1>7, Induction
<1> QED
  BY <1>0, <1>1, <1>5, <1>8

\* A batch at the end is sent.
LEMMA RecordsInAppend ==
  ASSUME NEW s \in Seq(Batches), NEW b \in Batches, NEW f
  PROVE  /\ RecordsIn(Append(s, b), f) = RecordsIn(s, f) \o Part(b, f)
         /\ RecordsIn(s, f) \in Seq(Nat)
<1> DEFINE t == Append(s, b)
<1>1. /\ t \in Seq(Batches) /\ Len(t) = Len(s) + 1 /\ Len(s) \in Nat
      /\ \A i \in 1 .. Len(s) : s[i] = t[i]
      /\ t[Len(s) + 1] = b
  OBVIOUS
<1> HIDE DEF t
<1>2. PICK first : Joined(s, f, Len(s), first) /\ RecordsIn(s, f) = first[Len(s)]
  BY RecordsInJoined
<1>3. PICK second : Joined(t, f, Len(t), second) /\ RecordsIn(t, f) = second[Len(t)]
  BY <1>1, RecordsInJoined
<1>4. first[Len(s)] = second[Len(s)]
  <2>1. Len(s) <= Len(t) /\ Len(t) \in Nat
    BY <1>1
  <2> QED
    BY <1>1, <1>2, <1>3, <2>1, JoinedAlike
<1>5. second[Len(t)] = second[Len(s)] \o Part(b, f)
  <2>1. Len(t) \in 1 .. Len(t) /\ Len(t) - 1 = Len(s)
    BY <1>1
  <2> QED
    BY <1>1, <1>3, <2>1 DEF Joined
<1>6. first[Len(s)] \in Seq(Nat)
  BY <1>1, <1>2 DEF Joined
<1> QED
  BY <1>2, <1>3, <1>4, <1>5, <1>6 DEF t

\* The first batch is read.
LEMMA RecordsInHead ==
  ASSUME NEW s \in Seq(Batches), s # <<>>, NEW f
  PROVE  RecordsIn(s, f) = Part(Head(s), f) \o RecordsIn(Tail(s), f)
<1> DEFINE t == Tail(s)
           h == Part(Head(s), f)
<1>1. /\ t \in Seq(Batches) /\ Len(s) = Len(t) + 1 /\ Len(t) \in Nat
      /\ \A i \in 1 .. Len(t) : s[i + 1] = t[i]
      /\ s[1] = Head(s) /\ Head(s) \in Batches
  BY HeadTailProperties
<1>2. h \in Seq(Nat) /\ h = Part(s[1], f)
  BY <1>1, PartIsSeq
<1> HIDE DEF t, h
<1>3. PICK first : Joined(s, f, Len(s), first) /\ RecordsIn(s, f) = first[Len(s)]
  BY RecordsInJoined
<1>4. PICK second : Joined(t, f, Len(t), second) /\ RecordsIn(t, f) = second[Len(t)]
  BY <1>1, RecordsInJoined
<1> DEFINE Shifted == {k \in Nat : k <= Len(t) => first[k + 1] = h \o second[k]}
<1>5. 0 \in Shifted
  <2>1. 1 \in 1 .. Len(s) /\ 1 - 1 = 0
    BY <1>1
  <2>2. first[1] = first[0] \o Part(s[1], f) /\ first[0] = <<>> /\ second[0] = <<>>
    BY <1>3, <1>4, <2>1 DEF Joined
  <2>3. first[1] = h \o second[0]
    BY <1>2, <2>2, ConcatEmptySeq
  <2> QED
    BY <2>3
<1>6. ASSUME NEW k \in Nat, k \in Shifted PROVE k + 1 \in Shifted
  <2> SUFFICES ASSUME k + 1 <= Len(t) PROVE first[k + 2] = h \o second[k + 1]
    BY <1>6
  <2>1. k + 2 \in 1 .. Len(s) /\ (k + 2) - 1 = k + 1 /\ k + 1 \in 1 .. Len(t) /\ (k + 1) - 1 = k
    BY <1>1
  <2>2. /\ first[k + 2] = first[k + 1] \o Part(s[k + 2], f)
        /\ second[k + 1] = second[k] \o Part(t[k + 1], f) /\ second[k] \in Seq(Nat)
    <3>1. \A i \in 1 .. Len(s) : first[i] = first[i - 1] \o Part(s[i], f)
      BY <1>3 DEF Joined
    <3>2. \A i \in 1 .. Len(t) : second[i] = second[i - 1] \o Part(t[i], f)
      BY <1>4 DEF Joined
    <3>3. k \in 0 .. Len(t) /\ second \in [0 .. Len(t) -> Seq(Nat)]
      BY <1>4, <2>1 DEF Joined
    <3>4. first[k + 2] = first[k + 1] \o Part(s[k + 2], f)
      BY <2>1, <3>1
    <3>5. second[k + 1] = second[k] \o Part(t[k + 1], f)
      BY <2>1, <3>2
    <3> QED
      BY <3>3, <3>4, <3>5
  <2>3. first[k + 1] = h \o second[k]
    BY <1>6, <2>1
  <2>4. s[k + 2] = t[k + 1] /\ t[k + 1] \in Batches
    BY <1>1, <2>1
  <2>5. PICK p \in Seq(Nat) : p = Part(t[k + 1], f)
    BY <2>4, PartIsSeq
  <2>6. (h \o second[k]) \o p = h \o (second[k] \o p)
    <3>1. PICK d \in Seq(Nat) : d = second[k]
      BY <2>2
    <3>2. PICK x \in Seq(Nat) : x = h
      BY <1>2
    <3>3. (x \o d) \o p = x \o (d \o p)
      BY SMTT(30)
    <3> QED
      BY <3>1, <3>2, <3>3
  <2> QED
    BY <2>2, <2>3, <2>4, <2>5, <2>6
<1>7. Len(t) \in Shifted
  <2> HIDE DEF Shifted
  <2> QED
    BY <1>1, <1>5, <1>6, Induction
<1>8. first[Len(t) + 1] = h \o second[Len(t)]
  BY <1>1, <1>7
<1> QED
  BY <1>1, <1>3, <1>4, <1>8 DEF t, h
\* No sender wants a local log where ITGLog has the logs.
Unmixed ==
  \A sc \in Scenarios :
    sc.started = "-L" \/ (\E s \in Sessions : sc.wants[s] = "remote")
      => sc.started # "-l" /\ \A s \in Sessions : sc.wants[s] # "local"

\* A client has what it asked for: one client asks at a time, so that signalingLog is its
\* request until the name has been copied.
RequestsOwn ==
  \A c \in Clients :
    /\ logConn[c] \in {"greeted", "asked"} =>
         (c = Global /\ scenario.started = "-L") \/ (c \in Sessions /\ session[c] = "connecting")
    /\ manager[c] \in {"greeting", "informed", "named"} => logConn[c] \in {"greeted", "asked"}
    /\ logConn[c] = "open" => manager[c] \in {"listening", "receiving"}
    /\ manager[c] = "informed" => signalingLog = LogName[c]
    /\ manager[c] = "named" => serverName[c] = LogName[c]
    /\ manager[c] \in {"listening", "receiving", "closing"} =>
         serverTable[serverSlot[c]].name = LogName[c]

\* A session has a connection once it is open, and keeps it.
SocketsOpen ==
  \A s \in Sessions :
    /\ logSock[s] # NoOne => logRemote # 0 /\ logConn[logSock[s]] \in {"open", "stopped"}
    /\ session[s] = "none" => logSock[s] = NoOne
    /\ session[s] = "connecting" => logSock[s] = NoOne

\* Records are only on the connection of their session, and there are none of a flow that
\* has not been started.
RecordsOwn ==
  \A f \in Flows :
    /\ \A c \in Clients : thread[f] = "none" \/ c # logSock[Home[f]] => UnderWay(c, f) = <<>>
    /\ thread[f] = "none" => \A n \in Names : logged[n][f] = <<>>

\* What ITGLog has of a flow and what is under way are the packets that are in no buffer ...
RisingTo(s, m) ==
  /\ \A i, j \in DOMAIN s : i < j => s[i] < s[j]
  /\ \A i \in DOMAIN s : s[i] <= m
Gone(f)    == taken[f] - InBuffer(f)
Told(c, f) == logged[LogName[c]][f] \o UnderWay(c, f)
ToldRight(f) ==
  LET c == logSock[Home[f]] IN
  /\ LogProto[c] = "TCP" /\ logConn[c] = "open" => Told(c, f) = UpTo(Gone(f))
  /\ LogProto[c] = "UDP" => RisingTo(Told(c, f), Gone(f))
\* ... the buffer has the others, and a thread that is being closed does nothing else.
BufferRight(f) ==
  /\ \A p \in 0 .. InBuffer(f) - 1 : infos[f][p] = Gone(f) + p + 1
  /\ closing[Home[f]] = f => thread[f] = "receiving"
FlowsSent ==
  \A f \in Flows : LogsRemotely(f) /\ logSock[Home[f]] # NoOne => ToldRight(f) /\ BufferRight(f)

RemoteInv ==
  /\ ServerInv /\ FileInv /\ ModeInv /\ DataTypes /\ ~LateData
  /\ RequestsOwn /\ SocketsOpen /\ RecordsOwn /\ FlowsSent

\* One client asks at a time: the one of option -L, or a session.
LEMMA OneRequest ==
  ASSUME FileInv, ModeInv, RequestsOwn, NEW c \in Clients, NEW d \in Clients,
         logConn[c] \in {"greeted", "asked"}, logConn[d] \in {"greeted", "asked"}
  PROVE  c = d
<1>1. \A e \in {c, d} : \/ e = Global /\ scenario.started = "-L"
                        \/ e \in Sessions /\ session[e] = "connecting" /\ scenario.started # "-L"
  BY DEF RequestsOwn, ModeInv, SessionsAsk
<1> QED
  BY <1>1 DEF FileInv, OneAsks, Asking

\* A manager gets the file of its client, and no user of an entry sees it renamed.
LEMMA AllowLogFileOwn ==
  ASSUME ServerInv, RequestsOwn, NEW c \in Clients, AllowLogFile(c), UNCHANGED recvLogVars
  PROVE  RequestsOwn'
<1> DEFINE n == serverName[c]
<1>1. n \in Names /\ manager[c] = "named" /\ n = LogName[c]
  BY DEF ServerInv, RequestsNamed, AllowLogFile, RequestsOwn
<1>2. logConn[c] \in {"greeted", "asked"}
  BY <1>1 DEF RequestsOwn
<1>3. /\ manager' = [manager EXCEPT ![c] = "listening"]
      /\ UNCHANGED <<logConn, signalingLog, serverName, scenario, session>>
  BY DEF AllowLogFile, SetManager, recvLogVars, sessionVars
<1>4. PICK i, entry :
        /\ i \in Slots /\ UseSlot(c, i, entry) /\ entry.name = n
        /\ serverTable[i].name = n \/ ServerUsers(i) = {}
  <2>1. CASE Sharing(n) # {}
    <3>1. PICK i \in Sharing(n) : UseSlot(c, i, [name |-> n, num |-> serverTable[i].num + 1])
      BY <2>1 DEF AllowLogFile, ShareServerFile
    <3> QED
      BY <3>1 DEF Sharing
  <2>2. CASE Sharing(n) = {}
    <3>1. FirstSlot \in Slots /\ serverTable[FirstSlot].num = -1
      BY <1>1, <2>2, FirstSlotIsFree
    <3>2. ServerUsers(FirstSlot) = {}
      BY <3>1, UsersFinite, FS_CardinalityType DEF ServerInv, ServerUsersCounted
    <3> QED
      BY <2>2, <3>1, <3>2 DEF AllowLogFile, OpenServerFile
  <2> QED
    BY <2>1, <2>2
<1>5. /\ serverTable' = [serverTable EXCEPT ![i] = entry]
      /\ serverSlot' = [serverSlot EXCEPT ![c] = i]
      /\ serverTable'[i] = entry /\ serverSlot'[c] = i
      /\ \A j \in Slots \ {i} : serverTable'[j] = serverTable[j]
      /\ \A d \in Clients \ {c} : serverSlot'[d] = serverSlot[d] /\ manager'[d] = manager[d]
  BY <1>3, <1>4 DEF UseSlot, ServerInv, ServerTypes
<1>6. ASSUME NEW d \in Clients, manager'[d] \in {"listening", "receiving", "closing"}
      PROVE  serverTable'[serverSlot'[d]].name = LogName[d]
  <2>1. CASE d = c
    BY <1>1, <1>4, <1>5, <2>1
  <2>2. CASE d # c
    <3>1. d \in ServerUsers(serverSlot[d]) /\ serverSlot[d] \in Slots
      BY <1>5, <1>6, <2>2 DEF ServerUsers, ServerInv, RequestsNamed
    <3>2. serverTable[serverSlot[d]].name = LogName[d]
      BY <1>5, <1>6, <2>2 DEF RequestsOwn
    <3> QED
      BY <1>4, <1>5, <2>2, <3>1, <3>2
  <2> QED
    BY <2>1, <2>2
<1>7. manager'[c] = "listening" /\ logConn'[c] # "open"
  BY <1>2, <1>3 DEF ServerInv, ServerTypes
<1> HIDE DEF n
<1> QED
  BY <1>2, <1>3, <1>5, <1>6, <1>7 DEF RequestsOwn

\* The last user of an entry frees it.
LEMMA CloseServerFileOwn ==
  ASSUME ServerInv, RequestsOwn, NEW c \in Clients, CloseServerFile(c), UNCHANGED recvLogVars
  PROVE  RequestsOwn'
<1> DEFINE i == serverSlot[c]
<1>1. /\ manager[c] = "closing" /\ manager' = [manager EXCEPT ![c] = "ended"]
      /\ UNCHANGED <<logConn, signalingLog, serverName, serverSlot, scenario, session>>
  BY DEF CloseServerFile, SetManager, recvLogVars, sessionVars
<1>2. i \in Slots /\ c \in ServerUsers(i) /\ serverTable[i].num = Cardinality(ServerUsers(i))
  BY <1>1 DEF ServerInv, RequestsNamed, ServerUsers, ServerUsersCounted
<1>3. \A d \in Clients : manager'[d] = IF d = c THEN "ended" ELSE manager[d]
  BY <1>1 DEF ServerInv, ServerTypes
<1>4. ASSUME NEW d \in Clients, d # c, manager[d] \in {"listening", "receiving", "closing"}
      PROVE  serverTable'[serverSlot[d]].name = serverTable[serverSlot[d]].name
  <2>1. serverSlot[d] \in Slots
    BY <1>4 DEF ServerInv, RequestsNamed
  <2>2. CASE serverSlot[d] = i
    <3>1. d \in ServerUsers(i) \ {c}
      BY <1>4, <2>2 DEF ServerUsers
    <3>2. serverTable[i].num # 1
      <4>1. IsFiniteSet(ServerUsers(i))
        BY UsersFinite
      <4>2. Cardinality(ServerUsers(i)) # 1
        BY <1>2, <3>1, <4>1, CountShrinks
      <4> QED
        BY <1>2, <4>2
    <3>3. serverTable'[i].name = serverTable[i].name
      BY <1>2, <3>2 DEF CloseServerFile, ServerInv, ServerTypes
    <3> QED
      BY <2>2, <3>3
  <2>3. CASE serverSlot[d] # i
    BY <2>1, <2>3 DEF CloseServerFile, ServerInv, ServerTypes
  <2> QED
    BY <2>2, <2>3
<1> QED
  BY <1>1, <1>3, <1>4 DEF RequestsOwn

\* The other steps of ITGLog.
LEMMA ServerOwn ==
  ASSUME ServerInv, FileInv, ModeInv, RequestsOwn, NEW c \in Clients,
         Connects(c) \/ Manages(c) \/ DatagramLost(c)
  PROVE  RequestsOwn'
<1> USE DEF SetManager, SetConn, recvLogVars, sessionVars, ServerInv, ServerTypes
<1>1. CASE Connects(c)
  <2>1. /\ IF c = Global THEN scenario.started = "-L"
           ELSE c \in Sessions /\ session[c] = "connecting"
        /\ manager' = [manager EXCEPT ![c] = "greeting"]
        /\ logConn' = [logConn EXCEPT ![c] = "greeted"]
        /\ UNCHANGED <<signalingLog, serverName, serverSlot, serverTable, scenario, session>>
    BY <1>1, RecvLogsAssumption DEF Connects, AcceptLog
  <2> QED
    BY <2>1 DEF RequestsOwn
<1>2. CASE ReceiveInfo(c) /\ UNCHANGED recvLogVars
  <2>1. /\ manager' = [manager EXCEPT ![c] = "informed"] /\ logConn[c] = "asked"
        /\ signalingLog' = LogName[c] /\ manager[c] = "greeting"
        /\ UNCHANGED <<logConn, serverName, serverSlot, serverTable, scenario, session>>
    BY <1>2 DEF ReceiveInfo
  <2>2. \A d \in Clients : manager[d] = "informed" => d = c
    BY <2>1, OneRequest DEF RequestsOwn
  <2> QED
    BY <2>1, <2>2 DEF RequestsOwn
<1>3. CASE CopyInfo(c) /\ UNCHANGED recvLogVars
  <2>1. /\ manager' = [manager EXCEPT ![c] = "named"] /\ manager[c] = "informed"
        /\ serverName' = [serverName EXCEPT ![c] = signalingLog]
        /\ UNCHANGED <<logConn, signalingLog, serverSlot, serverTable, scenario, session>>
    BY <1>3 DEF CopyInfo
  <2> QED
    BY <2>1 DEF RequestsOwn
<1>4. CASE (AcceptData(c) \/ EndLog(c)) /\ UNCHANGED recvLogVars
  <2>1. PICK pc \in {"receiving", "closing"} :
          /\ manager' = [manager EXCEPT ![c] = pc]
          /\ manager[c] \in {"listening", "receiving"}
          /\ pc = "closing" => logConn[c] = "stopped"
          /\ UNCHANGED <<logConn, signalingLog, serverName, serverSlot, serverTable,
                        scenario, session>>
    BY <1>4 DEF AcceptData, EndLog, Quiet
  <2> QED
    BY <2>1 DEF RequestsOwn
<1>5. CASE (ReadStream(c) \/ ReadDatagram(c) \/ LoseDatagram(c)) /\ UNCHANGED recvLogVars
  <2>1. UNCHANGED <<logConn, manager, signalingLog, serverName, serverSlot, serverTable, scenario,
                    session>>
    BY <1>5 DEF ReadStream, ReadDatagram, LoseDatagram
  <2> QED
    BY <2>1 DEF RequestsOwn
<1> QED
  BY <1>1, <1>2, <1>3, <1>4, <1>5, AllowLogFileOwn, CloseServerFileOwn
     DEF Manages, ChannelManager, DatagramLost

\* What a step of ITGRecv does to the connections: one of them asks, is opened or stopped.
ConnectionMoves ==
  \/ UNCHANGED logConn
  \/ \E c \in Clients :
       \/ logConn[c] = "greeted" /\ logConn' = [logConn EXCEPT ![c] = "asked"]
       \/ /\ logConn[c] = "asked" /\ logConn' = [logConn EXCEPT ![c] = "open"]
          /\ manager[c] \in {"listening", "receiving"}
       \/ logConn[c] = "open" /\ logConn' = [logConn EXCEPT ![c] = "stopped"]

\* A session is "connecting" until its connection is open.
LEMMA SessionConnects ==
  ASSUME ServerInv, ModeInv, SocketsOpen, NEW s \in Sessions, SessionSteps(s)
  PROVE  /\ ConnectionMoves
         /\ session[s] = "connecting" /\ session'[s] # "connecting" =>
              logConn[s] = "asked" /\ logConn'[s] = "open"
<1> USE DEF SetSession, SetConn, serverVars, ServerInv, ServerTypes, ModeInv, ThreadTypes
<1>0. s \in Clients
  BY RecvLogsAssumption
<1>1. CASE SessionStarts(s) \/ ShareLog(s) \/ OpenLog(s) \/ NameLog(s)
  BY <1>1 DEF SessionStarts, ShareLog, OpenLog, NameLog, Granted, ConnectionMoves
<1>2. CASE AskRemoteLog(s)
  BY <1>0, <1>2 DEF AskRemoteLog, AskForLog, ConnectionMoves, recvLogVars, sessionVars
<1>3. CASE OpenRemoteLog(s)
  BY <1>0, <1>3 DEF OpenRemoteLog, ConnectData, ConnectionMoves
<1>4. CASE SessionWrites(s) \/ SessionSends(s) \/ SessionLogsNothing(s) \/ CancelThread(s)
  BY <1>4 DEF SessionWrites, SessionSends, SessionLogsNothing, CancelThread, ServerElse,
     ConnectionMoves
<1>5. CASE Release(s) \/ CloseFileLog(s)
  BY <1>5 DEF Release, CloseFileLog, ConnectionMoves
<1>6. CASE CloseRemoteLog(s)
  <2>1. /\ session[s] = "leaving"
        /\ UNCHANGED logConn \/ (logSock[s] # NoOne /\ StopLog(logSock[s]))
    BY <1>6 DEF CloseRemoteLog
  <2> QED
    BY <2>1 DEF StopLog, ConnectionMoves
<1> QED
  BY <1>1, <1>2, <1>3, <1>4, <1>5, <1>6 DEF SessionSteps

\* Steps of ITGRecv leave the requests to ITGLog as they are.
LEMMA ReceiverOwn ==
  ASSUME ServerInv, RequestsOwn, ConnectionMoves, UNCHANGED tableVars, UNCHANGED scenario,
         \A s \in Sessions : session[s] = "connecting" =>
           session'[s] = "connecting" \/ logConn'[s] = "open"
  PROVE  RequestsOwn'
<1> USE DEF tableVars, ServerInv, ServerTypes
<1>1. CASE UNCHANGED logConn
  BY <1>1 DEF RequestsOwn
<1>2. ASSUME NEW c \in Clients, logConn[c] = "greeted", logConn' = [logConn EXCEPT ![c] = "asked"]
      PROVE  RequestsOwn'
  BY <1>2 DEF RequestsOwn
<1>3. ASSUME NEW c \in Clients, logConn[c] = "asked", logConn' = [logConn EXCEPT ![c] = "open"],
             manager[c] \in {"listening", "receiving"}
      PROVE  RequestsOwn'
  BY <1>3 DEF RequestsOwn
<1>4. ASSUME NEW c \in Clients, logConn[c] = "open", logConn' = [logConn EXCEPT ![c] = "stopped"]
      PROVE  RequestsOwn'
  BY <1>4 DEF RequestsOwn
<1> QED
  BY <1>1, <1>2, <1>3, <1>4 DEF ConnectionMoves

\* Every step leaves every client with its own request.
LEMMA RequestsStep ==
  ASSUME ServerInv, FileInv, ModeInv, RequestsOwn, SocketsOpen, [Next]_vars
  PROVE  RequestsOwn'
<1>1. ASSUME NEW c \in Clients, Connects(c) \/ Manages(c) \/ DatagramLost(c) PROVE RequestsOwn'
  BY <1>1, ServerOwn
<1>2. CASE StartGlobalLog
  <2>1. ConnectionMoves /\ UNCHANGED tableVars /\ UNCHANGED <<scenario, session>>
    BY <1>2, RecvLogsAssumption DEF StartGlobalLog, AskForLog, ConnectData, SetConn,
       ConnectionMoves,
       tableVars, recvLogVars, sessionVars
  <2> QED
    BY <2>1, ReceiverOwn
<1>3. ASSUME NEW s \in Sessions, SessionSteps(s) PROVE RequestsOwn'
  <2>1. ClientStep /\ ConnectionMoves
    BY <1>3, SessionIsClient, SessionConnects
  <2>2. session[s] = "connecting" => session'[s] = "connecting" \/ logConn'[s] = "open"
    BY <1>3, SessionConnects
  <2>3. \A t \in Sessions \ {s} : session'[t] = session[t]
    BY <1>3, SessionMovesAlone DEF ModeInv, ThreadTypes
  <2>4. UNCHANGED scenario
    BY <1>3 DEF SessionSteps, SessionStarts, ShareLog, OpenLog, NameLog, Granted, AskRemoteLog,
       OpenRemoteLog, SessionWrites, SessionSends, SessionLogsNothing, CancelThread, Release,
       CloseFileLog, CloseRemoteLog, recvLogVars
  <2> QED
    BY <2>1, <2>2, <2>3, <2>4, ReceiverOwn DEF ClientStep
<1>4. ASSUME NEW f \in Flows, StartFlow(f) \/ TakePacket(f) \/ DataThread(f) \/ CloseFlow(f)
      PROVE  RequestsOwn'
  <2>1. ClientStep
    BY <1>4, FlowIsClient
  <2>2. ConnectionMoves /\ UNCHANGED scenario
    BY <1>4 DEF ConnectionMoves, StartFlow, TakePacket, DataThread, CountPacket, FlushStarts,
       WriteBuffer,
       SendBuffer, CloseFlow, serverVars, ServerElse
  <2>3. \A s \in Sessions : session[s] = "connecting" => session'[s] = "connecting"
    BY <1>4, RecvLogsAssumption DEF StartFlow, TakePacket, DataThread, CountPacket, FlushStarts,
       WriteBuffer, SendBuffer, CloseFlow, SetSession, sessionVars, ModeInv, ThreadTypes
  <2> QED
    BY <2>1, <2>2, <2>3, ReceiverOwn DEF ClientStep
<1>5. CASE Done \/ UNCHANGED vars
  <2>1. ConnectionMoves /\ UNCHANGED tableVars /\ UNCHANGED <<scenario, session>>
    BY <1>5 DEF Done, vars, serverVars, ConnectionMoves, tableVars, recvLogVars, sessionVars
  <2> QED
    BY <2>1, ReceiverOwn
<1> QED
  BY <1>1, <1>2, <1>3, <1>4, <1>5 DEF Next

\* A connection that is open stays so until its session stops it.
LEMMA SocketsKept ==
  ASSUME ServerInv, SocketsOpen, ModeInv,
         UNCHANGED <<logSock, logRemote>>,
         \A c \in Clients : logConn[c] \in {"open", "stopped"} => logConn'[c] \in {"open", "stopped"},
         \A s \in Sessions : session'[s] \in {"none", "connecting"} =>
           session[s] \in {"none", "connecting"}
  PROVE  SocketsOpen'
<1>1. \A s \in Sessions : logSock[s] \in Clients \cup {NoOne}
  BY DEF ModeInv, ThreadTypes
<1> QED
  BY <1>1 DEF SocketsOpen

\* Every step leaves the sessions their connections.
LEMMA SocketsStep ==
  ASSUME ServerInv, ModeInv, SocketsOpen, [Next]_vars
  PROVE  SocketsOpen'
<1>1. ASSUME NEW c \in Clients, Connects(c) \/ Manages(c) \/ DatagramLost(c) PROVE SocketsOpen'
  <2>1. UNCHANGED <<logSock, logRemote, session>>
    BY <1>1 DEF Connects, Manages, DatagramLost, recvLogVars, sessionVars
  <2>2. \/ logConn' = logConn
        \/ logConn[c] = "none" /\ logConn' = [logConn EXCEPT ![c] = "greeted"]
    BY <1>1 DEF Connects, Manages, DatagramLost, AcceptLog, SetConn, ChannelManager, ReceiveInfo,
       CopyInfo,
       AllowLogFile, AcceptData, ReadStream, ReadDatagram, EndLog, CloseServerFile, LoseDatagram
  <2> QED
    BY <2>1, <2>2, SocketsKept DEF ServerInv, ServerTypes
<1>2. CASE StartGlobalLog
  BY <1>2, SocketsKept, RecvLogsAssumption DEF StartGlobalLog, AskForLog, ConnectData, SetConn,
     recvLogVars,
     sessionVars, ServerInv, ServerTypes
<1>3. ASSUME NEW s \in Sessions, SessionStarts(s) PROVE SocketsOpen'
  <2>1. PICK pc \in {"ready", "opening", "connecting"} :
          /\ session' = [session EXCEPT ![s] = pc] /\ session[s] = "none"
          /\ logSock' = [logSock EXCEPT ![s] = IF logRemote = 1 THEN Global ELSE @]
          /\ pc = "connecting" => logRemote # 1
          /\ scenario.started = "-L" => logConn[Global] = "open"
          /\ UNCHANGED <<logRemote, logConn>>
    <3>1. Wants(s) \in {"none", "local", "remote"}
      BY RecvLogsAssumption DEF Wants, ModeInv, ThreadTypes
    <3> QED
      BY <1>3, <3>1 DEF SessionStarts, SetSession, serverVars
  <2>2. logRemote = 1 => logConn[Global] = "open"
    BY <2>1 DEF ModeInv, ModesMean
  <2>3. \A t \in Sessions : logSock'[t] = IF t = s /\ logRemote = 1 THEN Global ELSE logSock[t]
    BY <2>1 DEF ModeInv, ThreadTypes
  <2>4. \A t \in Sessions : session'[t] = IF t = s THEN pc ELSE session[t]
    BY <2>1 DEF ModeInv, ThreadTypes
  <2> QED
    BY <2>1, <2>2, <2>3, <2>4 DEF SocketsOpen
<1>4. ASSUME NEW s \in Sessions, OpenRemoteLog(s) PROVE SocketsOpen'
  <2>1. /\ session' = [session EXCEPT ![s] = "ready"] /\ logSock' = [logSock EXCEPT ![s] = s]
        /\ logRemote' = 2 /\ logConn' = [logConn EXCEPT ![s] = "open"] /\ s \in Clients
    BY <1>4, RecvLogsAssumption DEF OpenRemoteLog, ConnectData, SetSession, SetConn
  <2>2. \A t \in Sessions : logSock'[t] = IF t = s THEN s ELSE logSock[t]
    BY <2>1 DEF ModeInv, ThreadTypes
  <2>3. \A t \in Sessions : session'[t] = IF t = s THEN "ready" ELSE session[t]
    BY <2>1 DEF ModeInv, ThreadTypes
  <2>4. \A c \in Clients : logConn'[c] = IF c = s THEN "open" ELSE logConn[c]
    BY <2>1 DEF ServerInv, ServerTypes
  <2>5. \A t \in Sessions : logSock[t] \in Clients \cup {NoOne}
    BY DEF ModeInv, ThreadTypes
  <2> QED
    BY <2>1, <2>2, <2>3, <2>4, <2>5 DEF SocketsOpen
<1>5. ASSUME NEW s \in Sessions, SessionSteps(s), ~SessionStarts(s), ~OpenRemoteLog(s)
      PROVE  SocketsOpen'
  <2>1. UNCHANGED <<logSock, logRemote>>
    BY <1>5 DEF SessionSteps, ShareLog, OpenLog, NameLog, Granted, AskRemoteLog,
       SessionWrites, SessionSends, SessionLogsNothing, CancelThread, Release,
       CloseFileLog, CloseRemoteLog, recvLogVars, sessionVars
  <2>2. ConnectionMoves
    BY <1>5, SessionConnects
  <2>3. \A t \in Sessions :
          session'[t] \in {"none", "connecting"} => session[t] \in {"none", "connecting"}
    <3>1. session' = session \/ \E pc \in {"naming", "ready", "flushed", "released", "leaving", "ended"} :
            session' = [session EXCEPT ![s] = pc]
      BY <1>5 DEF SessionSteps, ShareLog, OpenLog, NameLog, Granted, AskRemoteLog,
         SessionWrites, SessionSends, SessionLogsNothing, CancelThread, Release,
         CloseFileLog, CloseRemoteLog, recvLogVars, sessionVars, SetSession
    <3> QED
      BY <3>1 DEF ModeInv, ThreadTypes
  <2>4. \A c \in Clients : logConn[c] \in {"open", "stopped"} => logConn'[c] \in {"open", "stopped"}
    BY <2>2 DEF ConnectionMoves, ServerInv, ServerTypes
  <2> QED
    BY <2>1, <2>3, <2>4, SocketsKept
<1>6. ASSUME NEW f \in Flows, StartFlow(f) \/ TakePacket(f) \/ DataThread(f) \/ CloseFlow(f)
      PROVE  SocketsOpen'
  <2>1. UNCHANGED <<logSock, logRemote, logConn>>
    BY <1>6 DEF StartFlow, TakePacket, DataThread, CountPacket, FlushStarts, WriteBuffer,
       SendBuffer, CloseFlow, sessionVars, serverVars, ServerElse
  <2>2. session' = session \/ session' = [session EXCEPT ![Home[f]] = "closing"]
    BY <1>6 DEF StartFlow, TakePacket, DataThread, CountPacket, FlushStarts, WriteBuffer,
       SendBuffer, CloseFlow, sessionVars, SetSession
  <2> QED
    BY <2>1, <2>2, SocketsKept DEF ModeInv, ThreadTypes
<1>7. CASE Done \/ UNCHANGED vars
  BY <1>7, SocketsKept DEF Done, vars, recvLogVars, sessionVars, serverVars
<1> QED
  BY <1>1, <1>2, <1>3, <1>4, <1>5, <1>6, <1>7 DEF Next, SessionSteps

\* The records of a flow are packet numbers.
LEMMA RecordsTyped ==
  /\ \A s \in Seq(Batches) : \A f : RecordsIn(s, f) \in Seq(Nat)
  /\ \A f : RecordsIn(<<>>, f) = <<>>
<1>1. ASSUME NEW s \in Seq(Batches), NEW f
      PROVE  RecordsIn(s, f) \in Seq(Nat) /\ (s = <<>> => RecordsIn(s, f) = <<>>)
  <2>1. PICK upTo : Joined(s, f, Len(s), upTo) /\ RecordsIn(s, f) = upTo[Len(s)]
    BY RecordsInJoined
  <2>2. Len(s) \in Nat /\ (s = <<>> => Len(s) = 0)
    OBVIOUS
  <2> QED
    BY <2>1, <2>2 DEF Joined
<1>2. <<>> \in Seq(Batches)
  OBVIOUS
<1> QED
  BY <1>1, <1>2

\* Sequences of numbers, in short.
LEMMA Regrouped ==
  ASSUME NEW a \in Seq(Nat), NEW b \in Seq(Nat), NEW c \in Seq(Nat)
  PROVE  (a \o b) \o c = a \o (b \o c)
  BY SMTT(30)

\* Where the elements of three sequences in a row are.
LEMMA ThreeParts ==
  ASSUME NEW a \in Seq(Nat), NEW b \in Seq(Nat), NEW c \in Seq(Nat)
  PROVE  LET s == (a \o b) \o c IN
         /\ DOMAIN s = 1 .. Len(a) + Len(b) + Len(c)
         /\ \A i \in DOMAIN s :
              s[i] = IF i <= Len(a) THEN a[i]
                     ELSE IF i <= Len(a) + Len(b) THEN b[i - Len(a)]
                     ELSE c[i - (Len(a) + Len(b))]
<1> DEFINE ab == a \o b
<1>1. /\ ab \in Seq(Nat) /\ Len(ab) = Len(a) + Len(b)
      /\ \A i \in 1 .. Len(a) + Len(b) : ab[i] = IF i <= Len(a) THEN a[i] ELSE b[i - Len(a)]
  BY ConcatProperties
<1> HIDE DEF ab
<1>2. /\ DOMAIN (ab \o c) = 1 .. Len(ab) + Len(c)
      /\ \A i \in 1 .. Len(ab) + Len(c) :
           (ab \o c)[i] = IF i <= Len(ab) THEN ab[i] ELSE c[i - Len(ab)]
  OBVIOUS
<1>3. ASSUME NEW i \in 1 .. Len(ab) + Len(c)
      PROVE  (ab \o c)[i] = IF i <= Len(a) THEN a[i]
                            ELSE IF i <= Len(a) + Len(b) THEN b[i - Len(a)]
                            ELSE c[i - (Len(a) + Len(b))]
  <2>1. (ab \o c)[i] = IF i <= Len(ab) THEN ab[i] ELSE c[i - Len(ab)]
    BY <1>2
  <2>2. i <= Len(ab) => i \in 1 .. Len(ab)
    BY <1>1
  <2>3. i <= Len(a) => i <= Len(ab)
    BY <1>1
  <2> QED
    BY <1>1, <2>1, <2>2, <2>3
<1> QED
  BY <1>1, <1>2, <1>3 DEF ab

\* A sequence cut in two.
LEMMA Pieces ==
  ASSUME NEW m \in Seq(Nat), NEW k \in 0 .. Len(m)
  PROVE  /\ SubSeq(m, 1, k) \in Seq(Nat) /\ Len(SubSeq(m, 1, k)) = k
         /\ \A i \in 1 .. k : SubSeq(m, 1, k)[i] = m[i]
         /\ SubSeq(m, k + 1, Len(m)) \in Seq(Nat)
         /\ SubSeq(m, 1, k) \o SubSeq(m, k + 1, Len(m)) = m
         /\ SubSeq(m, 1, Len(m)) = m
<1>1. Len(m) \in Nat /\ k \in Nat /\ k <= Len(m)
  OBVIOUS
<1>2. \A i \in 1 .. Len(m) : m[i] \in Nat
  OBVIOUS
<1>3. 1 .. k \subseteq 1 .. Len(m) /\ k + 1 .. Len(m) \subseteq 1 .. Len(m)
  BY <1>1
<1>4. \A i \in 1 .. k : 1 + i - 1 = i
  OBVIOUS
<1>5. (IF 1 <= k THEN k - 1 + 1 ELSE 0) = k /\ k - 1 + 1 = k /\ k \in Int
  BY <1>1
<1>6. /\ SubSeq(m, 1, k) \in Seq(Nat) /\ Len(SubSeq(m, 1, k)) = k
      /\ \A i \in 1 .. k : SubSeq(m, 1, k)[i] = m[i]
  <2>1. \A i \in 1 .. k : m[i] \in Nat
    BY <1>2, <1>3
  <2>2. /\ SubSeq(m, 1, k) \in Seq(Nat)
        /\ Len(SubSeq(m, 1, k)) = IF 1 <= k THEN k - 1 + 1 ELSE 0
        /\ \A i \in 1 .. k - 1 + 1 : SubSeq(m, 1, k)[i] = m[1 + i - 1]
    BY <1>5, <2>1, SubSeqProperties
  <2> QED
    BY <1>4, <1>5, <2>2
<1>7. SubSeq(m, k + 1, Len(m)) \in Seq(Nat)
  BY <1>1, <1>2, <1>3, SubSeqProperties
<1>8. SubSeq(m, 1, Len(m)) = m
  OBVIOUS
<1>9. SubSeq(m, 1, k) \o SubSeq(m, k + 1, Len(m)) = SubSeq(m, 1, Len(m))
  <2>1. 1 \in 1 .. Len(m) + 1 /\ k \in 1 - 1 .. Len(m) /\ Len(m) \in k .. Len(m)
    BY <1>1
  <2> QED
    BY <2>1, ConcatAdjacentSubSeq
<1> QED
  BY <1>6, <1>7, <1>8, <1>9

\* The first k records of the first batch, those of f among them, and what is left of it.
FirstPart(s, b, k, f, q, rest) ==
  /\ s # <<>> /\ b = Head(s)
  /\ q = IF b.source = f THEN SubSeq(b.numbers, 1, k) ELSE <<>>
  /\ rest = IF k = Len(b.numbers) THEN <<>>
            ELSE <<Batch(b.source, SubSeq(b.numbers, k + 1, Len(b.numbers)))>>
\* The front of a queue is read in part: the rest keeps its place.
LEMMA RecordsInPart ==
  ASSUME NEW s \in Seq(Batches), NEW b \in Batches, NEW k \in 1 .. Len(b.numbers), NEW f,
         NEW q, NEW rest, FirstPart(s, b, k, f, q, rest)
  PROVE  /\ q \in Seq(Nat) /\ rest \o Tail(s) \in Seq(Batches)
         /\ RecordsIn(s, f) = q \o RecordsIn(rest \o Tail(s), f)
<1> USE DEF FirstPart
<1> DEFINE n == Len(b.numbers)
<1>1. b.numbers \in Seq(Nat) /\ b.source \in Sources /\ n \in Nat /\ k \in Nat /\ k <= n
  BY DEF Batches
<1>2. PICK t \in Seq(Batches) : t = Tail(s)
  BY HeadTailProperties
<1>3. PICK r \in Seq(Nat) : r = RecordsIn(t, f)
  BY RecordsTyped
<1>4. RecordsIn(s, f) = Part(b, f) \o r
  BY <1>2, <1>3, RecordsInHead
<1> DEFINE first == SubSeq(b.numbers, 1, k)
           last  == SubSeq(b.numbers, k + 1, n)
<1>5. /\ first \in Seq(Nat) /\ last \in Seq(Nat)
      /\ first \o last = b.numbers /\ SubSeq(b.numbers, 1, n) = b.numbers
  <2>1. PICK m \in Seq(Nat) : m = b.numbers /\ k \in 0 .. Len(m)
    BY <1>1
  <2> QED
    BY <2>1, Pieces
<1> HIDE DEF first, last
<1>6. q \in Seq(Nat)
  BY <1>5 DEF first
<1>7. CASE k = n
  <2>1. rest \o t = t
    BY <1>2, <1>7, ConcatEmptySeq
  <2>3. Part(b, f) = q
    BY <1>5, <1>7 DEF Part, first
  <2> QED
    BY <1>2, <1>3, <1>4, <1>6, <2>1, <2>3
<1>8. CASE k # n
  <2>3. PICK c \in Batches : c = Batch(b.source, last)
    BY <1>1, <1>5 DEF Batch, Batches
  <2>4. rest = <<c>>
    BY <1>8, <2>3 DEF last
  <2>5. PICK u \in Seq(Batches) : u = <<c>> \o t
    <3>1. <<c>> \in Seq(Batches)
      OBVIOUS
    <3> QED
      BY <3>1, ConcatProperties
  <2>6. u # <<>> /\ Head(u) = c /\ Tail(u) = t
    BY <2>5
  <2>7. RecordsIn(u, f) = Part(c, f) \o r
    BY <1>3, <2>5, <2>6, RecordsInHead
  <2>8. Part(b, f) \o r = q \o (Part(c, f) \o r)
    <3>1. CASE b.source = f
      <4>1. Part(b, f) = b.numbers /\ Part(c, f) = last /\ q = first
        BY <2>3, <3>1 DEF Part, Batch, first
      <4>2. (first \o last) \o r = first \o (last \o r)
        BY <1>5, Regrouped
      <4> QED
        BY <1>5, <4>1, <4>2
    <3>2. CASE b.source # f
      <4>1. Part(b, f) = <<>> /\ Part(c, f) = <<>> /\ q = <<>>
        BY <2>3, <3>2 DEF Part, Batch
      <4> QED
        BY <4>1, ConcatEmptySeq
    <3> QED
      BY <3>1, <3>2
  <2> QED
    BY <1>2, <1>4, <1>6, <2>4, <2>5, <2>7, <2>8
<1> QED
  BY <1>7, <1>8

\* Numbers still rise when some are left out in the middle, at the end or at the start,
\* and when the next ones follow.
LEMMA RisingPart ==
  ASSUME NEW a \in Seq(Nat), NEW p \in Seq(Nat), NEW r \in Seq(Nat), NEW m,
         NEW k \in 0 .. Len(p), RisingTo(a \o (p \o r), m)
  PROVE  RisingTo((a \o SubSeq(p, 1, k)) \o r, m)
<1> DEFINE from(i) == IF i <= Len(a) + k THEN i ELSE i + (Len(p) - k)
           long    == (a \o p) \o r
           short   == (a \o SubSeq(p, 1, k)) \o r
<1>1. PICK q \in Seq(Nat) : q = SubSeq(p, 1, k) /\ Len(q) = k /\ \A i \in 1 .. k : q[i] = p[i]
  BY Pieces
<1>2.   /\ DOMAIN long = 1 .. Len(a) + Len(p) + Len(r)
        /\ \A i \in DOMAIN long :
             long[i] = IF i <= Len(a) THEN a[i]
                       ELSE IF i <= Len(a) + Len(p) THEN p[i - Len(a)]
                       ELSE r[i - (Len(a) + Len(p))]
  BY ThreeParts
<1>3.   /\ DOMAIN short = 1 .. Len(a) + Len(q) + Len(r)
        /\ \A i \in DOMAIN short :
             short[i] = IF i <= Len(a) THEN a[i]
                        ELSE IF i <= Len(a) + Len(q) THEN q[i - Len(a)]
                        ELSE r[i - (Len(a) + Len(q))]
  BY <1>1, ThreeParts
<1>4. RisingTo(long, m)
  BY ZenonT(40), Regrouped
<1> HIDE DEF long, short
<1>5. Len(a) \in Nat /\ Len(p) \in Nat /\ Len(r) \in Nat /\ k \in Nat /\ k <= Len(p)
  OBVIOUS
<1>6. ASSUME NEW i \in DOMAIN short
      PROVE  from(i) \in DOMAIN long /\ short[i] = long[from(i)]
  <2>1. i \in 1 .. Len(a) + k + Len(r)
    BY <1>1, <1>3
  <2>2. from(i) \in DOMAIN long
    BY <1>2, <1>5, <2>1
  <2>3. CASE i <= Len(a)
    <3>1. from(i) = i
      BY <1>5, <2>1, <2>3
    <3>2. short[i] = a[i]
      BY <1>3, <2>3
    <3> HIDE DEF from
    <3>3. long[i] = a[i]
      BY <1>2, <2>2, <2>3, <3>1
    <3> QED
      BY <2>2, <3>1, <3>2, <3>3
  <2>4. CASE i > Len(a) /\ i <= Len(a) + k
    <3>1. i - Len(a) \in 1 .. k /\ from(i) = i /\ i <= Len(a) + Len(p) /\ ~(i <= Len(a))
      BY <1>5, <2>1, <2>4
    <3>2. short[i] = q[i - Len(a)]
      BY <1>1, <1>3, <2>4, <3>1
    <3>3. long[i] = p[i - Len(a)]
      BY <1>2, <2>2, <3>1
    <3> QED
      BY <1>1, <2>2, <3>1, <3>2, <3>3
  <2>5. CASE ~(i <= Len(a) + k)
    <3>1. /\ ~(i <= Len(a)) /\ from(i) = i + (Len(p) - k)
          /\ ~(from(i) <= Len(a)) /\ ~(from(i) <= Len(a) + Len(p))
          /\ from(i) - (Len(a) + Len(p)) = i - (Len(a) + k)
      BY <1>5, <2>1, <2>5
    <3>2. short[i] = r[i - (Len(a) + k)]
      BY <1>1, <1>3, <2>5, <3>1
    <3> HIDE DEF from
    <3>3. long[from(i)] = r[from(i) - (Len(a) + Len(p))]
      BY <1>2, <2>2, <3>1
    <3> QED
      BY <2>2, <3>1, <3>2, <3>3
  <2> QED
    BY <1>5, <2>1, <2>3, <2>4, <2>5
<1>7. ASSUME NEW i \in DOMAIN short, NEW j \in DOMAIN short, i < j PROVE from(i) < from(j)
  BY <1>1, <1>3, <1>5, <1>7
<1> HIDE DEF from
<1>8. \A i, j \in DOMAIN short : i < j => short[i] < short[j]
  BY <1>4, <1>6, <1>7 DEF RisingTo
<1>9. \A i \in DOMAIN short : short[i] <= m
  BY <1>4, <1>6 DEF RisingTo
<1> QED
  BY <1>8, <1>9 DEF RisingTo, short

\* What comes later rises too.
LEMMA RisingEnds ==
  ASSUME NEW a \in Seq(Nat), NEW r \in Seq(Nat), NEW m, RisingTo(a \o r, m)
  PROVE  RisingTo(<<>> \o r, m)
<1>1. <<>> \o r = r
  OBVIOUS
<1>2. DOMAIN (a \o r) = 1 .. Len(a) + Len(r) /\ DOMAIN r = 1 .. Len(r)
  OBVIOUS
<1>3. \A i \in 1 .. Len(r) : (a \o r)[i + Len(a)] = r[i]
  OBVIOUS
<1>4. \A i \in 1 .. Len(r) : i + Len(a) \in 1 .. Len(a) + Len(r)
  OBVIOUS
<1>5. \A i, j \in 1 .. Len(r) : i < j => i + Len(a) < j + Len(a)
  OBVIOUS
<1> QED
  BY <1>1, <1>2, <1>3, <1>4, <1>5 DEF RisingTo

\* Numbers that follow each other can be put after smaller ones.
LEMMA RisingOn ==
  ASSUME NEW a \in Seq(Nat), NEW p \in Seq(Nat), NEW m \in Nat, RisingTo(a, m),
         \A i \in 1 .. Len(p) : p[i] = m + i
  PROVE  RisingTo(a \o p, m + Len(p))
<1>1. DOMAIN (a \o p) = 1 .. Len(a) + Len(p)
  OBVIOUS
<1>2. ASSUME NEW i \in 1 .. Len(a) + Len(p)
      PROVE  IF i <= Len(a) THEN i \in DOMAIN a /\ (a \o p)[i] = a[i] /\ a[i] <= m
             ELSE (a \o p)[i] = m + (i - Len(a))
  BY DEF RisingTo
<1>3. \A i \in DOMAIN a : a[i] \in Nat
  OBVIOUS
<1>4. ASSUME NEW i \in 1 .. Len(a) + Len(p), NEW j \in 1 .. Len(a) + Len(p), i < j
      PROVE  (a \o p)[i] < (a \o p)[j]
  <2>1. CASE j <= Len(a)
    BY <1>2, <1>4, <2>1 DEF RisingTo
  <2>2. CASE i <= Len(a) /\ ~(j <= Len(a))
    <3>1. (a \o p)[i] <= m /\ (a \o p)[i] \in Nat
      BY <1>2, <1>3, <2>2
    <3>2. (a \o p)[j] = m + (j - Len(a))
      BY <1>2, <2>2
    <3> QED
      BY SMTT(30), <2>2, <3>1, <3>2
  <2>3. CASE ~(i <= Len(a))
    <3>1. (a \o p)[i] = m + (i - Len(a)) /\ (a \o p)[j] = m + (j - Len(a))
      BY <1>2, <1>4, <2>3
    <3> QED
      BY <1>4, <3>1
  <2> QED
    BY <2>1, <2>2, <2>3
<1>5. ASSUME NEW i \in 1 .. Len(a) + Len(p) PROVE (a \o p)[i] <= m + Len(p)
  <2>1. CASE i <= Len(a)
    BY <1>2, <1>3, <2>1
  <2>2. CASE ~(i <= Len(a))
    BY <1>2, <2>2
  <2> QED
    BY <2>1, <2>2
<1> QED
  BY <1>1, <1>4, <1>5 DEF RisingTo

\* What a manager, or the network, takes from a data channel of the records of a flow: they
\* are the first ones, and the first of them are written.
Takes(d, f) ==
  \E p \in Seq(Nat) : \E k \in 0 .. Len(p) :
    /\ UnderWay(d, f)' \in Seq(Nat) /\ UnderWay(d, f) = p \o UnderWay(d, f)'
    /\ LogProto[d] = "TCP" /\ logConn[d] = "open" => k = Len(p)
    /\ \A n \in Names : logged'[n][f] =
         IF n = LogName[d] THEN logged[n][f] \o SubSeq(p, 1, k) ELSE logged[n][f]
    /\ \A c \in Clients \ {d} : UnderWay(c, f)' = UnderWay(c, f)

\* A manager writes to the file of its client.
LEMMA WrittenWhere ==
  ASSUME ServerInv, DataTypes, RequestsOwn, NEW d \in Clients, manager[d] = "receiving",
         NEW b \in Batches, NEW k, Write(d, b, k), NEW f \in Flows, NEW n \in Names
  PROVE  logged'[n][f] = IF n = LogName[d] /\ b.source = f
                         THEN logged[n][f] \o SubSeq(b.numbers, 1, k) ELSE logged[n][f]
<1>1. serverTable[serverSlot[d]].name = LogName[d] /\ LogName[d] \in Names
  BY DEF RequestsOwn, Names
<1>2. PICK part : part = SubSeq(b.numbers, 1, k)
  OBVIOUS
<1>3. logged' = [logged EXCEPT ![LogName[d]][b.source] = @ \o part]
  BY <1>1, <1>2 DEF Write
<1>4. logged \in [Names -> [Sources -> Seq(Nat)]] /\ f \in Sources
  BY RecvLogsAssumption DEF DataTypes
<1> QED
  BY <1>1, <1>2, <1>3, <1>4

\* No step on the data channel of a client changes another.
LEMMA OtherChannel ==
  ASSUME DataTypes, NEW d \in Clients, NEW t, dataTo' = [dataTo EXCEPT ![d] = t], NEW f
  PROVE  /\ \A c \in Clients \ {d} : UnderWay(c, f)' = UnderWay(c, f)
         /\ UnderWay(d, f)' = RecordsIn(t, f)
<1>1. dataTo'[d] = t /\ \A c \in Clients \ {d} : dataTo'[c] = dataTo[c]
  BY DEF DataTypes
<1> QED
  BY <1>1 DEF UnderWay

\* A read of a TCP stream.
LEMMA ReadStreamTakes ==
  ASSUME ServerInv, DataTypes, RequestsOwn, NEW d \in Clients, ReadStream(d), NEW f \in Flows
  PROVE  Takes(d, f)
<1>1. dataTo[d] \in Seq(Batches) /\ dataTo[d] # <<>> /\ manager[d] = "receiving"
  BY DEF ReadStream, DataTypes
<1>2. PICK b \in Batches : b = Head(dataTo[d])
  BY <1>1, HeadTailProperties
<1>3. Len(b.numbers) \in Nat /\ ServerBuffer \in Nat
  BY LogServerAssumption DEF Batches
<1>4. PICK k \in 1 .. Len(b.numbers) :
        /\ Write(d, b, k)
        /\ dataTo' = [dataTo EXCEPT ![d] =
             (IF k = Len(b.numbers) THEN <<>>
              ELSE <<Batch(b.source, SubSeq(b.numbers, k + 1, Len(b.numbers)))>>) \o Tail(@)]
  <2>1. PICK k \in 1 .. IF Len(b.numbers) < ServerBuffer THEN Len(b.numbers) ELSE ServerBuffer :
        /\ Write(d, b, k)
        /\ dataTo' = [dataTo EXCEPT ![d] =
             (IF k = Len(b.numbers) THEN <<>>
              ELSE <<Batch(b.source, SubSeq(b.numbers, k + 1, Len(b.numbers)))>>) \o Tail(@)]
    BY <1>2 DEF ReadStream
  <2>2. k \in 1 .. Len(b.numbers)
    BY <1>3
  <2> QED
    BY <2>1, <2>2
<1>5. PICK rest : rest = IF k = Len(b.numbers) THEN <<>>
                         ELSE <<Batch(b.source, SubSeq(b.numbers, k + 1, Len(b.numbers)))>>
  OBVIOUS
<1> DEFINE q == IF b.source = f THEN SubSeq(b.numbers, 1, k) ELSE <<>>
           t == rest \o Tail(dataTo[d])
<1>6. /\ q \in Seq(Nat) /\ t \in Seq(Batches)
      /\ RecordsIn(dataTo[d], f) = q \o RecordsIn(t, f)
  <2>1. PICK s \in Seq(Batches) : s = dataTo[d]
    BY <1>1
  <2>2. s # <<>> /\ b = Head(s)
    BY <1>1, <1>2, <2>1
  <2>3. PICK sub : sub = q
    OBVIOUS
  <2>a. FirstPart(s, b, k, f, sub, rest)
    BY <1>5, <2>2, <2>3 DEF FirstPart
  <2>4. /\ sub \in Seq(Nat) /\ rest \o Tail(s) \in Seq(Batches)
        /\ RecordsIn(s, f) = sub \o RecordsIn(rest \o Tail(s), f)
    BY <2>a, RecordsInPart
  <2> QED
    BY <2>1, <2>3, <2>4
<1>7. dataTo' = [dataTo EXCEPT ![d] = t]
  BY <1>4, <1>5
<1>8. ASSUME NEW n \in Names
      PROVE  logged'[n][f] = IF n = LogName[d] THEN logged[n][f] \o q ELSE logged[n][f]
  <2>1. logged[n][f] \in Seq(Nat)
    BY RecvLogsAssumption DEF DataTypes
  <2>2. logged[n][f] \o <<>> = logged[n][f]
    BY <2>1, ConcatEmptySeq
  <2>3. logged'[n][f] = IF n = LogName[d] /\ b.source = f
                        THEN logged[n][f] \o SubSeq(b.numbers, 1, k) ELSE logged[n][f]
    BY <1>1, <1>4, WrittenWhere
  <2> QED
    BY <2>2, <2>3
<1> HIDE DEF q, t
<1>9. /\ UnderWay(d, f)' = RecordsIn(t, f)
      /\ \A c \in Clients \ {d} : UnderWay(c, f)' = UnderWay(c, f)
  BY <1>7, OtherChannel
<1>10. UnderWay(d, f) = q \o UnderWay(d, f)' /\ UnderWay(d, f)' \in Seq(Nat)
  BY <1>6, <1>9, RecordsTyped DEF UnderWay
<1>11. Len(q) \in 0 .. Len(q) /\ SubSeq(q, 1, Len(q)) = q
  <2>1. Len(q) \in Nat
    BY <1>6
  <2> QED
    BY <1>6, <2>1, Pieces
<1> QED
  BY <1>6, <1>8, <1>9, <1>10, <1>11 DEF Takes

\* A read of a datagram, which may be longer than the buffer.
LEMMA ReadDatagramTakes ==
  ASSUME ServerInv, DataTypes, RequestsOwn, NEW d \in Clients, ReadDatagram(d) \/ LoseDatagram(d),
         NEW f \in Flows
  PROVE  Takes(d, f)
<1>1. dataTo[d] \in Seq(Batches) /\ dataTo[d] # <<>> /\ LogProto[d] = "UDP"
  BY DEF ReadDatagram, LoseDatagram, DataTypes
<1>2. PICK b \in Batches : b = Head(dataTo[d])
  BY <1>1, HeadTailProperties
<1>3. Tail(dataTo[d]) \in Seq(Batches) /\ dataTo' = [dataTo EXCEPT ![d] = Tail(dataTo[d])]
  BY <1>1, HeadTailProperties DEF ReadDatagram, LoseDatagram
<1> DEFINE p == Part(b, f)
           kept == IF Len(b.numbers) < ServerBuffer THEN Len(b.numbers) ELSE ServerBuffer
<1>4. p \in Seq(Nat) /\ Len(p) \in Nat
  BY PartIsSeq
<1>5. UnderWay(d, f) = p \o UnderWay(d, f)' /\ UnderWay(d, f)' \in Seq(Nat)
  <2>1. UnderWay(d, f)' = RecordsIn(Tail(dataTo[d]), f)
    BY <1>3, OtherChannel
  <2>2. RecordsIn(dataTo[d], f) = p \o RecordsIn(Tail(dataTo[d]), f)
    BY <1>1, <1>2, RecordsInHead
  <2> QED
    BY <1>3, <2>1, <2>2, RecordsTyped DEF UnderWay
<1>6. \A c \in Clients \ {d} : UnderWay(c, f)' = UnderWay(c, f)
  BY <1>3, OtherChannel
<1>7. \A n \in Names : logged[n][f] \in Seq(Nat) /\ logged[n][f] \o <<>> = logged[n][f]
  BY RecvLogsAssumption, ConcatEmptySeq DEF DataTypes
<1>8. /\ \A i : SubSeq(<<>>, 1, 0) = <<>>
      /\ SubSeq(p, 1, 0) = <<>> /\ 0 \in 0 .. Len(p)
  BY <1>4, SubSeqEmpty
<1>9. CASE LoseDatagram(d) \/ b.source # f
  <2>1. \A n \in Names : logged'[n][f] = logged[n][f]
    <3>1. CASE LoseDatagram(d)
      BY <3>1 DEF LoseDatagram
    <3>2. CASE ReadDatagram(d) /\ b.source # f
      <4>1. Write(d, b, kept) /\ manager[d] = "receiving"
        BY <1>2, <3>2 DEF ReadDatagram
      <4> HIDE DEF kept
      <4> QED
        BY <3>2, <4>1, WrittenWhere
    <3> QED
      BY <1>9, <3>1, <3>2
  <2> HIDE DEF p
  <2>2. \A n \in Names : logged'[n][f] =
          IF n = LogName[d] THEN logged[n][f] \o SubSeq(p, 1, 0) ELSE logged[n][f]
    BY <1>7, <1>8, <2>1
  <2> QED
    BY <1>1, <1>4, <1>5, <1>6, <1>8, <2>2 DEF Takes
<1>10. CASE ReadDatagram(d) /\ b.source = f
  <2>1. Write(d, b, kept) /\ manager[d] = "receiving"
    BY <1>2, <1>10 DEF ReadDatagram
  <2>2. p = b.numbers /\ kept \in 0 .. Len(p)
    BY <1>4, <1>10, LogServerAssumption DEF Part
  <2> HIDE DEF p, kept
  <2>3. \A n \in Names : logged'[n][f] =
          IF n = LogName[d] THEN logged[n][f] \o SubSeq(p, 1, kept) ELSE logged[n][f]
    BY <1>10, <2>1, <2>2, WrittenWhere
  <2> QED
    BY <1>1, <1>4, <1>5, <1>6, <2>2, <2>3 DEF Takes
<1> QED
  BY <1>9, <1>10

\* A step that neither reads nor writes takes nothing.
LEMMA NothingTaken ==
  ASSUME DataTypes, UNCHANGED <<dataTo, logged>>, NEW d \in Clients, NEW f \in Flows
  PROVE  Takes(d, f)
<1>1. \A c \in Clients : UnderWay(c, f)' = UnderWay(c, f) /\ UnderWay(c, f) \in Seq(Nat)
  BY RecordsTyped DEF UnderWay, DataTypes
<1>2. /\ <<>> \in Seq(Nat) /\ 0 \in 0 .. Len(<<>>) /\ Len(<<>>) = 0 /\ SubSeq(<<>>, 1, 0) = <<>>
  BY SubSeqEmpty
<1>3. <<>> \o UnderWay(d, f)' = UnderWay(d, f)
  BY <1>1, ConcatEmptySeq
<1>4. \A n \in Names : logged'[n][f] = logged[n][f] \o <<>> /\ logged'[n][f] = logged[n][f]
  BY RecvLogsAssumption, ConcatEmptySeq DEF DataTypes
<1> QED
  BY ZenonT(40), <1>1, <1>2, <1>3, <1>4 DEF Takes

\* The end of a data channel, which over UDP may lose what is left.
LEMMA EndLogTakes ==
  ASSUME DataTypes, NEW d \in Clients, EndLog(d), NEW f \in Flows
  PROVE  Takes(d, f)
<1>1. dataTo' = [dataTo EXCEPT ![d] = <<>>] /\ UNCHANGED logged /\ logConn[d] = "stopped"
  BY DEF EndLog, Quiet
<1>2. UnderWay(d, f)' = <<>> /\ \A c \in Clients \ {d} : UnderWay(c, f)' = UnderWay(c, f)
  <2>1. UnderWay(d, f)' = RecordsIn(<<>>, f)
    BY <1>1, OtherChannel
  <2>2. \A c \in Clients \ {d} : UnderWay(c, f)' = UnderWay(c, f)
    BY <1>1, OtherChannel
  <2> QED
    BY <2>1, <2>2, RecordsTyped
<1>3. PICK p \in Seq(Nat) : p = UnderWay(d, f)
  BY RecordsTyped DEF UnderWay, DataTypes
<1>4. 0 \in 0 .. Len(p) /\ SubSeq(p, 1, 0) = <<>> /\ p \o <<>> = p /\ <<>> \in Seq(Nat)
  BY SubSeqEmpty
<1>5. \A n \in Names : logged'[n][f] = logged[n][f] \o <<>> /\ logged'[n][f] = logged[n][f]
  BY <1>1, RecvLogsAssumption, ConcatEmptySeq DEF DataTypes
<1> QED
  BY ZenonT(40), <1>1, <1>2, <1>3, <1>4, <1>5 DEF Takes

\* A step of ITGLog takes records from a data channel, or opens a file that no TCP channel
\* in use writes to.
Reopens(n) ==
  /\ UNCHANGED dataTo
  /\ logged' = [logged EXCEPT ![n] = [x \in Sources |-> <<>>]]
  /\ \A c \in Clients : logConn[c] = "open" => LogName[c] # n
\* Every step of ITGLog takes records from a channel, or truncates a file.
LEMMA ServerTakes ==
  ASSUME ServerInv, DataTypes, RequestsOwn, NEW d \in Clients,
         Connects(d) \/ Manages(d) \/ DatagramLost(d)
  PROVE  (\A f \in Flows : Takes(d, f)) \/ \E n \in Names : Reopens(n)
<1>1. CASE Connects(d) \/ ReceiveInfo(d) \/ CopyInfo(d) \/ AcceptData(d) \/ CloseServerFile(d)
  <2>1. UNCHANGED <<dataTo, logged>>
    BY <1>1 DEF Connects, AcceptLog, ReceiveInfo, CopyInfo, AcceptData, CloseServerFile
  <2> QED
    BY <2>1, NothingTaken
<1>2. CASE AllowLogFile(d)
  <2> DEFINE n == serverName[d]
  <2>1. n \in Names /\ UNCHANGED dataTo
    BY <1>2 DEF AllowLogFile, ServerInv, RequestsNamed
  <2>2. CASE UNCHANGED logged
    BY <2>1, <2>2, NothingTaken
  <2>3. CASE Sharing(n) = {} /\ OpenServerFile(d, n)
    <3>1. ASSUME NEW c \in Clients, logConn[c] = "open" PROVE LogName[c] # n
      <4>1. serverTable[serverSlot[c]].name = LogName[c] /\ serverSlot[c] \in Slots
        BY <3>1 DEF RequestsOwn, ServerInv, RequestsNamed
      <4> QED
        BY <2>3, <4>1 DEF Sharing
    <3> QED
      BY <2>1, <2>3, <3>1 DEF OpenServerFile, Reopens
  <2> QED
    BY <1>2, <2>2, <2>3 DEF AllowLogFile, ShareServerFile
<1> QED
  BY <1>1, <1>2, ReadStreamTakes, ReadDatagramTakes, EndLogTakes
     DEF Manages, ChannelManager, DatagramLost

\* A buffer of a data thread is put on the data channel of its session.
Sends(e) ==
  /\ thread[e] # "none" /\ logSock[Home[e]] # NoOne /\ UNCHANGED logged
  /\ SendRecords(logSock[Home[e]], e, Buffered(e))

\* A buffer that is sent comes after what is under way.
LEMMA SendsTold ==
  ASSUME ModeInv, DataTypes, NEW e \in Flows, Sends(e), NEW c \in Clients, NEW f \in Flows
  PROVE  /\ UnderWay(c, f) \in Seq(Nat)
         /\ UnderWay(c, f)' = IF c = logSock[Home[e]] /\ f = e THEN UnderWay(c, f) \o Buffered(e)
                              ELSE UnderWay(c, f)
<1>0. PICK d \in Clients : d = logSock[Home[e]]
  BY RecvLogsAssumption DEF Sends, ModeInv, ThreadTypes
<1>1. dataTo[c] \in Seq(Batches) /\ dataTo[d] \in Seq(Batches)
  BY DEF DataTypes
<1>2. PICK part \in Seq(Nat) : part = Buffered(e)
  BY BufferHolds
<1>3. UnderWay(c, f) \in Seq(Nat) /\ UnderWay(c, f) \o <<>> = UnderWay(c, f)
  <2>1. UnderWay(c, f) \in Seq(Nat)
    BY <1>1, RecordsTyped DEF UnderWay
  <2> QED
    BY <2>1, ConcatEmptySeq
<1>4. CASE part = <<>>
  <2>1. dataTo' = dataTo
    BY <1>2, <1>4 DEF Sends, SendRecords
  <2>2. UnderWay(c, f)' = UnderWay(c, f)
    BY <2>1 DEF UnderWay
  <2> QED
    BY <1>2, <1>3, <1>4, <2>2
<1>5. CASE part # <<>>
  <2>1. PICK b \in Batches : b = Batch(e, part)
    BY RecvLogsAssumption DEF Batch, Batches
  <2>2. dataTo' = [dataTo EXCEPT ![d] = Append(dataTo[d], b)]
    BY <1>0, <1>2, <1>5, <2>1 DEF Sends, SendRecords
  <2>3. /\ UnderWay(d, f)' = RecordsIn(Append(dataTo[d], b), f)
        /\ c # d => UnderWay(c, f)' = UnderWay(c, f)
    <3>1. PICK t : t = Append(dataTo[d], b)
      OBVIOUS
    <3>2. dataTo' = [dataTo EXCEPT ![d] = t]
      BY <2>2, <3>1
    <3>3. /\ UnderWay(d, f)' = RecordsIn(t, f)
          /\ \A x \in Clients \ {d} : UnderWay(x, f)' = UnderWay(x, f)
      BY <3>2, OtherChannel
    <3> QED
      BY <3>1, <3>3
  <2>4. RecordsIn(Append(dataTo[d], b), f) = RecordsIn(dataTo[d], f) \o Part(b, f)
    BY <1>1, RecordsInAppend
  <2>5. Part(b, f) = IF f = e THEN part ELSE <<>>
    BY <2>1 DEF Part, Batch
  <2>6. c = d => UnderWay(c, f)' = UnderWay(c, f) \o (IF f = e THEN part ELSE <<>>)
    <3>1. RecordsIn(dataTo[d], f) = UnderWay(d, f)
      BY DEF UnderWay
    <3> QED
      BY <2>3, <2>4, <2>5, <3>1
  <2> QED
    BY <1>0, <1>2, <1>3, <2>3, <2>6
<1> QED
  BY <1>4, <1>5

\* What a step does to the data channels and files of ITGLog.
DataMoves ==
  \/ UNCHANGED <<dataTo, logged>>
  \/ \E e \in Flows : Sends(e)
  \/ UNCHANGED recvLogVars /\ \E d \in Clients : \A f \in Flows : Takes(d, f)
  \/ UNCHANGED recvLogVars /\ \E n \in Names : Reopens(n)

\* A flow that has been started keeps its connection.
ThreadsMove ==
  \A f \in Flows : /\ thread'[f] = "none" => thread[f] = "none"
                   /\ thread[f] # "none" => logSock'[Home[f]] = logSock[Home[f]]

\* The steps of ITGLog are such moves ...
LEMMA ServerDataMoves ==
  ASSUME ServerInv, DataTypes, RequestsOwn, NEW d \in Clients,
         Connects(d) \/ Manages(d) \/ DatagramLost(d)
  PROVE  DataMoves /\ ThreadsMove
<1>1. UNCHANGED recvLogVars
  BY DEF Connects, Manages, DatagramLost
<1> QED
  BY <1>1, ServerTakes DEF DataMoves, ThreadsMove, recvLogVars, threadVars, sessionVars

\* ... those of the sessions ...
LEMMA SessionDataMoves ==
  ASSUME ModeInv, DataTypes, NEW s \in Sessions, SessionSteps(s)
  PROVE  DataMoves /\ ThreadsMove
<1> USE DEF ModeInv, ThreadTypes, SetSession, SetThread
<1>1. CASE SessionSends(s)
  <2>1. /\ closing[s] \in Flows /\ Home[closing[s]] = s /\ thread[closing[s]] # "none"
        /\ SendTo(logSock[s], closing[s]) /\ UNCHANGED <<logged, thread, logSock>>
    BY <1>1 DEF SessionSends, ServerElse, threadVars, ThreadsServed, Running
  <2>2. CASE logSock[s] = NoOne
    BY <2>1, <2>2 DEF SendTo, DataMoves, ThreadsMove
  <2>3. CASE logSock[s] # NoOne
    <3>1. Sends(closing[s])
      BY <2>1, <2>3 DEF SendTo, Sends
    <3> QED
      BY <2>1, <3>1 DEF DataMoves, ThreadsMove
  <2> QED
    BY <2>2, <2>3
<1>2. CASE SessionStarts(s) \/ OpenRemoteLog(s)
  <2>1. /\ session[s] \in {"none", "connecting"} /\ UNCHANGED <<dataTo, logged, thread>>
        /\ \E c : logSock' = [logSock EXCEPT ![s] = c]
    BY <1>2 DEF SessionStarts, OpenRemoteLog, ConnectData, threadVars, serverVars
  <2>2. \A f \in Flows : Home[f] = s => thread[f] = "none"
    BY <2>1 DEF ThreadsServed, Asking
  <2>3. \A t \in Sessions \ {s} : logSock'[t] = logSock[t]
    BY <2>1
  <2> QED
    BY <2>1, <2>2, <2>3, RecvLogsAssumption DEF DataMoves, ThreadsMove
<1>3. CASE CancelThread(s)
  <2>1. /\ closing[s] \in Flows /\ UNCHANGED <<dataTo, logged, logSock>>
        /\ thread' = [thread EXCEPT ![closing[s]] = "cancelled"]
    BY <1>3 DEF CancelThread, ThreadsServed, serverVars
  <2> QED
    BY <2>1 DEF DataMoves, ThreadsMove
<1>4. CASE ~SessionSends(s) /\ ~SessionStarts(s) /\ ~OpenRemoteLog(s) /\ ~CancelThread(s)
  <2>1. UNCHANGED <<dataTo, logged, thread, logSock>>
    BY <1>4 DEF SessionSteps, ShareLog, OpenLog, NameLog, Granted, AskRemoteLog, AskForLog,
       SessionWrites, SessionLogsNothing, Release, CloseFileLog, CloseRemoteLog, recvLogVars,
       sessionVars, threadVars, serverVars
  <2> QED
    BY <2>1 DEF DataMoves, ThreadsMove
<1> QED
  BY <1>1, <1>2, <1>3, <1>4

\* ... and those of the data threads.
LEMMA FlowDataMoves ==
  ASSUME ModeInv, DataTypes, NEW f \in Flows,
         StartFlow(f) \/ TakePacket(f) \/ DataThread(f) \/ CloseFlow(f)
  PROVE  DataMoves /\ ThreadsMove
<1> USE DEF ModeInv, ThreadTypes, SetSession, SetThread
<1>1. ThreadsMove
  BY DEF ThreadsMove, StartFlow, TakePacket, DataThread, CountPacket, FlushStarts, WriteBuffer,
     SendBuffer,
     CloseFlow, sessionVars, threadVars
<1>2. CASE SendBuffer(f)
  <2>1. thread[f] # "none" /\ SendTo(logSock[Home[f]], f) /\ UNCHANGED logged
    BY <1>2 DEF SendBuffer, ServerElse
  <2>2. CASE logSock[Home[f]] = NoOne
    BY <1>1, <2>1, <2>2 DEF SendTo, DataMoves
  <2>3. CASE logSock[Home[f]] # NoOne
    <3>1. Sends(f)
      BY <2>1, <2>3 DEF SendTo, Sends
    <3> QED
      BY <1>1, <3>1 DEF DataMoves
  <2> QED
    BY <1>1, <2>2, <2>3
<1>3. CASE ~SendBuffer(f)
  <2>1. UNCHANGED <<dataTo, logged>>
    BY <1>3 DEF StartFlow, TakePacket, DataThread, CountPacket, FlushStarts, WriteBuffer,
       CloseFlow, serverVars
  <2> QED
    BY <1>1, <2>1 DEF DataMoves
<1> QED
  BY <1>2, <1>3

\* Every step moves data in one of these ways.
LEMMA StepMoves ==
  ASSUME ServerInv, ModeInv, DataTypes, RequestsOwn, [Next]_vars
  PROVE  DataMoves /\ ThreadsMove
<1>1. CASE StartGlobalLog \/ Done \/ UNCHANGED vars
  <2>1. UNCHANGED <<dataTo, logged, thread, logSock>>
    BY <1>1 DEF StartGlobalLog, AskForLog, ConnectData, Done, vars, recvLogVars, sessionVars,
       threadVars,
       serverVars
  <2> QED
    BY <2>1 DEF DataMoves, ThreadsMove
<1> QED
  BY <1>1, ServerDataMoves, SessionDataMoves, FlowDataMoves DEF Next

\* No step puts records of a flow where they do not belong.
LEMMA RecordsOwnStep ==
  ASSUME ModeInv, DataTypes, RecordsOwn, DataMoves, ThreadsMove
  PROVE  RecordsOwn'
<1> SUFFICES ASSUME NEW f \in Flows
             PROVE  /\ \A c \in Clients : thread'[f] = "none" \/ c # logSock'[Home[f]]
                                          => UnderWay(c, f)' = <<>>
                    /\ thread'[f] = "none" => \A n \in Names : logged'[n][f] = <<>>
  BY DEF RecordsOwn
<1>1. /\ \A c \in Clients : thread'[f] = "none" \/ c # logSock'[Home[f]] => UnderWay(c, f) = <<>>
      /\ thread'[f] = "none" => \A n \in Names : logged[n][f] = <<>>
  BY DEF RecordsOwn, ThreadsMove
<1>2. CASE UNCHANGED <<dataTo, logged>>
  <2>1. \A c \in Clients : UnderWay(c, f)' = UnderWay(c, f)
    BY <1>2 DEF UnderWay
  <2> QED
    BY <1>1, <1>2, <2>1
<1>3. ASSUME NEW e \in Flows, Sends(e)
      PROVE  /\ \A c \in Clients : thread'[f] = "none" \/ c # logSock'[Home[f]]
                                   => UnderWay(c, f)' = <<>>
             /\ thread'[f] = "none" => \A n \in Names : logged'[n][f] = <<>>
  <2>1. UNCHANGED logged /\ thread[e] # "none"
    BY <1>3 DEF Sends
  <2>2. thread'[e] # "none" /\ logSock'[Home[e]] = logSock[Home[e]]
    BY <2>1 DEF ThreadsMove
  <2>3. ASSUME NEW c \in Clients, thread'[f] = "none" \/ c # logSock'[Home[f]]
        PROVE  UnderWay(c, f)' = <<>>
    <3>1. ~(c = logSock[Home[e]] /\ f = e)
      BY <2>2, <2>3
    <3> QED
      BY <1>1, <1>3, <2>3, <3>1, SendsTold
  <2> QED
    BY <1>1, <2>1, <2>3
<1>4. ASSUME NEW d \in Clients, Takes(d, f), UNCHANGED recvLogVars
      PROVE  /\ \A c \in Clients : thread'[f] = "none" \/ c # logSock'[Home[f]]
                                   => UnderWay(c, f)' = <<>>
             /\ thread'[f] = "none" => \A n \in Names : logged'[n][f] = <<>>
  <2>1. PICK p \in Seq(Nat) : \E k \in 0 .. Len(p) :
          /\ UnderWay(d, f)' \in Seq(Nat) /\ UnderWay(d, f) = p \o UnderWay(d, f)'
          /\ \A n \in Names : logged'[n][f] =
               IF n = LogName[d] THEN logged[n][f] \o SubSeq(p, 1, k) ELSE logged[n][f]
          /\ \A c \in Clients \ {d} : UnderWay(c, f)' = UnderWay(c, f)
    BY <1>4 DEF Takes
  <2>2. UnderWay(d, f) = <<>> => p = <<>> /\ UnderWay(d, f)' = <<>>
    <3>1. PICK r \in Seq(Nat) : r = UnderWay(d, f)'
      BY <2>1
    <3>2. UnderWay(d, f) = p \o r
      BY <2>1, <3>1
    <3>3. p \o r = <<>> => p = <<>> /\ r = <<>>
      OBVIOUS
    <3> QED
      BY <3>1, <3>2, <3>3
  <2>3. ASSUME thread'[f] = "none", NEW n \in Names PROVE logged'[n][f] = <<>>
    <3>1. PICK k \in 0 .. Len(p) : logged'[n][f] =
            IF n = LogName[d] THEN logged[n][f] \o SubSeq(p, 1, k) ELSE logged[n][f]
      BY <2>1
    <3>2. logged[n][f] = <<>> /\ p = <<>>
      BY <1>1, <2>2, <2>3
    <3>3. k = 0 /\ SubSeq(p, 1, 0) = <<>> /\ <<>> \o <<>> = <<>>
      BY <3>1, <3>2, SubSeqEmpty
    <3> QED
      BY <3>1, <3>2, <3>3
  <2> QED
    BY <1>1, <2>1, <2>2, <2>3
<1>5. ASSUME NEW n \in Names, Reopens(n)
      PROVE  /\ \A c \in Clients : thread'[f] = "none" \/ c # logSock'[Home[f]]
                                   => UnderWay(c, f)' = <<>>
             /\ thread'[f] = "none" => \A m \in Names : logged'[m][f] = <<>>
  <2>1. \A c \in Clients : UnderWay(c, f)' = UnderWay(c, f)
    BY <1>5 DEF UnderWay, Reopens
  <2>2. \A m \in Names : logged'[m][f] = IF m = n THEN <<>> ELSE logged[m][f]
    BY <1>5, RecvLogsAssumption DEF Reopens, DataTypes
  <2> QED
    BY <1>1, <2>1, <2>2
<1> QED
  BY <1>2, <1>3, <1>4, <1>5 DEF DataMoves

\* Where ITGLog has the logs there are no local ones.
LEMMA NoLocalLog ==
  ASSUME Unmixed, ModeInv, NEW f \in Flows, LogsRemotely(f)
  PROVE  logCheck = 0
<1>1. Home[f] \in Sessions /\ scenario \in Scenarios
  BY RecvLogsAssumption DEF ModeInv, ThreadTypes
<1>2. scenario.started # "-l" /\ \A s \in Sessions : Wants(s) # "local"
  BY <1>1 DEF Unmixed, LogsRemotely, Wants
<1> QED
  BY <1>2 DEF ModeInv, ThreadTypes, ModesMean

\* A flow of which nothing has been received.
LEMMA FreshSent ==
  ASSUME NEW f \in Flows, NEW c \in Clients, logSock'[Home[f]] = c,
         taken'[f] = 0, count'[f] = 0, thread'[f] \in {"none", "receiving"},
         closing'[Home[f]] # f, UnderWay(c, f)' = <<>>, logged'[LogName[c]][f] = <<>>
  PROVE  ToldRight(f)' /\ BufferRight(f)'
<1>1. InBuffer(f)' = 0 /\ Gone(f)' = 0
  <2>1. thread'[f] # "cancelled" /\ thread'[f] # "recorded"
    OBVIOUS
  <2>2. InBuffer(f)' = 0
    BY <2>1 DEF InBuffer
  <2> QED
    BY <2>2 DEF Gone
<1>2. Told(c, f)' = <<>> /\ UpTo(0) = <<>> /\ RisingTo(<<>>, 0)
  BY DEF Told, UpTo, RisingTo
<1>3. ToldRight(f)'
  BY <1>1, <1>2 DEF ToldRight
<1>4. BufferRight(f)'
  BY <1>1 DEF BufferRight
<1> QED
  BY <1>3, <1>4

\* A buffer that takes no part in a step.
LEMMA BufferKept ==
  ASSUME NEW f \in Flows, BufferRight(f),
         thread'[f] = thread[f], taken'[f] = taken[f], infos'[f] = infos[f], count'[f] = count[f],
         closing'[Home[f]] = f => closing[Home[f]] = f,
         closing'[Home[f]] = f /\ session'[Home[f]] = "flushed"
           <=> closing[Home[f]] = f /\ session[Home[f]] = "flushed"
  PROVE  BufferRight(f)' /\ InBuffer(f)' = InBuffer(f) /\ Gone(f)' = Gone(f)
<1>1. InBuffer(f)' = InBuffer(f)
  BY DEF InBuffer
<1>2. Gone(f)' = Gone(f)
  BY <1>1 DEF Gone
<1> QED
  BY <1>1, <1>2 DEF BufferRight

\* A flow of which a step tells ITGLog nothing.
LEMMA ToldKept ==
  ASSUME NEW f \in Flows, NEW c \in Clients, logSock[Home[f]] = c, logSock'[Home[f]] = c,
         ToldRight(f), Gone(f)' = Gone(f), Told(c, f)' = Told(c, f),
         logConn'[c] = "open" => logConn[c] = "open"
  PROVE  ToldRight(f)'
  BY DEF ToldRight

\* Reading and writing at ITGLog changes nothing, but for datagrams that are lost or too long.
LEMMA TakesTold ==
  ASSUME DataTypes, RecordsOwn, NEW f \in Flows, NEW c \in Clients, logSock[Home[f]] = c,
         UNCHANGED recvLogVars, NEW d \in Clients, Takes(d, f),
         ToldRight(f), Gone(f)' = Gone(f), logConn'[c] = "open" => logConn[c] = "open"
  PROVE  ToldRight(f)'
<1>1. logSock'[Home[f]] = c /\ LogName[c] \in Names
  BY DEF recvLogVars, sessionVars, Names
<1>0. PICK p \in Seq(Nat) : \E k \in 0 .. Len(p) :
        /\ UnderWay(d, f)' \in Seq(Nat) /\ UnderWay(d, f) = p \o UnderWay(d, f)'
        /\ LogProto[d] = "TCP" /\ logConn[d] = "open" => k = Len(p)
        /\ \A n \in Names : logged'[n][f] =
             IF n = LogName[d] THEN logged[n][f] \o SubSeq(p, 1, k) ELSE logged[n][f]
        /\ \A e \in Clients \ {d} : UnderWay(e, f)' = UnderWay(e, f)
  BY DEF Takes
<1>2. PICK k \in 0 .. Len(p) :
        /\ UnderWay(d, f)' \in Seq(Nat) /\ UnderWay(d, f) = p \o UnderWay(d, f)'
        /\ LogProto[d] = "TCP" /\ logConn[d] = "open" => k = Len(p)
        /\ \A n \in Names : logged'[n][f] =
             IF n = LogName[d] THEN logged[n][f] \o SubSeq(p, 1, k) ELSE logged[n][f]
        /\ \A e \in Clients \ {d} : UnderWay(e, f)' = UnderWay(e, f)
  BY <1>0
<1>3. PICK r \in Seq(Nat) : r = UnderWay(d, f)'
  BY <1>2
<1>4. PICK a \in Seq(Nat) : a = logged[LogName[c]][f]
  BY <1>1, RecvLogsAssumption DEF DataTypes
<1>5. CASE d = c
  <2>1. Told(c, f) = a \o (p \o r) /\ Told(c, f)' = (a \o SubSeq(p, 1, k)) \o r
    BY <1>1, <1>2, <1>3, <1>4, <1>5 DEF Told
  <2>2. CASE LogProto[c] = "TCP" /\ logConn[c] = "open"
    <3>1. SubSeq(p, 1, k) = p
      BY <1>2, <1>5, <2>2, Pieces
    <3>2. (a \o p) \o r = a \o (p \o r)
      BY Regrouped
    <3>3. Told(c, f)' = Told(c, f)
      BY <2>1, <3>1, <3>2
    <3> QED
      BY <1>1, <3>3, ToldKept
  <2>3. CASE LogProto[c] = "UDP"
    <3>1. RisingTo(a \o (p \o r), Gone(f))
      BY <2>1, <2>3 DEF ToldRight
    <3>2. RisingTo((a \o SubSeq(p, 1, k)) \o r, Gone(f))
      BY <3>1, RisingPart
    <3> QED
      BY <1>1, <2>1, <2>3, <3>2 DEF ToldRight
  <2>4. CASE LogProto[c] # "UDP" /\ ~(LogProto[c] = "TCP" /\ logConn[c] = "open")
    BY <1>1, <2>4 DEF ToldRight
  <2> QED
    BY <2>2, <2>3, <2>4
<1>6. CASE d # c
  <2>1. UnderWay(d, f) = <<>>
    BY <1>6 DEF RecordsOwn
  <2>2. p = <<>>
    <3>1. p \o r = <<>> => p = <<>>
      OBVIOUS
    <3> QED
      BY <1>2, <1>3, <2>1, <3>1
  <2>3. k = 0 /\ SubSeq(p, 1, 0) = <<>> /\ a \o <<>> = a
    BY <2>2, SubSeqEmpty
  <2>4. logged'[LogName[c]][f] = logged[LogName[c]][f]
    BY <1>1, <1>2, <1>4, <2>3
  <2>5. Told(c, f)' = Told(c, f)
    BY <1>2, <1>6, <2>4 DEF Told
  <2> QED
    BY <1>1, <2>5, ToldKept
<1> QED
  BY <1>5, <1>6

\* A file that is opened again loses what was in it, before its client has written any.
LEMMA ReopensTold ==
  ASSUME DataTypes, NEW f \in Flows, NEW c \in Clients, logSock[Home[f]] = c,
         UNCHANGED recvLogVars, NEW n \in Names, Reopens(n),
         ToldRight(f), Gone(f)' = Gone(f), logConn'[c] = "open" => logConn[c] = "open"
  PROVE  ToldRight(f)'
<1>1. logSock'[Home[f]] = c /\ LogName[c] \in Names
  BY DEF recvLogVars, sessionVars, Names
<1>2. PICK r \in Seq(Nat) : r = UnderWay(c, f) /\ r = UnderWay(c, f)'
  BY RecordsTyped DEF Reopens, UnderWay, DataTypes
<1>3. PICK a \in Seq(Nat) : a = logged[LogName[c]][f]
  BY <1>1, RecvLogsAssumption DEF DataTypes
<1>4. Told(c, f) = a \o r
  BY <1>2, <1>3 DEF Told
<1>5. logged'[LogName[c]][f] = IF LogName[c] = n THEN <<>> ELSE a
  BY <1>1, <1>3, RecvLogsAssumption DEF Reopens, DataTypes
<1>6. CASE LogName[c] = n
  <2>1. logConn'[c] # "open" /\ Told(c, f)' = <<>> \o r
    BY <1>2, <1>5, <1>6 DEF Reopens, Told
  <2>2. LogProto[c] = "UDP" => RisingTo(<<>> \o r, Gone(f))
    BY <1>4, RisingEnds DEF ToldRight
  <2> QED
    BY <1>1, <2>1, <2>2 DEF ToldRight
<1>7. CASE LogName[c] # n
  <2>1. Told(c, f)' = Told(c, f)
    BY <1>2, <1>3, <1>5, <1>7 DEF Told
  <2> QED
    BY <1>1, <2>1, ToldKept
<1> QED
  BY <1>6, <1>7

\* A buffer is sent: by the thread itself, or by the session for it.
LEMMA BufferSent ==
  ASSUME ModeInv, DataTypes, NEW f \in Flows, NEW c \in Clients, logSock[Home[f]] = c,
         logSock'[Home[f]] = c, Sends(f), taken'[f] = taken[f], UNCHANGED logConn,
         InBuffer(f) = count[f], InBuffer(f)' = 0, ToldRight(f), BufferRight(f)
  PROVE  ToldRight(f)'
<1>1. LogName[c] \in Names
  BY DEF Names
<1>2. PICK g \in Nat, n \in Nat : g = Gone(f) /\ n = count[f] /\ g + n = taken[f]
  <2>1. count[f] \in Nat /\ taken[f] \in Nat /\ count[f] <= taken[f]
    BY DEF ModeInv, ThreadTypes, CountTaken, InHand
  <2>2. taken[f] - count[f] \in Nat /\ (taken[f] - count[f]) + count[f] = taken[f]
    BY <2>1
  <2> QED
    BY <2>1, <2>2 DEF Gone
<1>3. Gone(f)' = g + n
  BY <1>2 DEF Gone
<1>4. PICK part \in Seq(Nat) :
        part = Buffered(f) /\ Len(part) = n /\ \A i \in 1 .. n : part[i] = g + i
  <2>1. /\ Buffered(f) \in Seq(Nat) /\ Len(Buffered(f)) = count[f]
        /\ \A i \in 1 .. count[f] : Buffered(f)[i] = infos[f][i - 1]
    BY BufferHolds
  <2>2. ASSUME NEW i \in 1 .. n PROVE Buffered(f)[i] = g + i
    <3>1. i - 1 \in 0 .. n - 1 /\ g + (i - 1) + 1 = g + i
      OBVIOUS
    <3>2. infos[f][i - 1] = g + (i - 1) + 1
      BY <1>2, <3>1 DEF BufferRight
    <3> QED
      BY <1>2, <2>1, <3>1, <3>2
  <2> QED
    BY <1>2, <2>1, <2>2
<1>5. PICK a \in Seq(Nat) : a = logged[LogName[c]][f] /\ a = logged'[LogName[c]][f]
  BY <1>1, RecvLogsAssumption DEF DataTypes, Sends
<1>6. PICK u \in Seq(Nat) : u = UnderWay(c, f) /\ UnderWay(c, f)' = u \o part
  BY <1>4, SendsTold
<1>7. PICK t \in Seq(Nat) : t = Told(c, f) /\ Told(c, f)' = t \o part
  <2>1. a \o (u \o part) = (a \o u) \o part
    BY Regrouped
  <2>2. a \o u \in Seq(Nat)
    OBVIOUS
  <2> QED
    BY <1>5, <1>6, <2>1, <2>2 DEF Told
<1>8. LogProto[c] = "TCP" /\ logConn'[c] = "open" => Told(c, f)' = UpTo(g + n)
  <2>1. UpTo(g) \o part = UpTo(g + n)
    BY <1>4, Appended
  <2>2. LogProto[c] = "TCP" /\ logConn[c] = "open" => t = UpTo(g)
    BY <1>2, <1>7 DEF ToldRight
  <2> QED
    BY <1>7, <2>1, <2>2
<1>9. LogProto[c] = "UDP" => RisingTo(Told(c, f)', g + n)
  <2>1. LogProto[c] = "UDP" => RisingTo(t, g)
    BY <1>2, <1>7 DEF ToldRight
  <2>2. RisingTo(t, g) => RisingTo(t \o part, g + n)
    <3>1. \A i \in 1 .. Len(part) : part[i] = g + i
      BY <1>4
    <3>2. RisingTo(t, g) => RisingTo(t \o part, g + Len(part))
      BY <3>1, RisingOn
    <3> QED
      BY <1>4, <3>2
  <2> QED
    BY <1>7, <2>1, <2>2
<1> QED
  BY <1>3, <1>8, <1>9 DEF ToldRight

\* The connection of a session has been opened, and is not opened again.
LEMMA OpenedBefore ==
  ASSUME ServerInv, SocketsOpen, ConnectionMoves, NEW s \in Sessions, NEW c \in Clients,
         logSock[s] = c, logConn'[c] = "open"
  PROVE  logConn[c] = "open"
<1>1. c # NoOne /\ logConn[c] \in {"open", "stopped"}
  BY RecvLogsAssumption DEF SocketsOpen
<1> QED
  BY <1>1 DEF ConnectionMoves, ServerInv, ServerTypes

\* A flow that takes no part in a step of ITGRecv.
LEMMA BystanderSent ==
  ASSUME ServerInv, ModeInv, DataTypes, SocketsOpen, ConnectionMoves,
         NEW f \in Flows, NEW c \in Clients, logSock[Home[f]] = c, logSock'[Home[f]] = c,
         ToldRight(f), BufferRight(f),
         UNCHANGED <<dataTo, logged>> \/ \E e \in Flows \ {f} : Sends(e),
         thread'[f] = thread[f], taken'[f] = taken[f], infos'[f] = infos[f], count'[f] = count[f],
         closing'[Home[f]] = f => closing[Home[f]] = f,
         closing'[Home[f]] = f /\ session'[Home[f]] = "flushed"
           <=> closing[Home[f]] = f /\ session[Home[f]] = "flushed"
  PROVE  ToldRight(f)' /\ BufferRight(f)'
<1>1. BufferRight(f)' /\ Gone(f)' = Gone(f)
  BY BufferKept
<1>2. Told(c, f)' = Told(c, f)
  <2>1. CASE UNCHANGED <<dataTo, logged>>
    BY <2>1 DEF Told, UnderWay
  <2>2. ASSUME NEW e \in Flows \ {f}, Sends(e) PROVE Told(c, f)' = Told(c, f)
    <3>1. UnderWay(c, f)' = UnderWay(c, f) /\ UNCHANGED logged
      BY <2>2, SendsTold DEF Sends
    <3> QED
      BY <3>1 DEF Told
  <2> QED
    BY <2>1, <2>2
<1>3. logConn'[c] = "open" => logConn[c] = "open"
  BY RecvLogsAssumption, OpenedBefore
<1> QED
  BY <1>1, <1>2, <1>3, ToldKept

\* Steps of ITGLog and of its network.
LEMMA ServerSent ==
  ASSUME ServerInv, DataTypes, RequestsOwn, RecordsOwn,
         NEW f \in Flows, NEW c \in Clients, logSock[Home[f]] = c, ToldRight(f), BufferRight(f),
         NEW d \in Clients, Connects(d) \/ Manages(d) \/ DatagramLost(d)
  PROVE  ToldRight(f)' /\ BufferRight(f)'
<1>1. UNCHANGED recvLogVars
  BY DEF Connects, Manages, DatagramLost
<1>2. BufferRight(f)' /\ Gone(f)' = Gone(f)
  BY <1>1, BufferKept DEF recvLogVars, sessionVars, threadVars
<1>3. logConn'[c] = "open" => logConn[c] = "open"
  <2>1. logConn' = logConn \/ logConn' = [logConn EXCEPT ![d] = "greeted"]
    BY DEF Connects, Manages, DatagramLost, AcceptLog, SetConn, ChannelManager, ReceiveInfo,
       CopyInfo,
       AllowLogFile, AcceptData, ReadStream, ReadDatagram, EndLog, CloseServerFile, LoseDatagram
  <2> QED
    BY <2>1 DEF ServerInv, ServerTypes
<1>4. CASE \A e \in Flows : Takes(d, e)
  <2>1. Takes(d, f)
    BY <1>4
  <2> QED
    BY <1>1, <1>2, <1>3, <2>1, TakesTold
<1>5. ASSUME NEW n \in Names, Reopens(n) PROVE ToldRight(f)'
  BY <1>1, <1>2, <1>3, <1>5, ReopensTold
<1> QED
  BY <1>2, <1>4, <1>5, ServerTakes

\* The session sends what is in the buffer of the thread that it closes.
LEMMA SessionSendsSent ==
  ASSUME ServerInv, ModeInv, DataTypes, SocketsOpen,
         NEW f \in Flows, NEW c \in Clients, logSock[Home[f]] = c, ToldRight(f), BufferRight(f),
         NEW s \in Sessions, SessionSends(s)
  PROVE  ToldRight(f)' /\ BufferRight(f)'
<1> DEFINE e == closing[s]
<1>0. Home[f] \in Sessions /\ logSock'[Home[f]] = c
  BY RecvLogsAssumption DEF SessionSends
<1>1. /\ e \in Flows /\ Home[e] = s /\ thread[e] # "none" /\ session[s] = "closing"
      /\ session' = [session EXCEPT ![s] = "flushed"]
      /\ UNCHANGED <<closing, logSock, thread, taken, infos, count, logged, logConn>>
      /\ SendTo(logSock[s], e)
  BY DEF SessionSends, SetSession, threadVars, ServerElse, ModeInv, ThreadsServed, Running
<1>2. \A t \in Sessions : session'[t] = IF t = s THEN "flushed" ELSE session[t]
  BY <1>1 DEF ModeInv, ThreadTypes
<1>3. CASE f = e
  <2>1. Sends(f)
    <3>1. logSock[s] # NoOne
      BY <1>1, <1>3, RecvLogsAssumption
    <3> QED
      BY <1>1, <1>3, <3>1 DEF SendTo, Sends
  <2>2. /\ closing[Home[f]] = f /\ session[Home[f]] = "closing" /\ session'[Home[f]] = "flushed"
        /\ thread[f] = "receiving"
    BY <1>0, <1>1, <1>2, <1>3 DEF BufferRight
  <2>3. InBuffer(f) = count[f] /\ InBuffer(f)' = 0
    BY <1>1, <2>2 DEF InBuffer, ModeInv, ThreadTypes
  <2>4. ToldRight(f)'
    BY <1>0, <1>1, <2>1, <2>3, BufferSent
  <2>5. BufferRight(f)'
    BY <1>1, <2>2, <2>3 DEF BufferRight
  <2> QED
    BY <2>4, <2>5
<1>4. CASE f # e
  <2>1. closing[Home[f]] = f => Home[f] # s
    BY <1>1, <1>4
  <2>2. UNCHANGED <<dataTo, logged>> \/ \E x \in Flows \ {f} : Sends(x)
    <3>1. logSock[s] = NoOne => UNCHANGED dataTo
      BY <1>1 DEF SendTo
    <3>2. logSock[s] # NoOne => Sends(e)
      BY <1>1 DEF SendTo, Sends
    <3> QED
      BY <1>1, <1>4, <3>1, <3>2
  <2>3. ConnectionMoves
    BY <1>1 DEF ConnectionMoves
  <2> QED
    BY <1>0, <1>1, <1>2, <2>1, <2>2, <2>3, BystanderSent
<1> QED
  BY <1>3, <1>4

\* A cancelled thread has no records that have not been sent.
LEMMA CancelThreadSent ==
  ASSUME ServerInv, ModeInv, DataTypes, SocketsOpen,
         NEW f \in Flows, NEW c \in Clients, logSock[Home[f]] = c, ToldRight(f), BufferRight(f),
         NEW s \in Sessions, CancelThread(s)
  PROVE  ToldRight(f)' /\ BufferRight(f)'
<1> DEFINE e == closing[s]
<1>1. /\ e \in Flows /\ Home[e] = s /\ session[s] = "flushed"
      /\ thread' = [thread EXCEPT ![e] = "cancelled"]
      /\ closing' = [closing EXCEPT ![s] = NoOne]
      /\ session' = [session EXCEPT ![s] = "ready"]
      /\ UNCHANGED <<logSock, taken, infos, count, dataTo, logged, logConn>>
  BY DEF CancelThread, SetSession, SetThread, serverVars, ModeInv, ThreadsServed
<1>2. /\ Home[f] \in Sessions /\ f # NoOne
      /\ \A t \in Sessions : /\ session'[t] = IF t = s THEN "ready" ELSE session[t]
                             /\ closing'[t] = IF t = s THEN NoOne ELSE closing[t]
      /\ \A g \in Flows : thread'[g] = IF g = e THEN "cancelled" ELSE thread[g]
  BY <1>1, RecvLogsAssumption DEF ModeInv, ThreadTypes
<1>3. CASE f = e
  <2>1. InBuffer(f) = 0 /\ InBuffer(f)' = 0
    BY <1>1, <1>2, <1>3 DEF InBuffer
  <2>2. Gone(f)' = Gone(f)
    BY <1>1, <2>1 DEF Gone
  <2>3. Told(c, f)' = Told(c, f)
    BY <1>1 DEF Told, UnderWay
  <2>4. ToldRight(f)'
    BY <1>1, <2>2, <2>3, ToldKept
  <2>5. BufferRight(f)'
    BY <1>1, <1>2, <1>3, <2>1, <2>2 DEF BufferRight
  <2> QED
    BY <2>4, <2>5
<1>4. CASE f # e
  <2>1. Home[f] = s => closing[Home[f]] # f
    BY <1>4
  <2>2. thread'[f] = thread[f]
    BY <1>2, <1>4
  <2>3. ConnectionMoves
    BY <1>1 DEF ConnectionMoves
  <2> QED
    BY <1>1, <1>2, <2>1, <2>2, <2>3, BystanderSent
<1> QED
  BY <1>3, <1>4

\* The other steps of a session.
LEMMA SessionSent ==
  ASSUME Unmixed, ServerInv, ModeInv, DataTypes, SocketsOpen,
         NEW f \in Flows, LogsRemotely(f), NEW c \in Clients, logSock[Home[f]] = c,
         thread[f] # "none",
         ToldRight(f), BufferRight(f), NEW s \in Sessions, SessionSteps(s)
  PROVE  ToldRight(f)' /\ BufferRight(f)'
<1>0. Home[f] \in Sessions /\ c # NoOne
  BY RecvLogsAssumption
<1>1. logCheck = 0 /\ logRemote # 0
  BY <1>0, NoLocalLog DEF SocketsOpen
<1>2. ~SessionWrites(s) /\ ~SessionLogsNothing(s)
  BY <1>1 DEF SessionWrites, SessionLogsNothing, Logging
<1>3. CASE ~SessionSends(s) /\ ~CancelThread(s)
  <2>1. UNCHANGED <<thread, taken, infos, count, closing, dataTo, logged>>
    BY <1>2, <1>3 DEF SessionSteps, SessionStarts, ShareLog, OpenLog, NameLog, Granted,
       AskRemoteLog,
       AskForLog, OpenRemoteLog, ConnectData, Release, CloseFileLog, CloseRemoteLog, recvLogVars,
       sessionVars, threadVars, serverVars
  <2>2. ConnectionMoves
    BY SessionConnects
  <2>3. logSock'[Home[f]] = c
    BY SessionDataMoves DEF ThreadsMove
  <2>4. session'[Home[f]] = "flushed" <=> session[Home[f]] = "flushed"
    <3>1. session'[Home[f]] = "flushed" => session[Home[f]] = "flushed"
      BY <1>0, <1>2, <1>3, SessionsFlush
    <3>2. session[Home[f]] = "flushed" => session'[Home[f]] = "flushed"
      <4>1. session[s] # "flushed"
        BY <1>2, <1>3 DEF SessionSteps, SessionStarts, ShareLog, OpenLog, NameLog, Granted,
           AskRemoteLog,
           OpenRemoteLog, Release, CloseFileLog, CloseRemoteLog
      <4>2. \A t \in Sessions \ {s} : session'[t] = session[t]
        BY SessionMovesAlone DEF ModeInv, ThreadTypes
      <4> QED
        BY <1>0, <4>1, <4>2
    <3> QED
      BY <3>1, <3>2
  <2> QED
    BY <2>1, <2>2, <2>3, <2>4, BystanderSent
<1> QED
  BY <1>3, SessionSendsSent, CancelThreadSent

\* A step of another flow.
LEMMA OtherFlowSent ==
  ASSUME Unmixed, ServerInv, ModeInv, DataTypes, SocketsOpen, ~LateData,
         NEW f \in Flows, LogsRemotely(f), NEW c \in Clients, logSock[Home[f]] = c,
         ToldRight(f), BufferRight(f), NEW e \in Flows, e # f,
         StartFlow(e) \/ TakePacket(e) \/ DataThread(e) \/ CloseFlow(e)
  PROVE  ToldRight(f)' /\ BufferRight(f)'
<1>0. Home[f] \in Sessions /\ Home[e] \in Sessions /\ f # NoOne
  BY RecvLogsAssumption
<1>1. /\ UNCHANGED <<logSock, logConn, logged>>
      /\ thread'[f] = thread[f] /\ taken'[f] = taken[f] /\ infos'[f] = infos[f]
      /\ count'[f] = count[f]
  <2>1. CASE WriteBuffer(e)
    BY <2>1, NoLocalLog DEF WriteBuffer, ModeInv, ThreadsLog
  <2>2. CASE ~WriteBuffer(e)
    BY <2>2 DEF StartFlow, TakePacket, DataThread, CountPacket, FlushStarts, SendBuffer, CloseFlow,
       SetThread, sessionVars, threadVars, serverVars, ServerElse, ModeInv, ThreadTypes
  <2> QED
    BY <2>1, <2>2
<1>2. ConnectionMoves
  BY <1>1 DEF ConnectionMoves
<1>3. UNCHANGED <<dataTo, logged>> \/ \E x \in Flows \ {f} : Sends(x)
  <2>1. CASE SendBuffer(e)
    <3>1. logSock[Home[e]] = NoOne => UNCHANGED <<dataTo, logged>>
      BY <2>1 DEF SendBuffer, SendTo, ServerElse
    <3>2. logSock[Home[e]] # NoOne => Sends(e)
      BY <2>1 DEF SendBuffer, SendTo, ServerElse, Sends
    <3> QED
      BY <3>1, <3>2
  <2>2. CASE ~SendBuffer(e)
    BY <2>2 DEF StartFlow, TakePacket, DataThread, CountPacket, FlushStarts, WriteBuffer,
       CloseFlow,
       serverVars
  <2> QED
    BY <2>1, <2>2
<1>4. /\ closing'[Home[f]] = f => closing[Home[f]] = f
      /\ closing'[Home[f]] = f /\ session'[Home[f]] = "flushed"
           <=> closing[Home[f]] = f /\ session[Home[f]] = "flushed"
  <2>1. CASE CloseFlow(e)
    <3>1. /\ session[Home[e]] = "ready"
          /\ \A s \in Sessions : /\ closing'[s] = IF s = Home[e] THEN e ELSE closing[s]
                                 /\ session'[s] = IF s = Home[e] THEN "closing" ELSE session[s]
      BY <2>1 DEF CloseFlow, SetSession, ModeInv, ThreadTypes
    <3> QED
      BY <1>0, <3>1
  <2>2. CASE ~CloseFlow(e)
    BY <2>2 DEF StartFlow, TakePacket, DataThread, CountPacket, FlushStarts, WriteBuffer,
       SendBuffer,
       sessionVars
  <2> QED
    BY <2>1, <2>2
<1> QED
  BY <1>1, <1>2, <1>3, <1>4, BystanderSent

\* The steps of the flow itself, once it has been started.
LEMMA OwnFlowSent ==
  ASSUME Unmixed, ServerInv, ModeInv, DataTypes, SocketsOpen, ~LateData,
         NEW f \in Flows, LogsRemotely(f), NEW c \in Clients, logSock[Home[f]] = c,
         ToldRight(f), BufferRight(f), thread[f] # "none",
         TakePacket(f) \/ DataThread(f) \/ CloseFlow(f)
  PROVE  ToldRight(f)' /\ BufferRight(f)'
<1>0. Home[f] \in Sessions /\ f # NoOne /\ c # NoOne
  BY RecvLogsAssumption
<1>1. logCheck = 0 /\ logRemote # 0
  BY <1>0, NoLocalLog DEF SocketsOpen
<1>2. /\ count[f] \in Nat /\ taken[f] \in Nat /\ count[f] <= taken[f] /\ MaxPackets \in Nat
      /\ infos[f] \in [Positions -> 0 .. MaxPackets] /\ taken[f] <= MaxPackets
      /\ InHand(f) <= taken[f]
  BY RecvLogsAssumption DEF InHand, ModeInv, ThreadTypes, CountTaken
<1>3. CASE TakePacket(f)
  <2>1. /\ thread[f] = "receiving" /\ thread'[f] = "recorded"
        /\ UNCHANGED <<count, closing, session, logSock, logConn, dataTo, logged>>
        /\ taken'[f] = taken[f] + 1 /\ taken[f] < MaxPackets
        /\ infos'[f] = [infos[f] EXCEPT ![count[f]] = taken[f] + 1]
        /\ closing[Home[f]] # f
    BY <1>1, <1>3 DEF TakePacket, Logging, SetThread, sessionVars, serverVars, ModeInv, ThreadTypes
  <2>2. InBuffer(f) = count[f] /\ InBuffer(f)' = count[f] + 1
    BY <1>2, <2>1 DEF InBuffer
  <2>3. Gone(f)' = Gone(f) /\ Gone(f) = taken[f] - count[f]
    BY <1>2, <2>1, <2>2 DEF Gone
  <2>4. Told(c, f)' = Told(c, f)
    BY <2>1 DEF Told, UnderWay
  <2>5. ASSUME NEW p \in 0 .. InBuffer(f)' - 1 PROVE infos'[f][p] = Gone(f) + p + 1
    <3>1. count[f] \in Positions /\ p \in Positions /\ p \in 0 .. count[f]
      BY <1>2, <2>1, <2>2, <2>5 DEF Positions
    <3>2. CASE p = count[f]
      BY <1>2, <2>1, <2>3, <3>1, <3>2
    <3>3. CASE p # count[f]
      <4>1. p \in 0 .. InBuffer(f) - 1 /\ infos'[f][p] = infos[f][p]
        BY <1>2, <2>1, <2>2, <3>1, <3>3
      <4> QED
        BY <4>1 DEF BufferRight
    <3> QED
      BY <3>2, <3>3
  <2>6. ToldRight(f)'
    BY <2>1, <2>3, <2>4, ToldKept
  <2>7. BufferRight(f)'
    BY <2>1, <2>3, <2>5 DEF BufferRight
  <2> QED
    BY <2>6, <2>7
<1>4. CASE CountPacket(f) \/ FlushStarts(f)
  <2>1. /\ UNCHANGED <<taken, infos, closing, session, logSock, logConn, dataTo, logged>>
        /\ \/ thread[f] = "recorded" /\ thread'[f] \in {"full", "receiving"}
              /\ count'[f] = count[f] + 1
           \/ thread[f] = "full" /\ thread'[f] \in {"writing", "sending"}
              /\ count'[f] = count[f]
    BY <1>4 DEF CountPacket, FlushStarts, SetThread, sessionVars, serverVars, ModeInv, ThreadTypes
  <2>2. closing[Home[f]] # f
    BY <2>1 DEF BufferRight
  <2>3. InBuffer(f)' = InBuffer(f)
    BY <1>2, <2>1, <2>2 DEF InBuffer
  <2>4. Gone(f)' = Gone(f) /\ Told(c, f)' = Told(c, f)
    BY <2>1, <2>3 DEF Gone, Told, UnderWay
  <2>5. ToldRight(f)'
    BY <2>1, <2>4, ToldKept
  <2>6. BufferRight(f)'
    BY <2>1, <2>2, <2>3, <2>4 DEF BufferRight
  <2> QED
    BY <2>5, <2>6
<1>5. CASE WriteBuffer(f)
  BY <1>1, <1>5 DEF WriteBuffer, ModeInv, ThreadsLog
<1>6. CASE SendBuffer(f)
  <2>1. /\ thread[f] = "sending" /\ thread'[f] = "receiving" /\ count'[f] = 0
        /\ UNCHANGED <<taken, infos, closing, session, logSock, logConn, logged>>
        /\ SendTo(logSock[Home[f]], f)
    BY <1>6 DEF SendBuffer, SetThread, sessionVars, ServerElse, ModeInv, ThreadTypes
  <2>2. Sends(f)
    BY <1>0, <2>1 DEF Sends, SendTo
  <2>3. closing[Home[f]] # f
    BY <2>1 DEF BufferRight
  <2>4. InBuffer(f) = count[f] /\ InBuffer(f)' = 0
    BY <1>2, <2>1, <2>3 DEF InBuffer
  <2>5. ToldRight(f)'
    BY <2>1, <2>2, <2>4, BufferSent
  <2>6. BufferRight(f)'
    BY <2>1, <2>3, <2>4 DEF BufferRight
  <2> QED
    BY <2>5, <2>6
<1>7. CASE CloseFlow(f)
  <2>1. /\ thread[f] = "receiving" /\ session[Home[f]] = "ready"
        /\ closing'[Home[f]] = f /\ session'[Home[f]] = "closing"
        /\ UNCHANGED <<thread, count, taken, infos, logSock, logConn, dataTo, logged>>
    BY <1>0, <1>7 DEF CloseFlow, SetSession, threadVars, serverVars, ModeInv, ThreadTypes
  <2>2. InBuffer(f)' = InBuffer(f)
    BY <2>1 DEF InBuffer
  <2>3. Gone(f)' = Gone(f) /\ Told(c, f)' = Told(c, f)
    BY <2>1, <2>2 DEF Gone, Told, UnderWay
  <2>4. ToldRight(f)'
    BY <2>1, <2>3, ToldKept
  <2>5. BufferRight(f)'
    BY <2>1, <2>2, <2>3 DEF BufferRight
  <2> QED
    BY <2>4, <2>5
<1> QED
  BY <1>3, <1>4, <1>5, <1>6, <1>7 DEF DataThread

\* Nothing has been received of a flow that has not been started.
LEMMA NotStarted ==
  ASSUME ModeInv, RecordsOwn, NEW f \in Flows, NEW c \in Clients, thread[f] = "none"
  PROVE  /\ taken[f] = 0 /\ count[f] = 0 /\ closing[Home[f]] # f
         /\ UnderWay(c, f) = <<>> /\ logged[LogName[c]][f] = <<>>
<1>1. taken[f] = 0 /\ count[f] = 0
  BY DEF ModeInv, ThreadTypes, CountTaken, InHand
<1>2. closing[Home[f]] # f
  <2>1. Home[f] \in Sessions /\ f # NoOne
    BY RecvLogsAssumption
  <2> QED
    BY <2>1 DEF ModeInv, ThreadsServed, Running
<1> QED
  BY <1>1, <1>2 DEF RecordsOwn, Names

\* A flow that has been started: what ITGLog, its network and the buffer hold of it.
LEMMA StartedSent ==
  ASSUME Unmixed, RemoteInv, NEW f \in Flows, LogsRemotely(f), NEW c \in Clients,
         logSock[Home[f]] = c, logSock'[Home[f]] = c, thread[f] # "none", [Next]_vars
  PROVE  ToldRight(f)' /\ BufferRight(f)'
<1> USE DEF RemoteInv
<1>1. ToldRight(f) /\ BufferRight(f)
  BY RecvLogsAssumption DEF FlowsSent
<1>2. ASSUME NEW d \in Clients, Connects(d) \/ Manages(d) \/ DatagramLost(d)
      PROVE  ToldRight(f)' /\ BufferRight(f)'
  BY <1>1, <1>2, ServerSent
<1>3. ASSUME NEW s \in Sessions, SessionSteps(s) PROVE ToldRight(f)' /\ BufferRight(f)'
  BY <1>1, <1>3, SessionSent
<1>4. ASSUME NEW e \in Flows, StartFlow(e) \/ TakePacket(e) \/ DataThread(e) \/ CloseFlow(e)
      PROVE  ToldRight(f)' /\ BufferRight(f)'
  <2>1. CASE e = f
    <3>1. ~StartFlow(e)
      BY <2>1 DEF StartFlow
    <3> QED
      BY <1>1, <1>4, <2>1, <3>1, OwnFlowSent
  <2>2. CASE e # f
    BY <1>1, <1>4, <2>2, OtherFlowSent
  <2> QED
    BY <2>1, <2>2
<1>5. CASE StartGlobalLog \/ Done \/ UNCHANGED vars
  <2>1. UNCHANGED recvLogVars /\ UNCHANGED <<dataTo, logged>>
    BY <1>5 DEF StartGlobalLog, AskForLog, ConnectData, Done, vars, serverVars
  <2>2. ConnectionMoves
    BY <1>5, RecvLogsAssumption DEF StartGlobalLog, AskForLog, ConnectData, SetConn,
       ConnectionMoves,
       Done, vars, serverVars
  <2> QED
    BY <1>1, <2>1, <2>2, BystanderSent DEF recvLogVars, sessionVars, threadVars
<1> QED
  BY <1>2, <1>3, <1>4, <1>5 DEF Next

\* Only SEND_FLOW starts a data thread.
LEMMA StartsOnly ==
  ASSUME ServerInv, ModeInv, [Next]_vars, NEW f \in Flows, thread[f] = "none", thread'[f] # "none"
  PROVE  StartFlow(f)
<1> USE DEF ModeInv, ThreadTypes
<1>1. ASSUME NEW d \in Clients, Connects(d) \/ Manages(d) \/ DatagramLost(d) PROVE FALSE
  BY <1>1 DEF Connects, Manages, DatagramLost, recvLogVars, threadVars
<1>2. ASSUME NEW s \in Sessions, SessionSteps(s) PROVE FALSE
  <2>1. ~CancelThread(s)
    BY DEF CancelThread, SetThread, ThreadsServed, Running
  <2>2. UNCHANGED thread
    BY <1>2, <2>1 DEF SessionSteps, SessionStarts, ShareLog, OpenLog, NameLog, Granted,
       AskRemoteLog,
       OpenRemoteLog, SessionWrites, SessionSends, SessionLogsNothing, Release, CloseFileLog,
       CloseRemoteLog, recvLogVars, threadVars
  <2> QED
    BY <2>2
<1>3. ASSUME NEW e \in Flows, TakePacket(e) \/ DataThread(e) \/ CloseFlow(e) PROVE FALSE
  BY <1>3 DEF TakePacket, DataThread, CountPacket, FlushStarts, WriteBuffer, SendBuffer, CloseFlow,
     SetThread, threadVars
<1>4. ASSUME NEW e \in Flows, StartFlow(e) PROVE StartFlow(f)
  BY <1>4 DEF StartFlow, SetThread
<1>5. CASE StartGlobalLog \/ Done \/ UNCHANGED vars
  BY <1>5 DEF StartGlobalLog, Done, vars, recvLogVars, threadVars
<1> QED
  BY <1>1, <1>2, <1>3, <1>4, <1>5 DEF Next

\* What has been asked of the receiver does not change.
LEMMA ScenarioKept ==
  ASSUME [Next]_vars
  PROVE  UNCHANGED scenario
  BY ZenonT(40) DEF Next, Connects, Manages, DatagramLost, StartGlobalLog, SessionSteps, SessionStarts,
     ShareLog,
     OpenLog, NameLog, Granted, AskRemoteLog, OpenRemoteLog, SessionWrites, SessionSends,
     SessionLogsNothing, CancelThread, Release, CloseFileLog, CloseRemoteLog, StartFlow,
     TakePacket,
     DataThread, CountPacket, FlushStarts, WriteBuffer, SendBuffer, CloseFlow, Done, vars,
     recvLogVars

\* Every flow is sent right after a step: it starts, or it had been.
LEMMA FlowsSentStep ==
  ASSUME Unmixed, RemoteInv, [Next]_vars, ModeInv', RecordsOwn', ThreadsMove
  PROVE  FlowsSent'
<1> SUFFICES ASSUME NEW f \in Flows, LogsRemotely(f)', logSock'[Home[f]] # NoOne
             PROVE  ToldRight(f)' /\ BufferRight(f)'
  BY DEF FlowsSent
<1>1. Home[f] \in Sessions
  BY RecvLogsAssumption
<1>2. PICK c \in Clients : c = logSock'[Home[f]]
  BY <1>1 DEF ModeInv, ThreadTypes
<1>3. CASE thread'[f] = "none"
  <2>1. /\ taken'[f] = 0 /\ count'[f] = 0 /\ closing'[Home[f]] # f
        /\ UnderWay(c, f)' = <<>> /\ logged'[LogName[c]][f] = <<>>
    <3>1. taken'[f] = 0 /\ count'[f] = 0
      BY <1>3 DEF ModeInv, ThreadTypes, CountTaken, InHand
    <3>2. closing'[Home[f]] # f
      <4>1. f # NoOne
        BY RecvLogsAssumption
      <4> QED
        BY <1>1, <1>3, <4>1 DEF ModeInv, ThreadsServed, Running
    <3> QED
      BY <1>3, <3>1, <3>2 DEF RecordsOwn, Names
  <2> QED
    BY <1>2, <1>3, <2>1, FreshSent
<1>4. CASE thread'[f] # "none" /\ thread[f] = "none"
  <2>1. StartFlow(f)
    BY <1>4, StartsOnly DEF RemoteInv
  <2>2. /\ taken[f] = 0 /\ count[f] = 0 /\ closing[Home[f]] # f
        /\ UnderWay(c, f) = <<>> /\ logged[LogName[c]][f] = <<>>
    BY <1>4, NotStarted DEF RemoteInv
  <2>3. /\ thread'[f] = "receiving" /\ UNCHANGED <<taken, count, closing, dataTo, logged>>
    BY <2>1 DEF StartFlow, SetThread, sessionVars, serverVars, RemoteInv, ModeInv, ThreadTypes
  <2>4. UnderWay(c, f)' = <<>>
    BY <2>2, <2>3 DEF UnderWay
  <2> QED
    BY <1>2, <2>2, <2>3, <2>4, FreshSent
<1>5. CASE thread'[f] # "none" /\ thread[f] # "none"
  <2>1. logSock[Home[f]] = c
    BY <1>2, <1>5 DEF ThreadsMove
  <2>2. LogsRemotely(f)
    BY ScenarioKept DEF LogsRemotely, Wants
  <2> QED
    BY <1>2, <1>5, <2>1, <2>2, StartedSent
<1> QED
  BY <1>3, <1>4, <1>5

\* The invariant is inductive ...
LEMMA RemoteStep == Unmixed /\ RemoteInv /\ [Next]_vars => RemoteInv'
<1> SUFFICES ASSUME Unmixed, RemoteInv, [Next]_vars PROVE RemoteInv'
  OBVIOUS
<1>1. ServerInv /\ FileInv /\ ModeInv /\ DataTypes /\ RequestsOwn /\ SocketsOpen /\ RecordsOwn
  BY DEF RemoteInv
<1>2. ServerInv' /\ FileInv' /\ ModeInv' /\ DataTypes'
  BY <1>1, ServerStep, FilesStep, ModesStep, DataStep
<1>3. RequestsOwn' /\ SocketsOpen'
  BY <1>1, RequestsStep, SocketsStep
<1>4. DataMoves /\ ThreadsMove
  BY <1>1, StepMoves
<1>5. RecordsOwn'
  BY <1>1, <1>4, RecordsOwnStep
<1>6. FlowsSent'
  BY <1>2, <1>4, <1>5, FlowsSentStep
<1> QED
  BY <1>2, <1>3, <1>5, <1>6 DEF RemoteInv

\* ... holds at the start ...
LEMMA RemoteInitially == Init /\ OneAtATime /\ ~LateData => RemoteInv
<1> SUFFICES ASSUME Init, OneAtATime, ~LateData PROVE RemoteInv
  OBVIOUS
<1>1. ServerInv /\ FileInv /\ ModeInv /\ DataTypes
  BY ServerInitially, FilesInitially, ModesInitially, DataInitially
<1>2. RequestsOwn
  BY DEF Init, LogServerInit, RequestsOwn
<1>3. SocketsOpen /\ FlowsSent
  BY RecvLogsAssumption DEF Init, RecvLogsInit, SocketsOpen, FlowsSent
<1>4. RecordsOwn
  <2>1. \A c \in Clients, f \in Flows : UnderWay(c, f) = <<>>
    BY SMTT(30), RecordsTyped DEF Init, LogServerInit, UnderWay
  <2> QED
    BY <2>1, RecvLogsAssumption DEF Init, LogServerInit, RecordsOwn
<1> QED
  BY <1>1, <1>2, <1>3, <1>4 DEF RemoteInv

\* ... and says what ITGLog has.
LEMMA RemoteInvKeepsRecords == RemoteInv => RemoteRecordsKept
<1> SUFFICES ASSUME RemoteInv, NEW f \in Flows, LogsRemotely(f), NEW c, c = logSock[Home[f]],
                    c # NoOne
             PROVE  LET records == logged[LogName[c]][f] \o UnderWay(c, f) IN
                    IF LogProto[c] = "TCP"
                    THEN logConn[c] = "open" => records = UpTo(taken[f] - InBuffer(f))
                    ELSE \A i, j \in DOMAIN records : i < j => records[i] < records[j]
  BY DEF RemoteRecordsKept
<1>1. ToldRight(f)
  BY DEF RemoteInv, FlowsSent
<1>2. LogProto[c] \in {"TCP", "UDP"}
  <2>1. c \in Clients
    BY RecvLogsAssumption DEF RemoteInv, ModeInv, ThreadTypes
  <2> QED
    BY <2>1, LogServerAssumption
<1> QED
  BY ZenonT(40), <1>1, <1>2 DEF ToldRight, Told, Gone, RisingTo

\* flushBuffer and the logsend functions, ITGLog's reads of a stream and of datagrams: if
\* senders ask one after another, no packet arrives for a flow that is being closed and no
\* sender wants a local log where ITGLog has the logs, then over TCP the file at ITGLog, what
\* is under way and the buffer hold each packet of a flow once and in order while the
\* connection is open; over UDP nothing is there twice or out of order.
THEOREM RemoteRecords ==
  ASSUME OneAtATime, ~LateData, Unmixed PROVE Spec => []RemoteRecordsKept
  BY RemoteInitially, RemoteStep, RemoteInvKeepsRecords, PTL DEF Spec
=============================================================================
