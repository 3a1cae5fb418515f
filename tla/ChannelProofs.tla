--------------------------- MODULE ChannelProofs ---------------------------
(***************************************************************************)
(* Type correctness of the two programs and "one channel per receiver",    *)
(* proved for any finite set of flows, any receivers and any number of     *)
(* channel slots that is at least the number of flows.                     *)
(*                                                                         *)
(* Neither is inductive alone.  A parser that registers a channel needs a  *)
(* free slot, which is there because open channels have different          *)
(* receivers; and it opens no second channel to a receiver because it has  *)
(* held `mutex` since it found none.  ChannelInv is the conjunction.       *)
(***************************************************************************)
EXTENDS TspSession, TLAPS, FiniteSetTheorems, WellFoundedInduction

(***************************************************************************)
(* Searches of signalChannels[]                                            *)
(***************************************************************************)

\* The loop over signalChannels[] stops at a slot it is looking for, if there is
\* one: checkDestHostIP, and the search for a free slot.
LEMMA FirstIsMember ==
  ASSUME NEW S, S \subseteq Chans, S # {}
  PROVE  First(S) \in S
<1> DEFINE Less == {ss \in Nat \X Nat : ss[1] < ss[2]}
<1>1. S \subseteq Nat
  BY DEF Chans
<1>2. IsWellFoundedOn(Less, Nat)
  BY NatLessThanWellFounded DEF OpToRel
<1>3. PICK x \in S : \A y \in S : <<y, x>> \notin Less
  BY <1>1, <1>2, WFMin, Zenon
<1>4. \A y \in S : ~(y < x)
  BY <1>1, <1>3
<1>5. \A y \in S : x <= y
  BY <1>1, <1>4
<1> QED
  BY <1>5 DEF First

\* While a parser opens a connection, a slot is free: the open channels belong to
\* flows with different receivers, and none of them to this parser's.
LEMMA FreeSlot ==
  ASSUME ChannelInv, NEW f \in Flows, parser[f] \in Opening
  PROVE  {c \in Chans : chanSock[c] = NoFlow} # {}
<1> SUFFICES ASSUME \A c \in Chans : chanSock[c] # NoFlow
             PROVE  FALSE
  OBVIOUS
<1>1. chanSock \in [Chans -> Flows \ {f}]
  <2>1. chanSock \in [Chans -> Flows]
    BY DEF ChannelInv, TypeOK, SendTypeOK, ChanTypeOK
  <2>2. \A c \in Chans : chanSock[c] # f
    BY DEF ChannelInv, MutexProtectsChannels, SameDest
  <2> QED
    BY <2>1, <2>2
<1>2. \A c, d \in Chans : c # d => chanSock[c] # chanSock[d]
  BY DEF ChannelInv, OneChannelPerHost
<1>3. IsFiniteSet(Flows \ {f}) /\ Cardinality(Flows \ {f}) = Cardinality(Flows) - 1
  BY SenderAssumption, FS_RemoveElement
<1>4. IsFiniteSet(Chans) /\ Cardinality(Chans) = NumChans
  <2>1. NumChans \in Nat /\ 0 \in Int /\ NumChans - 1 \in Int
    BY SenderAssumption
  <2>2. /\ IsFiniteSet(Chans)
        /\ Cardinality(Chans) = IF 0 > NumChans - 1 THEN 0 ELSE NumChans - 1 - 0 + 1
    BY <2>1, FS_Interval DEF Chans
  <2> QED
    BY <2>1, <2>2
<1>5. Cardinality(Flows) \in Nat
  BY SenderAssumption, FS_CardinalityType
<1>6. Cardinality(Flows \ {f}) < Cardinality(Chans)
  BY <1>3, <1>4, <1>5, SenderAssumption
<1>7. \E c, d \in Chans : c # d /\ chanSock[c] = chanSock[d]
  BY <1>1, <1>3, <1>4, <1>6, FS_PigeonHole
<1> QED
  BY <1>2, <1>7

-----------------------------------------------------------------------------
(***************************************************************************)
(* Initial states                                                          *)
(***************************************************************************)

LEMMA InitChannelInv == Init => ChannelInv
<1> SUFFICES ASSUME Init PROVE ChannelInv
  OBVIOUS
<1> USE DEF Init, NetInit, SendInit, RecvInit
<1>1. NetTypeOK
  BY DEF NetTypeOK
<1>2. SendTypeOK
  BY SenderAssumption DEF SendTypeOK, ChanTypeOK, ThreadTypeOK, Owners, Unlocked, ParserPCs, SenderPCs, Managers
<1>3. RecvTypeOK
  BY DEF RecvTypeOK, SessionPCs, ThreadPCs
<1>4. OneChannelPerHost
  BY DEF OneChannelPerHost
<1>5. MutexProtectsChannels
  BY DEF MutexProtectsChannels, Opening, Manager
<1>6. ChannelKnown
  BY DEF ChannelKnown, Opening, Manager
<1> QED
  BY <1>1, <1>2, <1>3, <1>4, <1>5, <1>6 DEF ChannelInv, TypeOK

-----------------------------------------------------------------------------
(***************************************************************************)
(* What the shared steps do to the types                                   *)
(***************************************************************************)

\* An update of a function keeps its type, also outside its domain, where it
\* changes nothing.
LEMMA UpdateKeepsType ==
  ASSUME NEW D, NEW S, NEW q \in [D -> S], NEW x, NEW e, x \in D => e \in S,
         NEW r, r = [q EXCEPT ![x] = e]
  PROVE  r \in [D -> S]
<1>1. CASE x \in D
  BY <1>1
<1>2. CASE x \notin D
  <2>1. [q EXCEPT ![x] = e] = q
    BY <1>2
  <2> QED
    BY <2>1
<1> QED
  BY <1>1, <1>2

\* A queue stays a queue when an element is added or the oldest is taken.
LEMMA QueueGrows ==
  ASSUME NEW D, NEW S, NEW q \in [D -> Seq(S)], NEW x, NEW e \in S,
         NEW r, r = [q EXCEPT ![x] = Append(@, e)]
  PROVE  r \in [D -> Seq(S)]
<1>1. x \in D => Append(q[x], e) \in Seq(S)
  OBVIOUS
<1> QED
  BY <1>1, UpdateKeepsType

LEMMA QueueShrinks ==
  ASSUME NEW D, NEW S, NEW q \in [D -> Seq(S)], NEW x, x \in D => q[x] # <<>>,
         NEW r, r = [q EXCEPT ![x] = Tail(@)]
  PROVE  /\ r \in [D -> Seq(S)]
         /\ x \in D => Head(q[x]) \in S
<1>1. x \in D => Tail(q[x]) \in Seq(S) /\ Head(q[x]) \in S
  OBVIOUS
<1> QED
  BY <1>1, UpdateKeepsType

\* Messages of the two kinds, and the flow of one that carries a flow.
LEMMA MessageKinds ==
  /\ \A t \in PlainTypes : Plain(t) \in Messages
  /\ \A t \in FlowTypes, f \in Flows : Msg(t, f) \in Messages
  /\ \A m \in Messages : m.type \in FlowTypes => m.flow \in Flows
  /\ PlainTypes \cap FlowTypes = {}
  BY DEF Messages, Msg, Plain, PlainTypes, FlowTypes

\* send() and recv() by the sender.
LEMMA SenderNet ==
  ASSUME NetTypeOK, NEW g
  PROVE  /\ \A m \in Messages : SenderSends(g, m) => toRecv' \in [Flows -> Seq(Messages)]
         /\ (g \in Flows /\ toSend[g] # <<>>) => Head(toSend[g]) \in Messages
         /\ (g \in Flows => toSend[g] # <<>>) /\ SenderTakes(g)
              => toSend' \in [Flows -> Seq(Messages)]
<1> USE DEF NetTypeOK
<1>1. ASSUME NEW m \in Messages, SenderSends(g, m)
      PROVE  toRecv' \in [Flows -> Seq(Messages)]
  <2>1. toRecv \in [Flows -> Seq(Messages)] /\ toRecv' = [toRecv EXCEPT ![g] = Append(@, m)]
    BY <1>1 DEF SenderSends
  <2> HIDE DEF NetTypeOK
  <2> QED
    <3>1. CASE g \in Flows
      BY <2>1, <3>1, QueueGrows
    <3>2. CASE g \notin Flows
      BY <2>1, <3>2
    <3> QED
      BY <3>1, <3>2
<1>2. (g \in Flows /\ toSend[g] # <<>>) => Head(toSend[g]) \in Messages
  OBVIOUS
<1>3. ASSUME g \in Flows => toSend[g] # <<>>, SenderTakes(g)
      PROVE  toSend' \in [Flows -> Seq(Messages)]
  <2>1. toSend \in [Flows -> Seq(Messages)] /\ toSend' = [toSend EXCEPT ![g] = Tail(@)]
    BY <1>3 DEF SenderTakes
  <2> HIDE DEF NetTypeOK
  <2> QED
    <3>1. CASE g \in Flows
      BY <1>3, <2>1, <3>1, QueueShrinks
    <3>2. CASE g \notin Flows
      BY <2>1, <3>2
    <3> QED
      BY <3>1, <3>2
<1> QED
  BY <1>1, <1>2, <1>3

\* send() and recv() by a session of the receiver.
LEMMA ReceiverNet ==
  ASSUME NetTypeOK, NEW g \in Flows
  PROVE  /\ \A m \in Messages : ReceiverSends(g, m) => toSend' \in [Flows -> Seq(Messages)]
         /\ toRecv[g] # <<>> => Head(toRecv[g]) \in Messages
         /\ toRecv[g] # <<>> /\ ReceiverTakes(g) => toRecv' \in [Flows -> Seq(Messages)]
<1> USE DEF NetTypeOK
<1>1. \A m \in Messages : ReceiverSends(g, m) => toSend' \in [Flows -> Seq(Messages)]
  BY QueueGrows DEF ReceiverSends
<1>2. toRecv[g] # <<>> => Head(toRecv[g]) \in Messages
  OBVIOUS
<1>3. toRecv[g] # <<>> /\ ReceiverTakes(g) => toRecv' \in [Flows -> Seq(Messages)]
  BY QueueShrinks DEF ReceiverTakes
<1> QED
  BY <1>1, <1>2, <1>3

\* Writes to a channel's pipe and to a parser's pipe.
LEMMA PushesToChannel ==
  ASSUME SendTypeOK, NEW c, NEW code \in PipeCodes, NEW f \in Flows,
         PushToChannel(c, code, f)
  PROVE  chanPipe' \in [Chans -> Seq(PipeMessages)]
<1> DEFINE m == [code |-> code, flow |-> f]
<1>1. m \in PipeMessages
  BY DEF PipeMessages
<1>2. chanPipe \in [Chans -> Seq(PipeMessages)]
  BY DEF SendTypeOK, ChanTypeOK
<1>3. chanPipe' = chanPipe \/ chanPipe' = [chanPipe EXCEPT ![c] = Append(@, m)]
  BY DEF PushToChannel
<1> HIDE DEF m
<1>4. CASE chanPipe' = [chanPipe EXCEPT ![c] = Append(@, m)]
  <2>1. CASE c \in Chans
    BY <1>1, <1>2, <1>4, <2>1, QueueGrows
  <2>2. CASE c \notin Chans
    BY <1>2, <1>4, <2>2
  <2> QED
    BY <2>1, <2>2
<1> QED
  BY <1>2, <1>3, <1>4

LEMMA PushesToParser ==
  ASSUME SendTypeOK, NEW f \in Flows, NEW code \in ResultCodes, PushToParser(f, code)
  PROVE  parserPipe' \in [Flows -> Seq(ResultCodes)]
<1>1. parserPipe \in [Flows -> Seq(ResultCodes)]
  BY DEF SendTypeOK, ThreadTypeOK
<1>2. parserPipe' = [parserPipe EXCEPT ![f] = Append(@, code)]
  BY DEF PushToParser
<1> QED
  BY <1>1, <1>2, QueueGrows

\* A recv() for an answer leaves a queue of messages, whatever it returns.
LEMMA AnswerTaken ==
  ASSUME NetTypeOK, NEW g, Answered(g)
  PROVE  toSend' \in [Flows -> Seq(Messages)]
<1>1. CASE toSend[g] # <<>> /\ SenderTakes(g)
  BY <1>1, SenderNet
<1>2. CASE UNCHANGED toSend
  BY <1>2 DEF NetTypeOK
<1> QED
  BY <1>1, <1>2 DEF Answered

\* isChannelClosable up to the RELEASE.
LEMMA Leaves ==
  ASSUME TypeOK, NEW c, NEW f, NEW owner \in Owners, LeaveChannel(c, f, owner)
  PROVE  ChanTypeOK' /\ NetTypeOK'
<1> USE DEF TypeOK, SendTypeOK, LeaveChannel, SendRelease
<1>1. ChanTypeOK'
  <2> USE DEF ChanTypeOK
  <2>1. mutex' \in Owners
    OBVIOUS
  <2>2. chanFlows' \in [Chans -> Int]
    <3>1. c \in Chans => chanFlows[c] - 1 \in Int
      OBVIOUS
    <3> QED
      BY ZenonT(40), <3>1, UpdateKeepsType
  <2>3. holders' \in [Chans -> SUBSET Flows]
    <3>1. c \in Chans => holders[c] \ {f} \in SUBSET Flows
      OBVIOUS
    <3> QED
      BY <3>1, UpdateKeepsType
  <2> QED
    BY <2>1, <2>2, <2>3
<1>2. toRecv' \in [Flows -> Seq(Messages)]
  <2>1. Plain("RELEASE") \in Messages
    BY MessageKinds DEF PlainTypes
  <2> QED
    BY <2>1, SenderNet DEF NetTypeOK
<1> QED
  BY <1>1, <1>2 DEF NetTypeOK

\* isChannelClosable after it.
LEMMA Closes ==
  ASSUME TypeOK, NEW c, CloseChannel(c)
  PROVE  ChanTypeOK' /\ NetTypeOK'
<1> USE DEF TypeOK, SendTypeOK, CloseChannel
<1>1. ChanTypeOK'
  <2> USE DEF ChanTypeOK
  <2>1. mutex' \in Owners
    BY DEF Owners
  <2>2. chanSock' \in [Chans -> Flows \cup {NoFlow}]
    OBVIOUS
  <2>3. chanPipe' \in [Chans -> Seq(PipeMessages)]
    <3>1. <<>> \in Seq(PipeMessages)
      OBVIOUS
    <3> QED
      BY <3>1, UpdateKeepsType
  <2> QED
    BY <2>1, <2>2, <2>3
<1>2. NetTypeOK'
  <2>1. toSend' \in [Flows -> Seq(Messages)]
    BY AnswerTaken
  <2>2. connOpen' \in [Flows -> BOOLEAN]
    BY DEF NetTypeOK
  <2> QED
    BY <2>1, <2>2 DEF NetTypeOK
<1> QED
  BY <1>1, <1>2

\* A channel is registered in a slot, and sigChan says which.
LEMMA Registers ==
  ASSUME ChannelInv, NEW f \in Flows, parser[f] \in Opening,
         RegisterChannel(f)
  PROVE  /\ SendTypeOK'
         /\ \E c \in Chans : /\ chanSock' = [chanSock EXCEPT ![c] = f]
                             /\ sigChan' = [sigChan EXCEPT ![f] = c]
<1> DEFINE c == First({d \in Chans : chanSock[d] = NoFlow})
<1>1. c \in Chans
  <2>1. {d \in Chans : chanSock[d] = NoFlow} # {}
    BY FreeSlot
  <2> HIDE DEF c
  <2>2. c \in {d \in Chans : chanSock[d] = NoFlow}
    BY <2>1, FirstIsMember DEF c
  <2> QED
    BY <2>2
<1>2. /\ chanSock' = [chanSock EXCEPT ![c] = f]
      /\ chanFlows' = [chanFlows EXCEPT ![c] = 1]
      /\ holders' = [holders EXCEPT ![c] = {f}]
      /\ chanPipe' = [chanPipe EXCEPT ![c] = <<>>]
      /\ manager' = [manager EXCEPT ![f] = IdleManager]
      /\ sigChan' = [sigChan EXCEPT ![f] = c]
      /\ mutex' = Unlocked
      /\ parser' = [parser EXCEPT ![f] = "attached"]
      /\ UNCHANGED <<process, outcome, parserPipe, sender>>
  BY DEF RegisterChannel, SetParser, SetManager
<1> HIDE DEF c
<1> USE DEF ChannelInv, TypeOK, SendTypeOK
<1>3. ChanTypeOK'
  <2> USE DEF ChanTypeOK
  <2>1. mutex' \in Owners
    BY <1>2 DEF Owners
  <2>2. chanSock' \in [Chans -> Flows \cup {NoFlow}]
    BY <1>1, <1>2
  <2>3. chanFlows' \in [Chans -> Int] /\ holders' \in [Chans -> SUBSET Flows]
    BY <1>1, <1>2
  <2>4. chanPipe' \in [Chans -> Seq(PipeMessages)]
    <3>1. <<>> \in Seq(PipeMessages)
      OBVIOUS
    <3> QED
      BY <1>2, <3>1, UpdateKeepsType
  <2> QED
    BY <2>1, <2>2, <2>3, <2>4
<1>4. ThreadTypeOK'
  <2>1. IdleManager \in Managers /\ "attached" \in ParserPCs
    BY DEF Managers, ParserPCs
  <2> QED
    BY <1>1, <1>2, <2>1 DEF ThreadTypeOK
<1> QED
  BY <1>1, <1>2, <1>3, <1>4

\* Most steps leave alone what the rest of ChannelInv is about.
LEMMA Elsewhere ==
  ASSUME ChannelInv, TypeOK', UNCHANGED <<mutex, parser, sigChan, chanSock, manager>>
  PROVE  ChannelInv'
  BY DEF ChannelInv, OneChannelPerHost, MutexProtectsChannels, ChannelKnown, SameDest

\* The end of the process changes only what the network sees.
LEMMA AbortStep ==
  ASSUME ChannelInv, Abort, UNCHANGED recvVars
  PROVE  ChannelInv'
<1>1. TypeOK'
  BY DEF Abort, ChannelInv, TypeOK, NetTypeOK, SendTypeOK, ChanTypeOK, ThreadTypeOK, RecvTypeOK,
         recvVars, chanVars, threadVars
<1>2. UNCHANGED <<mutex, parser, sigChan, chanSock, manager>>
  BY DEF Abort, chanVars, threadVars
<1> QED
  BY <1>1, <1>2, Elsewhere

-----------------------------------------------------------------------------
(***************************************************************************)
(* The steps of a parser                                                   *)
(***************************************************************************)

LEMMA JoinChannelStep ==
  ASSUME ChannelInv, NEW f \in Flows, JoinChannel(f), UNCHANGED recvVars
  PROVE  ChannelInv'
<1> DEFINE c == First(SameDest(f))
<1>1. c \in Chans
  <2>1. SameDest(f) \subseteq Chans /\ SameDest(f) # {}
    BY DEF SameDest, JoinChannel
  <2> QED
    BY <2>1, FirstIsMember
<1>2. /\ chanFlows' = [chanFlows EXCEPT ![c] = @ + 1]
      /\ holders' = [holders EXCEPT ![c] = @ \cup {f}]
      /\ sigChan' = [sigChan EXCEPT ![f] = c]
      /\ parser' = [parser EXCEPT ![f] = "attached"]
      /\ UNCHANGED <<process, mutex, outcome, parserPipe, chanSock, chanPipe,
                     manager, sender, netVars>>
  BY DEF JoinChannel, SetParser
<1> HIDE DEF c
<1>3. TypeOK'
  <2> USE DEF ChannelInv, TypeOK, SendTypeOK
  <2>1. ChanTypeOK'
    BY <1>1, <1>2 DEF ChanTypeOK
  <2>2. ThreadTypeOK'
    BY <1>1, <1>2 DEF ThreadTypeOK, ParserPCs
  <2>3. NetTypeOK' /\ RecvTypeOK'
    BY <1>2 DEF NetTypeOK, netVars, RecvTypeOK, recvVars
  <2> QED
    BY <2>1, <2>2, <2>3
<1>4. OneChannelPerHost'
  BY <1>2 DEF ChannelInv, OneChannelPerHost
<1>5. MutexProtectsChannels'
  BY <1>2 DEF ChannelInv, TypeOK, SendTypeOK, ThreadTypeOK, MutexProtectsChannels, Opening,
              SameDest
<1>6. ChannelKnown'
  BY <1>1, <1>2 DEF ChannelInv, TypeOK, SendTypeOK, ThreadTypeOK, ChannelKnown, Opening
<1> QED
  BY <1>3, <1>4, <1>5, <1>6 DEF ChannelInv

LEMMA OpenConnectionStep ==
  ASSUME ChannelInv, NEW f \in Flows, OpenConnection(f), UNCHANGED recvVars
  PROVE  ChannelInv'
<1> USE DEF OpenConnection, CreateTransportChan, SetParser, chanVars
<1>1. TypeOK'
  <2> USE DEF ChannelInv, TypeOK, SendTypeOK
  <2>1. ChanTypeOK'
    BY DEF ChanTypeOK, Owners
  <2>2. ThreadTypeOK'
    BY DEF ThreadTypeOK, ParserPCs
  <2>3. NetTypeOK'
    <3>1. Plain("CONNECT") \in Messages
      BY MessageKinds DEF PlainTypes
    <3>2. toRecv' \in [Flows -> Seq(Messages)]
      BY <3>1, SenderNet
    <3> QED
      BY <3>2 DEF NetTypeOK
  <2>4. RecvTypeOK'
    BY DEF RecvTypeOK, recvVars
  <2> QED
    BY <2>1, <2>2, <2>3, <2>4
<1>2. OneChannelPerHost'
  BY DEF ChannelInv, OneChannelPerHost
<1>3. MutexProtectsChannels'
  BY DEF ChannelInv, TypeOK, SendTypeOK, ThreadTypeOK, MutexProtectsChannels, Opening,
         SameDest, Unlocked
<1>4. ChannelKnown'
  BY DEF ChannelInv, TypeOK, SendTypeOK, ThreadTypeOK, ChannelKnown, Opening
<1> QED
  BY <1>1, <1>2, <1>3, <1>4 DEF ChannelInv

\* Registering ends the critical section that OpenConnection began.
LEMMA RegisterStep ==
  ASSUME ChannelInv, NEW f \in Flows, parser[f] \in Opening,
         RegisterChannel(f), NetTypeOK', UNCHANGED recvVars
  PROVE  ChannelInv'
<1>1. PICK c \in Chans : /\ chanSock' = [chanSock EXCEPT ![c] = f]
                         /\ sigChan' = [sigChan EXCEPT ![f] = c]
  BY Registers
<1>2. /\ mutex' = Unlocked
      /\ parser' = [parser EXCEPT ![f] = "attached"]
      /\ manager' = [manager EXCEPT ![f] = IdleManager]
  BY DEF RegisterChannel, SetParser, SetManager
<1>3. /\ parser \in [Flows -> ParserPCs] /\ manager \in [Flows -> Managers]
      /\ chanSock \in [Chans -> Flows \cup {NoFlow}]
      /\ sigChan \in [Flows -> Chans \cup {NumChans}]
      /\ f # NoFlow
  BY FlowAssumption DEF ChannelInv, TypeOK, SendTypeOK, ChanTypeOK, ThreadTypeOK
<1>4. TypeOK'
  BY Registers DEF ChannelInv, TypeOK, RecvTypeOK, recvVars
<1>5. OneChannelPerHost'
  <2>1. \A d \in Chans : chanSock[d] # NoFlow => Dest[chanSock[d]] # Dest[f]
    BY DEF ChannelInv, MutexProtectsChannels, SameDest
  <2> QED
    BY <1>1, <1>3, <2>1 DEF ChannelInv, OneChannelPerHost
<1>6. MutexProtectsChannels'
  <2>1. mutex = <<"parser", f>>
    BY DEF ChannelInv, MutexProtectsChannels
  <2>2. \A h \in Flows : parser'[h] \notin Opening
    BY <1>2, <1>3, <2>1 DEF ChannelInv, MutexProtectsChannels, Opening
  <2>3. \A h \in Flows : manager'[h].pc # "releasing"
    BY <1>2, <1>3, <2>1 DEF ChannelInv, MutexProtectsChannels, IdleManager, Manager
  <2> QED
    BY <2>2, <2>3 DEF MutexProtectsChannels
<1>7. ChannelKnown'
  BY <1>1, <1>2, <1>3 DEF ChannelInv, ChannelKnown, Opening
<1> QED
  BY <1>4, <1>5, <1>6, <1>7 DEF ChannelInv

LEMMA ConnectAnsweredStep ==
  ASSUME ChannelInv, NEW f \in Flows, ConnectAnswered(f), UNCHANGED recvVars
  PROVE  ChannelInv'
<1>1. parser[f] \in Opening
  BY DEF ConnectAnswered, Opening
<1>2. toSend' \in [Flows -> Seq(Messages)]
  BY AnswerTaken DEF ChannelInv, TypeOK, ConnectAnswered
<1>3. CASE /\ LogRequested
           /\ SendNameLog(f)
           /\ SetParser(f, "naming")
           /\ UNCHANGED <<process, mutex, outcome, sigChan, parserPipe, manager,
                          sender, chanVars>>
  <2> USE <1>3 DEF ConnectAnswered, SendNameLog, SetParser, chanVars
  <2>1. TypeOK'
    <3> USE DEF ChannelInv, TypeOK, SendTypeOK
    <3>1. ChanTypeOK' /\ ThreadTypeOK'
      BY DEF ChanTypeOK, ThreadTypeOK, ParserPCs
    <3>2. toRecv' \in [Flows -> Seq(Messages)]
      <4>1. Plain("SEND_NAME_LOG") \in Messages
        BY MessageKinds DEF PlainTypes
      <4> QED
        BY <4>1, SenderNet
    <3>3. NetTypeOK' /\ RecvTypeOK'
      BY <1>2, <3>2 DEF NetTypeOK, RecvTypeOK, recvVars
    <3> QED
      BY <3>1, <3>3
  <2>2. OneChannelPerHost'
    BY DEF ChannelInv, OneChannelPerHost
  <2>3. MutexProtectsChannels'
    BY <1>1 DEF ChannelInv, TypeOK, SendTypeOK, ThreadTypeOK, MutexProtectsChannels,
                Opening, SameDest
  <2>4. ChannelKnown'
    BY DEF ChannelInv, TypeOK, SendTypeOK, ThreadTypeOK, ChannelKnown, Opening
  <2> QED
    BY <2>1, <2>2, <2>3, <2>4 DEF ChannelInv
<1>4. CASE /\ ~LogRequested
           /\ RegisterChannel(f)
           /\ UNCHANGED toRecv
  <2>1. NetTypeOK'
    BY <1>2, <1>4 DEF ChannelInv, TypeOK, NetTypeOK, ConnectAnswered
  <2> QED
    BY <1>1, <1>4, <2>1, RegisterStep
<1> QED
  BY <1>3, <1>4 DEF ConnectAnswered

LEMMA LogAnsweredStep ==
  ASSUME ChannelInv, NEW f \in Flows, LogAnswered(f), UNCHANGED recvVars
  PROVE  ChannelInv'
<1>1. parser[f] \in Opening
  BY DEF LogAnswered, Opening
<1>2. NetTypeOK'
  <2>1. toSend' \in [Flows -> Seq(Messages)]
    BY AnswerTaken DEF ChannelInv, TypeOK, LogAnswered
  <2> QED
    BY <2>1 DEF ChannelInv, TypeOK, NetTypeOK, LogAnswered
<1> QED
  BY <1>1, <1>2, RegisterStep DEF LogAnswered

LEMMA SubmitFlowStep ==
  ASSUME ChannelInv, NEW f \in Flows, SubmitFlow(f), UNCHANGED recvVars
  PROVE  ChannelInv'
<1> USE DEF SubmitFlow, SetParser
<1>1. TypeOK'
  <2> USE DEF ChannelInv, TypeOK, SendTypeOK
  <2>1. chanPipe' \in [Chans -> Seq(PipeMessages)]
    <3>1. "NEWFLOW" \in PipeCodes /\ PushToChannel(sigChan[f], "NEWFLOW", f)
      BY DEF PipeCodes
    <3> HIDE DEF SendTypeOK
    <3>2. SendTypeOK
      OBVIOUS
    <3> QED
      BY <3>1, <3>2, PushesToChannel
  <2>2. ChanTypeOK'
    BY <2>1 DEF ChanTypeOK
  <2>3. ThreadTypeOK'
    BY DEF ThreadTypeOK, ParserPCs
  <2>4. NetTypeOK' /\ RecvTypeOK'
    BY DEF NetTypeOK, netVars, RecvTypeOK, recvVars
  <2> QED
    BY <2>2, <2>3, <2>4
<1>2. OneChannelPerHost'
  BY DEF ChannelInv, OneChannelPerHost
<1>3. MutexProtectsChannels'
  BY DEF ChannelInv, TypeOK, SendTypeOK, ThreadTypeOK, MutexProtectsChannels, Opening,
         SameDest
<1>4. ChannelKnown'
  BY DEF ChannelInv, TypeOK, SendTypeOK, ThreadTypeOK, ChannelKnown, Opening
<1> QED
  BY <1>1, <1>2, <1>3, <1>4 DEF ChannelInv

\* Closing a channel takes nothing from OneChannelPerHost, whoever does it.
LEMMA CloseStep ==
  ASSUME ChannelInv, NEW c, CloseChannel(c),
         \A h \in Flows : parser'[h] \notin Opening,
         \A h \in Flows : manager'[h].pc # "releasing",
         ThreadTypeOK', ChannelKnown', UNCHANGED recvVars
  PROVE  ChannelInv'
<1>1. TypeOK'
  BY Closes DEF ChannelInv, TypeOK, SendTypeOK, RecvTypeOK, recvVars
<1>2. OneChannelPerHost'
  <2>1. \A d \in Chans : chanSock'[d] # NoFlow => chanSock'[d] = chanSock[d]
    BY DEF CloseChannel, ChannelInv, TypeOK, SendTypeOK, ChanTypeOK
  <2> QED
    BY <2>1 DEF ChannelInv, OneChannelPerHost
<1>3. MutexProtectsChannels'
  BY DEF MutexProtectsChannels
<1> QED
  BY <1>1, <1>2, <1>3 DEF ChannelInv

LEMMA LogRequestFailsStep ==
  ASSUME ChannelInv, NEW f \in Flows, LogRequestFails(f), UNCHANGED recvVars
  PROVE  ChannelInv'
<1> USE DEF LogRequestFails, SetParser, chanVars
<1>1. TypeOK'
  <2> USE DEF ChannelInv, TypeOK, SendTypeOK
  <2>1. toSend' \in [Flows -> Seq(Messages)]
    BY AnswerTaken
  <2>2. NetTypeOK' /\ RecvTypeOK'
    BY <2>1 DEF NetTypeOK, RecvTypeOK, recvVars
  <2>3. ChanTypeOK' /\ ThreadTypeOK'
    BY DEF ChanTypeOK, ThreadTypeOK, ParserPCs
  <2> QED
    BY <2>2, <2>3
<1>2. OneChannelPerHost'
  BY DEF ChannelInv, OneChannelPerHost
<1>3. MutexProtectsChannels'
  BY DEF ChannelInv, TypeOK, SendTypeOK, ThreadTypeOK, MutexProtectsChannels, Opening,
         SameDest
<1>4. ChannelKnown'
  BY DEF ChannelInv, TypeOK, SendTypeOK, ThreadTypeOK, ChannelKnown
<1> QED
  BY <1>1, <1>2, <1>3, <1>4 DEF ChannelInv

LEMMA TakeResultStep ==
  ASSUME ChannelInv, NEW f \in Flows, TakeResult(f), UNCHANGED recvVars
  PROVE  ChannelInv'
<1> USE DEF TakeResult, SetParser, chanVars
<1>1. TypeOK'
  <2> USE DEF ChannelInv, TypeOK, SendTypeOK
  <2>1. parserPipe' \in [Flows -> Seq(ResultCodes)] /\ Head(parserPipe[f]) \in ResultCodes
    BY QueueShrinks DEF ThreadTypeOK
  <2>2. ThreadTypeOK'
    BY <2>1 DEF ThreadTypeOK, ParserPCs
  <2>3. ChanTypeOK' /\ NetTypeOK' /\ RecvTypeOK'
    BY DEF ChanTypeOK, NetTypeOK, netVars, RecvTypeOK, recvVars
  <2> QED
    BY <2>2, <2>3
<1>2. OneChannelPerHost'
  BY DEF ChannelInv, OneChannelPerHost
<1>3. MutexProtectsChannels'
  BY DEF ChannelInv, TypeOK, SendTypeOK, ThreadTypeOK, MutexProtectsChannels, Opening,
         SameDest
<1>4. ChannelKnown'
  BY DEF ChannelInv, TypeOK, SendTypeOK, ThreadTypeOK, ChannelKnown, Opening
<1> QED
  BY <1>1, <1>2, <1>3, <1>4 DEF ChannelInv

LEMMA ParserStep ==
  ASSUME ChannelInv, NEW f \in Flows, Parser(f)
  PROVE  ChannelInv'
  BY JoinChannelStep, OpenConnectionStep, ConnectAnsweredStep, LogAnsweredStep,
     SubmitFlowStep, LogRequestFailsStep, TakeResultStep, AbortStep
     DEF Parser, ParserThread, OpenFails

-----------------------------------------------------------------------------
(***************************************************************************)
(* The steps of a manager, of a flow sender and of main                    *)
(***************************************************************************)

\* A manager starts or goes on with something else than a RELEASE.
LEMMA ManagerMoves ==
  ASSUME ChannelInv, TypeOK', NEW g \in Flows, NEW m \in Managers,
         manager[g].pc # "none", m.pc # "releasing",
         manager' = [manager EXCEPT ![g] = m],
         UNCHANGED <<mutex, parser, sigChan, chanSock>>
  PROVE  ChannelInv'
<1>1. OneChannelPerHost'
  BY DEF ChannelInv, OneChannelPerHost
<1>2. MutexProtectsChannels'
  BY DEF ChannelInv, TypeOK, SendTypeOK, ThreadTypeOK, MutexProtectsChannels, SameDest
<1>3. ChannelKnown'
  BY DEF ChannelInv, TypeOK, SendTypeOK, ThreadTypeOK, ChannelKnown
<1> QED
  BY <1>1, <1>2, <1>3 DEF ChannelInv

\* What a manager reads from its socket, and what is left there.
LEMMA ReadsSocket ==
  ASSUME ChannelInv, NEW g \in Flows, NEW types, OnSocket(g, types)
  PROVE  /\ Head(toSend[g]) \in Messages
         /\ Head(toSend[g]).type \in types
         /\ toSend' \in [Flows -> Seq(Messages)]
         /\ manager[g] = IdleManager
  BY SenderNet DEF OnSocket, ManagerReady, ChannelInv, TypeOK

LEMMA ReadsPipe ==
  ASSUME ChannelInv, NEW g \in Flows, NEW code, OnPipe(g, code)
  PROVE  /\ sigChan[g] \in Chans
         /\ Head(chanPipe[sigChan[g]]).flow \in Flows
         /\ ChanTypeOK' <=> mutex' \in Owners
         /\ manager[g] = IdleManager
<1> DEFINE c == sigChan[g]
<1>1. manager[g] = IdleManager /\ c \in Chans
  BY DEF OnPipe, ManagerReady, ChannelInv, ChannelKnown, IdleManager, Manager
<1>2. /\ chanPipe' = [chanPipe EXCEPT ![c] = Tail(@)]
      /\ chanPipe[c] # <<>>
      /\ UNCHANGED <<chanSock, chanFlows, holders>>
  BY DEF OnPipe
<1>3. chanPipe \in [Chans -> Seq(PipeMessages)]
  BY DEF ChannelInv, TypeOK, SendTypeOK, ChanTypeOK
<1>4. chanPipe' \in [Chans -> Seq(PipeMessages)] /\ Head(chanPipe[c]) \in PipeMessages
  BY <1>1, <1>2, <1>3, QueueShrinks
<1> QED
  BY <1>1, <1>2, <1>4 DEF ChannelInv, TypeOK, SendTypeOK, ChanTypeOK, PipeMessages

LEMMA StartFlowStep ==
  ASSUME ChannelInv, NEW g \in Flows, StartFlow(g), UNCHANGED recvVars
  PROVE  ChannelInv'
<1> USE DEF StartFlow, chanVars
<1>1. toSend' \in [Flows -> Seq(Messages)]
  BY ReadsSocket
<1>2. ThreadTypeOK'
  BY DEF ChannelInv, TypeOK, SendTypeOK, ThreadTypeOK, SenderPCs
<1>3. TypeOK'
  BY <1>1, <1>2 DEF ChannelInv, TypeOK, SendTypeOK, ChanTypeOK, NetTypeOK, RecvTypeOK, recvVars
<1> QED
  BY <1>3, Elsewhere

LEMMA AnswerDiscoveryStep ==
  ASSUME ChannelInv, NEW g \in Flows, AnswerDiscovery(g), UNCHANGED recvVars
  PROVE  ChannelInv'
<1> USE DEF AnswerDiscovery, chanVars, threadVars
<1>1. toSend' \in [Flows -> Seq(Messages)]
  BY ReadsSocket
<1>2. toRecv' \in [Flows -> Seq(Messages)]
  <2>1. Plain("ACK_DISCOVERY") \in Messages
    BY MessageKinds DEF PlainTypes
  <2>2. SenderSends(g, Plain("ACK_DISCOVERY")) => toRecv' \in [Flows -> Seq(Messages)]
    BY <2>1, SenderNet DEF ChannelInv, TypeOK
  <2> QED
    BY <2>2 DEF ChannelInv, TypeOK, NetTypeOK
<1>3. connOpen' \in [Flows -> BOOLEAN] /\ process' \in {"run", "exited", "aborted"}
  BY DEF ChannelInv, TypeOK, NetTypeOK, SendTypeOK, ThreadTypeOK
<1>4. TypeOK'
  BY <1>1, <1>2, <1>3 DEF ChannelInv, TypeOK, SendTypeOK, ChanTypeOK, ThreadTypeOK, NetTypeOK,
                          RecvTypeOK, recvVars
<1> QED
  BY <1>4, Elsewhere

LEMMA FlowAnsweredStep ==
  ASSUME ChannelInv, NEW g \in Flows, FlowAnswered(g), UNCHANGED recvVars
  PROVE  ChannelInv'
<1> DEFINE m == Head(toSend[g])
           n == Manager("closing", m.flow, IF m.type = "ACK_CLOSED_FLOW" THEN "END" ELSE "ERR1")
<1>1. /\ m \in Messages /\ m.type \in FlowTypes
      /\ toSend' \in [Flows -> Seq(Messages)]
      /\ manager[g] = IdleManager
  BY ReadsSocket DEF FlowAnswered, FlowTypes
<1>2. m.flow \in Flows
  BY <1>1, MessageKinds
<1>3. n \in Managers /\ n.pc = "closing"
  BY <1>2 DEF Managers, Manager, ManagerPCs, ResultCodes
<1>4. /\ manager' = [manager EXCEPT ![g] = n]
      /\ UNCHANGED <<process, mutex, parser, outcome, sigChan, parserPipe, sender,
                     chanVars, connOpen, toRecv>>
  BY DEF FlowAnswered, SetManager
<1> HIDE DEF n
<1>5. TypeOK'
  BY <1>1, <1>3, <1>4 DEF ChannelInv, TypeOK, SendTypeOK, ChanTypeOK, ThreadTypeOK, NetTypeOK,
                          RecvTypeOK, recvVars, chanVars
<1>6. manager[g].pc # "none"
  BY <1>1 DEF IdleManager, Manager
<1>7. UNCHANGED <<mutex, parser, sigChan, chanSock>>
  BY <1>4 DEF chanVars
<1> QED
  BY <1>3, <1>4, <1>5, <1>6, <1>7, ManagerMoves

LEMMA ForwardRequestStep ==
  ASSUME ChannelInv, NEW g \in Flows, ForwardRequest(g), UNCHANGED recvVars
  PROVE  ChannelInv'
<1> DEFINE f == Head(chanPipe[sigChan[g]]).flow
<1>1. UNCHANGED <<process, mutex, threadVars, connOpen, toSend, chanSock>>
  BY DEF ForwardRequest, OnPipe
<1>2. \E code : OnPipe(g, code)
  BY DEF ForwardRequest
<1>3. f \in Flows /\ ChanTypeOK'
  BY <1>1, <1>2, ReadsPipe DEF ChannelInv, TypeOK, SendTypeOK, ChanTypeOK
<1>4. \E m \in Messages : SenderSends(g, m)
  <2>1. Msg("SEND_FLOW", f) \in Messages /\ Msg("CLOSED_FLOW", f) \in Messages
    BY <1>3, MessageKinds DEF FlowTypes
  <2>2. SenderSends(g, Msg("SEND_FLOW", f)) \/ SenderSends(g, Msg("CLOSED_FLOW", f))
    BY DEF ForwardRequest, RequestToSend, ClosedFlowSent
  <2> QED
    BY <2>1, <2>2
<1>5. toRecv' \in [Flows -> Seq(Messages)]
  BY <1>4, SenderNet DEF ChannelInv, TypeOK
<1>6. TypeOK'
  BY <1>1, <1>3, <1>5 DEF ChannelInv, TypeOK, SendTypeOK, ThreadTypeOK, threadVars, NetTypeOK,
                          RecvTypeOK, recvVars
<1>7. UNCHANGED <<mutex, parser, sigChan, chanSock, manager>>
  BY <1>1 DEF threadVars
<1> QED
  BY <1>6, <1>7, Elsewhere

LEMMA FlowFailedStep ==
  ASSUME ChannelInv, NEW g \in Flows, FlowFailed(g), UNCHANGED recvVars
  PROVE  ChannelInv'
<1> DEFINE f == Head(chanPipe[sigChan[g]]).flow
           n == Manager("closedErr", f, "ERR2")
<1>1. /\ OnPipe(g, "ERRFLOW")
      /\ PushToParser(f, "ERR2")
      /\ manager' = [manager EXCEPT ![g] = n]
      /\ UNCHANGED <<process, mutex, parser, outcome, sigChan, sender, netVars>>
  BY DEF FlowFailed, SetManager
<1>2. f \in Flows /\ ChanTypeOK' /\ manager[g] = IdleManager
  BY <1>1, ReadsPipe DEF ChannelInv, TypeOK, SendTypeOK, ChanTypeOK
<1>3. n \in Managers /\ n.pc = "closedErr"
  BY <1>2 DEF Managers, Manager, ManagerPCs, ResultCodes
<1>4. parserPipe' \in [Flows -> Seq(ResultCodes)]
  <2>1. SendTypeOK /\ "ERR2" \in ResultCodes
    BY DEF ChannelInv, TypeOK, ResultCodes
  <2> QED
    BY <1>1, <1>2, <2>1, PushesToParser
<1> HIDE DEF n
<1>5. TypeOK'
  BY <1>1, <1>2, <1>3, <1>4 DEF ChannelInv, TypeOK, SendTypeOK, ThreadTypeOK, NetTypeOK, netVars,
                                RecvTypeOK, recvVars
<1>6. manager[g].pc # "none" /\ chanSock' = chanSock
  BY <1>1, <1>2 DEF IdleManager, Manager, OnPipe
<1> QED
  BY <1>1, <1>3, <1>5, <1>6, ManagerMoves

\* A manager at work on a flow knows the flow and what its parser will be told.
LEMMA BusyManager ==
  ASSUME ChannelInv, NEW g \in Flows, manager[g].pc \in ManagerPCs
  PROVE  /\ manager[g].flow \in Flows
         /\ manager[g].code \in ResultCodes
         /\ \A pc \in ManagerPCs : /\ [manager[g] EXCEPT !.pc = pc] \in Managers
                                    /\ [manager[g] EXCEPT !.pc = pc].pc = pc
<1>1. manager[g] \in Managers
  BY DEF ChannelInv, TypeOK, SendTypeOK, ThreadTypeOK
<1>2. manager[g] \in [pc : ManagerPCs, flow : Flows, code : ResultCodes]
  BY <1>1 DEF Managers, IdleManager, Manager, ManagerPCs
<1> QED
  BY <1>2 DEF Managers

LEMMA SendClosedErrStep ==
  ASSUME ChannelInv, NEW g \in Flows, SendClosedErr(g), UNCHANGED recvVars
  PROVE  ChannelInv'
<1> DEFINE n == [manager[g] EXCEPT !.pc = "closing"]
<1>1. /\ manager[g].pc = "closedErr"
      /\ SenderSends(g, Msg("CLOSED_ERR", manager[g].flow))
      /\ manager' = [manager EXCEPT ![g] = n]
      /\ UNCHANGED <<process, mutex, parser, outcome, sigChan, parserPipe, sender,
                     chanVars, connOpen, toSend>>
  BY DEF SendClosedErr, SetManager
<1>2. manager[g].flow \in Flows /\ n \in Managers /\ n.pc = "closing"
  BY <1>1, BusyManager DEF ManagerPCs
<1>3. toRecv' \in [Flows -> Seq(Messages)]
  <2>1. Msg("CLOSED_ERR", manager[g].flow) \in Messages
    BY <1>2, MessageKinds DEF FlowTypes
  <2> QED
    BY <1>1, <2>1, SenderNet DEF ChannelInv, TypeOK
<1> HIDE DEF n
<1>4. TypeOK'
  BY <1>1, <1>2, <1>3 DEF ChannelInv, TypeOK, SendTypeOK, ChanTypeOK, ThreadTypeOK, NetTypeOK,
                          RecvTypeOK, recvVars, chanVars
<1>5. manager[g].pc # "none" /\ UNCHANGED <<mutex, parser, sigChan, chanSock>>
  BY <1>1 DEF chanVars
<1> QED
  BY <1>1, <1>2, <1>4, <1>5, ManagerMoves

LEMMA ManagerLeavesStep ==
  ASSUME ChannelInv, NEW g \in Flows, ManagerLeaves(g), UNCHANGED recvVars
  PROVE  ChannelInv'
<1>1. <<"manager", g>> \in Owners
  BY DEF Owners
<1>2. ChanTypeOK' /\ NetTypeOK'
  BY <1>1, Leaves DEF ChannelInv, ManagerLeaves
<1> DEFINE c == sigChan[g]
           n == IF chanFlows[c] = 1 THEN [manager[g] EXCEPT !.pc = "releasing"]
                ELSE IF manager[g].code = "ERR2" THEN IdleManager
                ELSE [manager[g] EXCEPT !.pc = "notify"]
<1>3. /\ manager' = [manager EXCEPT ![g] = n]
      /\ chanFlows[c] = 1 => mutex' = <<"manager", g>>
  BY DEF ManagerLeaves, LeaveChannel, SetManager
<1>4. /\ manager[g].pc = "closing" /\ mutex = Unlocked
      /\ UNCHANGED <<process, parser, outcome, sigChan, parserPipe, sender, chanSock>>
  BY DEF ManagerLeaves, LeaveChannel
<1>5. n \in Managers /\ (n.pc = "releasing" => mutex' = <<"manager", g>>)
  <2>1. manager[g].pc \in ManagerPCs /\ "releasing" \in ManagerPCs /\ "notify" \in ManagerPCs
    BY <1>4 DEF ManagerPCs
  <2>2. /\ [manager[g] EXCEPT !.pc = "releasing"] \in Managers
        /\ [manager[g] EXCEPT !.pc = "notify"] \in Managers
        /\ [manager[g] EXCEPT !.pc = "notify"].pc = "notify"
    BY <2>1, BusyManager
  <2>3. IdleManager \in Managers /\ IdleManager.pc = "idle"
    BY DEF Managers, IdleManager, Manager
  <2> QED
    BY <1>3, <2>2, <2>3
<1> HIDE DEF n
<1>6. TypeOK'
  <2>1. ThreadTypeOK'
    BY <1>3, <1>4, <1>5 DEF ChannelInv, TypeOK, SendTypeOK, ThreadTypeOK
  <2>2. RecvTypeOK'
    BY DEF ChannelInv, TypeOK, RecvTypeOK, recvVars
  <2> QED
    BY <1>2, <2>1, <2>2 DEF TypeOK, SendTypeOK
<1>7. OneChannelPerHost'
  BY <1>4 DEF ChannelInv, OneChannelPerHost
<1>8. MutexProtectsChannels'
  <2>1. \A h \in Flows : parser[h] \notin Opening
    BY <1>4 DEF ChannelInv, MutexProtectsChannels, Unlocked
  <2>2. \A h \in Flows : manager[h].pc # "releasing"
    BY <1>4 DEF ChannelInv, MutexProtectsChannels, Unlocked
  <2> QED
    BY <1>3, <1>4, <1>5, <2>1, <2>2 DEF ChannelInv, TypeOK, SendTypeOK, ThreadTypeOK,
                                        MutexProtectsChannels
<1>9. ChannelKnown'
  BY <1>3, <1>4 DEF ChannelInv, TypeOK, SendTypeOK, ThreadTypeOK, ChannelKnown
<1> QED
  BY <1>6, <1>7, <1>8, <1>9 DEF ChannelInv

LEMMA ManagerReleasedStep ==
  ASSUME ChannelInv, NEW g \in Flows, ManagerReleased(g), UNCHANGED recvVars
  PROVE  ChannelInv'
<1> DEFINE pc == IF manager[g].code = "ERR2" THEN "exited" ELSE "lastNotify"
           n  == [manager[g] EXCEPT !.pc = pc]
<1>1. manager' = [manager EXCEPT ![g] = n]
  BY DEF ManagerReleased, SetManager
<1>2. /\ manager[g].pc = "releasing"
      /\ CloseChannel(sigChan[g])
      /\ UNCHANGED <<process, parser, outcome, sigChan, parserPipe, sender>>
  BY DEF ManagerReleased
<1>3. mutex = <<"manager", g>>
  BY <1>2 DEF ChannelInv, MutexProtectsChannels
<1>4. n \in Managers /\ n.pc # "releasing"
  <2>1. manager[g].pc \in ManagerPCs /\ pc \in ManagerPCs /\ pc # "releasing"
    BY <1>2 DEF ManagerPCs
  <2> HIDE DEF pc
  <2> QED
    BY <2>1, BusyManager
<1> HIDE DEF n
<1>5. ThreadTypeOK'
  BY <1>1, <1>2, <1>4 DEF ChannelInv, TypeOK, SendTypeOK, ThreadTypeOK
<1>6. \A h \in Flows : parser'[h] \notin Opening
  BY <1>2, <1>3 DEF ChannelInv, MutexProtectsChannels
<1>7. \A h \in Flows : manager'[h].pc # "releasing"
  BY <1>1, <1>3, <1>4 DEF ChannelInv, TypeOK, SendTypeOK, ThreadTypeOK, MutexProtectsChannels
<1>8. ChannelKnown'
  BY <1>1, <1>2 DEF ChannelInv, TypeOK, SendTypeOK, ThreadTypeOK, ChannelKnown
<1> QED
  BY <1>2, <1>5, <1>6, <1>7, <1>8, CloseStep

LEMMA NotifyStep ==
  ASSUME ChannelInv, NEW g \in Flows, Notify(g), UNCHANGED recvVars
  PROVE  ChannelInv'
<1>1. /\ manager[g].pc \in {"notify", "lastNotify"}
      /\ PushToParser(manager[g].flow, manager[g].code)
      /\ UNCHANGED <<process, mutex, parser, outcome, sigChan, sender, chanVars, netVars>>
  BY DEF Notify
<1>2. manager[g].flow \in Flows /\ manager[g].code \in ResultCodes
  BY <1>1, BusyManager DEF ManagerPCs
<1>3. PICK n \in Managers : /\ manager' = [manager EXCEPT ![g] = n]
                            /\ n.pc # "releasing"
  <2>1. /\ [manager[g] EXCEPT !.pc = "exited"] \in Managers
        /\ [manager[g] EXCEPT !.pc = "exited"].pc = "exited"
    BY <1>1, BusyManager DEF ManagerPCs
  <2>2. IdleManager \in Managers /\ IdleManager.pc # "releasing"
    BY DEF Managers, IdleManager, Manager
  <2> QED
    BY <2>1, <2>2 DEF Notify, SetManager
<1>4. parserPipe' \in [Flows -> Seq(ResultCodes)]
  BY <1>1, <1>2, PushesToParser DEF ChannelInv, TypeOK
<1>5. TypeOK'
  BY <1>1, <1>3, <1>4 DEF ChannelInv, TypeOK, SendTypeOK, ChanTypeOK, ThreadTypeOK, NetTypeOK,
                          netVars, RecvTypeOK, recvVars, chanVars
<1>6. manager[g].pc # "none" /\ UNCHANGED <<mutex, parser, sigChan, chanSock>>
  BY <1>1 DEF chanVars
<1> QED
  BY <1>3, <1>5, <1>6, ManagerMoves

LEMMA ManagerStep ==
  ASSUME ChannelInv, NEW g \in Flows,
         ManagerOnSocket(g) \/ ManagerOnPipe(g) \/ ManagerEnds(g)
  PROVE  ChannelInv'
  BY StartFlowStep, AnswerDiscoveryStep, FlowAnsweredStep, ForwardRequestStep, FlowFailedStep,
     SendClosedErrStep, ManagerLeavesStep, ManagerReleasedStep, NotifyStep, AbortStep
     DEF ManagerOnSocket, ManagerOnPipe, ManagerEnds, ManagerSocket, ManagerPipe, ManagerEnding,
         ReceiverLost

\* A flow sender writes to its channel's pipe.
LEMMA SenderWrites ==
  ASSUME ChannelInv, NEW f \in Flows, NEW code \in PipeCodes, NEW pc \in SenderPCs,
         PushToChannel(sigChan[f], code, f), sender' = [sender EXCEPT ![f] = pc],
         UNCHANGED <<process, mutex, parser, outcome, sigChan, parserPipe, manager,
                     chanSock, chanFlows, holders, netVars, recvVars>>
  PROVE  ChannelInv'
<1>1. chanPipe' \in [Chans -> Seq(PipeMessages)]
  BY PushesToChannel DEF ChannelInv, TypeOK
<1>2. TypeOK'
  BY <1>1 DEF ChannelInv, TypeOK, SendTypeOK, ChanTypeOK, ThreadTypeOK, NetTypeOK, netVars,
              RecvTypeOK, recvVars
<1> QED
  BY <1>2, Elsewhere

LEMMA SenderStep ==
  ASSUME ChannelInv, NEW f \in Flows,
         SenderFails(f) \/ SenderConnects(f) \/ SenderFinishes(f) \/ SenderKilled(f)
  PROVE  ChannelInv'
<1>1. CASE SenderFails(f)
  <2>1. "ERRFLOW" \in PipeCodes /\ "failed" \in SenderPCs
    BY DEF PipeCodes, SenderPCs
  <2> QED
    BY <1>1, <2>1, SenderWrites DEF SenderFails, SetupFails
<1>2. CASE SenderFinishes(f)
  <2>1. "ENDFLOW" \in PipeCodes /\ "finished" \in SenderPCs
    BY DEF PipeCodes, SenderPCs
  <2> QED
    BY <1>2, <2>1, SenderWrites DEF SenderFinishes, FinishFlow
<1>3. CASE SenderConnects(f)
  <2> USE <1>3 DEF SenderConnects, Connects, chanVars
  <2>1. ThreadTypeOK' /\ ChanTypeOK'
    BY DEF ChannelInv, TypeOK, SendTypeOK, ChanTypeOK, ThreadTypeOK, SenderPCs
  <2>2. RecvTypeOK'
    BY DEF ChannelInv, TypeOK, RecvTypeOK, recvVars
  <2>3. NetTypeOK'
    BY DEF ChannelInv, TypeOK, NetTypeOK, netVars
  <2>4. TypeOK'
    BY <2>1, <2>2, <2>3 DEF TypeOK, SendTypeOK
  <2> QED
    BY <2>4, Elsewhere
<1>4. CASE SenderKilled(f)
  BY <1>4, AbortStep DEF SenderKilled, BrokenPipe
<1> QED
  BY <1>1, <1>2, <1>3, <1>4

LEMMA ExitStep ==
  ASSUME ChannelInv, Exit
  PROVE  ChannelInv'
<1> USE DEF Exit, ExitProcess, chanVars, threadVars
<1>1. TypeOK'
  BY DEF ChannelInv, TypeOK, SendTypeOK, ChanTypeOK, ThreadTypeOK, NetTypeOK, RecvTypeOK, recvVars
<1> QED
  BY <1>1, Elsewhere

-----------------------------------------------------------------------------
(***************************************************************************)
(* The steps of the receiver                                               *)
(***************************************************************************)

\* They touch no variable of the sender, so only types are left to show.
LEMMA ReceiverElsewhere ==
  ASSUME ChannelInv, RecvTypeOK', NetTypeOK', UNCHANGED sendVars
  PROVE  ChannelInv'
<1>1. SendTypeOK'
  BY DEF ChannelInv, TypeOK, SendTypeOK, ChanTypeOK, ThreadTypeOK, sendVars, chanVars, threadVars
<1>2. TypeOK'
  BY <1>1 DEF TypeOK
<1>3. UNCHANGED <<mutex, parser, sigChan, chanSock, manager>>
  BY DEF sendVars, chanVars, threadVars
<1> QED
  BY <1>2, <1>3, Elsewhere

\* A message read from the socket, with the answer to it.
LEMMA ReadsMessage ==
  ASSUME TypeOK, NEW g \in Flows, NEW type, OnMessage(g, type)
  PROVE  /\ toRecv' \in [Flows -> Seq(Messages)]
         /\ discovery' \in [Flows -> 0 .. 1]
         /\ type \in FlowTypes => Head(toRecv[g]).flow \in Flows
         /\ \A m \in Messages : (ReceiverSends(g, m) \/ toSend' = toSend) /\ connOpen' = connOpen
                                   => NetTypeOK'
<1>1. NetTypeOK /\ toRecv[g] # <<>> /\ ReceiverTakes(g) /\ Head(toRecv[g]).type = type
  BY DEF OnMessage, TypeOK
<1>2. Head(toRecv[g]) \in Messages /\ toRecv' \in [Flows -> Seq(Messages)]
  BY <1>1, ReceiverNet
<1>3. type \in FlowTypes => Head(toRecv[g]).flow \in Flows
  BY <1>1, <1>2, MessageKinds
<1>4. discovery' \in [Flows -> 0 .. 1]
  BY DEF OnMessage, TypeOK, RecvTypeOK
<1>5. ASSUME NEW m \in Messages, ReceiverSends(g, m) \/ toSend' = toSend, connOpen' = connOpen
      PROVE  NetTypeOK'
  <2>1. toSend' \in [Flows -> Seq(Messages)]
    BY <1>1, <1>5, ReceiverNet DEF NetTypeOK
  <2> QED
    BY <1>1, <1>2, <1>5, <2>1 DEF NetTypeOK
<1> QED
  BY <1>2, <1>3, <1>4, <1>5

\* The same for a report read from rPipe.
LEMMA ReadsReport ==
  ASSUME TypeOK, NEW g \in Flows, NEW code, OnReport(g, code)
  PROVE  /\ rPipe' \in [Flows -> Seq(Reports)]
         /\ Head(rPipe[g]).flow \in Flows
         /\ \A m \in Messages : ReceiverSends(g, m) \/ toSend' = toSend => NetTypeOK'
<1>1. /\ rPipe \in [Flows -> Seq(Reports)]
      /\ rPipe[g] # <<>> /\ rPipe' = [rPipe EXCEPT ![g] = Tail(@)]
      /\ NetTypeOK /\ UNCHANGED <<connOpen, toRecv>>
  BY DEF OnReport, TypeOK, RecvTypeOK
<1>2. /\ rPipe' \in [Flows -> Seq(Reports)]
      /\ Head(rPipe[g]) \in Reports
  BY <1>1, QueueShrinks
<1>3. ASSUME NEW m \in Messages, ReceiverSends(g, m) \/ toSend' = toSend
      PROVE  NetTypeOK'
  <2>1. toSend' \in [Flows -> Seq(Messages)]
    BY <1>1, <1>3, ReceiverNet DEF NetTypeOK
  <2> QED
    BY <1>1, <2>1 DEF NetTypeOK
<1> QED
  BY <1>2, <1>3 DEF Reports

\* An entry leaves the table.
LEMMA Drops ==
  ASSUME RecvTypeOK, NEW g \in Flows, NEW f \in Flows,
         DropFlow(g, f) \/ UNCHANGED <<table, thread>>
  PROVE  table' \in [Flows -> SUBSET Flows] /\ thread' \in [Flows -> ThreadPCs]
<1>1. table \in [Flows -> SUBSET Flows] /\ thread \in [Flows -> ThreadPCs]
  BY DEF RecvTypeOK
<1> QED
  BY <1>1 DEF DropFlow, SetThread, ThreadPCs

LEMMA SessionOpensStep ==
  ASSUME ChannelInv, NEW g \in Flows, AcceptSession(g) \/ Connected(g) \/ SenderDown(g),
         UNCHANGED sendVars
  PROVE  ChannelInv'
<1> USE DEF ChannelInv, TypeOK
<1>1. RecvTypeOK'
  BY ZenonT(60) DEF AcceptSession, Connected, SenderDown, RecvTypeOK, SessionPCs, portVars
<1>2. NetTypeOK'
  <2>1. CASE AcceptSession(g) \/ SenderDown(g)
    BY <2>1 DEF AcceptSession, SenderDown, NetTypeOK, netVars
  <2>2. CASE Connected(g)
    <3>1. Plain("ACK_CONNECT") \in Messages
      BY MessageKinds DEF PlainTypes
    <3>2. toSend' \in [Flows -> Seq(Messages)] /\ toRecv' \in [Flows -> Seq(Messages)]
      BY <2>2, <3>1, ReceiverNet DEF Connected
    <3> QED
      BY <2>2, <3>2 DEF Connected, NetTypeOK
  <2> QED
    BY <2>1, <2>2
<1> HIDE DEF ChannelInv
<1> QED
  BY <1>1, <1>2, ReceiverElsewhere

LEMMA SessionSpeaksStep ==
  ASSUME ChannelInv, NEW g \in Flows,
         NameLog(g) \/ Release(g) \/ DiscoveryAnswered(g) \/ Discover(g),
         UNCHANGED sendVars
  PROVE  ChannelInv'
<1>1. TypeOK
  BY DEF ChannelInv
<1>2. \A t \in {"ACK_SEND_NAME_LOG", "ACK_RELEASE", "DISCOVERY"} : Plain(t) \in Messages
  BY MessageKinds DEF PlainTypes
<1>3. NetTypeOK'
  <2>1. CASE NameLog(g) \/ Release(g) \/ DiscoveryAnswered(g)
    <3>1. PICK type : OnMessage(g, type)
      BY <2>1 DEF NameLog, Release, DiscoveryAnswered
    <3>2. connOpen' = connOpen
      BY <2>1 DEF NameLog, Release, DiscoveryAnswered
    <3>3. \/ toSend' = toSend
          \/ \E t \in {"ACK_SEND_NAME_LOG", "ACK_RELEASE"} : ReceiverSends(g, Plain(t))
      BY <2>1 DEF NameLog, Release, DiscoveryAnswered
    <3> QED
      BY <1>1, <1>2, <3>1, <3>2, <3>3, ReadsMessage
  <2>2. CASE Discover(g)
    <3>1. toSend' \in [Flows -> Seq(Messages)]
      BY <1>1, <1>2, <2>2, ReceiverNet DEF Discover, TypeOK
    <3> QED
      BY <1>1, <2>2, <3>1 DEF Discover, TypeOK, NetTypeOK
  <2> QED
    BY <2>1, <2>2
<1>4. RecvTypeOK'
  <2>1. RecvTypeOK
    BY <1>1 DEF TypeOK
  <2>2. CASE Discover(g)
    BY <2>1, <2>2 DEF Discover, RecvTypeOK, portVars
  <2>3. CASE NameLog(g) \/ Release(g) \/ DiscoveryAnswered(g)
    <3>1. discovery' \in [Flows -> 0 .. 1]
      BY <1>1, <2>3, ReadsMessage DEF NameLog, Release, DiscoveryAnswered
    <3>2. session' \in [Flows -> SessionPCs]
      BY <2>1, <2>3 DEF NameLog, Release, DiscoveryAnswered, RecvTypeOK, SessionPCs
    <3>3. hostUp' \in [Hosts -> BOOLEAN]
      BY <2>1, <2>3 DEF NameLog, Release, DiscoveryAnswered, RecvTypeOK
    <3>4. UNCHANGED <<table, rPipe, thread, home, portVars>>
      BY <2>3 DEF NameLog, Release, DiscoveryAnswered
    <3> QED
      BY <2>1, <3>1, <3>2, <3>3, <3>4 DEF RecvTypeOK, portVars
  <2> QED
    BY <2>2, <2>3
<1> QED
  BY <1>3, <1>4, ReceiverElsewhere

LEMMA SessionServesStep ==
  ASSUME ChannelInv, NEW g \in Flows,
         SendFlow(g) \/ ClosedFlow(g) \/ ClosedErr(g), UNCHANGED sendVars
  PROVE  ChannelInv'
<1> DEFINE f == Head(toRecv[g]).flow
<1>1. PICK type \in FlowTypes : OnMessage(g, type)
  BY DEF SendFlow, ClosedFlow, ClosedErr, FlowTypes
<1>2. TypeOK /\ RecvTypeOK
  BY DEF ChannelInv, TypeOK
<1>3. f \in Flows
  BY <1>1, <1>2, ReadsMessage
<1>4. NetTypeOK'
  <2>1. connOpen' = connOpen /\ toSend' = toSend
    BY DEF SendFlow, ClosedFlow, ClosedErr
  <2>2. Msg("SEND_FLOW", f) \in Messages
    BY <1>3, MessageKinds DEF FlowTypes
  <2> QED
    BY <1>1, <1>2, <2>1, <2>2, ReadsMessage
<1>5. discovery' \in [Flows -> 0 .. 1]
  BY <1>1, <1>2, ReadsMessage
<1>6. RecvTypeOK'
  <2>1. CASE SendFlow(g)
    BY <1>2, <1>3, <1>5, <2>1 DEF RecvTypeOK, SendFlow, SetThread, ThreadPCs, portVars
  <2>2. CASE ClosedFlow(g) \/ ClosedErr(g)
    <3>1. thread' \in [Flows -> ThreadPCs]
      BY <1>2, <2>2 DEF ClosedFlow, ClosedErr, SetThread, RecvTypeOK, ThreadPCs
    <3>2. session' \in [Flows -> SessionPCs]
      BY <1>2, <2>2 DEF ClosedFlow, ClosedErr, RecvTypeOK, SessionPCs, Closing
    <3> QED
      BY <1>2, <1>5, <2>2, <3>1, <3>2 DEF RecvTypeOK, ClosedFlow, ClosedErr, portVars
  <2> QED
    BY <2>1, <2>2
<1> QED
  BY <1>4, <1>6, ReceiverElsewhere

\* The end of CLOSED_FLOW and CLOSED_ERR: a port is left and the table shrinks.
LEMMA FlowClosedStep ==
  ASSUME ChannelInv, NEW g \in Flows, FlowClosed(g), UNCHANGED sendVars
  PROVE  ChannelInv'
<1>1. TypeOK /\ RecvTypeOK /\ NetTypeOK
  BY DEF ChannelInv, TypeOK
<1>2. PICK f \in table[g] :
        /\ LeavePort(f)
        /\ table' = [table EXCEPT ![g] = @ \ {f}]
        /\ ReceiverSends(g, Msg("ACK_CLOSED_FLOW", f)) \/ UNCHANGED toSend
  BY DEF FlowClosed
<1>3. f \in Flows
  BY <1>1 DEF RecvTypeOK
<1>4. NetTypeOK'
  <2>1. Msg("ACK_CLOSED_FLOW", f) \in Messages
    BY <1>3, MessageKinds DEF FlowTypes
  <2>2. toSend' \in [Flows -> Seq(Messages)]
    BY <1>1, <1>2, <2>1, ReceiverNet DEF NetTypeOK
  <2> QED
    BY <1>1, <2>2 DEF NetTypeOK, FlowClosed
<1>5. /\ portLock' \in [Ports -> Flows \cup {NoFlow}]
      /\ portOpen' \in [Ports -> BOOLEAN]
      /\ inUse' \in [Ports -> Int]
  <2>1. Port[f] \in Ports
    BY <1>3, ReceiverAssumption
  <2>2. CASE UsesPort(f)
    <3>1. /\ inUse' = [inUse EXCEPT ![Port[f]] = @ - 1]
          /\ portOpen' = [portOpen EXCEPT ![Port[f]] = @ /\ inUse[Port[f]] # 1]
          /\ UNCHANGED portLock
      BY <1>2, <2>2 DEF LeavePort
    <3>2. portOpen' \in [Ports -> BOOLEAN]
      BY <1>1, <2>1, <3>1 DEF RecvTypeOK
    <3>3. inUse' \in [Ports -> Int]
      BY <1>1, <2>1, <3>1 DEF RecvTypeOK
    <3> QED
      BY <1>1, <3>1, <3>2, <3>3 DEF RecvTypeOK
  <2>3. CASE ~UsesPort(f)
    BY <1>1, <1>2, <2>3 DEF LeavePort, RecvTypeOK, portVars
  <2> QED
    BY <2>2, <2>3
<1>6. RecvTypeOK'
  <2>1. table' \in [Flows -> SUBSET Flows]
    BY <1>1, <1>2 DEF RecvTypeOK
  <2>2. session' \in [Flows -> SessionPCs]
    BY <1>1 DEF FlowClosed, RecvTypeOK, SessionPCs
  <2> QED
    BY <1>1, <1>5, <2>1, <2>2 DEF FlowClosed, RecvTypeOK
<1> QED
  BY <1>4, <1>6, ReceiverElsewhere

LEMMA SessionPipeStep ==
  ASSUME ChannelInv, NEW g \in Flows, SessionOnPipe(g)
  PROVE  ChannelInv'
<1> DEFINE f == Head(rPipe[g]).flow
<1>1. TypeOK /\ RecvTypeOK /\ UNCHANGED sendVars
  BY DEF ChannelInv, TypeOK, SessionOnPipe
<1>2. PICK code : OnReport(g, code)
  BY DEF SessionOnPipe, SessionPipe, ThreadOk, ThreadNotStarted, ThreadBroke
<1>3. f \in Flows /\ rPipe' \in [Flows -> Seq(Reports)]
  BY <1>1, <1>2, ReadsReport
<1>4. NetTypeOK'
  <2> DEFINE Answers == {Msg(t, f) : t \in {"ACK_SEND_FLOW", "ERR_MSG_2", "ERR_MSG_3", "ERR_MSG_5"}}
  <2>1. \A m \in Answers : m \in Messages
    BY <1>3, MessageKinds DEF FlowTypes
  <2>2. toSend' = toSend \/ \E m \in Answers : ReceiverSends(g, m)
    BY DEF SessionOnPipe, SessionPipe, ThreadOk, ThreadNotStarted, ThreadBroke
  <2>3. Answers # {}
    OBVIOUS
  <2> HIDE DEF Answers
  <2> QED
    BY <1>1, <1>2, <2>1, <2>2, <2>3, ReadsReport
<1>5. RecvTypeOK'
  <2>1. DropFlow(g, f) \/ UNCHANGED <<table, thread>>
    BY DEF SessionOnPipe, SessionPipe, ThreadOk, ThreadNotStarted, ThreadBroke
  <2>2. table' \in [Flows -> SUBSET Flows] /\ thread' \in [Flows -> ThreadPCs]
    BY <1>1, <1>3, <2>1, Drops
  <2>3. UNCHANGED <<session, discovery, hostUp, home, portVars>>
    BY <1>2 DEF OnReport
  <2> QED
    BY <1>1, <1>3, <2>2, <2>3 DEF RecvTypeOK, portVars
<1> QED
  BY <1>1, <1>4, <1>5, ReceiverElsewhere

\* What a data thread does to its port.
LEMMA PortMoves ==
  ASSUME RecvTypeOK, NEW f \in Flows,
         \/ UNCHANGED portVars
         \/ \E owner \in {f, NoFlow}, open \in BOOLEAN, users \in {inUse[Port[f]], inUse[Port[f]] + 1} :
              SetPort(Port[f], owner, open, users)
  PROVE  /\ portLock' \in [Ports -> Flows \cup {NoFlow}]
         /\ portOpen' \in [Ports -> BOOLEAN]
         /\ inUse' \in [Ports -> Int]
<1>1. Port[f] \in Ports
  BY ReceiverAssumption
<1>2. /\ portLock \in [Ports -> Flows \cup {NoFlow}]
      /\ portOpen \in [Ports -> BOOLEAN]
      /\ inUse \in [Ports -> Int]
  BY DEF RecvTypeOK
<1>3. CASE UNCHANGED portVars
  BY <1>2, <1>3 DEF portVars
<1>4. ASSUME NEW owner \in {f, NoFlow}, NEW open \in BOOLEAN,
             NEW users \in {inUse[Port[f]], inUse[Port[f]] + 1},
             SetPort(Port[f], owner, open, users)
      PROVE  /\ portLock' \in [Ports -> Flows \cup {NoFlow}]
             /\ portOpen' \in [Ports -> BOOLEAN]
             /\ inUse' \in [Ports -> Int]
  BY <1>1, <1>2, <1>4 DEF SetPort
<1> QED
  BY <1>3, <1>4

LEMMA DataThreadStep ==
  ASSUME ChannelInv, NEW f \in Flows,
         DataThread(f) \/ DataThreadReceives(f) \/ DataThreadFails(f)
  PROVE  ChannelInv'
<1>1. PICK code \in ReportCodes, pc \in ThreadPCs :
        /\ PushReport(f, code) \/ rPipe' = rPipe
        /\ thread' = [thread EXCEPT ![f] = pc]
        /\ UNCHANGED <<session, table, discovery, hostUp, home, netVars, sendVars>>
  BY DEF DataThread, DataThreadReceives, DataThreadFails, DataThreadStarts, BindFails, Listens,
         Receives, ReceiveFails,
         SetThread, ReportCodes, ThreadPCs
<1>2. NetTypeOK'
  BY <1>1 DEF ChannelInv, TypeOK, NetTypeOK, netVars
<1>3. \/ UNCHANGED portVars
      \/ \E owner \in {f, NoFlow}, open \in BOOLEAN, users \in {inUse[Port[f]], inUse[Port[f]] + 1} :
           SetPort(Port[f], owner, open, users)
  <2>1. portOpen[Port[f]] \in BOOLEAN
    BY ReceiverAssumption DEF ChannelInv, TypeOK, RecvTypeOK
  <2> QED
    BY <2>1 DEF DataThread, DataThreadReceives, DataThreadFails, DataThreadStarts, BindFails,
                Listens, Receives, ReceiveFails
<1>4. RecvTypeOK'
  <2>1. RecvTypeOK
    BY DEF ChannelInv, TypeOK
  <2>2. rPipe' \in [Flows -> Seq(Reports)]
    <3> DEFINE g == home[f]
               r == Report(code, f)
    <3>1. r \in Reports
      BY DEF Report, Reports
    <3>2. rPipe \in [Flows -> Seq(Reports)]
      BY <2>1 DEF RecvTypeOK
    <3>3. rPipe' = rPipe \/ rPipe' = [rPipe EXCEPT ![g] = Append(@, r)]
      BY <1>1 DEF PushReport
    <3> HIDE DEF g, r
    <3>4. CASE rPipe' = [rPipe EXCEPT ![g] = Append(@, r)]
      <4>1. CASE g \in Flows
        BY <3>1, <3>2, <3>4, <4>1, QueueGrows
      <4>2. CASE g \notin Flows
        BY <3>2, <3>4, <4>2
      <4> QED
        BY <4>1, <4>2
    <3> QED
      BY <3>2, <3>3, <3>4
  <2>3. /\ portLock' \in [Ports -> Flows \cup {NoFlow}]
        /\ portOpen' \in [Ports -> BOOLEAN]
        /\ inUse' \in [Ports -> Int]
    BY <1>3, <2>1, PortMoves
  <2> QED
    BY <1>1, <2>1, <2>2, <2>3 DEF RecvTypeOK
<1> QED
  BY <1>1, <1>2, <1>4, ReceiverElsewhere

LEMMA ReceiverStep ==
  ASSUME ChannelInv, NEW g \in Flows,
         \/ SessionOnSocket(g) \/ SessionOnPipe(g) \/ SessionTimer(g)
         \/ DataThread(g) \/ DataThreadReceives(g) \/ DataThreadFails(g)
  PROVE  ChannelInv'
  BY SessionOpensStep, SessionSpeaksStep, SessionServesStep, FlowClosedStep, SessionPipeStep,
     DataThreadStep
     DEF SessionOnSocket, SessionSocket, SessionTimer

-----------------------------------------------------------------------------
(***************************************************************************)
(* The theorems                                                            *)
(***************************************************************************)

LEMMA NextKeepsChannelInv ==
  ASSUME ChannelInv, [Next]_vars
  PROVE  ChannelInv'
<1>1. CASE Exit
  BY <1>1, ExitStep
<1>2. CASE Finished \/ UNCHANGED vars
  <2>1. UNCHANGED vars
    BY <1>2 DEF Finished
  <2>2. TypeOK'
    BY <2>1 DEF ChannelInv, TypeOK, NetTypeOK, SendTypeOK, ChanTypeOK, ThreadTypeOK, RecvTypeOK,
                vars, netVars, sendVars, recvVars, chanVars, threadVars
  <2>3. UNCHANGED <<mutex, parser, sigChan, chanSock, manager>>
    BY <2>1 DEF vars, sendVars, chanVars, threadVars
  <2> QED
    BY <2>2, <2>3, Elsewhere
<1>3. ASSUME NEW f \in Flows,
             \/ Parser(f)
             \/ ManagerOnSocket(f) \/ ManagerOnPipe(f) \/ ManagerEnds(f)
             \/ SenderFails(f) \/ SenderConnects(f) \/ SenderFinishes(f) \/ SenderKilled(f)
             \/ SessionOnSocket(f) \/ SessionOnPipe(f) \/ SessionTimer(f)
             \/ DataThread(f) \/ DataThreadReceives(f) \/ DataThreadFails(f)
      PROVE  ChannelInv'
  BY <1>3, ParserStep, ManagerStep, SenderStep, ReceiverStep
<1>4. ASSUME NEW h \in Hosts, ReceiverStops(h)
      PROVE  ChannelInv'
  <2>1. RecvTypeOK' /\ NetTypeOK' /\ UNCHANGED sendVars
    BY <1>4 DEF ReceiverStops, Interrupted, ChannelInv, TypeOK, RecvTypeOK, NetTypeOK, netVars,
                portVars
  <2> QED
    BY <2>1, ReceiverElsewhere
<1> QED
  BY <1>1, <1>2, <1>3, <1>4 DEF Next

\* Types, one channel per receiver and the use of `mutex` hold together in every
\* reachable state (identifySignalManager, isChannelClosable).
THEOREM ChannelInvariant == Spec => []ChannelInv
<1>1. Init => ChannelInv
  BY InitChannelInv
<1>2. ChannelInv /\ [Next]_vars => ChannelInv'
  BY NextKeepsChannelInv
<1> QED
  BY <1>1, <1>2, PTL DEF Spec

\* Every variable of ITGSend, of the sessions of ITGRecv and of the connections
\* keeps its type: the search for a free slot of signalChannels[] in
\* identifySignalManager always finds one, no index leaves the array, and a queue
\* never holds anything but messages.
THEOREM TypeCorrect == Spec => []TypeOK
<1>1. ChannelInv => TypeOK
  BY DEF ChannelInv
<1> QED
  BY <1>1, ChannelInvariant, PTL

\* Two open slots of signalChannels[] never lead to the same receiver
\* (checkDestHostIP under `mutex`).
THEOREM OneChannel == Spec => []OneChannelPerHost
<1>1. ChannelInv => OneChannelPerHost
  BY DEF ChannelInv
<1> QED
  BY <1>1, ChannelInvariant, PTL

\* Between the search for a channel and its registration, and between RELEASE and
\* the release of the slot, `mutex` is held, and no channel to the same receiver
\* appears.
THEOREM MutexProtects == Spec => []MutexProtectsChannels
<1>1. ChannelInv => MutexProtectsChannels
  BY DEF ChannelInv
<1> QED
  BY <1>1, ChannelInvariant, PTL

=============================================================================
