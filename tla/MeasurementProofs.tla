------------------------- MODULE MeasurementProofs -------------------------
(***************************************************************************)
(* What holds of a measurement for any flows, options, sizes and times:    *)
(* its types; that a packet keeps the stamp of its departure on the way    *)
(* from the loop of flowSender through the network, TCPrecvPacket and the  *)
(* log, and that ITGDec finds the stamp again when the header was too      *)
(* short for it; that the packets of a TCP flow are found again in the     *)
(* stream; that ITGDec keeps the flows apart, reports the losses there are *)
(* and the totals of all records; and that flowSender respects the limits  *)
(* a user gave.  SeriesProofs goes on with the series of ITGDec.           *)
(*                                                                         *)
(* The records of a flow, and sums of sizes, are recursive functions:      *)
(* what they do with one more record is derived from their definition by   *)
(* induction over the natural numbers (Induction, ByRecursion).            *)
(***************************************************************************)
EXTENDS Measurement, WellFoundedInduction, SequenceTheorems, FiniteSetTheorems, TLAPS

\* Whatever is sent, under way or logged.
Packets       == [flow : Flows, seq : Nat, tx : Nat, size : 0 .. Largest]
StreamFields  == [flow : Flows, seq : Nat, tx : Nat, size : 0 .. Largest, field : Nat]
SentPackets   == [flow : Flows, seq : Nat, tx : Nat, size : 0 .. Largest, at : Nat]
Records       == [flow : Flows, seq : Nat, tx : Int, rx : Nat, size : Nat]
SenderStates  ==
  [pc : {"idle", "sending", "waiting", "off", "tail", "ended"}, seq : Nat, bytes : 0 .. Forever,
   last : Nat, stamp : Nat, due : Nat, size : Nat, chk : Int, on : Int, end : Nat, recv : Nat]
ThreadStates  ==
  [pc : {"preamble", "payload", "asleep"}, got : 0 .. Largest, size : Nat,
   header : StreamFields \cup {<<>>}]
DecoderFields ==
  {"pc", "read", "out", "infos", "files", "begin", "series", "merged", "combined", "total"}

MeasureTypes ==
  /\ asked \in Cases /\ now \in Nat
  /\ snd \in [Flows -> SenderStates] /\ failures \in [Flows -> Nat]
  /\ net \in [Flows -> SUBSET Packets] /\ stream \in [Flows -> Seq(StreamFields)]
  /\ back \in [Flows -> SUBSET Packets]
  /\ sendLog \in Seq(Records) /\ sent \in [Flows -> Seq(SentPackets)]
  /\ rcv \in [Flows -> ThreadStates] /\ copies \in 0 .. asked.copies /\ recvLog \in Seq(Records)
  /\ DOMAIN dec = DecoderFields /\ dec.pc \in {"off", "reading", "failed", "done"}
  /\ dec.read \in Nat /\ dec.out \in Seq(Records)

\* The loop of a flow: numbers, sizes and stamps. A packet of a flow without bursts is stamped
\* as soon as the loop comes round, and time passes only while it waits.
SenderKept(f) ==
  /\ snd[f].pc # "idle" => f \in asked.flows /\ snd[f].size \in MinSize(f) .. Largest
  /\ snd[f].pc = "idle" => snd[f].seq = 1
  /\ snd[f].seq - 1 = Len(sent[f]) + failures[f] + (IF snd[f].pc = "waiting" THEN -1 ELSE 0)
  /\ failures[f] <= asked.failures
  /\ snd[f].pc = "off" => Opt(f).bursty
  /\ snd[f].pc = "tail" => Opt(f).meter = "rttm"
  /\ ~Opt(f).bursty =>
       /\ snd[f].pc = "sending" => snd[f].last = now
       /\ \A i \in DOMAIN sent[f] : sent[f][i].tx = sent[f][i].at

\* A packet, a field or a record m tells of a packet that was sent: of its number, and of its
\* stamp.
Numbered(m) == \E j \in DOMAIN sent[m.flow] : sent[m.flow][j].seq = m.seq
Stamped(m)  ==
  \E j \in DOMAIN sent[m.flow] : sent[m.flow][j].seq = m.seq /\ sent[m.flow][j].tx = m.tx

\* What the network and a data thread have of flow f.
NetKept(p) ==
  \A m \in net[p] : /\ m.flow \in asked.flows /\ Opt(m.flow).proto # "TCP" /\ p \in Sockets(m.flow)
                    /\ Stamped(m)
BackKept(f)   == \A m \in back[f] : m.flow = f
StreamKept(f) == \A i \in DOMAIN stream[f] : stream[f][i].flow = f /\ Stamped(stream[f][i])
ThreadKept(f) ==
  /\ rcv[f].pc = "preamble" => rcv[f].got < PreambleSize(f)
  /\ rcv[f].pc = "payload" =>
       /\ f \in asked.flows /\ rcv[f].got < rcv[f].size
       /\ Opt(f).log # "none" => rcv[f].size <= Largest
       /\ rcv[f].header \in StreamFields /\ rcv[f].header.flow = f /\ Stamped(rcv[f].header)

\* The threads that read the same socket expect the same header.
HeadersAlike ==
  \A c \in Cases : \A f, t \in c.flows :
    /\ c.flow[f].proto = c.flow[t].proto /\ c.flow[f].proto # "TCP"
    /\ c.flow[f].proto = "ICMP" \/ c.flow[f].port = c.flow[t].port
    => c.flow[f].log = c.flow[t].log

\* The records of the receiver: a number, if there was a header, and a stamp if it was a
\* standard one.
Received(r) ==
  /\ r.flow \in asked.flows
  /\ Opt(r.flow).log # "none" => Numbered(r)
  /\ HeadersAlike /\ Opt(r.flow).log = "standard" => Stamped(r)

\* The sender's log has all packets of a flow with a one-way-delay meter, with their stamps.
SendLogKept ==
  /\ \A i \in DOMAIN sendLog :
       /\ sendLog[i].flow \in asked.flows
       /\ Opt(sendLog[i].flow).meter = "owdm" => Stamped(sendLog[i])
  /\ \A f \in Flows : Opt(f).meter = "owdm" =>
       \A j \in DOMAIN sent[f] :
         \E i \in DOMAIN sendLog : sendLog[i].flow = f /\ sendLog[i].seq = sent[f][j].seq

\* Option -r is given for flows with numbers, whose packets the sender logs.
Reconstructible ==
  \A c \in Cases : c.dec.reconstruct =>
    \A f \in c.flows : c.flow[f].log # "none" /\ c.flow[f].meter = "owdm"

\* ITGDec starts after the flows, and reads one record after the other.
DecoderKept ==
  /\ dec.pc # "off" => AllEnded
  /\ dec.pc = "off" => dec.read = 0 /\ dec.out = <<>>
  /\ dec.read <= Len(Input)
  /\ Reconstructible /\ asked.dec.reconstruct =>
       dec.pc # "failed" /\ \A i \in DOMAIN dec.out : Stamped(dec.out[i])

\* The inductive invariant.
MeasureInv ==
  /\ MeasureTypes
  /\ \A f \in Flows :
       SenderKept(f) /\ NetKept(f) /\ BackKept(f) /\ StreamKept(f) /\ ThreadKept(f)
  /\ \A i \in DOMAIN recvLog : Received(recvLog[i])
  /\ SendLogKept /\ DecoderKept
-----------------------------------------------------------------------------
(* Options. *)

\* The options of a measurement have the types that the assumptions on Cases give them.
LEMMA OptionTypes ==
  ASSUME asked \in Cases
  PROVE  /\ asked.flows \subseteq Flows /\ asked.failures \in Nat /\ asked.copies \in Nat
         /\ Largest \in Nat /\ Forever \in Nat
         /\ \A f \in Flows :
              /\ Opt(f).proto \in {"UDP", "TCP", "ICMP"} /\ Opt(f).port \in Flows
              /\ Opt(f).log \in {"standard", "short", "none"}
              /\ MinSize(f) \in Nat \ {0} /\ MinSize(f) <= Largest
              /\ PreambleSize(f) \in Nat \ {0} /\ PreambleSize(f) <= MinSize(f)
              /\ Duration(f) \in Nat /\ Opt(f).waits \subseteq Nat
              /\ NextSizes(f) \subseteq MinSize(f) .. Largest
<1>1. /\ asked.flows \subseteq Flows /\ asked.failures \in Nat /\ asked.copies \in Nat
      /\ Largest \in Nat \ {0} /\ Forever \in Nat \ {0}
      /\ \A f \in Flows : Sendable(Opt(f))
  BY FlowSenderAssumption DEF Opt
<1>2. ASSUME NEW f \in Flows
      PROVE  /\ Opt(f).proto \in {"UDP", "TCP", "ICMP"} /\ Opt(f).port \in Flows
             /\ Opt(f).log \in {"standard", "short", "none"}
             /\ MinSize(f) \in Nat \ {0} /\ MinSize(f) <= Largest
             /\ PreambleSize(f) \in Nat \ {0} /\ PreambleSize(f) <= MinSize(f)
             /\ Duration(f) \in Nat /\ Opt(f).waits \subseteq Nat
             /\ NextSizes(f) \subseteq MinSize(f) .. Largest
  <2>1. Sendable(Opt(f))
    BY <1>1
  <2>2. Header(Opt(f).log) \in Nat \ {0}
    BY <2>1 DEF Sendable, Header, StandardMinPayloadSize, ShortMinPayloadSize, NoneMinPayloadSize
  <2>3. Carried(f) \in {0, 1}
    BY DEF Carried
  <2>4. /\ MinSize(f) \in Nat \ {0} /\ MinSize(f) <= Largest
        /\ PreambleSize(f) \in Nat \ {0} /\ PreambleSize(f) <= MinSize(f)
    BY <1>1, <2>1, <2>2, <2>3 DEF Sendable, MinSize, PreambleSize
  <2>5. Duration(f) \in Nat
    BY <1>1, <2>1 DEF Sendable, Duration
  <2>6. NextSizes(f) \subseteq MinSize(f) .. Largest
    BY <1>1, <2>1, <2>4 DEF Sendable, NextSizes, Clamp
  <2> QED
    BY <2>1, <2>4, <2>5, <2>6 DEF Sendable
<1> QED
  BY <1>1, <1>2
-----------------------------------------------------------------------------
(* Steps of a flow that send nothing. *)

\* A step of a sending thread that sends nothing and loses nothing of the invariant of its flow.
LEMMA SenderStep ==
  ASSUME MeasureInv, dec.pc = "off", NEW f \in Flows,
         UNCHANGED <<asked, now, net, stream, sent, rcv, copies, recvLog, dec>>,
         snd' \in [Flows -> SenderStates], failures' \in [Flows -> Nat],
         \A g \in Flows \ {f} : snd'[g] = snd[g] /\ failures'[g] = failures[g],
         SenderKept(f)',
         back' \in [Flows -> SUBSET Packets], \A g \in Flows : back'[g] \subseteq back[g],
         sendLog' \in Seq(Records), SendLogKept'
  PROVE  MeasureInv'
<1>1. MeasureTypes'
  BY DEF MeasureInv, MeasureTypes
<1>2. ASSUME NEW g \in Flows
      PROVE  (SenderKept(g) /\ NetKept(g) /\ BackKept(g) /\ StreamKept(g) /\ ThreadKept(g))'
  <2>1. SenderKept(g) /\ NetKept(g) /\ BackKept(g) /\ StreamKept(g) /\ ThreadKept(g)
    BY DEF MeasureInv
  <2>2. SenderKept(g)'
    <3>1. CASE g = f
      BY <3>1
    <3>2. CASE g # f
      BY <2>1, <3>2 DEF SenderKept, Opt, MinSize, Carried
    <3> QED
      BY <3>1, <3>2
  <2>3. NetKept(g)' /\ BackKept(g)'
    BY <2>1 DEF NetKept, BackKept, Stamped, Sockets, Opt
  <2>4. StreamKept(g)' /\ ThreadKept(g)'
    BY <2>1 DEF StreamKept, ThreadKept, Stamped, PreambleSize, Carried, Opt
  <2> QED
    BY <2>2, <2>3, <2>4
<1>3. \A i \in DOMAIN recvLog' : Received(recvLog[i])'
  BY DEF MeasureInv, Received, Numbered, Stamped, Opt
<1>4. DecoderKept'
  <2>1. dec.read = 0 /\ dec.out = <<>>
    BY DEF MeasureInv, DecoderKept
  <2>2. Len(Input') \in Nat
    BY <1>1, LenProperties DEF MeasureTypes, Input
  <2> QED
    BY <2>1, <2>2 DEF DecoderKept
<1> QED
  BY <1>1, <1>2, <1>3, <1>4 DEF MeasureInv

\* A loop that goes on, with its numbers.
LEMMA LoopStep ==
  ASSUME MeasureInv, dec.pc = "off", NEW f \in Flows, NEW s \in SenderStates,
         snd' = [snd EXCEPT ![f] = s],
         UNCHANGED <<asked, now, failures, net, stream, back, sendLog, sent, rcv, copies, recvLog, dec>>,
         f \in asked.flows, s.pc \notin {"idle", "waiting"}, s.size \in MinSize(f) .. Largest,
         s.seq = snd[f].seq + (IF snd[f].pc = "waiting" THEN 1 ELSE 0),
         s.pc = "off" => Opt(f).bursty,
         s.pc = "tail" => Opt(f).meter = "rttm",
         ~Opt(f).bursty /\ s.pc = "sending" => s.last = now
  PROVE  MeasureInv'
<1>1. /\ snd \in [Flows -> SenderStates] /\ failures \in [Flows -> Nat]
      /\ back \in [Flows -> SUBSET Packets] /\ sendLog \in Seq(Records)
      /\ sent \in [Flows -> Seq(SentPackets)]
  BY DEF MeasureInv, MeasureTypes
<1>2. snd' \in [Flows -> SenderStates] /\ snd'[f] = s
  BY <1>1
<1>3. \A g \in Flows \ {f} : snd'[g] = snd[g] /\ failures'[g] = failures[g]
  BY <1>1
<1>4. SenderKept(f)'
  <2>1. SenderKept(f)
    BY DEF MeasureInv
  <2>2. s.seq - 1 = Len(sent[f]) + failures[f]
    <3>1. Len(sent[f]) \in Nat /\ failures[f] \in Nat /\ s.seq \in Nat /\ snd[f].seq \in Nat
      BY <1>1, LenProperties DEF SenderStates
    <3>2. snd[f].seq - 1 = Len(sent[f]) + failures[f] + (IF snd[f].pc = "waiting" THEN -1 ELSE 0)
      BY <2>1 DEF SenderKept
    <3>3. PICK a \in Nat, n \in Nat, m \in Nat : a = snd[f].seq /\ n = Len(sent[f]) /\ m = failures[f]
      BY <3>1
    <3>4. s.seq = a + (IF snd[f].pc = "waiting" THEN 1 ELSE 0)
      BY <3>3
    <3>5. a - 1 = n + m + (IF snd[f].pc = "waiting" THEN -1 ELSE 0)
      BY <3>2, <3>3
    <3>6. s.seq - 1 = n + m
      <4>1. PICK b \in Nat : b = s.seq
        BY <3>1
      <4>2. CASE snd[f].pc = "waiting"
        BY <3>4, <3>5, <4>1, <4>2
      <4>3. CASE snd[f].pc # "waiting"
        BY <3>4, <3>5, <4>1, <4>3
      <4> QED
        BY <4>2, <4>3
    <3> QED
      BY <3>3, <3>6
  <2>3. snd'[f].seq - 1 = Len(sent'[f]) + failures'[f] + (IF snd'[f].pc = "waiting" THEN -1 ELSE 0)
    <3>1. Len(sent[f]) \in Nat /\ failures[f] \in Nat
      BY <1>1, LenProperties
    <3> QED
      BY <1>2, <2>2, <3>1
  <2> QED
    BY <1>2, <2>1, <2>3 DEF SenderKept, Opt, MinSize, Carried
<1>5. SendLogKept'
  BY DEF MeasureInv, SendLogKept, Stamped, Opt
<1> QED
  BY <1>1, <1>2, <1>3, <1>4, <1>5, SenderStep

\* While a flow has not ended, ITGDec has not been started.
LEMMA NotDecoding ==
  ASSUME MeasureInv, NEW f \in Flows, f \in asked.flows, snd[f].pc # "ended"
  PROVE  dec.pc = "off"
BY DEF MeasureInv, DecoderKept, AllEnded

\* The start of a flow keeps the invariant.
LEMMA StartFlowKeeps ==
  ASSUME MeasureInv, NEW f \in Flows, StartFlow(f), UNCHANGED <<receiverVars, dec>>
  PROVE  MeasureInv'
<1>1. f \in asked.flows /\ snd[f].pc = "idle" /\ asked \in Cases /\ now \in Nat
  BY DEF StartFlow, Active, MeasureInv, MeasureTypes
<1>2. dec.pc = "off"
  BY <1>1, NotDecoding
<1>3. PICK n \in NextSizes(f), on \in IF Opt(f).bursty THEN OnTimes ELSE {Duration(f)} :
        snd' = [snd EXCEPT ![f] = [Idle EXCEPT !.pc = "sending", !.last = now, !.size = n,
                                               !.on = on, !.end = now + Duration(f)]]
  BY DEF StartFlow
<1> DEFINE s == [Idle EXCEPT !.pc = "sending", !.last = now, !.size = n, !.on = on,
                             !.end = now + Duration(f)]
<1>4. Duration(f) \in Nat /\ n \in MinSize(f) .. Largest /\ MinSize(f) \in Nat
  BY <1>1, OptionTypes
<1>5. on \in Int /\ n \in Nat
  BY <1>1, <1>4, FlowSenderAssumption
<1>6. now + Duration(f) \in Nat /\ 0 \in 0 .. Forever
  BY <1>1, <1>4, FlowSenderAssumption
<1>7. s \in SenderStates
  <2>1. [Idle EXCEPT !.pc = "sending"] \in SenderStates
    BY <1>6 DEF SenderStates, Idle
  <2>2. PICK end \in Nat : end = now + Duration(f)
    BY <1>6
  <2>3. \A r \in SenderStates : [r EXCEPT !.last = now, !.size = n, !.on = on, !.end = end] \in SenderStates
    BY <1>1, <1>5 DEF SenderStates
  <2> QED
    BY <2>1, <2>2, <2>3
<1>8. s.pc = "sending" /\ s.size = n /\ s.last = now /\ s.seq = 1
  BY DEF Idle
<1>9. snd[f].seq = 1 /\ snd' = [snd EXCEPT ![f] = s]
  BY <1>1, <1>3 DEF MeasureInv, SenderKept
<1>10. UNCHANGED <<asked, now, failures, net, stream, back, sendLog, sent, rcv, copies, recvLog, dec>>
  BY DEF StartFlow, receiverVars
<1> HIDE DEF s
<1>11. s.seq = snd[f].seq + (IF snd[f].pc = "waiting" THEN 1 ELSE 0)
  BY <1>1, <1>8, <1>9
<1> QED
  BY <1>1, <1>2, <1>4, <1>7, <1>8, <1>9, <1>10, <1>11, LoopStep

\* What the loops leave behind when they end.
LEMMA AfterLoopsTypes ==
  ASSUME NEW f \in Flows, now \in Nat, NEW s \in SenderStates
  PROVE  /\ AfterLoops(f, s) \in SenderStates /\ AfterLoops(f, s).pc \in {"tail", "ended"}
         /\ AfterLoops(f, s).seq = s.seq /\ AfterLoops(f, s).size = s.size
         /\ AfterLoops(f, s).pc = "tail" => Opt(f).meter = "rttm"
<1>1. PICK due \in Nat : due = now + RttmDelay
  BY FlowSenderAssumption
<1>2. [s EXCEPT !.pc = "tail", !.due = due] \in SenderStates /\ [s EXCEPT !.pc = "ended"] \in SenderStates
  BY DEF SenderStates
<1>3. /\ [s EXCEPT !.pc = "tail", !.due = due].pc = "tail" /\ [s EXCEPT !.pc = "ended"].pc = "ended"
      /\ [s EXCEPT !.pc = "tail", !.due = due].seq = s.seq /\ [s EXCEPT !.pc = "ended"].seq = s.seq
      /\ [s EXCEPT !.pc = "tail", !.due = due].size = s.size /\ [s EXCEPT !.pc = "ended"].size = s.size
  BY DEF SenderStates
<1> QED
  BY <1>1, <1>2, <1>3 DEF AfterLoops

\* The end of a wait between two packets keeps the invariant.
LEMMA WaitOverKeeps ==
  ASSUME MeasureInv, NEW f \in Flows, WaitOver(f), UNCHANGED <<receiverVars, dec>>
  PROVE  MeasureInv'
<1>1. /\ snd[f].pc = "waiting" /\ asked \in Cases /\ now \in Nat /\ snd \in [Flows -> SenderStates]
      /\ f \in asked.flows /\ snd[f].size \in MinSize(f) .. Largest
  BY DEF WaitOver, MeasureInv, MeasureTypes, SenderKept
<1>2. dec.pc = "off"
  BY <1>1, NotDecoding
<1>3. PICK s \in AfterPacket(f, Counted(f)) : snd' = [snd EXCEPT ![f] = s]
  BY DEF WaitOver
<1> DEFINE c == Counted(f)
<1>4. c \in SenderStates
  <2>1. PICK old \in SenderStates : old = snd[f]
    BY <1>1
  <2>2. old.bytes + old.chk \in Int /\ old.seq + 1 \in Nat /\ old.on - (now - old.last) \in Int
    BY <1>1 DEF SenderStates
  <2>3. Forever + 1 \in Nat \ {0}
    BY FlowSenderAssumption
  <2>4. PICK b \in 0 .. Forever : b = (old.bytes + old.chk) % (Forever + 1)
    <3>1. PICK x \in Int, m \in Nat \ {0} : x = old.bytes + old.chk /\ m = Forever + 1
      BY <2>2, <2>3
    <3>2. x % m \in 0 .. m - 1
      OBVIOUS
    <3>3. m - 1 = Forever
      BY <3>1, FlowSenderAssumption
    <3>4. PICK b \in 0 .. Forever : b = x % m
      BY <3>2, <3>3
    <3> QED
      BY <3>1, <3>4
  <2>5. PICK q \in Nat, on \in Int : q = old.seq + 1 /\ on = old.on - (now - old.last)
    BY <2>2
  <2>6. [old EXCEPT !.seq = q, !.bytes = b, !.last = now, !.on = on] \in SenderStates
    BY <1>1 DEF SenderStates
  <2>7. c = [old EXCEPT !.seq = q, !.bytes = b, !.last = now, !.on = on]
    BY <2>1, <2>4, <2>5 DEF Counted
  <2> QED
    BY <2>6, <2>7
<1>5. c.seq = snd[f].seq + 1 /\ c.size = snd[f].size /\ c.last = now
  BY <1>1 DEF Counted, SenderStates
<1> HIDE DEF c
<1>6. s \in AfterPacket(f, c)
  BY <1>3 DEF c
<1>7. /\ s \in SenderStates /\ s.pc \notin {"idle", "waiting"} /\ s.size = c.size /\ s.seq = c.seq
      /\ s.pc = "off" => Opt(f).bursty
      /\ s.pc = "tail" => Opt(f).meter = "rttm"
      /\ s.pc = "sending" => s.last = now
  <2>1. CASE s = [c EXCEPT !.pc = "sending"]
    BY <1>4, <1>5, <2>1 DEF SenderStates
  <2>2. CASE Opt(f).bursty /\ \E off \in OffTimes : s = [c EXCEPT !.pc = "off", !.due = now + off]
    <3>1. PICK off \in OffTimes : s = [c EXCEPT !.pc = "off", !.due = now + off]
      BY <2>2
    <3>2. PICK due \in Nat : due = now + off
      BY <1>1, FlowSenderAssumption
    <3>3. s = [c EXCEPT !.pc = "off", !.due = due]
      BY <3>1, <3>2
    <3> QED
      BY <1>4, <2>2, <3>3 DEF SenderStates
  <2>3. CASE s = AfterLoops(f, c)
    BY <1>1, <1>4, <2>3, AfterLoopsTypes
  <2> QED
    BY <1>6, <2>1, <2>2, <2>3 DEF AfterPacket
<1>8. UNCHANGED <<asked, now, failures, net, stream, back, sendLog, sent, rcv, copies, recvLog, dec>>
  BY DEF WaitOver, receiverVars
<1>9. s.seq = snd[f].seq + (IF snd[f].pc = "waiting" THEN 1 ELSE 0)
  BY <1>1, <1>5, <1>7
<1> QED
  BY <1>1, <1>2, <1>3, <1>5, <1>7, <1>8, <1>9, LoopStep

\* The end of the pause of a bursty flow keeps the invariant.
LEMMA OffOverKeeps ==
  ASSUME MeasureInv, NEW f \in Flows, OffOver(f), UNCHANGED <<receiverVars, dec>>
  PROVE  MeasureInv'
<1>1. /\ snd[f].pc = "off" /\ asked \in Cases /\ now \in Nat /\ snd \in [Flows -> SenderStates]
      /\ f \in asked.flows /\ snd[f].size \in MinSize(f) .. Largest /\ Opt(f).bursty
  BY DEF OffOver, MeasureInv, MeasureTypes, SenderKept
<1>2. dec.pc = "off"
  BY <1>1, NotDecoding
<1>3. PICK on \in OnTimes :
        LET s == [snd[f] EXCEPT !.on = on]
        IN snd' = [snd EXCEPT ![f] = IF Within(f, s) THEN [s EXCEPT !.pc = "sending"] ELSE AfterLoops(f, s)]
  BY DEF OffOver
<1> DEFINE c == [snd[f] EXCEPT !.on = on]
           s == IF Within(f, c) THEN [c EXCEPT !.pc = "sending"] ELSE AfterLoops(f, c)
<1>4. snd' = [snd EXCEPT ![f] = s]
  BY <1>3
<1>5. c \in SenderStates /\ c.seq = snd[f].seq /\ c.size = snd[f].size
  <2>1. PICK old \in SenderStates : old = snd[f]
    BY <1>1
  <2>2. on \in Int
    BY FlowSenderAssumption
  <2>3. /\ [old EXCEPT !.on = on] \in SenderStates /\ [old EXCEPT !.on = on].seq = old.seq
        /\ [old EXCEPT !.on = on].size = old.size
    BY <2>2 DEF SenderStates
  <2> QED
    BY <2>1, <2>3
<1> HIDE DEF c
<1>6. /\ s \in SenderStates /\ s.pc \in {"sending", "tail", "ended"} /\ s.size = c.size /\ s.seq = c.seq
      /\ s.pc = "tail" => Opt(f).meter = "rttm"
  <2>1. CASE Within(f, c)
    BY <1>5, <2>1 DEF SenderStates
  <2>2. CASE ~Within(f, c)
    BY <1>1, <1>5, <2>2, AfterLoopsTypes
  <2> QED
    BY <2>1, <2>2
<1> HIDE DEF s
<1>7. UNCHANGED <<asked, now, failures, net, stream, back, sendLog, sent, rcv, copies, recvLog, dec>>
  BY DEF OffOver, receiverVars
<1>8. s.seq = snd[f].seq + (IF snd[f].pc = "waiting" THEN 1 ELSE 0)
  BY <1>1, <1>5, <1>6 DEF SenderStates
<1> QED
  BY <1>1, <1>2, <1>4, <1>5, <1>6, <1>7, <1>8, LoopStep

\* The end of the wait for the last echoes keeps the invariant.
LEMMA TailOverKeeps ==
  ASSUME MeasureInv, NEW f \in Flows, TailOver(f), UNCHANGED <<receiverVars, dec>>
  PROVE  MeasureInv'
<1>1. /\ snd[f].pc = "tail" /\ snd \in [Flows -> SenderStates]
      /\ f \in asked.flows /\ snd[f].size \in MinSize(f) .. Largest
  BY DEF TailOver, MeasureInv, MeasureTypes, SenderKept
<1>2. dec.pc = "off"
  BY <1>1, NotDecoding
<1> DEFINE s == [snd[f] EXCEPT !.pc = "ended"]
<1>3. snd' = [snd EXCEPT ![f] = s]
  BY <1>1 DEF TailOver
<1>4. s \in SenderStates /\ s.pc = "ended" /\ s.size = snd[f].size /\ s.seq = snd[f].seq
  <2>1. PICK old \in SenderStates : old = snd[f]
    BY <1>1
  <2>2. /\ [old EXCEPT !.pc = "ended"] \in SenderStates /\ [old EXCEPT !.pc = "ended"].pc = "ended"
        /\ [old EXCEPT !.pc = "ended"].seq = old.seq /\ [old EXCEPT !.pc = "ended"].size = old.size
    BY DEF SenderStates
  <2> QED
    BY <2>1, <2>2
<1> HIDE DEF s
<1>5. UNCHANGED <<asked, now, failures, net, stream, back, sendLog, sent, rcv, copies, recvLog, dec>>
  BY DEF TailOver, receiverVars
<1>6. s.seq = snd[f].seq + (IF snd[f].pc = "waiting" THEN 1 ELSE 0)
  BY <1>1, <1>4 DEF SenderStates
<1> QED
  BY <1>1, <1>2, <1>3, <1>4, <1>5, <1>6, LoopStep

\* After a packet the flow waits, with the number of the packet.
LEMMA WaitTypes ==
  ASSUME MeasureInv, NEW f \in Flows, snd[f].pc = "sending", NEW chk \in Int, GoesToWait(f, chk)
  PROVE  /\ snd' \in [Flows -> SenderStates] /\ \A g \in Flows \ {f} : snd'[g] = snd[g]
         /\ snd'[f].pc = "waiting" /\ snd'[f].seq = snd[f].seq /\ snd'[f].size \in MinSize(f) .. Largest
<1>1. /\ snd \in [Flows -> SenderStates] /\ now \in Nat /\ asked \in Cases
  BY DEF MeasureInv, MeasureTypes
<1>2. PICK n \in NextSizes(f), w \in Opt(f).waits :
        snd' = [snd EXCEPT ![f].pc = "waiting", ![f].size = n, ![f].chk = chk, ![f].stamp = snd[f].last,
                           ![f].last = now, ![f].due = now + Remaining(f, w)]
  BY DEF GoesToWait
<1>3. n \in MinSize(f) .. Largest /\ MinSize(f) \in Nat /\ w \in Nat
  BY <1>1, OptionTypes
<1>4. PICK old \in SenderStates : old = snd[f]
  BY <1>1
<1>5. Remaining(f, w) \in Nat
  <2>1. PICK lost \in Int : Remaining(f, w) = IF w > lost THEN w - lost ELSE 0
    <3>1. old.last \in Nat /\ now - old.last \in Int
      BY <1>1 DEF SenderStates
    <3>2. (IF Opt(f).adjust THEN now - snd[f].last ELSE 0) \in Int
      BY <1>4, <3>1
    <3> QED
      BY <3>2 DEF Remaining
  <2> QED
    BY <1>3, <2>1
<1>6. PICK due \in Nat : due = now + Remaining(f, w)
  BY <1>1, <1>5
<1> DEFINE s == [old EXCEPT !.pc = "waiting", !.size = n, !.chk = chk, !.stamp = old.last, !.last = now,
                            !.due = due]
<1>7. n \in Nat /\ old.last \in Nat
  BY <1>3 DEF SenderStates
<1>8. s \in SenderStates /\ s.pc = "waiting" /\ s.seq = old.seq /\ s.size = n
  BY <1>1, <1>7 DEF SenderStates
<1>9. snd' = [snd EXCEPT ![f] = s]
  BY <1>1, <1>2, <1>4, <1>6
<1> HIDE DEF s
<1> QED
  BY <1>1, <1>3, <1>4, <1>8, <1>9

\* A send that fails keeps the invariant.
LEMMA SendFailsKeeps ==
  ASSUME MeasureInv, NEW f \in Flows, SendFails(f), UNCHANGED <<receiverVars, dec>>
  PROVE  MeasureInv'
<1>1. /\ snd[f].pc = "sending" /\ asked \in Cases /\ snd \in [Flows -> SenderStates]
      /\ failures \in [Flows -> Nat] /\ sent \in [Flows -> Seq(SentPackets)]
      /\ back \in [Flows -> SUBSET Packets] /\ sendLog \in Seq(Records)
      /\ f \in asked.flows /\ SenderKept(f)
      /\ failures' = [failures EXCEPT ![f] = @ + 1] /\ failures[f] < asked.failures
      /\ UNCHANGED <<asked, now, net, stream, back, sendLog, sent, rcv, copies, recvLog, dec>>
  BY DEF SendFails, receiverVars, MeasureInv, MeasureTypes, SenderKept
<1>2. dec.pc = "off"
  BY <1>1, NotDecoding
<1>3. /\ snd' \in [Flows -> SenderStates] /\ \A g \in Flows \ {f} : snd'[g] = snd[g]
      /\ snd'[f].pc = "waiting" /\ snd'[f].seq = snd[f].seq /\ snd'[f].size \in MinSize(f) .. Largest
  BY <1>1, WaitTypes DEF SendFails
<1>4. /\ failures' \in [Flows -> Nat] /\ failures'[f] = failures[f] + 1
      /\ \A g \in Flows \ {f} : failures'[g] = failures[g]
  BY <1>1
<1>5. SenderKept(f)'
  <2>1. asked.failures \in Nat /\ failures[f] \in Nat /\ Len(sent[f]) \in Nat /\ snd[f].seq \in Nat
    BY <1>1, OptionTypes, LenProperties DEF SenderStates
  <2>2. snd[f].seq - 1 = Len(sent[f]) + failures[f]
    BY <1>1, <2>1 DEF SenderKept
  <2>3. /\ snd'[f].seq - 1 = Len(sent'[f]) + failures'[f] + (IF snd'[f].pc = "waiting" THEN -1 ELSE 0)
        /\ failures'[f] <= asked'.failures
    <3>1. PICK q \in Nat, k \in Nat, n \in Nat, m \in Nat :
            q = snd[f].seq /\ k = Len(sent[f]) /\ n = failures[f] /\ m = asked.failures
      BY <2>1
    <3>2. snd'[f].seq = q /\ Len(sent'[f]) = k /\ failures'[f] = n + 1 /\ asked'.failures = m
      BY <1>1, <1>3, <1>4, <3>1
    <3>3. q - 1 = k + n /\ n < m
      BY <1>1, <2>2, <3>1
    <3>4. q - 1 = k + (n + 1) + -1 /\ n + 1 <= m
      BY <3>3
    <3> QED
      BY <1>3, <3>2, <3>4
  <2> QED
    BY <1>1, <1>3, <2>3 DEF SenderKept, Opt, MinSize, Carried
<1>6. SendLogKept'
  <2>1. UNCHANGED <<asked, sendLog, sent>>
    BY <1>1
  <2> QED
    BY <2>1 DEF MeasureInv, SendLogKept, Stamped, Opt
<1> QED
  BY <1>1, <1>2, <1>3, <1>4, <1>5, <1>6, SenderStep

\* One more record in the log of the sender.
LEMMA SendLogGrows ==
  ASSUME SendLogKept, sendLog \in Seq(Records), UNCHANGED <<asked, sent>>, NEW r \in Records,
         r.flow \in asked.flows, Opt(r.flow).meter = "owdm" => Stamped(r),
         sendLog' = Append(sendLog, r)
  PROVE  SendLogKept' /\ sendLog' \in Seq(Records)
<1>1. /\ sendLog' \in Seq(Records) /\ Len(sendLog') = Len(sendLog) + 1 /\ DOMAIN sendLog' = 1 .. Len(sendLog) + 1
      /\ \A i \in DOMAIN sendLog : sendLog'[i] = sendLog[i] /\ i \in DOMAIN sendLog'
      /\ sendLog'[Len(sendLog) + 1] = r /\ DOMAIN sendLog = 1 .. Len(sendLog) /\ Len(sendLog) \in Nat
  BY AppendProperties, LenProperties
<1>2. ASSUME NEW i \in DOMAIN sendLog'
      PROVE  /\ sendLog'[i].flow \in asked.flows
             /\ Opt(sendLog'[i].flow).meter = "owdm" => Stamped(sendLog'[i])
  <2>1. CASE i \in DOMAIN sendLog
    BY <1>1, <2>1 DEF SendLogKept
  <2>2. CASE i = Len(sendLog) + 1
    BY <1>1, <2>2
  <2> QED
    BY <1>1, <2>1, <2>2
<1>3. \A i \in DOMAIN sendLog' :
        /\ sendLog'[i].flow \in asked'.flows
        /\ (Opt(sendLog[i].flow).meter = "owdm" => Stamped(sendLog[i]))'
  BY <1>2 DEF Opt, Stamped
<1>4. \A g \in Flows : Opt(g).meter = "owdm" =>
        \A j \in DOMAIN sent[g] :
          \E i \in DOMAIN sendLog' : sendLog'[i].flow = g /\ sendLog'[i].seq = sent[g][j].seq
  BY <1>1 DEF SendLogKept
<1> QED
  BY <1>1, <1>3, <1>4 DEF SendLogKept, Opt

\* An echo is read, and logged with some time of departure.
LEMMA EchoStep ==
  ASSUME MeasureInv, NEW f \in Flows, snd[f].pc \in {"waiting", "tail"},
         NEW echo \in back[f], NEW tx \in Int, NEW s \in SenderStates, Opt(f).meter = "rttm",
         back' = [back EXCEPT ![f] = @ \ {echo}],
         sendLog' = Append(sendLog, Record([echo EXCEPT !.tx = tx], now)),
         snd' = [snd EXCEPT ![f] = s],
         s.pc = snd[f].pc, s.seq = snd[f].seq, s.size = snd[f].size,
         UNCHANGED <<asked, now, failures, net, stream, sent, rcv, copies, recvLog, dec>>
  PROVE  MeasureInv'
<1>1. /\ asked \in Cases /\ snd \in [Flows -> SenderStates] /\ now \in Nat
      /\ failures \in [Flows -> Nat] /\ back \in [Flows -> SUBSET Packets] /\ sendLog \in Seq(Records)
      /\ f \in asked.flows /\ SenderKept(f) /\ BackKept(f) /\ SendLogKept
  BY DEF MeasureInv, MeasureTypes, SenderKept
<1>2. dec.pc = "off"
  BY <1>1, NotDecoding
<1>3. /\ snd' \in [Flows -> SenderStates] /\ \A g \in Flows \ {f} : snd'[g] = snd[g]
      /\ snd'[f].pc = snd[f].pc /\ snd'[f].seq = snd[f].seq /\ snd'[f].size = snd[f].size
  BY <1>1
<1>4. SenderKept(f)'
  BY <1>1, <1>3 DEF SenderKept, Opt, MinSize, Carried
<1>5. back' \in [Flows -> SUBSET Packets] /\ \A g \in Flows : back'[g] \subseteq back[g]
  BY <1>1
<1> DEFINE r == Record([echo EXCEPT !.tx = tx], now)
<1>6. r \in Records /\ r.flow = f
  <2>1. echo \in Packets /\ echo.flow = f
    BY <1>1 DEF BackKept
  <2>2. Largest \in Nat
    BY FlowSenderAssumption
  <2> QED
    BY <1>1, <2>1, <2>2 DEF Record, Packets, Records
<1> HIDE DEF r
<1>7. SendLogKept' /\ sendLog' \in Seq(Records)
  <2>1. sendLog' = Append(sendLog, r)
    BY DEF r
  <2>2. Opt(r.flow).meter # "owdm"
    BY <1>6
  <2> QED
    BY <1>1, <1>6, <2>1, <2>2, SendLogGrows
<1> QED
  BY <1>1, <1>2, <1>3, <1>4, <1>5, <1>7, SenderStep

\* An echo that is read and logged between packets keeps the invariant.
LEMMA ReadEchoKeeps ==
  ASSUME MeasureInv, NEW f \in Flows, ReadEcho(f), UNCHANGED <<receiverVars, dec>>
  PROVE  MeasureInv'
<1>1. PICK echo \in back[f] :
        /\ back' = [back EXCEPT ![f] = @ \ {echo}]
        /\ sendLog' = Append(sendLog, Record([echo EXCEPT !.tx = Mixed(echo, f)], now))
  BY DEF ReadEcho
<1>2. /\ snd[f].pc = "waiting" /\ Opt(f).meter = "rttm" /\ snd' = [snd EXCEPT ![f].recv = @ + 1]
      /\ UNCHANGED <<asked, now, failures, net, stream, sent, rcv, copies, recvLog, dec>>
  BY DEF ReadEcho, receiverVars
<1>3. PICK old \in SenderStates : old = snd[f]
  BY DEF MeasureInv, MeasureTypes
<1>4. echo.tx \in Nat
  BY DEF MeasureInv, MeasureTypes, Packets
<1>5. Mixed(echo, f) \in Int
  <2>1. PICK x \in Nat, t \in Nat \ {0}, m \in Nat : x = echo.tx /\ t = TicksPerSecond /\ m = old.stamp
    BY <1>4, FlowSenderAssumption DEF SenderStates
  <2>2. x \div t \in Int /\ m % t \in Int
    OBVIOUS
  <2>3. PICK d \in Int, e \in Int : d = x \div t /\ e = m % t
    BY <2>2
  <2>4. d * t \in Int
    OBVIOUS
  <2>5. d * t + e \in Int
    BY <2>4
  <2> QED
    BY <1>3, <2>1, <2>3, <2>5 DEF Mixed
<1> DEFINE s == [old EXCEPT !.recv = @ + 1]
<1>6. s \in SenderStates /\ s.pc = old.pc /\ s.seq = old.seq /\ s.size = old.size
  BY DEF SenderStates
<1>7. snd' = [snd EXCEPT ![f] = s]
  BY <1>2, <1>3
<1> HIDE DEF s
<1> QED
  BY <1>1, <1>2, <1>3, <1>5, <1>6, <1>7, EchoStep

\* An echo that is read after the last packet keeps the invariant.
LEMMA ReadLastEchoKeeps ==
  ASSUME MeasureInv, NEW f \in Flows, ReadLastEcho(f), UNCHANGED <<receiverVars, dec>>
  PROVE  MeasureInv'
<1>1. PICK echo \in back[f] :
        /\ back' = [back EXCEPT ![f] = @ \ {echo}]
        /\ sendLog' = Append(sendLog, Record(echo, now))
  BY DEF ReadLastEcho
<1>2. /\ snd[f].pc = "tail" /\ snd' = [snd EXCEPT ![f].recv = @ + 1, ![f].due = now + RttmDelay]
      /\ UNCHANGED <<asked, now, failures, net, stream, sent, rcv, copies, recvLog, dec>>
  BY DEF ReadLastEcho, receiverVars
<1>3. /\ Opt(f).meter = "rttm" /\ echo \in Packets
  BY <1>2 DEF MeasureInv, MeasureTypes, SenderKept
<1>4. PICK old \in SenderStates, due \in Nat, recv \in Nat :
        old = snd[f] /\ due = now + RttmDelay /\ recv = snd[f].recv + 1
  <2>1. snd[f] \in SenderStates /\ now \in Nat
    BY DEF MeasureInv, MeasureTypes
  <2>2. snd[f].recv + 1 \in Nat
    BY <2>1 DEF SenderStates
  <2>3. now + RttmDelay \in Nat
    BY <2>1, FlowSenderAssumption
  <2> QED
    BY <2>1, <2>2, <2>3
<1>5. PICK tx \in Int : echo = [echo EXCEPT !.tx = tx]
  BY <1>3 DEF Packets
<1> DEFINE s == [old EXCEPT !.recv = recv, !.due = due]
<1>6. s \in SenderStates /\ s.pc = old.pc /\ s.seq = old.seq /\ s.size = old.size
  BY DEF SenderStates
<1>7. snd' = [snd EXCEPT ![f] = s]
  BY <1>2, <1>4
<1>8. sendLog' = Append(sendLog, Record([echo EXCEPT !.tx = tx], now))
  BY <1>1, <1>5
<1>9. s.pc = snd[f].pc /\ s.seq = snd[f].seq /\ s.size = snd[f].size /\ snd[f].pc \in {"waiting", "tail"}
  BY <1>2, <1>4, <1>6
<1>10. back' = [back EXCEPT ![f] = @ \ {echo}]
  BY <1>1
<1> HIDE DEF s
<1> QED
  BY <1>2, <1>3, <1>6, <1>7, <1>8, <1>9, <1>10, EchoStep

\* A tick of the clock keeps the invariant: a thread that is about to send has not let time pass.
LEMMA TickKeeps ==
  ASSUME MeasureInv, Tick, UNCHANGED <<receiverVars, dec>>
  PROVE  MeasureInv'
<1>1. /\ now' = now + 1 /\ now \in Nat
      /\ UNCHANGED <<asked, snd, failures, net, stream, back, sendLog, sent, rcv, copies, recvLog, dec>>
  BY DEF Tick, receiverVars, MeasureInv, MeasureTypes
<1>2. MeasureTypes'
  BY <1>1 DEF MeasureInv, MeasureTypes
<1>3. ASSUME NEW g \in Flows
      PROVE  (SenderKept(g) /\ NetKept(g) /\ BackKept(g) /\ StreamKept(g) /\ ThreadKept(g))'
  <2>1. SenderKept(g) /\ NetKept(g) /\ BackKept(g) /\ StreamKept(g) /\ ThreadKept(g)
    BY DEF MeasureInv
  <2>2. snd[g].pc # "sending"
    BY <2>1 DEF SenderKept, Tick, Waiting
  <2>3. SenderKept(g)'
    BY <1>1, <2>1, <2>2 DEF SenderKept, Opt, MinSize, Carried
  <2>4. NetKept(g)' /\ BackKept(g)'
    BY <1>1, <2>1 DEF NetKept, BackKept, Stamped, Sockets, Opt
  <2>5. StreamKept(g)' /\ ThreadKept(g)'
    BY <1>1, <2>1 DEF StreamKept, ThreadKept, Stamped, PreambleSize, Carried, Opt
  <2> QED
    BY <2>3, <2>4, <2>5
<1>4. \A i \in DOMAIN recvLog' : Received(recvLog[i])'
  BY <1>1 DEF MeasureInv, Received, Numbered, Stamped, Opt
<1>5. SendLogKept'
  BY <1>1 DEF MeasureInv, SendLogKept, Stamped, Opt
<1>6. DecoderKept'
  BY <1>1 DEF MeasureInv, DecoderKept, AllEnded, Input, Stamped
<1> QED
  BY <1>2, <1>3, <1>4, <1>5, <1>6 DEF MeasureInv
-----------------------------------------------------------------------------
(* A packet is sent. *)

\* One more packet is sent.
LEMMA SentGrows ==
  ASSUME NEW f \in Flows, sent \in [Flows -> Seq(SentPackets)], NEW p \in SentPackets,
         sent' = [sent EXCEPT ![f] = Append(@, p)]
  PROVE  /\ sent' \in [Flows -> Seq(SentPackets)]
         /\ \A g \in Flows \ {f} : sent'[g] = sent[g]
         /\ Len(sent'[f]) = Len(sent[f]) + 1
         /\ DOMAIN sent'[f] = DOMAIN sent[f] \cup {Len(sent[f]) + 1}
         /\ sent'[f][Len(sent[f]) + 1] = p
         /\ \A g \in Flows : \A j \in DOMAIN sent[g] : j \in DOMAIN sent'[g] /\ sent'[g][j] = sent[g][j]
<1>1. sent[f] \in Seq(SentPackets) /\ sent'[f] = Append(sent[f], p) /\ \A g \in Flows \ {f} : sent'[g] = sent[g]
  BY DEF SentPackets
<1> DEFINE n == Len(sent[f])
<1>2. /\ sent'[f] \in Seq(SentPackets) /\ Len(sent'[f]) = n + 1 /\ sent'[f][n + 1] = p
      /\ \A j \in 1 .. n : sent'[f][j] = sent[f][j]
      /\ n \in Nat /\ DOMAIN sent[f] = 1 .. n /\ DOMAIN sent'[f] = 1 .. n + 1
  BY <1>1, AppendProperties, LenProperties
<1>3. DOMAIN sent'[f] = DOMAIN sent[f] \cup {n + 1}
  BY <1>2
<1>4. sent' \in [Flows -> Seq(SentPackets)]
  BY <1>1, <1>2
<1> QED
  BY <1>1, <1>2, <1>3, <1>4

\* What was sent is still told of when more is sent.
LEMMA TellsStill ==
  ASSUME NEW f \in Flows, sent \in [Flows -> Seq(SentPackets)], NEW p \in SentPackets,
         sent' = [sent EXCEPT ![f] = Append(@, p)]
  PROVE  /\ \A m : m.flow \in Flows /\ Stamped(m) => Stamped(m)'
         /\ \A m : m.flow \in Flows /\ Numbered(m) => Numbered(m)'
         /\ \A m : m.flow = f /\ m.seq = p.seq /\ m.tx = p.tx => Stamped(m)'
<1>1. \A g \in Flows : \A j \in DOMAIN sent[g] : j \in DOMAIN sent'[g] /\ sent'[g][j] = sent[g][j]
  BY SentGrows
<1>2. \A m : m.flow \in Flows /\ Stamped(m) => Stamped(m)'
  BY <1>1 DEF Stamped
<1>3. \A m : m.flow \in Flows /\ Numbered(m) => Numbered(m)'
  BY <1>1 DEF Numbered
<1>4. Len(sent[f]) + 1 \in DOMAIN sent'[f] /\ sent'[f][Len(sent[f]) + 1] = p
  BY SentGrows
<1>5. \A m : m.flow = f /\ m.seq = p.seq /\ m.tx = p.tx => Stamped(m)'
  BY <1>4 DEF Stamped
<1> QED
  BY <1>2, <1>3, <1>5

\* What SendPacket gives to the network.
NewPacket(f) ==
  [flow |-> f, seq |-> snd[f].seq, tx |-> snd[f].last, size |-> snd[f].size, at |-> now]

\* The next packet of a flow, and what it says.
LEMMA PacketTypes ==
  ASSUME MeasureInv, NEW f \in Flows, snd[f].pc = "sending"
  PROVE  /\ f \in asked.flows /\ NewPacket(f) \in SentPackets /\ Packet(f) \in Packets
         /\ Packet(f).flow = f /\ Packet(f).seq = NewPacket(f).seq /\ Packet(f).tx = NewPacket(f).tx
         /\ NewPacket(f).seq = snd[f].seq /\ NewPacket(f).tx = snd[f].last /\ NewPacket(f).at = now
<1>1. PICK old \in SenderStates : old = snd[f]
  BY DEF MeasureInv, MeasureTypes
<1>2. f \in asked.flows /\ old.size \in MinSize(f) .. Largest /\ asked \in Cases /\ now \in Nat
  BY <1>1 DEF MeasureInv, MeasureTypes, SenderKept
<1>3. MinSize(f) \in Nat /\ Largest \in Nat
  BY <1>2, OptionTypes
<1>4. old.seq \in Nat /\ old.last \in Nat /\ old.size \in 0 .. Largest
  BY <1>2, <1>3 DEF SenderStates
<1>5. NewPacket(f) \in SentPackets /\ Packet(f) \in Packets
  BY <1>1, <1>2, <1>4 DEF NewPacket, SentPackets, Packet, Packets
<1> QED
  BY <1>2, <1>5 DEF NewPacket, Packet

\* The packet is among those that are logged, and its stamp is the time if there are no bursts.
LEMMA SentAndLogged ==
  ASSUME MeasureInv, NEW f \in Flows, SendPacket(f)
  PROVE  sendLog' \in Seq(Records) /\ SendLogKept'
<1>1. /\ snd[f].pc = "sending" /\ UNCHANGED asked /\ LogSent(f)
      /\ sent' = [sent EXCEPT ![f] = Append(@, NewPacket(f))]
      /\ sent \in [Flows -> Seq(SentPackets)] /\ sendLog \in Seq(Records) /\ SendLogKept
  BY DEF SendPacket, NewPacket, MeasureInv, MeasureTypes
<1>2. /\ f \in asked.flows /\ NewPacket(f) \in SentPackets /\ Packet(f) \in Packets
      /\ Packet(f).flow = f /\ Packet(f).seq = NewPacket(f).seq /\ Packet(f).tx = NewPacket(f).tx
      /\ NewPacket(f).tx = snd[f].last
  BY <1>1, PacketTypes
<1> DEFINE r == Record(Packet(f), snd[f].last)
<1>3. r \in Records /\ r.flow = f /\ r.seq = NewPacket(f).seq /\ r.tx = NewPacket(f).tx
  <2>1. snd[f].last \in Nat /\ Largest \in Nat
    BY FlowSenderAssumption DEF MeasureInv, MeasureTypes, SenderStates
  <2> QED
    BY <1>2, <2>1 DEF Record, Packets, Records
<1>4. /\ \A m : m.flow \in Flows /\ Stamped(m) => Stamped(m)'
      /\ \A m : m.flow = f /\ m.seq = NewPacket(f).seq /\ m.tx = NewPacket(f).tx => Stamped(m)'
  BY <1>1, <1>2, TellsStill
<1>5. /\ \A g \in Flows \ {f} : sent'[g] = sent[g]
      /\ DOMAIN sent'[f] = DOMAIN sent[f] \cup {Len(sent[f]) + 1}
      /\ sent'[f][Len(sent[f]) + 1] = NewPacket(f)
      /\ \A j \in DOMAIN sent[f] : sent'[f][j] = sent[f][j]
  BY <1>1, <1>2, SentGrows
<1>8. asked.flows \subseteq Flows
  BY OptionTypes DEF MeasureInv, MeasureTypes
<1> HIDE DEF r
<1>6. CASE Opt(f).meter = "owdm"
  <2>1. sendLog' = Append(sendLog, r)
    BY <1>1, <1>6 DEF LogSent, r
  <2>2. /\ sendLog' \in Seq(Records) /\ DOMAIN sendLog' = 1 .. Len(sendLog) + 1
        /\ \A i \in DOMAIN sendLog : sendLog'[i] = sendLog[i] /\ i \in DOMAIN sendLog'
        /\ sendLog'[Len(sendLog) + 1] = r /\ DOMAIN sendLog = 1 .. Len(sendLog) /\ Len(sendLog) \in Nat
    BY <1>1, <1>3, <2>1, AppendProperties, LenProperties
  <2>3. ASSUME NEW i \in DOMAIN sendLog'
        PROVE  /\ sendLog'[i].flow \in asked.flows
               /\ Opt(sendLog'[i].flow).meter = "owdm" => (Stamped(sendLog[i]))'
    <3>1. CASE i \in DOMAIN sendLog
      <4>1. PICK m : m = sendLog[i]
        OBVIOUS
      <4>2. m.flow \in asked.flows /\ sendLog'[i] = m /\ m.flow \in Flows
        BY <1>1, <1>8, <2>2, <3>1, <4>1 DEF SendLogKept
      <4>3. Opt(m.flow).meter = "owdm" => Stamped(m)'
        BY <1>1, <1>4, <3>1, <4>1, <4>2 DEF SendLogKept
      <4> QED
        BY <4>2, <4>3 DEF Stamped
    <3>2. CASE i = Len(sendLog) + 1
      <4>1. PICK m : m = r
        OBVIOUS
      <4>2. Stamped(m)' /\ sendLog'[i] = m
        BY <1>3, <1>4, <2>2, <3>2, <4>1
      <4> QED
        BY <1>2, <1>3, <4>1, <4>2 DEF Stamped
    <3> QED
      BY <2>2, <3>1, <3>2
  <2>4. ASSUME NEW g \in Flows, Opt(g).meter = "owdm", NEW j \in DOMAIN sent'[g]
        PROVE  \E i \in DOMAIN sendLog' : sendLog'[i].flow = g /\ sendLog'[i].seq = sent'[g][j].seq
    <3>1. CASE j \in DOMAIN sent[g]
      <4>1. PICK i \in DOMAIN sendLog : sendLog[i].flow = g /\ sendLog[i].seq = sent[g][j].seq
        BY <1>1, <2>4, <3>1 DEF SendLogKept
      <4> QED
        BY <1>5, <2>2, <3>1, <4>1
    <3>2. CASE g = f /\ j = Len(sent[f]) + 1
      <4>1. Len(sendLog) + 1 \in DOMAIN sendLog'
        BY <2>2
      <4> QED
        BY <1>3, <1>5, <2>2, <3>2, <4>1
    <3> QED
      BY <1>5, <3>1, <3>2
  <2> QED
    BY <1>1, <2>2, <2>3, <2>4 DEF SendLogKept, Opt
<1>7. CASE Opt(f).meter # "owdm"
  <2>1. sendLog' = sendLog
    BY <1>1, <1>7 DEF LogSent
  <2>2. ASSUME NEW i \in DOMAIN sendLog'
        PROVE  /\ sendLog'[i].flow \in asked.flows
               /\ Opt(sendLog'[i].flow).meter = "owdm" => (Stamped(sendLog[i]))'
    <3>1. PICK m : m = sendLog[i]
      OBVIOUS
    <3>2. m.flow \in asked.flows /\ m.flow \in Flows
      BY <1>1, <1>8, <2>1, <3>1 DEF SendLogKept
    <3>3. Opt(m.flow).meter = "owdm" => Stamped(m)'
      BY <1>1, <1>4, <2>1, <3>1, <3>2 DEF SendLogKept
    <3> QED
      BY <2>1, <3>1, <3>2, <3>3 DEF Stamped
  <2>3. ASSUME NEW g \in Flows, Opt(g).meter = "owdm", NEW j \in DOMAIN sent'[g]
        PROVE  \E i \in DOMAIN sendLog' : sendLog'[i].flow = g /\ sendLog'[i].seq = sent'[g][j].seq
    <3>1. g # f
      BY <1>7, <2>3
    <3>2. sent'[g] = sent[g]
      BY <1>5, <3>1
    <3>3. PICK i \in DOMAIN sendLog : sendLog[i].flow = g /\ sendLog[i].seq = sent[g][j].seq
      <4>1. SendLogKept /\ j \in DOMAIN sent[g]
        BY <1>1, <3>2
      <4> QED
        BY <2>3, <4>1 DEF SendLogKept
    <3> QED
      BY <2>1, <3>2, <3>3
  <2> QED
    BY <1>1, <2>1, <2>2, <2>3 DEF SendLogKept, Opt
<1> QED
  BY <1>6, <1>7

\* The fields of a packet tell of it.
LEMMA FieldsTypes ==
  ASSUME NEW p \in Packets, NEW old \in Seq(StreamFields)
  PROVE  /\ old \o FieldsOf(p) \in Seq(StreamFields)
         /\ \A i \in DOMAIN (old \o FieldsOf(p)) :
              LET x == (old \o FieldsOf(p))[i]
              IN \/ i \in DOMAIN old /\ x = old[i]
                 \/ x.flow = p.flow /\ x.seq = p.seq /\ x.tx = p.tx
<1>1. PICK n \in Nat : n = p.size /\ n <= Largest
  BY FlowSenderAssumption DEF Packets
<1>2. /\ FieldsOf(p) \in [1 .. n -> StreamFields]
      /\ \A i \in 1 .. n : FieldsOf(p)[i].flow = p.flow /\ FieldsOf(p)[i].seq = p.seq /\ FieldsOf(p)[i].tx = p.tx
  BY <1>1 DEF FieldsOf, Packets, StreamFields
<1>3. FieldsOf(p) \in Seq(StreamFields) /\ Len(FieldsOf(p)) = n
  <2>1. FieldsOf(p) \in Seq(StreamFields)
    BY <1>2, SeqDef
  <2>2. DOMAIN FieldsOf(p) = 1 .. n
    BY <1>2
  <2> QED
    BY <1>1, <2>1, <2>2, LenProperties
<1> DEFINE all == old \o FieldsOf(p)
<1>4. /\ all \in Seq(StreamFields) /\ Len(all) = Len(old) + n /\ DOMAIN all = 1 .. Len(old) + n
      /\ DOMAIN old = 1 .. Len(old) /\ Len(old) \in Nat
      /\ \A i \in 1 .. Len(old) + n :
           all[i] = IF i <= Len(old) THEN old[i] ELSE FieldsOf(p)[i - Len(old)]
  BY <1>1, <1>3, ConcatProperties, LenProperties
<1> HIDE DEF all
<1>5. ASSUME NEW i \in DOMAIN all
      PROVE  \/ i \in DOMAIN old /\ all[i] = old[i]
             \/ all[i].flow = p.flow /\ all[i].seq = p.seq /\ all[i].tx = p.tx
  <2>1. CASE i <= Len(old)
    BY <1>4, <2>1
  <2>2. CASE i > Len(old)
    <3>1. PICK j \in 1 .. n : j = i - Len(old)
      BY <1>1, <1>4, <2>2
    <3> QED
      BY <1>2, <1>4, <2>2, <3>1
  <2> QED
    BY <1>4, <2>1, <2>2
<1> QED
  BY <1>4, <1>5 DEF all

\* A packet that is sent keeps the invariant.
LEMMA SendPacketKeeps ==
  ASSUME MeasureInv, NEW f \in Flows, SendPacket(f), UNCHANGED <<receiverVars, dec>>
  PROVE  MeasureInv'
<1>1. /\ snd[f].pc = "sending" /\ Transmit(f) /\ GoesToWait(f, snd[f].size)
      /\ sent' = [sent EXCEPT ![f] = Append(@, NewPacket(f))]
      /\ UNCHANGED <<asked, now, failures, back, rcv, copies, recvLog, dec>>
  BY DEF SendPacket, NewPacket, receiverVars
<1>2. /\ asked \in Cases /\ now \in Nat /\ snd \in [Flows -> SenderStates] /\ failures \in [Flows -> Nat]
      /\ net \in [Flows -> SUBSET Packets] /\ stream \in [Flows -> Seq(StreamFields)]
      /\ sent \in [Flows -> Seq(SentPackets)]
  BY DEF MeasureInv, MeasureTypes
<1>3. /\ f \in asked.flows /\ NewPacket(f) \in SentPackets /\ Packet(f) \in Packets
      /\ Packet(f).flow = f /\ Packet(f).seq = NewPacket(f).seq /\ Packet(f).tx = NewPacket(f).tx
      /\ NewPacket(f).tx = snd[f].last /\ NewPacket(f).at = now
  BY <1>1, PacketTypes
<1>4. dec.pc = "off"
  BY <1>1, <1>3, NotDecoding
<1>5. /\ snd' \in [Flows -> SenderStates] /\ \A g \in Flows \ {f} : snd'[g] = snd[g]
      /\ snd'[f].pc = "waiting" /\ snd'[f].seq = snd[f].seq /\ snd'[f].size \in MinSize(f) .. Largest
  <2>1. snd[f].size \in Int
    BY <1>2 DEF SenderStates
  <2> QED
    BY <1>1, <2>1, WaitTypes
<1>6. /\ sent' \in [Flows -> Seq(SentPackets)] /\ \A g \in Flows \ {f} : sent'[g] = sent[g]
      /\ Len(sent'[f]) = Len(sent[f]) + 1
      /\ DOMAIN sent'[f] = DOMAIN sent[f] \cup {Len(sent[f]) + 1}
      /\ sent'[f][Len(sent[f]) + 1] = NewPacket(f)
      /\ \A j \in DOMAIN sent[f] : sent'[f][j] = sent[f][j]
  BY <1>1, <1>2, <1>3, SentGrows
<1>7. /\ \A m : m.flow \in Flows /\ Stamped(m) => Stamped(m)'
      /\ \A m : m.flow \in Flows /\ Numbered(m) => Numbered(m)'
      /\ \A m : m.flow = f /\ m.seq = NewPacket(f).seq /\ m.tx = NewPacket(f).tx => Stamped(m)'
  BY <1>1, <1>2, <1>3, TellsStill
<1>8. /\ net' \in [Flows -> SUBSET Packets] /\ stream' \in [Flows -> Seq(StreamFields)]
      /\ \A g \in Flows :
           \/ net'[g] = net[g]
           \/ net'[g] = net[g] \cup {Packet(f)} /\ g \in Sockets(f) /\ Opt(f).proto # "TCP"
      /\ \A g \in Flows :
           \/ stream'[g] = stream[g]
           \/ g = f /\ stream'[g] = stream[g] \o FieldsOf(Packet(f))
  <2>1. CASE Opt(f).proto = "TCP"
    <3>1. stream' = [stream EXCEPT ![f] = @ \o FieldsOf(Packet(f))] /\ net' = net
      BY <1>1, <2>1 DEF Transmit
    <3>2. PICK q \in Seq(StreamFields) : q = stream[f] \o FieldsOf(Packet(f))
      BY <1>2, <1>3, FieldsTypes
    <3>3. stream' = [stream EXCEPT ![f] = q]
      BY <3>1, <3>2
    <3>4. /\ stream' \in [Flows -> Seq(StreamFields)]
          /\ \A g \in Flows : stream'[g] = IF g = f THEN q ELSE stream[g]
      BY <1>2, <3>3
    <3> QED
      BY <1>2, <3>1, <3>2, <3>4
  <2>2. CASE Opt(f).proto # "TCP"
    <3>1. /\ net' = [p \in Flows |-> IF p \in Sockets(f) THEN net[p] \cup {Packet(f)} ELSE net[p]]
          /\ stream' = stream
      BY <1>1, <2>2 DEF Transmit
    <3>2. net' \in [Flows -> SUBSET Packets]
      BY <1>2, <1>3, <3>1
    <3>3. \A g \in Flows :
            \/ net'[g] = net[g]
            \/ net'[g] = net[g] \cup {Packet(f)} /\ g \in Sockets(f) /\ Opt(f).proto # "TCP"
      BY <2>2, <3>1
    <3> QED
      BY <1>2, <3>1, <3>2, <3>3
  <2> QED
    BY <2>1, <2>2
<1>9. SenderKept(f)'
  <2>1. /\ SenderKept(f) /\ asked.failures \in Nat /\ failures[f] \in Nat
        /\ Len(sent[f]) \in Nat /\ snd[f].seq \in Nat
    BY <1>2, OptionTypes, LenProperties DEF MeasureInv, SenderStates
  <2>2. snd[f].seq - 1 = Len(sent[f]) + failures[f]
    BY <1>1, <2>1 DEF SenderKept
  <2>3. snd'[f].seq - 1 = Len(sent'[f]) + failures'[f] + (IF snd'[f].pc = "waiting" THEN -1 ELSE 0)
    <3>1. PICK q \in Nat, k \in Nat, n \in Nat : q = snd[f].seq /\ k = Len(sent[f]) /\ n = failures[f]
      BY <2>1
    <3>2. snd'[f].seq = q /\ Len(sent'[f]) = k + 1 /\ failures'[f] = n
      BY <1>1, <1>5, <1>6, <3>1
    <3>3. q - 1 = (k + 1) + n + -1
      BY <2>2, <3>1
    <3> QED
      BY <1>5, <3>2, <3>3
  <2>4. ~Opt(f).bursty => \A i \in DOMAIN sent'[f] : sent'[f][i].tx = sent'[f][i].at
    <3>1. ~Opt(f).bursty => \A i \in DOMAIN sent[f] : sent[f][i].tx = sent[f][i].at
      BY <2>1 DEF SenderKept
    <3>2. ~Opt(f).bursty => NewPacket(f).tx = NewPacket(f).at
      BY <1>1, <1>3, <2>1 DEF SenderKept
    <3> QED
      BY <1>6, <3>1, <3>2
  <2>5. failures'[f] <= asked'.failures
    BY <1>1, <2>1 DEF SenderKept
  <2> QED
    BY <1>1, <1>3, <1>5, <2>3, <2>4, <2>5 DEF SenderKept, Opt, MinSize, Carried
<1>10. MeasureTypes'
  BY <1>1, <1>5, <1>6, <1>8, SentAndLogged DEF MeasureInv, MeasureTypes
<1>11. ASSUME NEW g \in Flows
       PROVE  (SenderKept(g) /\ NetKept(g) /\ BackKept(g) /\ StreamKept(g) /\ ThreadKept(g))'
  <2>1. SenderKept(g) /\ NetKept(g) /\ BackKept(g) /\ StreamKept(g) /\ ThreadKept(g)
    BY DEF MeasureInv
  <2>2. SenderKept(g)'
    <3>1. CASE g = f
      BY <1>9, <3>1
    <3>2. CASE g # f
      BY <1>1, <1>5, <1>6, <2>1, <3>2 DEF SenderKept, Opt, MinSize, Carried
    <3> QED
      BY <3>1, <3>2
  <2>3. NetKept(g)'
    <3>1. ASSUME NEW m \in net'[g]
          PROVE  /\ m.flow \in asked.flows /\ Opt(m.flow).proto # "TCP" /\ g \in Sockets(m.flow)
                 /\ Stamped(m)'
      <4>1. CASE m \in net[g]
        <5>1. m.flow \in Flows
          BY <1>2, <4>1 DEF Packets
        <5> QED
          BY <1>7, <2>1, <4>1, <5>1 DEF NetKept
      <4>2. CASE m \notin net[g]
        <5>1. m = Packet(f) /\ g \in Sockets(f) /\ Opt(f).proto # "TCP"
          BY <1>8, <4>2
        <5>2. m.flow = f /\ m.seq = NewPacket(f).seq /\ m.tx = NewPacket(f).tx
          BY <1>3, <5>1
        <5> QED
          BY <1>3, <1>7, <5>1, <5>2
      <4> QED
        BY <4>1, <4>2
    <3> QED
      BY <1>1, <3>1 DEF NetKept, Sockets, Opt
  <2>4. BackKept(g)'
    BY <1>1, <2>1 DEF BackKept
  <2>5. StreamKept(g)'
    <3>1. ASSUME NEW i \in DOMAIN stream'[g]
          PROVE  stream'[g][i].flow = g /\ (Stamped(stream[g][i]))'
      <4>1. PICK x : x = stream'[g][i]
        OBVIOUS
      <4>2. x.flow = g /\ Stamped(x)'
        <5>1. CASE stream'[g] = stream[g]
          BY <1>7, <2>1, <4>1, <5>1 DEF StreamKept
        <5>2. CASE g = f /\ stream'[g] = stream[g] \o FieldsOf(Packet(f))
          <6>1. \/ i \in DOMAIN stream[f] /\ x = stream[f][i]
                \/ x.flow = Packet(f).flow /\ x.seq = Packet(f).seq /\ x.tx = Packet(f).tx
            BY <1>2, <1>3, <4>1, <5>2, FieldsTypes
          <6>2. CASE i \in DOMAIN stream[f] /\ x = stream[f][i]
            BY <1>7, <2>1, <5>2, <6>2 DEF StreamKept
          <6>3. CASE x.flow = Packet(f).flow /\ x.seq = Packet(f).seq /\ x.tx = Packet(f).tx
            BY <1>3, <1>7, <5>2, <6>3
          <6> QED
            BY <6>1, <6>2, <6>3
        <5> QED
          BY <1>8, <5>1, <5>2
      <4> QED
        BY <4>1, <4>2 DEF Stamped
    <3> QED
      BY <3>1 DEF StreamKept
  <2>6. ThreadKept(g)'
    <3>1. rcv[g].pc = "payload" => Stamped(rcv[g].header)'
      <4>1. rcv[g].pc = "payload" => rcv[g].header.flow = g /\ Stamped(rcv[g].header)
        BY <2>1 DEF ThreadKept
      <4>2. PICK h : h = rcv[g].header
        OBVIOUS
      <4>3. rcv[g].pc = "payload" => Stamped(h)'
        BY <1>7, <4>1, <4>2
      <4> QED
        BY <1>1, <4>2, <4>3 DEF Stamped
    <3> QED
      BY <1>1, <2>1, <3>1 DEF ThreadKept, PreambleSize, Carried, Opt
  <2> QED
    BY <2>2, <2>3, <2>4, <2>5, <2>6
<1>12. ASSUME NEW i \in DOMAIN recvLog'
       PROVE  Received(recvLog[i])'
  <2>1. PICK r \in Records : r = recvLog[i] /\ r = recvLog'[i]
    BY <1>1 DEF MeasureInv, MeasureTypes
  <2>2. Received(r) /\ r.flow \in Flows
    BY <1>1, <2>1 DEF MeasureInv, Records
  <2>3. Received(r)'
    BY <1>1, <1>7, <2>2 DEF Received, Opt
  <2> QED
    BY <2>1, <2>3 DEF Received, Numbered, Stamped, Opt
<1>13. DecoderKept'
  <2>1. dec.read = 0 /\ dec.out = <<>>
    BY <1>4 DEF MeasureInv, DecoderKept
  <2>2. Len(Input') \in Nat
    BY <1>10, LenProperties DEF MeasureTypes, Input
  <2> QED
    BY <1>1, <1>4, <2>1, <2>2 DEF DecoderKept
<1> QED
  BY <1>10, <1>11, <1>12, <1>13, SentAndLogged DEF MeasureInv
-----------------------------------------------------------------------------
(* The data threads. *)

\* A step of a data thread that takes away packets, and logs what it may, keeps the invariant.
LEMMA ReceiverStep ==
  ASSUME MeasureInv, dec.pc = "off", UNCHANGED <<asked, now, snd, failures, sendLog, sent, dec>>,
         net' \in [Flows -> SUBSET Packets], \A g \in Flows : net'[g] \subseteq net[g],
         stream' \in [Flows -> Seq(StreamFields)],
         \A g \in Flows : \A i \in DOMAIN stream'[g] : \E j \in DOMAIN stream[g] : stream'[g][i] = stream[g][j],
         back' \in [Flows -> SUBSET Packets], \A g \in Flows : BackKept(g)',
         rcv' \in [Flows -> ThreadStates], \A g \in Flows : ThreadKept(g)',
         copies' \in 0 .. asked.copies,
         recvLog' \in Seq(Records), \A i \in DOMAIN recvLog' : Received(recvLog'[i])
  PROVE  MeasureInv'
<1>1. MeasureTypes'
  BY DEF MeasureInv, MeasureTypes
<1>2. ASSUME NEW g \in Flows
      PROVE  (SenderKept(g) /\ NetKept(g) /\ BackKept(g) /\ StreamKept(g) /\ ThreadKept(g))'
  <2>1. SenderKept(g) /\ NetKept(g) /\ StreamKept(g)
    BY DEF MeasureInv
  <2>2. SenderKept(g)'
    BY <2>1 DEF SenderKept, Opt, MinSize, Carried
  <2>3. NetKept(g)'
    BY <2>1 DEF NetKept, Stamped, Sockets, Opt
  <2>4. StreamKept(g)'
    <3>1. ASSUME NEW i \in DOMAIN stream'[g]
          PROVE  stream'[g][i].flow = g /\ (Stamped(stream[g][i]))'
      <4>1. PICK x : x = stream'[g][i] /\ \E j \in DOMAIN stream[g] : x = stream[g][j]
        BY <3>1
      <4>2. x.flow = g /\ Stamped(x)
        BY <2>1, <4>1 DEF StreamKept
      <4> QED
        BY <4>1, <4>2 DEF Stamped
    <3> QED
      BY <3>1 DEF StreamKept
  <2> QED
    BY <2>2, <2>3, <2>4
<1>3. \A i \in DOMAIN recvLog' : Received(recvLog[i])'
  BY DEF Received, Numbered, Stamped, Opt
<1>4. SendLogKept'
  BY DEF MeasureInv, SendLogKept, Stamped, Opt
<1>5. DecoderKept'
  <2>1. dec.read = 0 /\ dec.out = <<>>
    BY DEF MeasureInv, DecoderKept
  <2>2. Len(Input') \in Nat
    BY <1>1, LenProperties DEF MeasureTypes, Input
  <2> QED
    BY <2>1, <2>2 DEF DecoderKept
<1> QED
  BY <1>1, <1>2, <1>3, <1>4, <1>5 DEF MeasureInv

\* What is logged of a packet that was sent.
LEMMA LoggedTypes ==
  ASSUME asked \in Cases, now \in Nat, NEW t \in Flows, NEW p \in Packets \cup StreamFields, NEW size \in Nat
  PROVE  Logged(t, p, size) \in Records
<1>1. Opt(t).log \in {"standard", "short", "none"}
  BY OptionTypes
<1>2. p.flow \in Flows /\ p.seq \in Nat /\ p.tx \in Nat
  BY DEF Packets, StreamFields
<1>3. 0 \in Nat /\ now \in Int /\ p.tx \in Int
  BY <1>2
<1> QED
  BY <1>1, <1>2, <1>3 DEF Logged, Records

\* A record tells of the packet that it was made for.
LEMMA LoggedTruly ==
  ASSUME asked \in Cases, NEW t \in Flows, t \in asked.flows, NEW p, NEW size, p.flow \in asked.flows, Stamped(p),
         HeadersAlike => Opt(t).log = Opt(p.flow).log
  PROVE  Received(Logged(t, p, size))
<1> DEFINE r == Logged(t, p, size)
<1>1. CASE Opt(t).log = "standard"
  <2>1. r.flow = p.flow /\ r.seq = p.seq /\ r.tx = p.tx
    BY <1>1 DEF Logged
  <2> HIDE DEF r
  <2>2. Stamped(r) /\ Numbered(r) /\ r.flow \in asked.flows
    BY <2>1 DEF Stamped, Numbered
  <2> QED
    BY <2>2 DEF Received, r
<1>2. CASE Opt(t).log = "short"
  <2>1. r.flow = p.flow /\ r.seq = p.seq
    BY <1>2 DEF Logged
  <2> HIDE DEF r
  <2>2. Numbered(r) /\ r.flow \in asked.flows
    BY <2>1 DEF Stamped, Numbered
  <2>3. HeadersAlike => Opt(r.flow).log = "short"
    BY <1>2, <2>1
  <2> QED
    BY <2>2, <2>3 DEF Received, r
<1>3. CASE Opt(t).log = "none"
  <2>1. r.flow = t
    BY <1>3 DEF Logged
  <2> HIDE DEF r
  <2> QED
    BY <1>3, <2>1 DEF Received, r
<1> QED
  BY <1>1, <1>2, <1>3, OptionTypes

\* One more record, made truly, in the log of the receiver.
LEMMA LogGrows ==
  ASSUME MeasureInv, NEW r \in Records, Received(r), recvLog' = Append(recvLog, r)
  PROVE  recvLog' \in Seq(Records) /\ \A i \in DOMAIN recvLog' : Received(recvLog'[i])
<1>1. recvLog \in Seq(Records) /\ \A i \in DOMAIN recvLog : Received(recvLog[i])
  BY DEF MeasureInv, MeasureTypes
<1>2. /\ recvLog' \in Seq(Records) /\ DOMAIN recvLog' = 1 .. Len(recvLog) + 1
      /\ \A i \in DOMAIN recvLog : recvLog'[i] = recvLog[i]
      /\ recvLog'[Len(recvLog) + 1] = r /\ DOMAIN recvLog = 1 .. Len(recvLog) /\ Len(recvLog) \in Nat
  BY <1>1, AppendProperties, LenProperties
<1>3. ASSUME NEW i \in DOMAIN recvLog'
      PROVE  Received(recvLog'[i])
  <2>1. CASE i \in DOMAIN recvLog
    BY <1>1, <1>2, <2>1
  <2>2. CASE i = Len(recvLog) + 1
    BY <1>2, <2>2
  <2> QED
    BY <1>2, <2>1, <2>2
<1> QED
  BY <1>2, <1>3

\* A thread expects the header that the packets in its socket have.
LEMMA SameHeader ==
  ASSUME asked \in Cases, HeadersAlike, NEW t \in Flows, t \in asked.flows, NEW f \in Flows, f \in asked.flows,
         Opt(f).proto # "TCP", NEW p \in Flows, p \in Sockets(f),
         \/ Opt(t).proto = "UDP" /\ p = Opt(t).port
         \/ Opt(t).proto = "ICMP" /\ p = t
  PROVE  Opt(t).log = Opt(f).log
<1>1. Opt(f).proto \in {"UDP", "ICMP"}
  BY OptionTypes
<1>2. \A g, h \in asked.flows : Opt(g).proto = "UDP" /\ Opt(h).proto = "ICMP" => Opt(g).port # h
  BY FlowSenderAssumption DEF Opt
<1>3. \A g, h \in asked.flows :
        /\ Opt(g).proto = Opt(h).proto /\ Opt(g).proto # "TCP"
        /\ Opt(g).proto = "ICMP" \/ Opt(g).port = Opt(h).port
        => Opt(g).log = Opt(h).log
  BY DEF HeadersAlike, Opt
<1>4. CASE Opt(f).proto = "ICMP"
  <2>1. p \in asked.flows /\ Opt(p).proto = "ICMP"
    BY <1>4 DEF Sockets
  <2> QED
    BY <1>2, <1>3, <1>4, <2>1
<1>5. CASE Opt(f).proto = "UDP"
  <2>1. p = Opt(f).port
    BY <1>5 DEF Sockets
  <2> QED
    BY <1>2, <1>3, <1>5, <2>1
<1> QED
  BY <1>1, <1>4, <1>5

\* A datagram that is received keeps the invariant.
LEMMA ReceiveDatagramKeeps ==
  ASSUME MeasureInv, dec.pc = "off", NEW t \in Flows, ReceiveDatagram(t), UNCHANGED dec
  PROVE  MeasureInv'
<1>1. PICK p \in net[Opt(t).port] :
        /\ recvLog' = Append(recvLog, Logged(t, p, p.size))
        /\ back' = IF Opt(t).meter = "rttm" THEN [back EXCEPT ![p.flow] = @ \cup {p}] ELSE back
        /\ \/ net' = [net EXCEPT ![Opt(t).port] = @ \ {p}] /\ copies' = copies
           \/ copies < asked.copies /\ copies' = copies + 1 /\ net' = net
  BY DEF ReceiveDatagram
<1>2. /\ t \in asked.flows /\ Opt(t).proto = "UDP"
      /\ UNCHANGED <<asked, now, snd, failures, stream, sendLog, sent, rcv>>
  BY DEF ReceiveDatagram, Active
<1>3. /\ asked \in Cases /\ now \in Nat /\ net \in [Flows -> SUBSET Packets]
      /\ stream \in [Flows -> Seq(StreamFields)] /\ back \in [Flows -> SUBSET Packets]
      /\ rcv \in [Flows -> ThreadStates] /\ copies \in 0 .. asked.copies
      /\ asked.flows \subseteq Flows /\ asked.copies \in Nat /\ Opt(t).port \in Flows /\ Largest \in Nat
  BY OptionTypes DEF MeasureInv, MeasureTypes
<1>4. /\ p \in Packets /\ p.flow \in asked.flows /\ p.flow \in Flows /\ Opt(p.flow).proto # "TCP"
      /\ Opt(t).port \in Sockets(p.flow) /\ Stamped(p) /\ p.size \in Nat
  <2>1. p \in Packets
    BY <1>1, <1>3
  <2>2. p.flow \in asked.flows /\ Opt(p.flow).proto # "TCP" /\ Opt(t).port \in Sockets(p.flow) /\ Stamped(p)
    BY <1>1, <1>3 DEF MeasureInv, NetKept
  <2> QED
    BY <1>3, <2>1, <2>2 DEF Packets
<1>5. HeadersAlike => Opt(t).log = Opt(p.flow).log
  BY <1>2, <1>3, <1>4, SameHeader
<1>6. recvLog' \in Seq(Records) /\ \A i \in DOMAIN recvLog' : Received(recvLog'[i])
  <2>1. Logged(t, p, p.size) \in Records
    BY <1>3, <1>4, LoggedTypes
  <2>2. Received(Logged(t, p, p.size))
    BY <1>2, <1>3, <1>4, <1>5, LoggedTruly
  <2> QED
    BY <1>1, <2>1, <2>2, LogGrows
<1>7. net' \in [Flows -> SUBSET Packets] /\ \A g \in Flows : net'[g] \subseteq net[g]
  BY <1>1, <1>3
<1>8. back' \in [Flows -> SUBSET Packets] /\ \A g \in Flows : BackKept(g)'
  <2>1. \A g \in Flows : BackKept(g)
    BY DEF MeasureInv
  <2>2. \A g \in Flows : back'[g] = back[g] \/ (g = p.flow /\ back'[g] = back[g] \cup {p})
    BY <1>1, <1>3
  <2>3. back' \in [Flows -> SUBSET Packets]
    BY <1>1, <1>3, <1>4
  <2> QED
    BY <2>1, <2>2, <2>3 DEF BackKept
<1>9. copies' \in 0 .. asked.copies
  BY <1>1, <1>3
<1>10. \A g \in Flows : ThreadKept(g)'
  BY <1>2 DEF MeasureInv, ThreadKept, Stamped, PreambleSize, Carried, Opt
<1>11. stream' \in [Flows -> Seq(StreamFields)] /\ rcv' \in [Flows -> ThreadStates]
  BY <1>2, <1>3
<1>12. \A g \in Flows : \A i \in DOMAIN stream'[g] : \E j \in DOMAIN stream[g] : stream'[g][i] = stream[g][j]
  BY <1>2
<1> QED
  BY <1>2, <1>6, <1>7, <1>8, <1>9, <1>10, <1>11, <1>12, ReceiverStep

\* A packet that is received on a raw socket keeps the invariant.
LEMMA ReceiveRawKeeps ==
  ASSUME MeasureInv, dec.pc = "off", NEW t \in Flows, ReceiveRaw(t), UNCHANGED dec
  PROVE  MeasureInv'
<1>1. PICK p \in net[t] :
        recvLog' = Append(recvLog, Logged(t, p, p.size)) /\ net' = [net EXCEPT ![t] = @ \ {p}]
  BY DEF ReceiveRaw
<1>2. /\ t \in asked.flows /\ Opt(t).proto = "ICMP"
      /\ UNCHANGED <<asked, now, snd, failures, stream, back, sendLog, sent, rcv, copies>>
  BY DEF ReceiveRaw, Active
<1>3. /\ asked \in Cases /\ now \in Nat /\ net \in [Flows -> SUBSET Packets]
      /\ stream \in [Flows -> Seq(StreamFields)] /\ back \in [Flows -> SUBSET Packets]
      /\ rcv \in [Flows -> ThreadStates] /\ copies \in 0 .. asked.copies
      /\ asked.flows \subseteq Flows /\ Largest \in Nat
  BY OptionTypes DEF MeasureInv, MeasureTypes
<1>4. /\ p \in Packets /\ p.flow \in asked.flows /\ p.flow \in Flows /\ Opt(p.flow).proto # "TCP"
      /\ t \in Sockets(p.flow) /\ Stamped(p) /\ p.size \in Nat
  <2>1. p \in Packets
    BY <1>1, <1>3
  <2>2. p.flow \in asked.flows /\ Opt(p.flow).proto # "TCP" /\ t \in Sockets(p.flow) /\ Stamped(p)
    BY <1>1, <1>3 DEF MeasureInv, NetKept
  <2> QED
    BY <1>3, <2>1, <2>2 DEF Packets
<1>5. HeadersAlike => Opt(t).log = Opt(p.flow).log
  BY <1>2, <1>3, <1>4, SameHeader
<1>6. recvLog' \in Seq(Records) /\ \A i \in DOMAIN recvLog' : Received(recvLog'[i])
  <2>1. Logged(t, p, p.size) \in Records
    BY <1>3, <1>4, LoggedTypes
  <2>2. Received(Logged(t, p, p.size))
    BY <1>2, <1>3, <1>4, <1>5, LoggedTruly
  <2> QED
    BY <1>1, <2>1, <2>2, LogGrows
<1>7. net' \in [Flows -> SUBSET Packets] /\ \A g \in Flows : net'[g] \subseteq net[g]
  BY <1>1, <1>3
<1>8. \A g \in Flows : BackKept(g)' /\ ThreadKept(g)'
  BY <1>2 DEF MeasureInv, BackKept, ThreadKept, Stamped, PreambleSize, Carried, Opt
<1>9. \A g \in Flows : \A i \in DOMAIN stream'[g] : \E j \in DOMAIN stream[g] : stream'[g][i] = stream[g][j]
  BY <1>2
<1>10. /\ stream' \in [Flows -> Seq(StreamFields)] /\ rcv' \in [Flows -> ThreadStates]
       /\ back' \in [Flows -> SUBSET Packets] /\ copies' \in 0 .. asked.copies
  BY <1>2, <1>3
<1> QED
  BY <1>2, <1>6, <1>7, <1>8, <1>9, <1>10, ReceiverStep

\* What a thread takes from its stream leaves the rest in it.
LEMMA TakenKeeps ==
  ASSUME NEW f \in Flows, stream \in [Flows -> Seq(StreamFields)], NEW w \in Nat, NEW k \in Some(f, w), Taken(f, k)
  PROVE  /\ k \in 1 .. Len(stream[f]) /\ k <= w /\ stream[f][k] \in StreamFields
         /\ stream' \in [Flows -> Seq(StreamFields)]
         /\ \A g \in Flows : \A i \in DOMAIN stream'[g] : \E j \in DOMAIN stream[g] : stream'[g][i] = stream[g][j]
<1> DEFINE n == Len(stream[f])
<1>1. stream[f] \in Seq(StreamFields) /\ n \in Nat /\ DOMAIN stream[f] = 1 .. n
  BY LenProperties
<1>2. k \in 1 .. n /\ k <= w
  BY <1>1 DEF Some
<1>3. PICK s : s = SubSeq(stream[f], k + 1, n)
  OBVIOUS
<1>4. stream' = [stream EXCEPT ![f] = s]
  BY <1>3 DEF Taken
<1>5. /\ s \in Seq(StreamFields) /\ Len(s) = n - k
      /\ \A i \in 1 .. n - k : s[i] = stream[f][k + i]
  <2>1. k + 1 \in 1 .. n + 1 /\ n \in (k + 1) - 1 .. n /\ n - (k + 1) + 1 = n - k
    BY <1>1, <1>2
  <2>2. /\ SubSeq(stream[f], k + 1, n) \in Seq(StreamFields)
        /\ Len(SubSeq(stream[f], k + 1, n)) = n - (k + 1) + 1
        /\ \A i \in 1 .. n - (k + 1) + 1 : SubSeq(stream[f], k + 1, n)[i] = stream[f][(k + 1) + i - 1]
    BY <1>1, <2>1, SubSeqProperties
  <2>3. \A i \in 1 .. n - k : (k + 1) + i - 1 = k + i
    BY <1>1, <1>2
  <2> QED
    BY <1>3, <2>1, <2>2, <2>3
<1>6. ASSUME NEW i \in DOMAIN s
      PROVE  \E j \in DOMAIN stream[f] : s[i] = stream[f][j]
  <2>1. i \in 1 .. n - k
    BY <1>5, LenProperties
  <2>2. k + i \in 1 .. n
    BY <1>1, <1>2, <2>1
  <2> QED
    BY <1>1, <1>5, <2>1, <2>2
<1>7. stream[f][k] \in StreamFields
  BY <1>1, <1>2
<1> QED
  BY ZenonT(40), <1>2, <1>4, <1>5, <1>6, <1>7

\* A thread inside TCPrecvPacket moves.
LEMMA ThreadStep ==
  ASSUME MeasureInv, dec.pc = "off", NEW f \in Flows, UNCHANGED dec, Unread(f),
         stream' \in [Flows -> Seq(StreamFields)],
         \A g \in Flows : \A i \in DOMAIN stream'[g] : \E j \in DOMAIN stream[g] : stream'[g][i] = stream[g][j],
         NEW s \in ThreadStates, rcv' = [rcv EXCEPT ![f] = s],
         s.pc = "preamble" => s.got < PreambleSize(f),
         s.pc = "payload" =>
           /\ f \in asked.flows /\ s.got < s.size
           /\ Opt(f).log # "none" => s.size <= Largest
           /\ s.header \in StreamFields /\ s.header.flow = f /\ Stamped(s.header),
         recvLog' \in Seq(Records), \A i \in DOMAIN recvLog' : Received(recvLog'[i])
  PROVE  MeasureInv'
<1>1. UNCHANGED <<asked, now, snd, failures, net, back, sendLog, sent, copies>>
  BY DEF Unread
<1>2. /\ net \in [Flows -> SUBSET Packets] /\ back \in [Flows -> SUBSET Packets]
      /\ rcv \in [Flows -> ThreadStates] /\ copies \in 0 .. asked.copies
      /\ \A g \in Flows : BackKept(g) /\ ThreadKept(g)
  BY DEF MeasureInv, MeasureTypes
<1>3. rcv' \in [Flows -> ThreadStates] /\ rcv'[f] = s /\ \A g \in Flows \ {f} : rcv'[g] = rcv[g]
  BY <1>2
<1>4. ASSUME NEW g \in Flows
      PROVE  BackKept(g)' /\ ThreadKept(g)'
  <2>1. BackKept(g)'
    BY <1>1, <1>2 DEF BackKept
  <2>2. CASE g = f
    <3>1. UNCHANGED <<asked, sent>>
      BY <1>1
    <3>2. /\ s.pc = "preamble" => s.got < PreambleSize(f)'
          /\ s.pc = "payload" =>
               /\ f \in asked'.flows /\ s.got < s.size
               /\ Opt(f)'.log # "none" => s.size <= Largest
               /\ s.header \in StreamFields /\ s.header.flow = f
      BY <3>1 DEF Opt, PreambleSize, Carried
    <3>3. s.pc = "payload" => \E j \in DOMAIN sent'[s.header.flow] :
            sent'[s.header.flow][j].seq = s.header.seq /\ sent'[s.header.flow][j].tx = s.header.tx
      BY <3>1 DEF Stamped
    <3>4. rcv'[g] = s
      BY <1>3, <2>2
    <3>5. /\ rcv'[g].pc = "preamble" => rcv'[g].got < PreambleSize(g)'
          /\ rcv'[g].pc = "payload" =>
               /\ g \in asked'.flows /\ rcv'[g].got < rcv'[g].size
               /\ Opt(g)'.log # "none" => rcv'[g].size <= Largest
               /\ rcv'[g].header \in StreamFields /\ rcv'[g].header.flow = g
      BY <2>2, <3>2, <3>4
    <3>6. rcv'[g].pc = "payload" => \E j \in DOMAIN sent'[rcv'[g].header.flow] :
            /\ sent'[rcv'[g].header.flow][j].seq = rcv'[g].header.seq
            /\ sent'[rcv'[g].header.flow][j].tx = rcv'[g].header.tx
      BY <3>3, <3>4
    <3>7. ThreadKept(g)'
      BY <3>5, <3>6 DEF ThreadKept, Stamped
    <3> QED
      BY <2>1, <3>7
  <2>3. CASE g # f
    <3>1. UNCHANGED <<asked, sent>> /\ rcv'[g] = rcv[g] /\ ThreadKept(g)
      BY <1>1, <1>2, <1>3, <2>3
    <3>2. ThreadKept(g)'
      BY <3>1 DEF ThreadKept, Stamped, Opt, PreambleSize, Carried
    <3> QED
      BY <2>1, <3>2
  <2> QED
    BY <2>2, <2>3
<1>5. /\ net' \in [Flows -> SUBSET Packets] /\ \A g \in Flows : net'[g] \subseteq net[g]
      /\ back' \in [Flows -> SUBSET Packets] /\ copies' \in 0 .. asked.copies
  BY <1>1, <1>2
<1> QED
  BY <1>1, <1>3, <1>4, <1>5, ReceiverStep

\* A part of a preamble that is read keeps the invariant.
LEMMA ReadPreambleKeeps ==
  ASSUME MeasureInv, dec.pc = "off", NEW f \in Flows, ReadPreamble(f), UNCHANGED dec
  PROVE  MeasureInv'
<1>1. PICK k \in Some(f, PreambleSize(f) - rcv[f].got) :
        /\ Taken(f, k)
        /\ IF rcv[f].got + k = PreambleSize(f)
           THEN rcv' = [rcv EXCEPT ![f] = AfterPreamble(f, stream[f][k])]
           ELSE rcv' = [rcv EXCEPT ![f].got = @ + k]
  BY DEF ReadPreamble
<1>2. /\ f \in asked.flows /\ rcv[f].pc = "preamble" /\ Unread(f) /\ UNCHANGED recvLog
      /\ asked \in Cases /\ rcv \in [Flows -> ThreadStates] /\ stream \in [Flows -> Seq(StreamFields)]
      /\ recvLog \in Seq(Records) /\ \A i \in DOMAIN recvLog : Received(recvLog[i])
      /\ rcv[f].got < PreambleSize(f) /\ StreamKept(f)
  BY DEF ReadPreamble, Active, MeasureInv, MeasureTypes, ThreadKept
<1>3. PICK old \in ThreadStates : old = rcv[f]
  BY <1>2
<1>4. PICK p \in Nat \ {0}, most \in Nat : p = PreambleSize(f) /\ most = Largest /\ p <= most
  BY <1>2, OptionTypes
<1>5. old.got \in Nat /\ old.got < p /\ p - old.got \in Nat
  BY <1>2, <1>3, <1>4 DEF ThreadStates
<1>6. /\ k \in 1 .. Len(stream[f]) /\ k <= p - old.got /\ stream[f][k] \in StreamFields
      /\ stream' \in [Flows -> Seq(StreamFields)]
      /\ \A g \in Flows : \A i \in DOMAIN stream'[g] : \E j \in DOMAIN stream[g] : stream'[g][i] = stream[g][j]
  BY <1>1, <1>2, <1>3, <1>4, <1>5, TakenKeeps
<1>7. PICK x \in StreamFields : x = stream[f][k] /\ x.flow = f /\ Stamped(x)
  <2>1. k \in DOMAIN stream[f]
    BY <1>2, <1>6, LenProperties
  <2> QED
    BY <1>2, <1>6, <2>1 DEF StreamKept
<1> DEFINE s == IF old.got + k = p THEN AfterPreamble(f, x) ELSE [old EXCEPT !.got = @ + k]
<1>8. rcv' = [rcv EXCEPT ![f] = s]
  BY <1>1, <1>2, <1>3, <1>4, <1>7
<1>9. k \in Nat /\ k >= 1
  BY <1>2, <1>6, LenProperties
<1>10. s \in ThreadStates
       /\ (s.pc = "preamble" => s.got < PreambleSize(f))
       /\ (s.pc = "payload" =>
             /\ f \in asked.flows /\ s.got < s.size
             /\ Opt(f).log # "none" => s.size <= Largest
             /\ s.header \in StreamFields /\ s.header.flow = f /\ Stamped(s.header))
  <2>1. CASE old.got + k = p
    <3>1. x.size \in 0 .. Largest
      BY DEF StreamFields
    <3>2. PICK size \in Nat : /\ size = IF Opt(f).log = "none" THEN p + most ELSE SizeRead(f, x)
                              /\ Opt(f).log # "none" => size <= most
      BY <1>4, <3>1 DEF SizeRead
    <3>3. s = IF size > p THEN [pc |-> "payload", got |-> p, size |-> size, header |-> x]
              ELSE [pc |-> "asleep", got |-> 0, size |-> 0, header |-> x]
      BY <1>4, <2>1, <3>2 DEF AfterPreamble
    <3> HIDE DEF s
    <3>4. p \in 0 .. Largest /\ 0 \in 0 .. Largest
      BY <1>4
    <3>5. s \in ThreadStates
      BY <3>3, <3>4 DEF ThreadStates
    <3>6. CASE size > p
      <4>1. s.pc = "payload" /\ s.got = p /\ s.size = size /\ s.header = x
        BY <3>3, <3>6
      <4> QED
        BY <1>2, <1>4, <1>7, <3>2, <3>5, <3>6, <4>1
    <3>7. CASE ~(size > p)
      BY <3>3, <3>5, <3>7
    <3> QED
      BY <3>6, <3>7
  <2>2. CASE old.got + k # p
    <3>1. PICK got \in Nat : got = old.got + k /\ got < p
      <4>1. PICK old_got \in Nat : old_got = old.got /\ k <= p - old_got /\ old_got + k # p
        BY <1>5, <1>6, <2>2
      <4>2. old_got + k \in Nat /\ old_got + k < p
        BY <1>9, <4>1
      <4> QED
        BY <4>1, <4>2
    <3>2. s = [old EXCEPT !.got = got]
      BY <2>2, <3>1
    <3> HIDE DEF s
    <3>3. got \in 0 .. Largest
      BY <1>4, <3>1
    <3>4. s \in ThreadStates /\ s.pc = old.pc /\ s.got = got
      BY <3>2, <3>3 DEF ThreadStates
    <3> QED
      BY <1>2, <1>3, <1>4, <3>1, <3>4
  <2> QED
    BY <2>1, <2>2
<1> HIDE DEF s
<1>11. recvLog' \in Seq(Records) /\ \A i \in DOMAIN recvLog' : Received(recvLog'[i])
  BY <1>2
<1> QED
  BY <1>2, <1>6, <1>8, <1>10, <1>11, ThreadStep

\* A part of a payload that is read keeps the invariant.
LEMMA ReadPayloadKeeps ==
  ASSUME MeasureInv, dec.pc = "off", NEW f \in Flows, ReadPayload(f), UNCHANGED dec
  PROVE  MeasureInv'
<1>1. PICK k \in Some(f, rcv[f].size - rcv[f].got) :
        /\ Taken(f, k)
        /\ IF Opt(f).log = "none" \/ rcv[f].got + k = rcv[f].size
           THEN /\ recvLog' = Append(recvLog, Logged(f, rcv[f].header,
                                                     IF Opt(f).log = "none" THEN k ELSE rcv[f].size))
                /\ rcv' = [rcv EXCEPT ![f] = AtPreamble]
           ELSE /\ rcv' = [rcv EXCEPT ![f].got = @ + k]
                /\ UNCHANGED recvLog
  BY DEF ReadPayload
<1>2. /\ rcv[f].pc = "payload" /\ Unread(f) /\ asked \in Cases /\ now \in Nat
      /\ rcv \in [Flows -> ThreadStates] /\ stream \in [Flows -> Seq(StreamFields)]
      /\ recvLog \in Seq(Records) /\ \A i \in DOMAIN recvLog : Received(recvLog[i])
      /\ ThreadKept(f)
  BY DEF ReadPayload, MeasureInv, MeasureTypes
<1>3. PICK old \in ThreadStates : old = rcv[f]
  BY <1>2
<1>4. /\ f \in asked.flows /\ old.got < old.size
      /\ Opt(f).log # "none" => old.size <= Largest
      /\ old.header \in StreamFields /\ old.header.flow = f /\ Stamped(old.header)
  BY <1>2, <1>3 DEF ThreadKept
<1>5. old.got \in Nat /\ old.size \in Nat /\ old.size - old.got \in Nat
  BY <1>4 DEF ThreadStates
<1>6. /\ k \in 1 .. Len(stream[f]) /\ k <= old.size - old.got
      /\ stream' \in [Flows -> Seq(StreamFields)]
      /\ \A g \in Flows : \A i \in DOMAIN stream'[g] : \E j \in DOMAIN stream[g] : stream'[g][i] = stream[g][j]
  BY <1>1, <1>2, <1>3, <1>5, TakenKeeps
<1>7. k \in Nat
  BY <1>2, <1>6, LenProperties
<1>8. CASE Opt(f).log = "none" \/ old.got + k = old.size
  <2> DEFINE size == IF Opt(f).log = "none" THEN k ELSE old.size
  <2>1. recvLog' = Append(recvLog, Logged(f, old.header, size)) /\ rcv' = [rcv EXCEPT ![f] = AtPreamble]
    BY <1>1, <1>3, <1>8
  <2>2. size \in Nat
    BY <1>5, <1>7
  <2> HIDE DEF size
  <2>3. Logged(f, old.header, size) \in Records
    BY <1>2, <1>4, <2>2, LoggedTypes
  <2>4. Received(Logged(f, old.header, size))
    BY <1>2, <1>4, LoggedTruly
  <2>5. recvLog' \in Seq(Records) /\ \A i \in DOMAIN recvLog' : Received(recvLog'[i])
    BY <2>1, <2>3, <2>4, LogGrows
  <2>6. AtPreamble \in ThreadStates /\ AtPreamble.pc = "preamble" /\ AtPreamble.got = 0
    BY FlowSenderAssumption DEF AtPreamble, ThreadStates
  <2>7. 0 < PreambleSize(f)
    BY <1>2, OptionTypes
  <2> QED
    BY <1>2, <1>6, <2>1, <2>5, <2>6, <2>7, ThreadStep
<1>9. CASE ~(Opt(f).log = "none" \/ old.got + k = old.size)
  <2>1. PICK got \in Nat : got = old.got + k /\ got < old.size
    BY <1>5, <1>6, <1>7, <1>9
  <2> DEFINE s == [old EXCEPT !.got = got]
  <2>2. rcv' = [rcv EXCEPT ![f] = s] /\ UNCHANGED recvLog
    BY <1>1, <1>2, <1>3, <1>9, <2>1
  <2>3. got \in 0 .. Largest
    BY <1>4, <1>5, <1>9, <2>1, FlowSenderAssumption
  <2>4. s \in ThreadStates /\ s.pc = old.pc /\ s.got = got /\ s.size = old.size /\ s.header = old.header
    BY <2>3 DEF ThreadStates
  <2>5. /\ s.pc = "payload" /\ s.got < s.size
        /\ Opt(f).log # "none" => s.size <= Largest
        /\ s.header \in StreamFields /\ s.header.flow = f /\ Stamped(s.header)
    BY <1>2, <1>3, <1>4, <2>1, <2>4
  <2>6. recvLog' \in Seq(Records) /\ \A i \in DOMAIN recvLog' : Received(recvLog'[i])
    BY <1>2, <2>2
  <2> HIDE DEF s
  <2> QED
    BY <1>2, <1>4, <1>6, <2>2, <2>4, <2>5, <2>6, ThreadStep
<1> QED
  BY <1>8, <1>9
-----------------------------------------------------------------------------
(* ITGDec. *)

\* A step of ITGDec leaves the rest alone.
LEMMA DecoderStep ==
  ASSUME MeasureInv, Others, DOMAIN dec' = DecoderFields, dec'.pc \in {"reading", "failed", "done"},
         dec'.read \in Nat, dec'.out \in Seq(Records), AllEnded, dec'.read <= Len(Input),
         Reconstructible /\ asked.dec.reconstruct =>
           dec'.pc # "failed" /\ \A i \in DOMAIN dec'.out : Stamped(dec'.out[i])
  PROVE  MeasureInv'
<1>1. /\ UNCHANGED <<asked, now, snd, failures, net, stream, back, sendLog, sent>>
      /\ UNCHANGED <<rcv, copies, recvLog>>
  BY DEF Others, senderVars, receiverVars
<1>2. MeasureTypes'
  BY <1>1 DEF MeasureInv, MeasureTypes
<1>3. ASSUME NEW g \in Flows
      PROVE  (SenderKept(g) /\ NetKept(g) /\ BackKept(g) /\ StreamKept(g) /\ ThreadKept(g))'
  <2>1. SenderKept(g) /\ NetKept(g) /\ BackKept(g) /\ StreamKept(g) /\ ThreadKept(g)
    BY DEF MeasureInv
  <2>2. SenderKept(g)'
    BY <1>1, <2>1 DEF SenderKept, Opt, MinSize, Carried
  <2>3. NetKept(g)' /\ BackKept(g)'
    BY <1>1, <2>1 DEF NetKept, BackKept, Stamped, Sockets, Opt
  <2>4. StreamKept(g)' /\ ThreadKept(g)'
    BY <1>1, <2>1 DEF StreamKept, ThreadKept, Stamped, PreambleSize, Carried, Opt
  <2> QED
    BY <2>2, <2>3, <2>4
<1>4. \A i \in DOMAIN recvLog' : Received(recvLog[i])'
  BY <1>1 DEF MeasureInv, Received, Numbered, Stamped, Opt
<1>5. SendLogKept'
  BY <1>1 DEF MeasureInv, SendLogKept, Stamped, Opt
<1>6. DecoderKept'
  <2>1. AllEnded' /\ dec'.read <= Len(Input')
    BY <1>1 DEF AllEnded, Input
  <2>2. Reconstructible /\ asked'.dec.reconstruct =>
          dec'.pc # "failed" /\ \A i \in DOMAIN dec'.out : Stamped(dec.out[i])'
    BY <1>1 DEF Stamped
  <2> QED
    BY <2>1, <2>2 DEF DecoderKept
<1> QED
  BY <1>2, <1>3, <1>4, <1>5, <1>6 DEF MeasureInv

\* The start of ITGDec keeps the invariant.
LEMMA StartDecoderKeeps ==
  ASSUME MeasureInv, StartDecoder
  PROVE  MeasureInv'
<1>1. /\ DOMAIN dec = DecoderFields /\ dec.read = 0 /\ dec.out = <<>> /\ dec.read \in Nat
      /\ dec.out \in Seq(Records) /\ dec.read <= Len(Input)
  BY DEF StartDecoder, MeasureInv, MeasureTypes, DecoderKept
<1>2. /\ DOMAIN dec' = DecoderFields /\ dec'.pc = "reading" /\ dec'.read = dec.read /\ dec'.out = dec.out
      /\ AllEnded /\ Others
  BY <1>1 DEF StartDecoder, DecoderFields
<1>3. \A i \in DOMAIN dec'.out : Stamped(dec'.out[i])
  BY <1>1, <1>2
<1> QED
  BY <1>1, <1>2, <1>3, DecoderStep

\* The end of the log keeps the invariant.
LEMMA ElaborateKeeps ==
  ASSUME MeasureInv, Elaborate(asked.dec, Input), Others
  PROVE  MeasureInv'
<1>1. /\ DOMAIN dec = DecoderFields /\ dec.read \in Nat /\ dec.out \in Seq(Records)
      /\ dec.read <= Len(Input) /\ AllEnded
      /\ Reconstructible /\ asked.dec.reconstruct => \A i \in DOMAIN dec.out : Stamped(dec.out[i])
  BY DEF Elaborate, MeasureInv, MeasureTypes, DecoderKept
<1>2. DOMAIN dec' = DecoderFields /\ dec'.pc = "done" /\ dec'.read = dec.read /\ dec'.out = dec.out
  BY <1>1 DEF Elaborate, DecoderFields
<1> QED
  BY <1>1, <1>2, DecoderStep

\* found: the first record of the sender's log for a packet.
LEMMA ReconstructedFrom ==
  ASSUME NEW log \in Seq(Records), NEW r \in Records, Corresponding(log, r) # {}
  PROVE  \E i \in DOMAIN log : /\ log[i].flow = r.flow /\ log[i].seq = r.seq
                               /\ Reconstructed(log, r) = [r EXCEPT !.tx = log[i].tx]
<1> DEFINE S    == Corresponding(log, r)
           Less == {ss \in Nat \X Nat : ss[1] < ss[2]}
<1>1. S \subseteq Nat /\ S \subseteq DOMAIN log /\ \A i \in S : log[i].flow = r.flow /\ log[i].seq = r.seq
  BY LenProperties DEF Corresponding
<1>2. IsWellFoundedOn(Less, Nat)
  BY NatLessThanWellFounded DEF OpToRel
<1> HIDE DEF S
<1>3. PICK x \in S : \A y \in S : <<y, x>> \notin Less
  <2>1. S # {}
    BY DEF S
  <2> QED
    BY <1>1, <1>2, <2>1, WFMin, Zenon
<1>4. \A y \in S : x <= y
  <2>1. \A y \in S : ~(y < x)
    BY <1>1, <1>3
  <2> QED
    BY <1>1, <2>1
<1> DEFINE i == CHOOSE i \in S : \A j \in S : i <= j
<1>5. i \in S
  BY <1>4
<1>6. Reconstructed(log, r) = [r EXCEPT !.tx = log[i].tx]
  BY DEF Reconstructed, S
<1> HIDE DEF i
<1> QED
  BY <1>1, <1>5, <1>6

\* A turn of the loop of ITGDec keeps the invariant.
LEMMA ReadLineKeeps ==
  ASSUME MeasureInv, ReadLine(asked.dec, Input, sendLog), Others
  PROVE  MeasureInv'
<1> DEFINE line == Input[dec.read + 1]
           rec  == asked.dec.reconstruct
           r    == IF rec THEN Reconstructed(sendLog, line) ELSE line
<1>1. /\ DOMAIN dec = DecoderFields /\ dec.read \in Nat /\ dec.out \in Seq(Records) /\ AllEnded
      /\ Reconstructible /\ rec => \A i \in DOMAIN dec.out : Stamped(dec.out[i])
      /\ dec.pc = "reading" /\ dec.read < Len(Input)
      /\ asked \in Cases /\ sendLog \in Seq(Records) /\ recvLog \in Seq(Records)
      /\ SendLogKept /\ \A i \in DOMAIN recvLog : Received(recvLog[i])
      /\ asked.flows \subseteq Flows
  BY OptionTypes DEF ReadLine, MeasureInv, MeasureTypes, DecoderKept
<1>2. Input \in Seq(Records) /\ (Input = sendLog \/ Input = recvLog)
  BY <1>1 DEF Input
<1>3. PICK at \in Nat : at = dec.read + 1 /\ at \in DOMAIN Input /\ at <= Len(Input)
  <2>1. PICK a \in Nat, n \in Nat : a = dec.read /\ n = Len(Input) /\ DOMAIN Input = 1 .. n
    BY <1>1, <1>2, LenProperties
  <2>2. a < n
    BY <1>1, <2>1
  <2> QED
    BY <2>1, <2>2
<1>4. line \in Records
  BY <1>2, <1>3
<1>5. ASSUME Reconstructible, rec
      PROVE  Corresponding(sendLog, line) # {}
  <2>1. \A f \in asked.flows : Opt(f).log # "none" /\ Opt(f).meter = "owdm"
    BY <1>1, <1>5 DEF Reconstructible, Opt
  <2>2. CASE Input = sendLog
    BY <1>3, <2>2 DEF Corresponding
  <2>3. CASE Input = recvLog
    <3>1. Received(line)
      BY <1>1, <1>3, <2>3
    <3>2. line.flow \in asked.flows /\ Numbered(line)
      BY <2>1, <3>1 DEF Received
    <3>3. PICK j \in DOMAIN sent[line.flow] : sent[line.flow][j].seq = line.seq
      BY <3>2 DEF Numbered
    <3>4. PICK i \in DOMAIN sendLog : sendLog[i].flow = line.flow /\ sendLog[i].seq = line.seq
      BY <1>1, <2>1, <3>2, <3>3 DEF SendLogKept
    <3> QED
      BY <3>4 DEF Corresponding
  <2> QED
    BY <1>2, <2>2, <2>3
<1> HIDE DEF line
<1>6. ASSUME ~(rec /\ Corresponding(sendLog, line) = {})
      PROVE  r \in Records /\ (Reconstructible /\ rec => Stamped(r))
  <2>1. CASE ~rec
    BY <1>4, <2>1
  <2>2. CASE rec
    <3>1. PICK i \in DOMAIN sendLog : /\ sendLog[i].flow = line.flow /\ sendLog[i].seq = line.seq
                                      /\ Reconstructed(sendLog, line) = [line EXCEPT !.tx = sendLog[i].tx]
      BY <1>1, <1>4, <1>6, <2>2, ReconstructedFrom
    <3>2. PICK m \in Records : m = sendLog[i]
      BY <1>1
    <3>3. /\ r = [line EXCEPT !.tx = m.tx] /\ r \in Records
          /\ r.flow = m.flow /\ r.seq = m.seq /\ r.tx = m.tx
      BY <1>4, <2>2, <3>1, <3>2 DEF Records
    <3>4. ASSUME Reconstructible
          PROVE  Stamped(m)
      <4>1. \A f \in asked.flows : Opt(f).meter = "owdm"
        BY <1>1, <2>2, <3>4 DEF Reconstructible, Opt
      <4>2. m.flow \in asked.flows
        BY <1>1, <3>2 DEF SendLogKept
      <4> QED
        BY <1>1, <3>2, <4>1, <4>2 DEF SendLogKept
    <3>5. Reconstructible => Stamped(r)
      <4> HIDE DEF r
      <4> QED
        BY <3>3, <3>4 DEF Stamped
    <3> QED
      BY <3>3, <3>5
  <2> QED
    BY <2>1, <2>2
<1>7. CASE rec /\ Corresponding(sendLog, line) = {}
  <2>1. dec' = [dec EXCEPT !.pc = "failed"]
    BY <1>7 DEF ReadLine, line
  <2>2. DOMAIN dec' = DecoderFields /\ dec'.pc = "failed" /\ dec'.read = dec.read /\ dec'.out = dec.out
    BY <1>1, <2>1 DEF DecoderFields
  <2>3. ~Reconstructible
    BY <1>5, <1>7
  <2>4. dec'.read <= Len(Input)
    BY <1>1, <1>2, <2>2, LenProperties
  <2> QED
    BY <1>1, <2>2, <2>3, <2>4, DecoderStep
<1>8. CASE ~(rec /\ Corresponding(sendLog, line) = {})
  <2>1. r \in Records /\ (Reconstructible /\ rec => Stamped(r))
    BY <1>6, <1>8
  <2>2. /\ DOMAIN dec' = DOMAIN dec /\ dec'.pc = dec.pc
        /\ dec'.read = dec.read + 1 /\ dec'.out = Append(dec.out, r)
    BY <1>1, <1>8 DEF ReadLine, line, DecoderFields
  <2> HIDE DEF r
  <2>3. /\ Append(dec.out, r) \in Seq(Records)
        /\ \A i \in DOMAIN Append(dec.out, r) :
             Append(dec.out, r)[i] = r \/ (i \in DOMAIN dec.out /\ Append(dec.out, r)[i] = dec.out[i])
    BY <1>1, <2>1, AppendProperties, LenProperties
  <2>4. Reconstructible /\ rec => \A i \in DOMAIN dec'.out : Stamped(dec'.out[i])
    BY <1>1, <2>1, <2>2, <2>3
  <2>5. dec'.read \in Nat /\ dec'.read <= Len(Input)
    BY <1>3, <2>2
  <2>6. dec'.out \in Seq(Records) /\ dec'.pc = "reading" /\ DOMAIN dec' = DecoderFields
    BY <1>1, <2>2, <2>3
  <2> QED
    BY <1>1, <2>4, <2>5, <2>6, DecoderStep
<1> QED
  BY <1>7, <1>8
-----------------------------------------------------------------------------
(* The invariant, and what follows from it. *)

\* The invariant holds at first.
LEMMA MeasureInitially == Init => MeasureInv
<1> SUFFICES ASSUME Init PROVE MeasureInv
  OBVIOUS
<1>1. /\ asked \in Cases /\ now = 0 /\ snd = [f \in Flows |-> Idle] /\ failures = [f \in Flows |-> 0]
      /\ net = [f \in Flows |-> {}] /\ stream = [f \in Flows |-> <<>>] /\ back = [f \in Flows |-> {}]
      /\ sendLog = <<>> /\ sent = [f \in Flows |-> <<>>]
      /\ rcv = [f \in Flows |-> AtPreamble] /\ copies = 0 /\ recvLog = <<>>
      /\ DOMAIN dec = DecoderFields /\ dec.pc = "off" /\ dec.read = 0 /\ dec.out = <<>>
  BY DEF Init, SenderInit, ReceiverInit, DecoderInit, DecoderFields
<1>2. /\ asked.failures \in Nat /\ asked.copies \in Nat /\ Largest \in Nat /\ Forever \in Nat
      /\ \A f \in Flows : PreambleSize(f) \in Nat \ {0}
  BY <1>1, OptionTypes
<1>3. Idle \in SenderStates /\ Idle.pc = "idle" /\ Idle.seq = 1
  BY <1>2 DEF Idle, SenderStates
<1>4. AtPreamble \in ThreadStates /\ AtPreamble.pc = "preamble" /\ AtPreamble.got = 0
  BY <1>2 DEF AtPreamble, ThreadStates
<1>5. Len(<<>>) = 0 /\ DOMAIN <<>> = {} /\ \A S : <<>> \in Seq(S)
  OBVIOUS
<1>6. MeasureTypes
  <2>1. snd \in [Flows -> SenderStates] /\ failures \in [Flows -> Nat] /\ rcv \in [Flows -> ThreadStates]
    BY <1>1, <1>3, <1>4
  <2>2. net \in [Flows -> SUBSET Packets] /\ back \in [Flows -> SUBSET Packets]
    BY <1>1
  <2>3. stream \in [Flows -> Seq(StreamFields)] /\ sent \in [Flows -> Seq(SentPackets)]
    BY <1>1, <1>5
  <2>4. sendLog \in Seq(Records) /\ recvLog \in Seq(Records) /\ dec.out \in Seq(Records)
    BY <1>1, <1>5
  <2>5. copies \in 0 .. asked.copies /\ now \in Nat /\ dec.read \in Nat
    BY <1>1, <1>2
  <2> QED
    BY <1>1, <2>1, <2>2, <2>3, <2>4, <2>5 DEF MeasureTypes
<1>7. ASSUME NEW f \in Flows
      PROVE  SenderKept(f) /\ NetKept(f) /\ BackKept(f) /\ StreamKept(f) /\ ThreadKept(f)
  <2>1. SenderKept(f)
    BY <1>1, <1>2, <1>3, <1>5 DEF SenderKept
  <2>2. NetKept(f) /\ BackKept(f) /\ StreamKept(f)
    BY <1>1, <1>5 DEF NetKept, BackKept, StreamKept
  <2>3. ThreadKept(f)
    BY <1>1, <1>2, <1>4 DEF ThreadKept
  <2> QED
    BY <2>1, <2>2, <2>3
<1>8. \A i \in DOMAIN recvLog : Received(recvLog[i])
  BY <1>1, <1>5
<1>9. SendLogKept
  BY <1>1, <1>5 DEF SendLogKept
<1>10. DecoderKept
  <2>1. Len(Input) = 0
    BY <1>1, <1>5 DEF Input
  <2> QED
    BY <1>1, <1>5, <2>1 DEF DecoderKept
<1> QED
  BY <1>6, <1>7, <1>8, <1>9, <1>10 DEF MeasureInv

\* The invariant holds on when nothing changes.
LEMMA MeasureStutters ==
  ASSUME MeasureInv, UNCHANGED vars
  PROVE  MeasureInv'
<1>1. /\ UNCHANGED <<asked, now, snd, failures, net, stream, back, sendLog, sent>>
      /\ UNCHANGED <<rcv, copies, recvLog>> /\ UNCHANGED dec
  BY DEF vars, senderVars, receiverVars
<1>2. MeasureTypes'
  BY <1>1 DEF MeasureInv, MeasureTypes
<1>3. ASSUME NEW g \in Flows
      PROVE  (SenderKept(g) /\ NetKept(g) /\ BackKept(g) /\ StreamKept(g) /\ ThreadKept(g))'
  <2>1. SenderKept(g) /\ NetKept(g) /\ BackKept(g) /\ StreamKept(g) /\ ThreadKept(g)
    BY DEF MeasureInv
  <2>2. SenderKept(g)'
    BY <1>1, <2>1 DEF SenderKept, Opt, MinSize, Carried
  <2>3. NetKept(g)' /\ BackKept(g)'
    BY <1>1, <2>1 DEF NetKept, BackKept, Stamped, Sockets, Opt
  <2>4. StreamKept(g)' /\ ThreadKept(g)'
    BY <1>1, <2>1 DEF StreamKept, ThreadKept, Stamped, PreambleSize, Carried, Opt
  <2> QED
    BY <2>2, <2>3, <2>4
<1>4. \A i \in DOMAIN recvLog' : Received(recvLog[i])'
  BY <1>1 DEF MeasureInv, Received, Numbered, Stamped, Opt
<1>5. SendLogKept'
  BY <1>1 DEF MeasureInv, SendLogKept, Stamped, Opt
<1>6. DecoderKept'
  BY <1>1 DEF MeasureInv, DecoderKept, AllEnded, Input, Stamped
<1> QED
  BY <1>2, <1>3, <1>4, <1>5, <1>6 DEF MeasureInv

\* Every step of the measurement keeps the invariant.
LEMMA MeasureStep == MeasureInv /\ [Next]_vars => MeasureInv'
<1> SUFFICES ASSUME MeasureInv, [Next]_vars PROVE MeasureInv'
  OBVIOUS
<1>1. ASSUME NEW f \in Flows, Sender(f), UNCHANGED <<receiverVars, dec>>
      PROVE  MeasureInv'
  BY <1>1, StartFlowKeeps, SendPacketKeeps, SendFailsKeeps, ReadEchoKeeps, WaitOverKeeps, OffOverKeeps,
     ReadLastEchoKeeps, TailOverKeeps DEF Sender
<1>2. CASE Tick /\ UNCHANGED <<receiverVars, dec>>
  BY <1>2, TickKeeps
<1>3. ASSUME dec.pc = "off", UNCHANGED dec, NEW f \in Flows, Receiver(f)
      PROVE  MeasureInv'
  BY <1>3, ReceiveDatagramKeeps, ReceiveRawKeeps, ReadPreambleKeeps, ReadPayloadKeeps DEF Receiver
<1>4. CASE StartDecoder
  BY <1>4, StartDecoderKeeps
<1>5. CASE Decodes
  BY <1>5, ReadLineKeeps, ElaborateKeeps DEF Decodes
<1>6. CASE UNCHANGED vars
  BY <1>6, MeasureStutters
<1> QED
  BY <1>1, <1>2, <1>3, <1>4, <1>5, <1>6 DEF Next

\* The invariant gives the types and numbers that the runs check.
LEMMA MeasureTypesOK == MeasureInv => TypeOK
<1> SUFFICES ASSUME MeasureInv PROVE TypeOK
  OBVIOUS
<1>1. /\ asked \in Cases /\ now \in Nat /\ snd \in [Flows -> SenderStates] /\ failures \in [Flows -> Nat]
      /\ rcv \in [Flows -> ThreadStates] /\ copies \in 0 .. asked.copies
      /\ dec.pc \in {"off", "reading", "failed", "done"} /\ dec.read \in Nat
      /\ sendLog \in Seq(Records) /\ recvLog \in Seq(Records)
  BY DEF MeasureInv, MeasureTypes
<1>2. asked.failures \in Nat
  BY <1>1, OptionTypes
<1>3. SenderTypeOK
  <2>1. ASSUME NEW f \in Flows
        PROVE  /\ snd[f].pc \in {"idle", "sending", "waiting", "off", "tail", "ended"}
               /\ snd[f].pc # "idle" => snd[f].size \in MinSize(f) .. Largest
               /\ snd[f].bytes \in 0 .. Forever
               /\ snd[f].seq - 1 = Len(sent[f]) + failures[f] + (IF snd[f].pc = "waiting" THEN -1 ELSE 0)
               /\ failures[f] \in 0 .. asked.failures
    <3>1. SenderKept(f)
      BY DEF MeasureInv
    <3>2. /\ snd[f].pc \in {"idle", "sending", "waiting", "off", "tail", "ended"}
          /\ snd[f].bytes \in 0 .. Forever
      BY <1>1 DEF SenderStates
    <3>3. failures[f] \in 0 .. asked.failures
      BY <1>1, <1>2, <3>1 DEF SenderKept
    <3> QED
      BY <3>1, <3>2, <3>3 DEF SenderKept
  <2> QED
    BY <1>1, <2>1 DEF SenderTypeOK
<1>4. ReceiverTypeOK
  <2>1. ASSUME NEW f \in Flows
        PROVE  /\ rcv[f].pc \in {"preamble", "payload", "asleep"} /\ rcv[f].got \in 0 .. Largest
               /\ rcv[f].pc = "payload" => rcv[f].got < rcv[f].size
    <3>1. ThreadKept(f)
      BY DEF MeasureInv
    <3>2. rcv[f].pc \in {"preamble", "payload", "asleep"} /\ rcv[f].got \in 0 .. Largest
      BY <1>1 DEF ThreadStates
    <3> QED
      BY <3>1, <3>2 DEF ThreadKept
  <2> QED
    BY <1>1, <2>1 DEF ReceiverTypeOK
<1>5. dec.read \in 0 .. Len(Input) /\ (dec.pc # "off" => AllEnded)
  <2>1. Len(Input) \in Nat
    BY <1>1, LenProperties DEF Input
  <2>2. dec.read <= Len(Input) /\ (dec.pc # "off" => AllEnded)
    BY DEF MeasureInv, DecoderKept
  <2> QED
    BY <1>1, <2>1, <2>2
<1> QED
  BY <1>1, <1>3, <1>4, <1>5 DEF TypeOK

\* flowSender, TCPrecvPacket, the data threads and ITGDec: whatever the options of the flows,
\* a packet has its number and a size that fits the buffer, a thread inside TCPrecvPacket
\* never holds more fields than the packet has, and ITGDec does not read past its log.
THEOREM MeasurementTypes == Spec => []TypeOK
  BY MeasureInitially, MeasureStep, MeasureTypesOK, PTL DEF Spec

\* Stamps are true where the invariant holds.
LEMMA StampsAreTrue == HeadersAlike /\ MeasureInv => TrueStamps
<1> SUFFICES ASSUME HeadersAlike, MeasureInv PROVE TrueStamps
  OBVIOUS
<1>1. asked.flows \subseteq Flows
  BY OptionTypes DEF MeasureInv, MeasureTypes
<1>2. \A f \in asked.flows : ~Opt(f).bursty => \A i \in DOMAIN sent[f] : sent[f][i].tx = sent[f][i].at
  BY <1>1 DEF MeasureInv, SenderKept
<1>3. \A i \in DOMAIN recvLog : Opt(recvLog[i].flow).log = "standard" => Stamped(recvLog[i])
  BY DEF MeasureInv, Received
<1> QED
  BY <1>2, <1>3 DEF TrueStamps, Stamped

\* If the threads that share a socket expect the same header, a packet of a flow without bursts
\* is stamped with the time of its departure, and its record at the receiver has that stamp
\* after any loss, duplication, reordering and cutting into pieces (flowSender, udpSock,
\* icmpSock, TCPrecvPacket).
THEOREM StampsKept == ASSUME HeadersAlike PROVE Spec => []TrueStamps
<1>1. MeasureInv => TrueStamps
  BY StampsAreTrue
<1> QED
  BY <1>1, MeasureInitially, MeasureStep, PTL DEF Spec

\* Delays are reconstructed where the invariant holds.
LEMMA DelaysAreReconstructed == Reconstructible /\ MeasureInv => DelaysReconstructed
  BY DEF MeasureInv, DecoderKept, DelaysReconstructed, Stamped

\* If option -r is given for flows with numbers that the sender logs, ITGDec finds every packet
\* in the sender's log, and gives its record the stamp of its departure (found).
THEOREM DelaysFound == ASSUME Reconstructible PROVE Spec => []DelaysReconstructed
<1>1. MeasureInv => DelaysReconstructed
  BY DelaysAreReconstructed
<1> QED
  BY <1>1, MeasureInitially, MeasureStep, PTL DEF Spec
-----------------------------------------------------------------------------
(* Induction over the numbers of a set, and functions that are given step by step. *)

\* Induction over the numbers of a set.
LEMMA Induction ==
  ASSUME NEW S, 0 \in S, \A n \in Nat : n \in S => n + 1 \in S
  PROVE  \A n \in Nat : n \in S
<1> DEFINE Less    == {ss \in Nat \X Nat : ss[1] < ss[2]}
           Missing == {n \in Nat : n \notin S}
<1> SUFFICES ASSUME Missing # {} PROVE FALSE
  OBVIOUS
<1>1. IsWellFoundedOn(Less, Nat)
  BY NatLessThanWellFounded DEF OpToRel
<1>2. Missing \subseteq Nat
  OBVIOUS
<1>3. PICK n \in Missing : \A m \in Missing : <<m, n>> \notin Less
  <2> HIDE DEF Less, Missing
  <2> QED
    BY <1>1, <1>2, WFMin, Zenon
<1>4. \A m \in Missing : ~(m < n)
  BY <1>2, <1>3
<1>5. n \in Nat /\ n \notin S /\ n # 0
  BY <1>3
<1>6. n - 1 \in Nat /\ n - 1 < n /\ (n - 1) + 1 = n
  BY <1>5
<1>7. n - 1 \in S
  BY <1>4, <1>6
<1> QED
  BY <1>5, <1>6, <1>7

\* A function on 0 .. n whose value at i is given by the one at i - 1.
Recursive(F, n, V, first, step) ==
  F \in [0 .. n -> V] /\ F[0] = first /\ \A i \in 1 .. n : F[i] = step[i][F[i - 1]]
LEMMA ByRecursion ==
  ASSUME NEW V, NEW n \in Nat, NEW first \in V, NEW step \in [1 .. n -> [V -> V]]
  PROVE  \E F : Recursive(F, n, V, first, step)
<1> DEFINE Good == {m \in Nat : m <= n => \E F : Recursive(F, m, V, first, step)}
<1>1. 0 \in Good
  <2>1. Recursive([i \in 0 .. 0 |-> first], 0, V, first, step)
    BY DEF Recursive
  <2> QED
    BY <2>1
<1>2. ASSUME NEW m \in Nat, m \in Good PROVE m + 1 \in Good
  <2> SUFFICES ASSUME m + 1 <= n PROVE \E F : Recursive(F, m + 1, V, first, step)
    BY <1>2
  <2>1. PICK F : Recursive(F, m, V, first, step)
    BY <1>2
  <2>2. PICK last \in V : last = step[m + 1][F[m]]
    <3>1. m + 1 \in 1 .. n /\ m \in 0 .. m /\ F[m] \in V
      BY <2>1 DEF Recursive
    <3>2. step[m + 1] \in [V -> V]
      BY <3>1
    <3> QED
      BY <3>1, <3>2
  <2> DEFINE next == [i \in 0 .. m + 1 |-> IF i = m + 1 THEN last ELSE F[i]]
  <2>3. next \in [0 .. m + 1 -> V] /\ next[0] = first
    BY <2>1 DEF Recursive
  <2>4. ASSUME NEW i \in 1 .. m + 1 PROVE next[i] = step[i][next[i - 1]]
    <3>1. i \in 0 .. m + 1 /\ i - 1 \in 0 .. m + 1 /\ i - 1 # m + 1
      OBVIOUS
    <3>2. next[i] = (IF i = m + 1 THEN last ELSE F[i]) /\ next[i - 1] = F[i - 1]
      BY <3>1
    <3>3. i # m + 1 => F[i] = step[i][F[i - 1]]
      <4>1. i # m + 1 => i \in 1 .. m
        OBVIOUS
      <4> QED
        BY <2>1, <4>1 DEF Recursive
    <3>4. i = m + 1 => i - 1 = m
      OBVIOUS
    <3> HIDE DEF next
    <3> QED
      BY <2>2, <3>2, <3>3, <3>4
  <2>5. Recursive(next, m + 1, V, first, step)
    <3> HIDE DEF next
    <3> QED
      BY <2>3, <2>4 DEF Recursive
  <2> QED
    BY <2>5
<1>3. n \in Good
  <2> HIDE DEF Good
  <2> QED
    BY <1>1, <1>2, Induction
<1> QED
  BY <1>3

\* Two functions that are given that way in the same way are the same.
SameSteps(F, G, n) == F[0] = G[0] /\ \A i \in 1 .. n : F[i - 1] = G[i - 1] => F[i] = G[i]
LEMMA SameAtLast ==
  ASSUME NEW n \in Nat, NEW F, NEW G, SameSteps(F, G, n)
  PROVE  F[n] = G[n]
<1> USE DEF SameSteps
<1> DEFINE Same == {k \in Nat : k <= n => F[k] = G[k]}
<1>1. 0 \in Same
  OBVIOUS
<1>2. ASSUME NEW k \in Nat, k \in Same PROVE k + 1 \in Same
  <2> SUFFICES ASSUME k + 1 <= n PROVE F[k + 1] = G[k + 1]
    BY <1>2
  <2>1. F[k] = G[k]
    BY <1>2
  <2>2. k + 1 \in 1 .. n /\ (k + 1) - 1 = k
    OBVIOUS
  <2> QED
    BY <2>1, <2>2
<1>3. \A k \in Nat : k \in Same
  <2> HIDE DEF Same
  <2> QED
    BY <1>1, <1>2, Induction
<1> QED
  BY <1>3
-----------------------------------------------------------------------------
(* The records of some flows of a log. *)

\* What OfFlows adds up.
KeptUpTo(F, n, S, recs, flows) ==
  /\ F \in [0 .. n -> Seq(S)] /\ F[0] = <<>>
  /\ \A i \in 1 .. n :
       F[i] = IF recs[i].flow \in flows THEN Append(F[i - 1], recs[i]) ELSE F[i - 1]

\* OfFlows is given step by step: what is kept of the first i records.
LEMMA OfFlowsRecursion ==
  ASSUME NEW S, NEW recs \in Seq(S), NEW flows
  PROVE  \E F : KeptUpTo(F, Len(recs), S, recs, flows) /\ OfFlows(recs, flows) = F[Len(recs)]
<1> DEFINE def == CHOOSE F : F = [i \in 0 .. Len(recs) |->
                    IF i = 0 THEN <<>>
                    ELSE IF recs[i].flow \in flows THEN Append(F[i - 1], recs[i]) ELSE F[i - 1]]
           step == [i \in 1 .. Len(recs) |-> [v \in Seq(S) |->
                      IF recs[i].flow \in flows THEN Append(v, recs[i]) ELSE v]]
<1>1. Len(recs) \in Nat /\ \A i \in 1 .. Len(recs) : recs[i] \in S
  BY LenProperties
<1>2. step \in [1 .. Len(recs) -> [Seq(S) -> Seq(S)]] /\ <<>> \in Seq(S)
  BY <1>1
<1>3. PICK F : Recursive(F, Len(recs), Seq(S), <<>>, step)
  <2> HIDE DEF step
  <2> QED
    BY <1>1, <1>2, ByRecursion
<1>4. KeptUpTo(F, Len(recs), S, recs, flows)
  <2>1. \A i \in 1 .. Len(recs) : F[i - 1] \in Seq(S)
    <3>1. \A i \in 1 .. Len(recs) : i - 1 \in 0 .. Len(recs)
      BY <1>1
    <3> QED
      BY <1>3, <3>1 DEF Recursive
  <2> QED
    BY <1>1, <1>3, <2>1 DEF Recursive, KeptUpTo
<1>5. F = [i \in 0 .. Len(recs) |->
             IF i = 0 THEN <<>>
             ELSE IF recs[i].flow \in flows THEN Append(F[i - 1], recs[i]) ELSE F[i - 1]]
  <2>1. \A i \in 0 .. Len(recs) : i = 0 \/ i \in 1 .. Len(recs)
    BY <1>1
  <2> QED
    BY <1>4, <2>1 DEF KeptUpTo
<1>6. def = [i \in 0 .. Len(recs) |->
               IF i = 0 THEN <<>>
               ELSE IF recs[i].flow \in flows THEN Append(def[i - 1], recs[i]) ELSE def[i - 1]]
  BY <1>5
<1>7. OfFlows(recs, flows) = def[Len(recs)]
  BY DEF OfFlows
<1> HIDE DEF def
<1>8. def[Len(recs)] = F[Len(recs)]
  <2>1. def[0] = F[0]
    BY <1>1, <1>4, <1>6 DEF KeptUpTo
  <2>2. \A i \in 1 .. Len(recs) : def[i - 1] = F[i - 1] => def[i] = F[i]
    <3>1. \A i \in 1 .. Len(recs) : i \in 0 .. Len(recs) /\ i # 0
      BY <1>1
    <3> QED
      BY <1>4, <1>6, <3>1 DEF KeptUpTo
  <2>3. SameSteps(def, F, Len(recs))
    BY <2>1, <2>2 DEF SameSteps
  <2> QED
    BY <1>1, <2>3, SameAtLast
<1> QED
  BY <1>4, <1>7, <1>8

\* One more record is one of theirs, or it is not.
LEMMA OfFlowsAppend ==
  ASSUME NEW S, NEW recs \in Seq(S), NEW r \in S, NEW flows
  PROVE  /\ OfFlows(recs, flows) \in Seq(S)
         /\ OfFlows(Append(recs, r), flows) =
              IF r.flow \in flows THEN Append(OfFlows(recs, flows), r) ELSE OfFlows(recs, flows)
<1> DEFINE n    == Len(recs)
           long == Append(recs, r)
<1>1. /\ n \in Nat /\ long \in Seq(S) /\ Len(long) = n + 1 /\ long[n + 1] = r
      /\ \A i \in 1 .. n : long[i] = recs[i]
  BY LenProperties, AppendProperties
<1>2. PICK F : KeptUpTo(F, n, S, recs, flows) /\ OfFlows(recs, flows) = F[n]
  BY OfFlowsRecursion
<1>3. PICK G : KeptUpTo(G, n + 1, S, long, flows) /\ OfFlows(long, flows) = G[n + 1]
  <2> HIDE DEF n, long
  <2>1. \E G : KeptUpTo(G, Len(long), S, long, flows) /\ OfFlows(long, flows) = G[Len(long)]
    BY <1>1, OfFlowsRecursion
  <2> QED
    BY <1>1, <2>1
<1> HIDE DEF n, long
<1>4. G[n] = F[n]
  <2>1. G[0] = F[0] /\ \A i \in 1 .. n : G[i - 1] = F[i - 1] => G[i] = F[i]
    <3>1. \A i \in 1 .. n : i \in 1 .. n + 1
      BY <1>1
    <3> QED
      BY <1>1, <1>2, <1>3, <3>1 DEF KeptUpTo
  <2>2. SameSteps(G, F, n)
    BY <2>1 DEF SameSteps
  <2> QED
    BY <1>1, <2>2, SameAtLast
<1>5. n + 1 \in 1 .. n + 1 /\ (n + 1) - 1 = n /\ n \in 0 .. n
  BY <1>1
<1>6. G[n + 1] = IF r.flow \in flows THEN Append(G[n], r) ELSE G[n]
  BY <1>1, <1>3, <1>5 DEF KeptUpTo
<1>7. OfFlows(recs, flows) \in Seq(S)
  BY <1>2, <1>5 DEF KeptUpTo
<1> QED
  BY <1>2, <1>3, <1>4, <1>6, <1>7 DEF long

\* Of an empty log nothing is kept.
LEMMA OfFlowsNone ==
  ASSUME NEW flows PROVE OfFlows(<<>>, flows) = <<>>
<1>1. <<>> \in Seq({}) /\ Len(<<>>) = 0
  OBVIOUS
<1>2. PICK F : KeptUpTo(F, 0, {}, <<>>, flows) /\ OfFlows(<<>>, flows) = F[0]
  BY <1>1, OfFlowsRecursion
<1> QED
  BY <1>2 DEF KeptUpTo
-----------------------------------------------------------------------------
(* Sums of sizes. *)

\* What Size adds up.
SizedUpTo(F, n, packets) ==
  F \in [0 .. n -> Nat] /\ F[0] = 0 /\ \A i \in 1 .. n : F[i] = F[i - 1] + packets[i].size

\* Size is given step by step.
LEMMA SizeRecursion ==
  ASSUME NEW S, NEW packets \in Seq(S), \A p \in S : p.size \in Nat
  PROVE  \E F : SizedUpTo(F, Len(packets), packets) /\ Size(packets) = F[Len(packets)]
<1> DEFINE def == CHOOSE F : F = [i \in 0 .. Len(packets) |->
                    IF i = 0 THEN 0 ELSE F[i - 1] + packets[i].size]
           step == [i \in 1 .. Len(packets) |-> [v \in Nat |-> v + packets[i].size]]
<1>1. Len(packets) \in Nat /\ \A i \in 1 .. Len(packets) : packets[i].size \in Nat
  BY LenProperties
<1>2. step \in [1 .. Len(packets) -> [Nat -> Nat]]
  BY <1>1
<1>3. PICK F : Recursive(F, Len(packets), Nat, 0, step)
  <2> HIDE DEF step
  <2> QED
    BY <1>1, <1>2, ByRecursion
<1>4. SizedUpTo(F, Len(packets), packets)
  <2>1. \A i \in 1 .. Len(packets) : F[i - 1] \in Nat
    <3>1. \A i \in 1 .. Len(packets) : i - 1 \in 0 .. Len(packets)
      BY <1>1
    <3> QED
      BY <1>3, <3>1 DEF Recursive
  <2> QED
    BY <1>1, <1>3, <2>1 DEF Recursive, SizedUpTo
<1>5. F = [i \in 0 .. Len(packets) |-> IF i = 0 THEN 0 ELSE F[i - 1] + packets[i].size]
  <2>1. \A i \in 0 .. Len(packets) : i = 0 \/ i \in 1 .. Len(packets)
    BY <1>1
  <2> QED
    BY <1>4, <2>1 DEF SizedUpTo
<1>6. def = [i \in 0 .. Len(packets) |-> IF i = 0 THEN 0 ELSE def[i - 1] + packets[i].size]
  BY <1>5
<1>7. Size(packets) = def[Len(packets)]
  BY DEF Size
<1> HIDE DEF def
<1>8. def[Len(packets)] = F[Len(packets)]
  <2>1. def[0] = F[0]
    BY <1>1, <1>4, <1>6 DEF SizedUpTo
  <2>2. \A i \in 1 .. Len(packets) : def[i - 1] = F[i - 1] => def[i] = F[i]
    <3>1. \A i \in 1 .. Len(packets) : i \in 0 .. Len(packets) /\ i # 0
      BY <1>1
    <3> QED
      BY <1>4, <1>6, <3>1 DEF SizedUpTo
  <2>3. SameSteps(def, F, Len(packets))
    BY <2>1, <2>2 DEF SameSteps
  <2> QED
    BY <1>1, <2>3, SameAtLast
<1> QED
  BY <1>4, <1>7, <1>8

\* Only the sizes matter to Size.
LEMMA SizedAlike ==
  ASSUME NEW n \in Nat, NEW F, NEW G, NEW packets, NEW long,
         SizedUpTo(F, n, packets), SizedUpTo(G, n + 1, long),
         \A i \in 1 .. n : long[i] = packets[i]
  PROVE  G[n] = F[n]
<1>1. \A i \in 1 .. n : i \in 1 .. n + 1
  OBVIOUS
<1>2. G[0] = F[0]
  BY DEF SizedUpTo
<1>3. \A i \in 1 .. n : G[i - 1] = F[i - 1] => G[i] = F[i]
  BY <1>1 DEF SizedUpTo
<1>4. SameSteps(G, F, n)
  BY <1>2, <1>3 DEF SameSteps
<1> QED
  BY <1>4, SameAtLast

\* One more packet adds its size.
LEMMA SizeAppend ==
  ASSUME NEW S, NEW packets \in Seq(S), NEW p \in S, \A q \in S : q.size \in Nat
  PROVE  Size(packets) \in Nat /\ Size(Append(packets, p)) = Size(packets) + p.size
<1> DEFINE n    == Len(packets)
           long == Append(packets, p)
<1>1. /\ n \in Nat /\ long \in Seq(S) /\ Len(long) = n + 1 /\ long[n + 1] = p
      /\ \A i \in 1 .. n : long[i] = packets[i]
  BY LenProperties, AppendProperties
<1>2. PICK F : SizedUpTo(F, n, packets) /\ Size(packets) = F[n]
  BY SizeRecursion
<1>3. PICK G : SizedUpTo(G, n + 1, long) /\ Size(long) = G[n + 1]
  <2> HIDE DEF n, long
  <2>1. \E G : SizedUpTo(G, Len(long), long) /\ Size(long) = G[Len(long)]
    BY <1>1, SizeRecursion
  <2> QED
    BY <1>1, <2>1
<1> HIDE DEF n, long
<1>4. G[n] = F[n]
  BY <1>1, <1>2, <1>3, SizedAlike
<1>5. n + 1 \in 1 .. n + 1 /\ (n + 1) - 1 = n /\ n \in 0 .. n
  BY <1>1
<1>6. G[n + 1] = G[n] + p.size
  BY <1>1, <1>3, <1>5 DEF SizedUpTo
<1>7. Size(packets) \in Nat
  BY <1>2, <1>5 DEF SizedUpTo
<1> QED
  BY <1>2, <1>3, <1>4, <1>6, <1>7 DEF long

\* No packets have no size.
LEMMA SizeNone == Size(<<>>) = 0
<1> DEFINE none == <<>>
           S    == [size : Nat]
<1>1. none \in Seq(S) /\ Len(none) = 0
  OBVIOUS
<1>2. \A p \in S : p.size \in Nat
  OBVIOUS
<1> HIDE DEF none, S
<1>3. \E F : SizedUpTo(F, Len(none), none) /\ Size(none) = F[Len(none)]
  BY <1>1, <1>2, SizeRecursion
<1> QED
  BY <1>1, <1>3 DEF SizedUpTo, none
-----------------------------------------------------------------------------
(* The files of the flows. *)

\* What a step of the measurement does to the records, the statistics and the files.
KeepsRecords ==
  /\ dec'.out = dec.out /\ dec'.infos = dec.infos
  /\ dec'.files = dec.files \/ (dec'.files = <<>> /\ dec'.pc = "done")
  /\ dec.pc = "done" => dec'.pc = "done"
  /\ dec'.begin = dec.begin /\ dec'.read = dec.read
  /\ dec'.pc = "done" =>
       \/ dec.pc = "done" /\ dec'.total = dec.total
       \/ dec'.total = Totals(dec.infos, Valid(asked.dec), dec.begin)
Marked(r) == IF asked.dec.join THEN [r EXCEPT !.flow = OneFlow] ELSE r
ReadsRecord(r) ==
  /\ dec.pc = "reading" /\ dec'.pc = "reading" /\ dec'.out = Append(dec.out, r)
  /\ dec.read < Len(Input) /\ dec'.read = dec.read + 1 /\ r.rx = Input[dec.read + 1].rx
  /\ r.flow \notin asked.dec.keep => dec'.infos = dec.infos /\ dec'.files = dec.files /\ dec'.begin = dec.begin
  /\ r.flow \in asked.dec.keep =>
       /\ dec'.infos = SetLine(dec.infos, Marked(r))
       /\ dec'.begin = IF dec.infos = <<>> \/ r.rx < dec.begin THEN r.rx ELSE dec.begin
       /\ dec'.files = IF Splits(asked.dec) THEN Split(dec.files, Marked(r)) ELSE dec.files

\* What a turn of the loop of main does to the records, the statistics and the files.
LEMMA ReadLineMoves ==
  ASSUME MeasureInv, ReadLine(asked.dec, Input, sendLog)
  PROVE  KeepsRecords \/ \E r \in Records : ReadsRecord(r)
<1> DEFINE line == Input[dec.read + 1]
           rec  == asked.dec.reconstruct
           r    == IF rec THEN Reconstructed(sendLog, line) ELSE line
           s    == IF asked.dec.join THEN [r EXCEPT !.flow = OneFlow] ELSE r
<1>1. /\ DOMAIN dec = DecoderFields /\ dec.read \in Nat /\ dec.pc = "reading" /\ dec.read < Len(Input)
      /\ sendLog \in Seq(Records) /\ recvLog \in Seq(Records)
  BY DEF ReadLine, MeasureInv, MeasureTypes
<1>2. line \in Records
  <2>1. Input \in Seq(Records)
    BY <1>1 DEF Input
  <2>2. PICK a \in Nat, n \in Nat : a = dec.read /\ n = Len(Input) /\ DOMAIN Input = 1 .. n
    BY <1>1, <2>1, LenProperties
  <2>3. a < n
    BY <1>1, <2>2
  <2>4. a + 1 \in DOMAIN Input
    BY <2>2, <2>3
  <2> QED
    BY <2>1, <2>2, <2>4
<1> HIDE DEF line
<1>3. CASE rec /\ Corresponding(sendLog, line) = {}
  <2>1. dec' = [dec EXCEPT !.pc = "failed"]
    BY <1>3 DEF ReadLine, line
  <2>2. UNCHANGED <<dec.out, dec.infos, dec.files, dec.begin, dec.read>> /\ dec'.pc = "failed"
    BY <1>1, <2>1 DEF DecoderFields
  <2> QED
    BY <1>1, <2>2 DEF KeepsRecords
<1>4. CASE ~(rec /\ Corresponding(sendLog, line) = {})
  <2>1. r \in Records /\ r.rx = Input[dec.read + 1].rx
    <3>0. line.rx = Input[dec.read + 1].rx
      BY DEF line
    <3>1. CASE ~rec
      BY <1>2, <3>0, <3>1
    <3>2. CASE rec
      <4>1. PICK i \in DOMAIN sendLog : /\ sendLog[i].flow = line.flow /\ sendLog[i].seq = line.seq
                                        /\ Reconstructed(sendLog, line) = [line EXCEPT !.tx = sendLog[i].tx]
        BY <1>1, <1>2, <1>4, <3>2, ReconstructedFrom
      <4>2. PICK m \in Records : m = sendLog[i]
        BY <1>1
      <4>3. [line EXCEPT !.tx = m.tx] \in Records /\ [line EXCEPT !.tx = m.tx].rx = line.rx
        BY <1>2 DEF Records
      <4> QED
        BY <3>0, <3>2, <4>1, <4>2, <4>3
    <3> QED
      BY <3>1, <3>2
  <2>2. IF Filtered(asked.dec, r)
        THEN dec' = [dec EXCEPT !.read = @ + 1, !.out = Append(@, r)]
        ELSE dec' = [dec EXCEPT !.read = @ + 1, !.out = Append(@, r),
                       !.infos = SetLine(@, s),
                       !.files = IF Splits(asked.dec) THEN Split(@, s) ELSE @,
                       !.begin = IF dec.infos = <<>> \/ r.rx < @ THEN r.rx ELSE @]
    BY <1>4 DEF ReadLine, line
  <2>3. s = Marked(r)
    BY DEF Marked
  <2> HIDE DEF r, s
  <2>4. /\ {"pc", "read", "out", "infos", "files", "begin"} \subseteq DOMAIN dec
        /\ Filtered(asked.dec, r) <=> r.flow \notin asked.dec.keep
    BY <1>1 DEF DecoderFields, Filtered
  <2>5. CASE Filtered(asked.dec, r)
    <3>1. dec' = [dec EXCEPT !.read = @ + 1, !.out = Append(@, r)]
      BY <2>2, <2>5
    <3>2. /\ dec'.out = Append(dec.out, r) /\ dec'.pc = dec.pc /\ dec'.infos = dec.infos /\ dec'.files = dec.files
          /\ dec'.begin = dec.begin /\ dec'.read = dec.read + 1
      BY <2>4, <3>1
    <3>3. ReadsRecord(r)
      BY <1>1, <2>1, <2>4, <2>5, <3>2 DEF ReadsRecord
    <3> QED
      BY <2>1, <3>3
  <2>6. CASE ~Filtered(asked.dec, r)
    <3>1. dec' = [dec EXCEPT !.read = @ + 1, !.out = Append(@, r),
                             !.infos = SetLine(@, s),
                             !.files = IF Splits(asked.dec) THEN Split(@, s) ELSE @,
                             !.begin = IF dec.infos = <<>> \/ r.rx < @ THEN r.rx ELSE @]
      BY <2>2, <2>6
    <3>2. /\ dec'.out = Append(dec.out, r) /\ dec'.pc = dec.pc /\ dec'.infos = SetLine(dec.infos, s)
          /\ dec'.files = IF Splits(asked.dec) THEN Split(dec.files, s) ELSE dec.files
          /\ dec'.begin = IF dec.infos = <<>> \/ r.rx < dec.begin THEN r.rx ELSE dec.begin
          /\ dec'.read = dec.read + 1
      BY <2>4, <3>1
    <3>3. ReadsRecord(r)
      BY <1>1, <2>1, <2>3, <2>4, <2>6, <3>2 DEF ReadsRecord
    <3> QED
      BY <2>1, <3>3
  <2> QED
    BY <2>5, <2>6
<1> QED
  BY <1>3, <1>4

\* So does every step of the measurement.
LEMMA DecoderMoves ==
  ASSUME MeasureInv, [Next]_vars
  PROVE  /\ asked' = asked
         /\ KeepsRecords \/ \E r \in Records : ReadsRecord(r)
<1>1. asked' = asked
  BY DEF Next, Sender, StartFlow, SendPacket, SendFails, ReadEcho, WaitOver, OffOver, ReadLastEcho, TailOver,
         Tick, Receiver, ReceiveDatagram, ReceiveRaw, ReadPreamble, ReadPayload, Unread, StartDecoder,
         Decodes, Others, senderVars, vars
<1>2. CASE UNCHANGED dec
  BY <1>1, <1>2, Zenon DEF KeepsRecords
<1>3. CASE StartDecoder
  <2>1. DOMAIN dec = DecoderFields /\ dec.pc = "off" /\ dec' = [dec EXCEPT !.pc = "reading"]
    BY <1>3 DEF StartDecoder, MeasureInv, MeasureTypes
  <2>2. UNCHANGED <<dec.out, dec.infos, dec.files, dec.begin, dec.read>> /\ dec'.pc = "reading"
    BY <2>1 DEF DecoderFields
  <2> QED
    BY <1>1, <2>1, <2>2 DEF KeepsRecords
<1>4. CASE ReadLine(asked.dec, Input, sendLog)
  BY <1>1, <1>4, ReadLineMoves
<1>5. CASE Elaborate(asked.dec, Input)
  <2>1. DOMAIN dec = DecoderFields
    BY DEF MeasureInv, MeasureTypes
  <2>2. /\ dec'.pc = "done" /\ dec'.files = (IF asked.dec.split THEN dec.files ELSE <<>>)
        /\ dec'.out = dec.out /\ dec'.infos = dec.infos /\ dec'.begin = dec.begin /\ dec'.read = dec.read
        /\ dec'.total = Totals(dec.infos, Valid(asked.dec), dec.begin)
    BY <1>5, <2>1 DEF Elaborate, DecoderFields
  <2> QED
    BY <1>1, <2>2 DEF KeepsRecords
<1> QED
  BY SMTT(30), <1>2, <1>3, <1>4, <1>5 DEF Next, Decodes, vars

\* The files: one for every flow that is considered and has records, if there are files.
FlowFiles == [flow : Flows, recs : Seq(Records)]
FilesKept ==
  ~asked.dec.join =>
    /\ dec.files \in Seq(FlowFiles)
    /\ \A i \in DOMAIN dec.files :
         /\ dec.files[i].flow \in asked.dec.keep
         /\ dec.files[i].recs = OfFlows(dec.out, {dec.files[i].flow})
    /\ \A i, j \in DOMAIN dec.files : dec.files[i].flow = dec.files[j].flow => i = j
    /\ dec.pc # "done" /\ Splits(asked.dec) =>
         \A f \in asked.dec.keep :
           (\A i \in DOMAIN dec.files : dec.files[i].flow # f) => OfFlows(dec.out, {f}) = <<>>
    /\ ~Splits(asked.dec) => dec.files = <<>>

\* There are no files at first.
LEMMA FilesInitially == Init => FilesKept
<1> SUFFICES ASSUME Init PROVE FilesKept
  OBVIOUS
<1>1. dec.files = <<>> /\ dec.out = <<>>
  BY DEF Init, DecoderInit
<1>2. <<>> \in Seq(FlowFiles) /\ DOMAIN <<>> = {}
  OBVIOUS
<1>3. \A f : OfFlows(<<>>, {f}) = <<>>
  BY OfFlowsNone
<1> QED
  BY <1>1, <1>2, <1>3 DEF FilesKept

\* split: a record goes to the end of the file of its flow, which is new if there was none.
LEMMA SplitFiles ==
  ASSUME NEW files \in Seq(FlowFiles), NEW r \in Records,
         \A i, j \in DOMAIN files : files[i].flow = files[j].flow => i = j
  PROVE  /\ Split(files, r) \in Seq(FlowFiles) /\ DOMAIN files \subseteq DOMAIN Split(files, r)
         /\ \E k \in DOMAIN Split(files, r) :
              /\ Split(files, r)[k].flow = r.flow
              /\ k \notin DOMAIN files =>
                   Split(files, r)[k].recs = <<r>> /\ \A i \in DOMAIN files : files[i].flow # r.flow
              /\ k \in DOMAIN files =>
                   files[k].flow = r.flow /\ Split(files, r)[k].recs = Append(files[k].recs, r)
              /\ \A i \in DOMAIN Split(files, r) : i # k =>
                   i \in DOMAIN files /\ Split(files, r)[i] = files[i] /\ files[i].flow # r.flow
<1> DEFINE known == {i \in DOMAIN files : files[i].flow = r.flow}
<1>1. r.flow \in Flows /\ <<r>> \in Seq(Records) /\ DOMAIN files = 1 .. Len(files) /\ Len(files) \in Nat
  BY LenProperties DEF Records
<1>2. CASE known = {}
  <2> DEFINE new == [flow |-> r.flow, recs |-> <<r>>]
  <2>1. Split(files, r) = Append(files, new)
    BY <1>2 DEF Split
  <2>2. new \in FlowFiles /\ new.flow = r.flow /\ new.recs = <<r>>
    BY <1>1 DEF FlowFiles
  <2> HIDE DEF new
  <2>3. PICK n \in Nat : n = Len(files)
    BY <1>1
  <2>4. /\ Append(files, new) \in Seq(FlowFiles) /\ DOMAIN Append(files, new) = 1 .. n + 1
        /\ Append(files, new)[n + 1] = new /\ \A i \in 1 .. n : Append(files, new)[i] = files[i]
    BY <2>2, <2>3, AppendProperties, LenProperties
  <2>5. DOMAIN files = 1 .. n /\ \A i \in 1 .. n : files[i].flow # r.flow
    BY <1>1, <1>2, <2>3
  <2>6. /\ n + 1 \in 1 .. n + 1 /\ n + 1 \notin 1 .. n /\ 1 .. n \subseteq 1 .. n + 1
        /\ \A i \in 1 .. n + 1 : i # n + 1 => i \in 1 .. n
    OBVIOUS
  <2> QED
    BY <2>1, <2>2, <2>4, <2>5, <2>6
<1>3. CASE known # {}
  <2> DEFINE k == CHOOSE i \in known : TRUE
  <2>1. Split(files, r) = [files EXCEPT ![k].recs = Append(@, r)]
    BY <1>3 DEF Split
  <2>2. k \in known
    BY <1>3
  <2> HIDE DEF k
  <2>3. k \in DOMAIN files /\ files[k].flow = r.flow
    BY <2>2
  <2>4. PICK old \in FlowFiles : old = files[k]
    BY <2>3
  <2>5. PICK recs \in Seq(Records) : recs = Append(old.recs, r)
    BY AppendProperties DEF FlowFiles
  <2> DEFINE new == [old EXCEPT !.recs = recs]
  <2>6. new \in FlowFiles /\ new.flow = r.flow /\ new.recs = Append(files[k].recs, r)
    BY <2>3, <2>4, <2>5 DEF FlowFiles
  <2>7. Split(files, r) = [files EXCEPT ![k] = new]
    BY <2>1, <2>3, <2>4, <2>5
  <2> HIDE DEF new
  <2>8. /\ Split(files, r) \in Seq(FlowFiles) /\ DOMAIN Split(files, r) = DOMAIN files
        /\ Split(files, r)[k] = new
        /\ \A i \in DOMAIN files : i # k => Split(files, r)[i] = files[i]
    <3>1. [files EXCEPT ![k] = new] \in Seq(FlowFiles)
      BY <2>3, <2>6, ExceptSeq
    <3> QED
      BY <2>3, <2>7, <3>1
  <2>9. \A i \in DOMAIN files : i # k => files[i].flow # r.flow
    BY <2>3
  <2> QED
    BY <2>3, <2>6, <2>8, <2>9
<1> QED
  BY <1>2, <1>3

\* A step of the measurement leaves the files in order.
LEMMA FilesStep == MeasureInv /\ FilesKept /\ [Next]_vars => FilesKept'
<1> SUFFICES ASSUME MeasureInv, FilesKept, [Next]_vars, ~asked.dec.join PROVE FilesKept'
  BY DecoderMoves DEF FilesKept
<1>1. /\ asked' = asked /\ dec.out \in Seq(Records)
      /\ KeepsRecords \/ \E r \in Records : ReadsRecord(r)
  BY DecoderMoves DEF MeasureInv, MeasureTypes
<1>2. /\ dec.files \in Seq(FlowFiles)
      /\ \A i \in DOMAIN dec.files :
           /\ dec.files[i].flow \in asked.dec.keep
           /\ dec.files[i].recs = OfFlows(dec.out, {dec.files[i].flow})
      /\ \A i, j \in DOMAIN dec.files : dec.files[i].flow = dec.files[j].flow => i = j
      /\ dec.pc # "done" /\ Splits(asked.dec) =>
           \A f \in asked.dec.keep :
             (\A i \in DOMAIN dec.files : dec.files[i].flow # f) => OfFlows(dec.out, {f}) = <<>>
      /\ ~Splits(asked.dec) => dec.files = <<>>
  BY DEF FilesKept
<1>3. CASE KeepsRecords
  <2>1. <<>> \in Seq(FlowFiles) /\ DOMAIN <<>> = {}
    OBVIOUS
  <2>2. dec'.out = dec.out
    BY <1>3 DEF KeepsRecords
  <2>3. CASE dec'.files = dec.files
    <3>1. dec.pc = "done" => dec'.pc = "done"
      BY <1>3 DEF KeepsRecords
    <3> QED
      BY <1>1, <1>2, <2>2, <2>3, <3>1 DEF FilesKept
  <2>4. CASE dec'.files = <<>> /\ dec'.pc = "done"
    BY <1>1, <2>1, <2>4 DEF FilesKept
  <2> QED
    BY <1>3, <2>3, <2>4 DEF KeepsRecords
<1>4. ASSUME NEW r \in Records, ReadsRecord(r) PROVE FilesKept'
  <2> DEFINE keep == asked.dec.keep
             old  == dec.files
             new  == dec'.files
  <2>1. /\ dec'.out = Append(dec.out, r) /\ dec.pc # "done" /\ dec'.pc # "done"
        /\ r.flow \notin keep => new = old
        /\ r.flow \in keep => new = (IF Splits(asked.dec) THEN Split(old, r) ELSE old)
    BY <1>4 DEF ReadsRecord, Marked
  <2>2. \A f : OfFlows(dec'.out, {f}) =
                 IF r.flow = f THEN Append(OfFlows(dec.out, {f}), r) ELSE OfFlows(dec.out, {f})
    <3> TAKE f
    <3>1. OfFlows(Append(dec.out, r), {f}) =
            IF r.flow \in {f} THEN Append(OfFlows(dec.out, {f}), r) ELSE OfFlows(dec.out, {f})
      <4> DEFINE recs == dec.out
                 flows == {f}
      <4>1. recs \in Seq(Records)
        BY <1>1
      <4> HIDE DEF recs, flows
      <4>2. OfFlows(Append(recs, r), flows) =
              IF r.flow \in flows THEN Append(OfFlows(recs, flows), r) ELSE OfFlows(recs, flows)
        BY <4>1, OfFlowsAppend
      <4> QED
        BY <4>2 DEF recs, flows
    <3> QED
      BY <2>1, <3>1
  <2>3. CASE new = old /\ (r.flow \in keep => ~Splits(asked.dec))
    <3>1. \A i \in DOMAIN old : old[i].flow \in keep /\ old[i].flow # r.flow
      <4>1. CASE r.flow \notin keep
        BY <1>2, <4>1
      <4>2. CASE r.flow \in keep
        BY <1>2, <2>3, <4>2
      <4> QED
        BY <4>1, <4>2
    <3>2. \A i \in DOMAIN old : old[i].recs = OfFlows(dec'.out, {old[i].flow})
      BY <1>2, <2>2, <3>1
    <3>3. Splits(asked.dec) =>
            \A f \in keep : (\A i \in DOMAIN old : old[i].flow # f) => OfFlows(dec'.out, {f}) = <<>>
      BY <1>2, <2>1, <2>2, <2>3
    <3> QED
      BY <1>1, <1>2, <2>1, <2>3, <3>1, <3>2, <3>3 DEF FilesKept
  <2>4. CASE new = Split(old, r) /\ r.flow \in keep /\ Splits(asked.dec)
    <3>1. PICK k \in DOMAIN new :
            /\ new[k].flow = r.flow
            /\ k \notin DOMAIN old => new[k].recs = <<r>> /\ \A i \in DOMAIN old : old[i].flow # r.flow
            /\ k \in DOMAIN old => old[k].flow = r.flow /\ new[k].recs = Append(old[k].recs, r)
            /\ \A i \in DOMAIN new : i # k => i \in DOMAIN old /\ new[i] = old[i] /\ old[i].flow # r.flow
      <4> HIDE DEF new, old, keep
      <4>1. \E k \in DOMAIN Split(old, r) :
              /\ Split(old, r)[k].flow = r.flow
              /\ k \notin DOMAIN old =>
                   Split(old, r)[k].recs = <<r>> /\ \A i \in DOMAIN old : old[i].flow # r.flow
              /\ k \in DOMAIN old =>
                   old[k].flow = r.flow /\ Split(old, r)[k].recs = Append(old[k].recs, r)
              /\ \A i \in DOMAIN Split(old, r) : i # k =>
                   i \in DOMAIN old /\ Split(old, r)[i] = old[i] /\ old[i].flow # r.flow
        BY <1>2, SplitFiles DEF old
      <4> QED
        BY <2>4, <4>1
    <3>2. new \in Seq(FlowFiles) /\ DOMAIN old \subseteq DOMAIN new
      BY <1>2, <2>4, SplitFiles
    <3> HIDE DEF new, old, keep
    <3>3. new[k].recs = OfFlows(dec'.out, {r.flow})
      <4>1. CASE k \in DOMAIN old
        BY <1>2, <2>2, <3>1, <4>1 DEF old
      <4>2. CASE k \notin DOMAIN old
        <5>1. OfFlows(dec.out, {r.flow}) = <<>>
          BY <1>2, <2>1, <2>4, <3>1, <4>2 DEF old, keep
        <5>2. OfFlows(dec'.out, {r.flow}) = Append(<<>>, r)
          BY <2>2, <5>1
        <5>3. Append(<<>>, r) = <<r>>
          OBVIOUS
        <5> QED
          BY <3>1, <4>2, <5>2, <5>3
      <4> QED
        BY <4>1, <4>2
    <3>4. \A i \in DOMAIN new : new[i].flow \in keep /\ new[i].recs = OfFlows(dec'.out, {new[i].flow})
      <4> TAKE i \in DOMAIN new
      <4>1. CASE i = k
        BY <2>4, <3>1, <3>3, <4>1
      <4>2. CASE i # k
        <5>1. i \in DOMAIN old /\ new[i] = old[i] /\ old[i].flow # r.flow
          BY <3>1, <4>2
        <5>2. old[i].flow \in keep /\ old[i].recs = OfFlows(dec.out, {old[i].flow})
          BY <1>2, <5>1 DEF old, keep
        <5>3. OfFlows(dec'.out, {old[i].flow}) = OfFlows(dec.out, {old[i].flow})
          BY <2>2, <5>1
        <5> QED
          BY <5>1, <5>2, <5>3
      <4> QED
        BY <4>1, <4>2
    <3>5. \A i, j \in DOMAIN new : new[i].flow = new[j].flow => i = j
      <4> TAKE i, j \in DOMAIN new
      <4>1. CASE i = k \/ j = k
        BY <3>1, <4>1
      <4>2. CASE i # k /\ j # k
        BY <1>2, <3>1, <4>2 DEF old
      <4> QED
        BY <4>1, <4>2
    <3>6. \A f \in keep : (\A i \in DOMAIN new : new[i].flow # f) => OfFlows(dec'.out, {f}) = <<>>
      <4> SUFFICES ASSUME NEW f \in keep, \A i \in DOMAIN new : new[i].flow # f
                   PROVE  OfFlows(dec'.out, {f}) = <<>>
        OBVIOUS
      <4>1. r.flow # f
        BY <3>1
      <4>2. \A i \in DOMAIN old : old[i].flow # f
        BY <3>1, <3>2, <4>1
      <4>3. OfFlows(dec.out, {f}) = <<>>
        BY <1>2, <2>1, <2>4, <4>2 DEF old, keep
      <4> QED
        BY <2>2, <4>1, <4>3
    <3> QED
      BY <1>1, <2>4, <3>2, <3>4, <3>5, <3>6 DEF FilesKept, new, keep
  <2> QED
    BY <2>1, <2>3, <2>4
<1> QED
  BY <1>1, <1>3, <1>4

\* split: for any log, any flows in any order, with or without option -f, the file of a flow
\* holds the records of that flow that ITGDec read so far - all of them, in the order of the
\* log, and none of another flow.
THEOREM FlowsApart == Spec => []FlowsKeptApart
<1>1. FilesKept => FlowsKeptApart
  BY DEF FilesKept, FlowsKeptApart, RecordsOf
<1> QED
  BY <1>1, MeasureInitially, MeasureStep, FilesInitially, FilesStep, PTL DEF Spec
-----------------------------------------------------------------------------
(* The statistics of the flows. *)

\* Statistics, and the records they are made of.
InfoTypes ==
  [flow : Flows \cup {OneFlow}, byterecv : Nat, pktrecv : Nat, pktloss : Int, pktdup : Int, maxSeq : Nat,
   lossEvents : Int, delay : Int, maxdelay : Int, mindelay : Int, lastdelay : Int, jitter : Int,
   first : Nat, last : Nat]
MarkedRecords == [flow : Flows \cup {OneFlow}, seq : Nat, tx : Int, rx : Nat, size : Nat]

\* What setline counts of the records of a flow.
Tallies(s, recs) ==
  /\ s.pktrecv = Len(recs) /\ s.byterecv = Size(recs) /\ s.pktrecv > 0
  /\ s.maxSeq \in Seen(recs) /\ \A q \in Seen(recs) : q <= s.maxSeq
  /\ IsFiniteSet(Seen(recs))
  /\ 0 \notin Seen(recs) =>
       /\ s.pktdup \in 0 .. Len(recs) - Cardinality(Seen(recs))
       /\ s.pktrecv > 1 => s.pktloss = s.maxSeq - s.pktrecv + s.pktdup /\ s.pktloss >= 0

\* One entry of flowinfo[] for every flow that is considered and has records.
InfosKept ==
  /\ dec.infos \in Seq(InfoTypes)
  /\ \A z, y \in DOMAIN dec.infos : dec.infos[z].flow = dec.infos[y].flow => z = y
  /\ asked.dec.join => \A z \in DOMAIN dec.infos : dec.infos[z].flow = OneFlow
  /\ ~asked.dec.join =>
       /\ \A z \in DOMAIN dec.infos :
            /\ dec.infos[z].flow \in asked.dec.keep
            /\ Tallies(dec.infos[z], OfFlows(dec.out, {dec.infos[z].flow}))
       /\ \A f \in asked.dec.keep :
            (\A z \in DOMAIN dec.infos : dec.infos[z].flow # f) => OfFlows(dec.out, {f}) = <<>>

\* Delays.
LEMMA LateTypes ==
  ASSUME NEW r \in MarkedRecords
  PROVE  Late(r) \in Int
BY DEF Late, MarkedRecords

\* What fabs makes of a difference of delays.
LEMMA AbsTypes == \A n \in Int : Abs(n) \in Int
BY DEF Abs

\* setline: the first record of a flow, the losses after another one, and all of its statistics.
LEMMA NewFlowTypes ==
  ASSUME NEW r \in MarkedRecords
  PROVE  /\ NewFlow(r) \in InfoTypes /\ NewFlow(r).flow = r.flow
         /\ NewFlow(r).byterecv = r.size /\ NewFlow(r).pktrecv = 1
         /\ NewFlow(r).pktdup = 0 /\ NewFlow(r).maxSeq = r.seq
<1>1. PICK late \in Int : late = Late(r)
  BY LateTypes
<1>2. r.flow \in Flows \cup {OneFlow} /\ r.size \in Nat /\ r.seq \in Nat /\ r.rx \in Nat
  BY DEF MarkedRecords
<1> QED
  BY <1>1, <1>2 DEF NewFlow, InfoTypes

\* The losses of a flow after one more record have their types.
LEMMA LossesTypes ==
  ASSUME NEW s \in InfoTypes, NEW r \in MarkedRecords
  PROVE  /\ Losses(s, r) \in InfoTypes
         /\ Losses(s, r).flow = s.flow /\ Losses(s, r).byterecv = s.byterecv
         /\ Losses(s, r).pktrecv = s.pktrecv
         /\ Losses(s, r).maxSeq = IF r.seq > s.maxSeq THEN r.seq ELSE s.maxSeq
         /\ Losses(s, r).maxSeq < (s.pktrecv + 1) - s.pktdup =>
              Losses(s, r).pktdup = (s.pktrecv + 1) - Losses(s, r).maxSeq /\ Losses(s, r).pktloss = 0
         /\ ~(Losses(s, r).maxSeq < (s.pktrecv + 1) - s.pktdup) =>
              /\ Losses(s, r).pktdup = s.pktdup
              /\ Losses(s, r).pktloss = Losses(s, r).maxSeq - (s.pktrecv + 1) + s.pktdup
<1>1. /\ s.pktrecv \in Nat /\ s.maxSeq \in Nat /\ s.pktdup \in Int /\ s.pktloss \in Int
      /\ s.lossEvents \in Int /\ r.seq \in Nat
  BY DEF InfoTypes, MarkedRecords
<1>2. PICK recv \in Nat, dups \in Int : recv = s.pktrecv + 1 /\ dups = s.pktdup
  BY <1>1
<1>3. PICK max \in Nat : max = IF r.seq > s.maxSeq THEN r.seq ELSE s.maxSeq
  BY <1>1
<1>4. PICK events \in Int : events = IF r.seq > s.pktloss + recv THEN s.lossEvents + 1 ELSE s.lossEvents
  BY <1>1
<1>5. PICK loss \in Int : loss = max - recv + s.pktdup
  BY <1>1
<1>6. PICK burst \in Int : burst = (IF loss < s.pktloss THEN events - 1 ELSE events) % UIntRange
  <2>1. PICK e \in Int : e = IF loss < s.pktloss THEN events - 1 ELSE events
    OBVIOUS
  <2>2. \A u \in Nat \ {0} : e % u \in Int
    OBVIOUS
  <2> QED
    BY <2>1, <2>2, DecoderAssumption
<1>7. PICK dup \in Int : dup = recv - max
  OBVIOUS
<1>8. Losses(s, r) =
        IF max < recv - s.pktdup
        THEN [s EXCEPT !.maxSeq = max, !.pktdup = dup, !.pktloss = 0, !.lossEvents = events]
        ELSE [s EXCEPT !.maxSeq = max, !.pktloss = loss, !.lossEvents = burst]
  BY <1>2, <1>3, <1>4, <1>5, <1>6, <1>7 DEF Losses
<1>9. CASE max < recv - s.pktdup
  <2> DEFINE t == [s EXCEPT !.maxSeq = max, !.pktdup = dup, !.pktloss = 0, !.lossEvents = events]
  <2>1. /\ t \in InfoTypes /\ t.flow = s.flow /\ t.byterecv = s.byterecv /\ t.pktrecv = s.pktrecv
        /\ t.maxSeq = max /\ t.pktdup = dup /\ t.pktloss = 0
    <3>1. PICK none \in Int : none = 0
      OBVIOUS
    <3>2. t = [s EXCEPT !.maxSeq = max, !.pktdup = dup, !.pktloss = none, !.lossEvents = events]
      BY <3>1
    <3> HIDE DEF t
    <3>3. t \in InfoTypes /\ t.flow = s.flow /\ t.byterecv = s.byterecv /\ t.pktrecv = s.pktrecv
      BY <3>2 DEF InfoTypes
    <3>4. t.maxSeq = max /\ t.pktdup = dup /\ t.pktloss = none
      BY <3>2 DEF InfoTypes
    <3> QED
      BY <3>1, <3>3, <3>4
  <2>2. Losses(s, r) = t
    BY <1>8, <1>9
  <2> HIDE DEF t
  <2> QED
    <3>1. Losses(s, r).maxSeq = max /\ Losses(s, r).pktdup = dup /\ Losses(s, r).pktloss = 0
      BY <2>1, <2>2
    <3>2. max < recv - dups /\ dup = recv - max
      BY <1>2, <1>7, <1>9
    <3>3. Losses(s, r).maxSeq = IF r.seq > s.maxSeq THEN r.seq ELSE s.maxSeq
      BY <1>3, <3>1
    <3>4. /\ Losses(s, r) \in InfoTypes /\ Losses(s, r).flow = s.flow
          /\ Losses(s, r).byterecv = s.byterecv /\ Losses(s, r).pktrecv = s.pktrecv
      BY <2>1, <2>2
    <3>5. recv - dups = (s.pktrecv + 1) - s.pktdup
      BY <1>2, Zenon
    <3>6. recv - max = (s.pktrecv + 1) - max
      BY <1>2, Zenon
    <3>7. max - recv + dups = max - (s.pktrecv + 1) + s.pktdup
      BY <1>2, Zenon
    <3>8. /\ Losses(s, r).maxSeq < (s.pktrecv + 1) - s.pktdup
          /\ Losses(s, r).pktdup = (s.pktrecv + 1) - Losses(s, r).maxSeq /\ Losses(s, r).pktloss = 0
      BY <3>1, <3>2, <3>5, <3>6, Zenon
    <3> QED
      BY <3>3, <3>4, <3>8, Zenon
<1>10. CASE ~(max < recv - s.pktdup)
  <2> DEFINE t == [s EXCEPT !.maxSeq = max, !.pktloss = loss, !.lossEvents = burst]
  <2>1. /\ t \in InfoTypes /\ t.flow = s.flow /\ t.byterecv = s.byterecv /\ t.pktrecv = s.pktrecv
        /\ t.maxSeq = max /\ t.pktdup = s.pktdup /\ t.pktloss = loss
    BY DEF InfoTypes
  <2>2. Losses(s, r) = t
    BY <1>8, <1>10
  <2> HIDE DEF t
  <2> QED
    <3>1. Losses(s, r).maxSeq = max /\ Losses(s, r).pktdup = dups /\ Losses(s, r).pktloss = loss
      BY <1>2, <2>1, <2>2
    <3>2. ~(max < recv - dups) /\ loss = max - recv + dups
      BY <1>2, <1>5, <1>10
    <3>3. Losses(s, r).maxSeq = IF r.seq > s.maxSeq THEN r.seq ELSE s.maxSeq
      BY <1>3, <3>1
    <3>4. /\ Losses(s, r) \in InfoTypes /\ Losses(s, r).flow = s.flow
          /\ Losses(s, r).byterecv = s.byterecv /\ Losses(s, r).pktrecv = s.pktrecv
      BY <2>1, <2>2
    <3>5. recv - dups = (s.pktrecv + 1) - s.pktdup
      BY <1>2, Zenon
    <3>6. recv - max = (s.pktrecv + 1) - max
      BY <1>2, Zenon
    <3>7. max - recv + dups = max - (s.pktrecv + 1) + s.pktdup
      BY <1>2, Zenon
    <3>8. /\ ~(Losses(s, r).maxSeq < (s.pktrecv + 1) - s.pktdup)
          /\ Losses(s, r).pktdup = s.pktdup
          /\ Losses(s, r).pktloss = Losses(s, r).maxSeq - (s.pktrecv + 1) + s.pktdup
      BY <1>2, <3>1, <3>2, <3>5, <3>7, Zenon
    <3> QED
      BY <3>3, <3>4, <3>8, Zenon
<1> QED
  BY <1>9, <1>10

\* The statistics of a flow after one more record have their types.
LEMMA UpdateTypes ==
  ASSUME NEW s \in InfoTypes, NEW r \in MarkedRecords
  PROVE  /\ Update(s, r) \in InfoTypes /\ Update(s, r).flow = s.flow
         /\ Update(s, r).byterecv = s.byterecv + r.size /\ Update(s, r).pktrecv = s.pktrecv + 1
         /\ Update(s, r).maxSeq = Losses(s, r).maxSeq /\ Update(s, r).pktdup = Losses(s, r).pktdup
         /\ Update(s, r).pktloss = Losses(s, r).pktloss
<1>1. PICK l \in InfoTypes : l = Losses(s, r)
  BY LossesTypes
<1>2. l.flow = s.flow /\ l.byterecv = s.byterecv /\ l.pktrecv = s.pktrecv
  BY <1>1, LossesTypes
<1>3. PICK late \in Int : late = Late(r)
  BY LateTypes
<1>4. /\ l.byterecv \in Nat /\ l.pktrecv \in Nat /\ l.delay \in Int /\ l.maxdelay \in Int
      /\ l.mindelay \in Int /\ l.jitter \in Int /\ l.first \in Nat /\ l.last \in Nat
      /\ s.lastdelay \in Int /\ r.size \in Nat /\ r.rx \in Nat
  BY DEF InfoTypes, MarkedRecords
<1>5. PICK bytes \in Nat, recv \in Nat, delay \in Int :
        bytes = l.byterecv + r.size /\ recv = l.pktrecv + 1 /\ delay = l.delay + late
  BY <1>4
<1>6. PICK maxd \in Int, mind \in Int :
        /\ maxd = IF late > l.maxdelay THEN late ELSE l.maxdelay
        /\ mind = IF late < l.mindelay THEN late ELSE l.mindelay
  BY <1>4
<1>7. PICK jit \in Int : jit = l.jitter + Abs(s.lastdelay - late)
  <2>1. s.lastdelay - late \in Int
    BY <1>4
  <2>2. Abs(s.lastdelay - late) \in Int
    BY <2>1, AbsTypes
  <2> QED
    BY <1>4, <2>2
<1>8. PICK first \in Nat, last \in Nat :
        /\ first = IF r.rx < l.first THEN r.rx ELSE l.first
        /\ last = IF r.rx > l.last THEN r.rx ELSE l.last
  BY <1>4
<1> DEFINE t == [l EXCEPT !.byterecv = bytes, !.pktrecv = recv, !.delay = delay, !.maxdelay = maxd,
                          !.mindelay = mind, !.jitter = jit, !.lastdelay = late, !.first = first,
                          !.last = last]
<1>9. Update(s, r) = t
  BY <1>1, <1>3, <1>5, <1>6, <1>7, <1>8 DEF Update, InfoTypes
<1>10. /\ t \in InfoTypes /\ t.flow = l.flow /\ t.byterecv = bytes /\ t.pktrecv = recv
       /\ t.maxSeq = l.maxSeq /\ t.pktdup = l.pktdup /\ t.pktloss = l.pktloss
  BY DEF InfoTypes
<1> HIDE DEF t
<1> QED
  BY <1>1, <1>2, <1>5, <1>9, <1>10

\* setline: the record is counted for its flow, which is new if there was none.
LEMMA SetLineInfos ==
  ASSUME NEW infos \in Seq(InfoTypes), NEW r \in MarkedRecords,
         \A z, y \in DOMAIN infos : infos[z].flow = infos[y].flow => z = y
  PROVE  /\ SetLine(infos, r) \in Seq(InfoTypes) /\ DOMAIN infos \subseteq DOMAIN SetLine(infos, r)
         /\ \E k \in DOMAIN SetLine(infos, r) :
              /\ SetLine(infos, r)[k].flow = r.flow
              /\ k \notin DOMAIN infos =>
                   SetLine(infos, r)[k] = NewFlow(r) /\ \A z \in DOMAIN infos : infos[z].flow # r.flow
              /\ k \in DOMAIN infos =>
                   infos[k].flow = r.flow /\ SetLine(infos, r)[k] = Update(infos[k], r)
              /\ \A z \in DOMAIN SetLine(infos, r) : z # k =>
                   z \in DOMAIN infos /\ SetLine(infos, r)[z] = infos[z] /\ infos[z].flow # r.flow
<1> DEFINE known == {z \in DOMAIN infos : infos[z].flow = r.flow}
<1>1. DOMAIN infos = 1 .. Len(infos) /\ Len(infos) \in Nat
  BY LenProperties
<1>2. CASE known = {}
  <2> DEFINE new == NewFlow(r)
  <2>1. SetLine(infos, r) = Append(infos, new)
    BY <1>2 DEF SetLine
  <2>2. new \in InfoTypes /\ new.flow = r.flow
    BY SMTT(30), NewFlowTypes
  <2> HIDE DEF new
  <2>3. PICK n \in Nat : n = Len(infos)
    BY <1>1
  <2>4. /\ Append(infos, new) \in Seq(InfoTypes) /\ DOMAIN Append(infos, new) = 1 .. n + 1
        /\ Append(infos, new)[n + 1] = new /\ \A i \in 1 .. n : Append(infos, new)[i] = infos[i]
    BY <2>2, <2>3, AppendProperties, LenProperties
  <2>5. DOMAIN infos = 1 .. n /\ \A i \in 1 .. n : infos[i].flow # r.flow
    BY <1>1, <1>2, <2>3
  <2>6. /\ n + 1 \in 1 .. n + 1 /\ n + 1 \notin 1 .. n /\ 1 .. n \subseteq 1 .. n + 1
        /\ \A i \in 1 .. n + 1 : i # n + 1 => i \in 1 .. n
    OBVIOUS
  <2>7. new = NewFlow(r)
    BY DEF new
  <2> QED
    BY <2>1, <2>2, <2>4, <2>5, <2>6, <2>7
<1>3. CASE known # {}
  <2> DEFINE k   == CHOOSE z \in known : TRUE
             new == Update(infos[k], r)
  <2>1. SetLine(infos, r) = [infos EXCEPT ![k] = new]
    BY <1>3 DEF SetLine
  <2>2. k \in known
    BY <1>3
  <2> HIDE DEF k
  <2>3. k \in DOMAIN infos /\ infos[k].flow = r.flow /\ infos[k] \in InfoTypes
    BY <2>2
  <2>4. new \in InfoTypes /\ new.flow = r.flow
    BY <2>3, UpdateTypes
  <2>5. new = Update(infos[k], r)
    OBVIOUS
  <2> HIDE DEF new
  <2>6. /\ SetLine(infos, r) \in Seq(InfoTypes) /\ DOMAIN SetLine(infos, r) = DOMAIN infos
        /\ SetLine(infos, r)[k] = new
        /\ \A i \in DOMAIN infos : i # k => SetLine(infos, r)[i] = infos[i]
    <3>1. [infos EXCEPT ![k] = new] \in Seq(InfoTypes)
      BY <2>3, <2>4, ExceptSeq
    <3> QED
      BY <2>1, <2>3, <3>1
  <2>7. \A i \in DOMAIN infos : i # k => infos[i].flow # r.flow
    BY <2>3
  <2> QED
    BY <2>3, <2>4, <2>5, <2>6, <2>7
<1> QED
  BY <1>2, <1>3

\* One more record: the numbers seen.
LEMMA SeenMore ==
  ASSUME NEW recs \in Seq(Records), NEW r \in Records
  PROVE  /\ Seen(Append(recs, r)) = Seen(recs) \cup {r.seq} /\ Seen(recs) \subseteq Nat
         /\ Len(Append(recs, r)) = Len(recs) + 1
<1>1. PICK n \in Nat : n = Len(recs) /\ DOMAIN recs = 1 .. n
  BY LenProperties
<1>2. /\ Append(recs, r) \in Seq(Records) /\ DOMAIN Append(recs, r) = 1 .. n + 1
      /\ Append(recs, r)[n + 1] = r /\ \A i \in 1 .. n : Append(recs, r)[i] = recs[i]
      /\ Len(Append(recs, r)) = n + 1
  BY <1>1, AppendProperties, LenProperties
<1>3. \A i \in 1 .. n + 1 : i = n + 1 \/ i \in 1 .. n
  OBVIOUS
<1>4. n + 1 \in 1 .. n + 1 /\ 1 .. n \subseteq 1 .. n + 1
  OBVIOUS
<1>5. Seen(Append(recs, r)) = Seen(recs) \cup {r.seq}
  BY <1>1, <1>2, <1>3, <1>4 DEF Seen
<1>6. Seen(recs) \subseteq Nat
  <2>1. \A i \in DOMAIN recs : recs[i] \in Records
    OBVIOUS
  <2>2. \A q \in Records : q.seq \in Nat
    BY DEF Records
  <2> QED
    BY <2>1, <2>2 DEF Seen
<1> QED
  BY <1>1, <1>2, <1>5, <1>6

\* The first record.
LEMMA CountsFirst ==
  ASSUME NEW r \in Records
  PROVE  Tallies(NewFlow(r), <<r>>)
<1>1. <<r>> = Append(<<>>, r) /\ <<>> \in Seq(Records) /\ Len(<<>>) = 0 /\ DOMAIN <<>> = {}
  OBVIOUS
<1>2. Seen(<<>>) = {}
  BY <1>1 DEF Seen
<1>3. Seen(<<r>>) = {r.seq} /\ Len(<<r>>) = 1
  BY <1>1, <1>2, SeenMore
<1>4. r \in MarkedRecords /\ r.size \in Nat /\ r.seq \in Nat
  BY DEF Records, MarkedRecords
<1>5. Size(<<r>>) = r.size
  <2>1. \A q \in Records : q.size \in Nat
    BY DEF Records
  <2>2. Size(Append(<<>>, r)) = Size(<<>>) + r.size
    BY <1>1, <2>1, SizeAppend
  <2> QED
    BY <1>1, <1>4, <2>2, SizeNone
<1>6. IsFiniteSet({r.seq}) /\ Cardinality({r.seq}) = 1
  BY FS_Singleton
<1>7. /\ NewFlow(r).byterecv = r.size /\ NewFlow(r).pktrecv = 1
      /\ NewFlow(r).pktdup = 0 /\ NewFlow(r).maxSeq = r.seq
  BY <1>4, NewFlowTypes
<1> QED
  BY <1>3, <1>4, <1>5, <1>6, <1>7 DEF Tallies

\* Another record.
LEMMA CountsNext ==
  ASSUME NEW recs \in Seq(Records), NEW r \in Records, NEW s \in InfoTypes, Tallies(s, recs)
  PROVE  Tallies(Update(s, r), Append(recs, r))
<1> DEFINE t   == Update(s, r)
           old == Seen(recs)
           new == Seen(Append(recs, r))
<1>1. r \in MarkedRecords /\ r.size \in Nat /\ r.seq \in Nat
  BY DEF Records, MarkedRecords
<1>2. new = old \cup {r.seq} /\ old \subseteq Nat
  BY SeenMore
<1>3. PICK n \in Nat : n = Len(recs) /\ n > 0 /\ Len(Append(recs, r)) = n + 1 /\ s.pktrecv = n
  BY SeenMore, LenProperties DEF Tallies
<1>4. t.byterecv = Size(Append(recs, r))
  <2>1. \A q \in Records : q.size \in Nat
    BY DEF Records
  <2>2. Size(recs) \in Nat /\ Size(Append(recs, r)) = Size(recs) + r.size
    BY <2>1, SizeAppend
  <2>3. t.byterecv = s.byterecv + r.size
    BY <1>1, UpdateTypes
  <2> QED
    BY <2>2, <2>3 DEF Tallies
<1>5. t.pktrecv = n + 1
  BY <1>1, <1>3, UpdateTypes
<1>6. PICK max \in Nat : max = t.maxSeq /\ max = IF r.seq > s.maxSeq THEN r.seq ELSE s.maxSeq
  <2>1. s.maxSeq \in Nat
    BY DEF InfoTypes
  <2> QED
    BY <1>1, <2>1, UpdateTypes, LossesTypes
<1>7. s.maxSeq \in old /\ (\A q \in old : q <= s.maxSeq) /\ IsFiniteSet(old)
  BY DEF Tallies
<1>8. max \in new /\ \A q \in new : q <= max
  <2>1. s.maxSeq \in Nat
    BY DEF InfoTypes
  <2> QED
    BY <1>1, <1>2, <1>6, <1>7, <2>1
<1>9. IsFiniteSet(new)
  BY <1>2, <1>7, FS_AddElement
<1>10. ASSUME 0 \notin new
       PROVE  /\ t.pktdup \in 0 .. (n + 1) - Cardinality(new)
              /\ t.pktloss = max - (n + 1) + t.pktdup /\ t.pktloss >= 0
  <2>1. PICK c \in Nat, d \in Nat : c = Cardinality(old) /\ d = Cardinality(new) /\ d <= c + 1
    <3>1. Cardinality(old) \in Nat /\ Cardinality(new) \in Nat
      BY <1>7, <1>9, FS_CardinalityType
    <3>2. Cardinality(new) = IF r.seq \in old THEN Cardinality(old) ELSE Cardinality(old) + 1
      <4> HIDE DEF old, new
      <4>1. Cardinality(old \cup {r.seq}) = IF r.seq \in old THEN Cardinality(old) ELSE Cardinality(old) + 1
        BY <1>7, FS_AddElement
      <4> QED
        BY <1>2, <4>1
    <3>3. Cardinality(new) <= Cardinality(old) + 1
      BY <3>1, <3>2
    <3> QED
      BY <3>1, <3>3
  <2>2. d <= max
    <3>1. new \in SUBSET (1 .. max)
      BY <1>1, <1>2, <1>8, <1>10
    <3>2. IsFiniteSet(1 .. max) /\ Cardinality(1 .. max) = max
      <4>1. /\ IsFiniteSet(1 .. max)
            /\ Cardinality(1 .. max) = IF 1 > max THEN 0 ELSE max - 1 + 1
        BY FS_Interval
      <4> QED
        BY <4>1
    <3>3. Cardinality(new) <= Cardinality(1 .. max)
      BY <3>1, <3>2, FS_Subset
    <3> QED
      BY <2>1, <3>2, <3>3
  <2>3. PICK dup \in Int : dup = s.pktdup /\ dup \in 0 .. n - c
    <3>1. 0 \notin old
      BY <1>2, <1>10
    <3>2. s.pktdup \in 0 .. n - c
      BY <1>3, <2>1, <3>1 DEF Tallies
    <3>3. s.pktdup \in Int
      BY DEF InfoTypes
    <3> QED
      BY <3>2, <3>3
  <2> DEFINE l == Losses(s, r)
  <2>6. /\ l.maxSeq = max /\ t.pktdup = l.pktdup /\ t.pktloss = l.pktloss
        /\ l.maxSeq < (s.pktrecv + 1) - s.pktdup => l.pktdup = (s.pktrecv + 1) - l.maxSeq /\ l.pktloss = 0
        /\ ~(l.maxSeq < (s.pktrecv + 1) - s.pktdup) =>
             l.pktdup = s.pktdup /\ l.pktloss = l.maxSeq - (s.pktrecv + 1) + s.pktdup
    BY <1>1, <1>6, UpdateTypes, LossesTypes
  <2> HIDE DEF l, t
  <2>4. CASE max < n + 1 - dup
    <3>1. t.pktdup = n + 1 - max /\ t.pktloss = 0
      BY <1>3, <2>3, <2>4, <2>6
    <3>2. PICK e \in Int : e = n + 1 - max
      OBVIOUS
    <3>3. e \in 0 .. (n + 1) - d /\ 0 = max - (n + 1) + e
      BY <2>2, <2>3, <2>4, <3>2
    <3> QED
      BY <2>1, <3>1, <3>2, <3>3
  <2>5. CASE ~(max < n + 1 - dup)
    <3>1. t.pktdup = dup /\ t.pktloss = max - (n + 1) + dup
      BY <1>3, <2>3, <2>5, <2>6
    <3>2. dup \in 0 .. (n + 1) - d /\ max - (n + 1) + dup >= 0
      BY SMTT(30), <2>1, <2>3, <2>5
    <3> QED
      BY <2>1, <3>1, <3>2
  <2> QED
    BY <2>4, <2>5
<1> QED
  BY <1>3, <1>4, <1>5, <1>6, <1>8, <1>9, <1>10 DEF Tallies

\* There are no statistics at first.
LEMMA InfosInitially == Init => InfosKept
<1> SUFFICES ASSUME Init PROVE InfosKept
  OBVIOUS
<1>1. dec.infos = <<>> /\ dec.out = <<>>
  BY DEF Init, DecoderInit
<1>2. <<>> \in Seq(InfoTypes) /\ DOMAIN <<>> = {}
  OBVIOUS
<1>3. \A f : OfFlows(<<>>, {f}) = <<>>
  BY OfFlowsNone
<1> QED
  BY <1>1, <1>2, <1>3 DEF InfosKept

\* The records that are kept are records.
LEMMA OfFlowsTypes ==
  ASSUME NEW S, NEW recs \in Seq(S), NEW flows
  PROVE  OfFlows(recs, flows) \in Seq(S)
<1>1. PICK F : KeptUpTo(F, Len(recs), S, recs, flows) /\ OfFlows(recs, flows) = F[Len(recs)]
  BY OfFlowsRecursion
<1>2. Len(recs) \in 0 .. Len(recs)
  BY LenProperties
<1> QED
  BY <1>1, <1>2 DEF KeptUpTo

\* The records of a flow after another one.
LEMMA OneMore ==
  ASSUME NEW recs \in Seq(Records), NEW r \in Records, NEW f
  PROVE  /\ OfFlows(recs, {f}) \in Seq(Records)
         /\ OfFlows(Append(recs, r), {f}) =
              IF r.flow = f THEN Append(OfFlows(recs, {f}), r) ELSE OfFlows(recs, {f})
<1> DEFINE flows == {f}
<1>1. r.flow \in flows <=> r.flow = f
  OBVIOUS
<1> HIDE DEF flows
<1>2. /\ OfFlows(recs, flows) \in Seq(Records)
      /\ OfFlows(Append(recs, r), flows) =
           IF r.flow \in flows THEN Append(OfFlows(recs, flows), r) ELSE OfFlows(recs, flows)
  BY OfFlowsAppend
<1> QED
  BY <1>1, <1>2 DEF flows

\* A step of the measurement leaves the statistics right.
LEMMA InfosStep == MeasureInv /\ InfosKept /\ [Next]_vars => InfosKept'
<1> SUFFICES ASSUME MeasureInv, InfosKept, [Next]_vars PROVE InfosKept'
  OBVIOUS
<1>1. /\ asked' = asked /\ dec.out \in Seq(Records)
      /\ KeepsRecords \/ \E r \in Records : ReadsRecord(r)
  BY DecoderMoves DEF MeasureInv, MeasureTypes
<1>2. CASE KeepsRecords
  BY <1>1, <1>2 DEF KeepsRecords, InfosKept
<1>3. ASSUME NEW r \in Records, ReadsRecord(r) PROVE InfosKept'
  <2> DEFINE keep == asked.dec.keep
             old  == dec.infos
             new  == dec'.infos
             s    == Marked(r)
  <2>1. /\ dec'.out = Append(dec.out, r)
        /\ r.flow \notin keep => new = old
        /\ r.flow \in keep => new = SetLine(old, s)
    BY <1>3 DEF ReadsRecord
  <2>2. /\ old \in Seq(InfoTypes)
        /\ \A z, y \in DOMAIN old : old[z].flow = old[y].flow => z = y
        /\ asked.dec.join => \A z \in DOMAIN old : old[z].flow = OneFlow
    BY DEF InfosKept
  <2>3. ~asked.dec.join =>
          /\ \A z \in DOMAIN old : old[z].flow \in keep /\ Tallies(old[z], OfFlows(dec.out, {old[z].flow}))
          /\ \A f \in keep : (\A z \in DOMAIN old : old[z].flow # f) => OfFlows(dec.out, {f}) = <<>>
    BY DEF InfosKept
  <2>4. \A f : OfFlows(dec'.out, {f}) =
                 IF r.flow = f THEN Append(OfFlows(dec.out, {f}), r) ELSE OfFlows(dec.out, {f})
    <3> DEFINE out == dec.out
    <3>1. out \in Seq(Records)
      BY <1>1
    <3> HIDE DEF out
    <3>2. \A f : OfFlows(Append(out, r), {f}) =
                   IF r.flow = f THEN Append(OfFlows(out, {f}), r) ELSE OfFlows(out, {f})
      BY <3>1, OneMore
    <3> QED
      BY <2>1, <3>2 DEF out
  <2>5. \A f : OfFlows(dec.out, {f}) \in Seq(Records)
    <3> DEFINE out == dec.out
    <3>1. out \in Seq(Records)
      BY <1>1
    <3> HIDE DEF out
    <3>2. \A f : OfFlows(out, {f}) \in Seq(Records)
      BY <3>1, OneMore
    <3> QED
      BY <3>2 DEF out
  <2>6. CASE r.flow \notin keep
    <3>1. ~asked.dec.join =>
            /\ \A z \in DOMAIN old : /\ old[z].flow \in keep
                                     /\ Tallies(old[z], OfFlows(dec'.out, {old[z].flow}))
            /\ \A f \in keep : (\A z \in DOMAIN old : old[z].flow # f) => OfFlows(dec'.out, {f}) = <<>>
      BY <2>3, <2>4, <2>6
    <3> QED
      BY <1>1, <2>1, <2>2, <2>6, <3>1 DEF InfosKept
  <2>7. CASE r.flow \in keep
    <3>1. /\ s \in MarkedRecords
          /\ asked.dec.join => s.flow = OneFlow
          /\ ~asked.dec.join => s = r
      BY DEF Marked, MarkedRecords, Records
    <3> HIDE DEF s, keep, old, new
    <3>8. old \in Seq(InfoTypes) /\ s \in MarkedRecords
      BY <2>2, <3>1
    <3>9. \A z, y \in DOMAIN old : old[z].flow = old[y].flow => z = y
      BY <2>2
    <3>2. new \in Seq(InfoTypes) /\ DOMAIN old \subseteq DOMAIN new
      BY <2>1, <2>7, <3>8, <3>9, SetLineInfos
    <3>3. PICK k \in DOMAIN new :
            /\ new[k].flow = s.flow
            /\ k \notin DOMAIN old => new[k] = NewFlow(s) /\ \A z \in DOMAIN old : old[z].flow # s.flow
            /\ k \in DOMAIN old => old[k].flow = s.flow /\ new[k] = Update(old[k], s)
            /\ \A z \in DOMAIN new : z # k => z \in DOMAIN old /\ new[z] = old[z] /\ old[z].flow # s.flow
      <4>1. \E k \in DOMAIN SetLine(old, s) :
              /\ SetLine(old, s)[k].flow = s.flow
              /\ k \notin DOMAIN old =>
                   SetLine(old, s)[k] = NewFlow(s) /\ \A z \in DOMAIN old : old[z].flow # s.flow
              /\ k \in DOMAIN old => old[k].flow = s.flow /\ SetLine(old, s)[k] = Update(old[k], s)
              /\ \A z \in DOMAIN SetLine(old, s) : z # k =>
                   z \in DOMAIN old /\ SetLine(old, s)[z] = old[z] /\ old[z].flow # s.flow
        BY <3>8, <3>9, SetLineInfos
      <4> QED
        BY <2>1, <2>7, <4>1
    <3>4. \A z, y \in DOMAIN new : new[z].flow = new[y].flow => z = y
      <4> TAKE z, y \in DOMAIN new
      <4>1. CASE z = k \/ y = k
        BY <3>3, <4>1
      <4>2. CASE z # k /\ y # k
        BY <2>2, <3>3, <4>2
      <4> QED
        BY <4>1, <4>2
    <3>5. ASSUME asked.dec.join, NEW z \in DOMAIN new PROVE new[z].flow = OneFlow
      <4>1. CASE z = k
        BY <3>1, <3>3, <3>5, <4>1
      <4>2. CASE z # k
        <5>1. z \in DOMAIN old /\ new[z] = old[z]
          BY <3>3, <4>2
        <5>2. \A y \in DOMAIN old : old[y].flow = OneFlow
          BY <2>2, <3>5
        <5> QED
          BY <5>1, <5>2
      <4> QED
        BY <4>1, <4>2
    <3>6. ASSUME ~asked.dec.join, NEW z \in DOMAIN new
          PROVE  new[z].flow \in keep /\ Tallies(new[z], OfFlows(dec'.out, {new[z].flow}))
      <4>0. s = r
        BY <3>1, <3>6
      <4>1. CASE z # k
        <5>1. z \in DOMAIN old /\ new[z] = old[z] /\ old[z].flow # r.flow
          BY <3>3, <4>0, <4>1
        <5>2. old[z].flow \in keep /\ Tallies(old[z], OfFlows(dec.out, {old[z].flow}))
          BY <2>3, <3>6, <5>1
        <5>3. OfFlows(dec'.out, {old[z].flow}) = OfFlows(dec.out, {old[z].flow})
          BY <2>4, <5>1
        <5> QED
          BY <5>1, <5>2, <5>3
      <4>2. CASE z = k
        <5> DEFINE recs == OfFlows(dec.out, {r.flow})
        <5>1. new[z].flow = r.flow /\ OfFlows(dec'.out, {r.flow}) = Append(recs, r) /\ recs \in Seq(Records)
          BY <2>4, <2>5, <3>3, <4>0, <4>2
        <5>2. CASE k \in DOMAIN old
          <6>1. old[k] \in InfoTypes /\ new[z] = Update(old[k], r) /\ old[k].flow = r.flow
            BY <2>2, <3>3, <4>0, <4>2, <5>2
          <6>2. Tallies(old[k], recs)
            BY <2>3, <3>6, <5>2, <6>1
          <6>3. Tallies(new[z], Append(recs, r))
            <7> HIDE DEF recs
            <7> QED
              BY <5>1, <6>1, <6>2, CountsNext
          <6> QED
            BY <2>7, <5>1, <6>3
        <5>3. CASE k \notin DOMAIN old
          <6>1. new[z] = NewFlow(r) /\ \A y \in DOMAIN old : old[y].flow # r.flow
            BY <3>3, <4>0, <4>2, <5>3
          <6>2. recs = <<>>
            BY <2>3, <2>7, <3>6, <6>1
          <6>3. Append(recs, r) = <<r>>
            <7>1. Append(<<>>, r) = <<r>>
              OBVIOUS
            <7> HIDE DEF recs
            <7> QED
              BY <6>2, <7>1
          <6>4. Tallies(new[z], Append(recs, r))
            BY <6>1, <6>3, CountsFirst
          <6> QED
            BY <2>7, <5>1, <6>4
        <5> QED
          BY <5>2, <5>3
      <4> QED
        BY <4>1, <4>2
    <3>7. ASSUME ~asked.dec.join, NEW f \in keep, \A z \in DOMAIN new : new[z].flow # f
          PROVE  OfFlows(dec'.out, {f}) = <<>>
      <4>1. r.flow # f
        BY <3>1, <3>3, <3>7
      <4>2. \A z \in DOMAIN old : old[z].flow # f
        BY <3>1, <3>2, <3>3, <3>7, <4>1
      <4>3. OfFlows(dec.out, {f}) = <<>>
        BY <2>3, <3>7, <4>2
      <4> QED
        BY <2>4, <4>1, <4>3
    <3> QED
      BY <1>1, <3>2, <3>4, <3>5, <3>6, <3>7 DEF InfosKept, new, keep
  <2> QED
    BY <2>6, <2>7
<1> QED
  BY <1>1, <1>2, <1>3

\* What setline counts is what the property states.
LEMMA LossesAreReported == MeasureInv /\ InfosKept => LossesReported
<1> SUFFICES ASSUME MeasureInv, InfosKept, NEW z \in DOMAIN dec.infos, dec.infos[z].flow # OneFlow,
                    dec.infos[z].pktrecv > 1, 0 \notin Seen(RecordsOf(dec.infos[z].flow))
             PROVE  LET s == dec.infos[z]
                        recs == RecordsOf(s.flow)
                        missing == Max(Seen(recs)) - Cardinality(Seen(recs))
                    IN /\ s.pktloss \in 0 .. missing
                       /\ Cardinality(Seen(recs)) = Len(recs) => s.pktloss = missing
                       /\ s.pktrecv = Len(recs) /\ s.byterecv = Size(recs)
  BY DEF LossesReported
<1> DEFINE s    == dec.infos[z]
           recs == RecordsOf(s.flow)
<1>1. ~asked.dec.join
  BY DEF InfosKept
<1>2. Tallies(s, recs) /\ s \in InfoTypes
  <2>1. Tallies(s, OfFlows(dec.out, {s.flow}))
    BY <1>1 DEF InfosKept
  <2>2. dec.infos \in Seq(InfoTypes)
    BY DEF InfosKept
  <2>3. s \in InfoTypes
    BY <2>2
  <2> QED
    BY <2>1, <2>3 DEF RecordsOf
<1>3. recs \in Seq(Records)
  <2> DEFINE out   == dec.out
             flows == {s.flow}
  <2>1. out \in Seq(Records)
    BY DEF MeasureInv, MeasureTypes
  <2> HIDE DEF out, flows
  <2>2. OfFlows(out, flows) \in Seq(Records)
    BY <2>1, OfFlowsTypes
  <2> QED
    BY <2>2 DEF out, flows, RecordsOf
<1>4. s.pktrecv > 1 /\ 0 \notin Seen(recs)
  OBVIOUS
<1> HIDE DEF s, recs
<1>5. Max(Seen(recs)) = s.maxSeq
  <2>1. s.maxSeq \in Seen(recs) /\ (\A q \in Seen(recs) : q <= s.maxSeq) /\ s.maxSeq \in Nat
    BY <1>2 DEF Tallies, InfoTypes
  <2>2. Seen(recs) \subseteq Int
    <3>1. \A i \in DOMAIN recs : recs[i] \in Records
      BY <1>3
    <3>2. \A q \in Records : q.seq \in Nat
      BY DEF Records
    <3> QED
      BY <3>1, <3>2 DEF Seen
  <2>3. \A q \in Seen(recs) : (\A p \in Seen(recs) : q >= p) => q = s.maxSeq
    BY <2>1, <2>2
  <2>4. \A p \in Seen(recs) : s.maxSeq >= p
    BY <2>1, <2>2
  <2> QED
    BY <2>1, <2>3, <2>4 DEF Max
<1>6. PICK n \in Nat, d \in Nat, max \in Nat, loss \in Int, dup \in Int :
        /\ n = Len(recs) /\ d = Cardinality(Seen(recs)) /\ max = s.maxSeq /\ loss = s.pktloss
        /\ dup = s.pktdup
  <2>1. Len(recs) \in Nat /\ Cardinality(Seen(recs)) \in Nat
    BY <1>2, <1>3, LenProperties, FS_CardinalityType DEF Tallies
  <2>2. s.maxSeq \in Nat /\ s.pktloss \in Int /\ s.pktdup \in Int
    BY <1>2 DEF InfoTypes
  <2> QED
    BY <2>1, <2>2
<1>7. s.pktrecv = n /\ s.byterecv = Size(recs)
  BY <1>2, <1>6 DEF Tallies
<1>8. dup \in 0 .. n - d /\ loss = max - n + dup /\ loss >= 0
  BY <1>2, <1>4, <1>6, <1>7 DEF Tallies
<1>9. loss \in 0 .. max - d /\ (d = n => loss = max - d)
  BY <1>8
<1> QED
  BY <1>5, <1>6, <1>7, <1>9 DEF s, recs

\* setline: after any sequence of the records of a flow - lost, duplicated, out of order - the
\* statistics have its records and its bytes, and the loss is never more than what is missing up
\* to the greatest number received, and is that if nothing was duplicated.
THEOREM LossesFound == Spec => []LossesReported
  BY LossesAreReported, MeasureInitially, MeasureStep, InfosInitially, InfosStep, PTL DEF Spec
-----------------------------------------------------------------------------
(* The packets in a stream. *)

\* A stream after n whole packets and got fields of the next one.
Framing(fields, packets, n, got) ==
  /\ fields \in Seq(StreamFields) /\ packets \in Seq(SentPackets) /\ n \in Nat /\ got \in Nat
  /\ \A k \in DOMAIN fields :
       /\ fields[k].seq \in DOMAIN packets /\ fields[k].size = packets[fields[k].seq].size
       /\ fields[k].field \in 1 .. fields[k].size
  /\ \A k \in DOMAIN fields : k + 1 \in DOMAIN fields =>
       \/ fields[k + 1].seq = fields[k].seq /\ fields[k + 1].field = fields[k].field + 1
       \/ /\ fields[k].field = fields[k].size
          /\ fields[k + 1].seq = fields[k].seq + 1 /\ fields[k + 1].field = 1
  /\ fields = <<>> => n = Len(packets) /\ got = 0
  /\ fields # <<>> =>
       /\ fields[1].seq = n + 1 /\ fields[1].field = got + 1
       /\ fields[Len(fields)].seq = Len(packets)
       /\ fields[Len(fields)].field = fields[Len(fields)].size

\* Fields that frame packets are fields.
LEMMA FramingTypes ==
  ASSUME NEW fields, NEW packets, NEW n, NEW got, Framing(fields, packets, n, got)
  PROVE  /\ fields \in Seq(StreamFields) /\ packets \in Seq(SentPackets) /\ n \in Nat /\ got \in Nat
         /\ Len(fields) \in Nat /\ DOMAIN fields = 1 .. Len(fields)
         /\ Len(packets) \in Nat /\ DOMAIN packets = 1 .. Len(packets)
         /\ \A k \in DOMAIN fields :
              fields[k].seq \in Nat /\ fields[k].size \in Nat /\ fields[k].field \in Nat
         /\ \A k \in DOMAIN packets : packets[k].size \in Nat
         /\ Len(fields) = 0 <=> fields = <<>>
<1>1. fields \in Seq(StreamFields) /\ packets \in Seq(SentPackets) /\ n \in Nat /\ got \in Nat
  BY DEF Framing
<1>2. \A k \in DOMAIN fields : fields[k] \in StreamFields
  BY <1>1
<1>3. \A x \in StreamFields : x.seq \in Nat /\ x.size \in Nat /\ x.field \in Nat
  BY FlowSenderAssumption DEF StreamFields
<1>4. \A k \in DOMAIN packets : packets[k] \in SentPackets
  BY <1>1
<1>5. \A x \in SentPackets : x.size \in Nat
  BY FlowSenderAssumption DEF SentPackets
<1>6. Len(fields) = 0 <=> fields = <<>>
  BY <1>1, EmptySeq
<1> QED
  BY <1>1, <1>2, <1>3, <1>4, <1>5, <1>6, LenProperties

\* The first fields are those of the packet that is being read.
LEMMA FramingRun ==
  ASSUME NEW fields, NEW packets, NEW n, NEW got, Framing(fields, packets, n, got),
         NEW k \in DOMAIN fields, got + k <= packets[n + 1].size
  PROVE  n + 1 \in DOMAIN packets /\ fields[k].seq = n + 1 /\ fields[k].field = got + k
<1> DEFINE len  == Len(fields)
           size == packets[n + 1].size
           Run  == {i \in Nat : i >= 1 /\ i <= k => fields[i].seq = n + 1 /\ fields[i].field = got + i}
<1>1. /\ n \in Nat /\ got \in Nat /\ len \in Nat /\ DOMAIN fields = 1 .. len /\ k \in 1 .. len
      /\ \A i \in 1 .. len : fields[i].seq \in Nat /\ fields[i].size \in Nat /\ fields[i].field \in Nat
  BY FramingTypes
<1>2. fields[1].seq = n + 1 /\ fields[1].field = got + 1 /\ 1 \in 1 .. len
  <2>1. 1 \in 1 .. len /\ len # 0
    BY <1>1
  <2>2. fields # <<>>
    BY <2>1, FramingTypes
  <2> QED
    BY <2>1, <2>2 DEF Framing
<1>3. n + 1 \in DOMAIN packets /\ size \in Nat
  <2>1. fields[1].seq \in DOMAIN packets
    BY <1>1, <1>2 DEF Framing
  <2> QED
    BY <1>2, <2>1, FramingTypes
<1>4. 0 \in Run
  OBVIOUS
<1>5. ASSUME NEW i \in Nat, i \in Run PROVE i + 1 \in Run
  <2> SUFFICES ASSUME i + 1 <= k PROVE fields[i + 1].seq = n + 1 /\ fields[i + 1].field = got + (i + 1)
    BY <1>5
  <2>1. CASE i = 0
    BY <1>2, <2>1
  <2>2. CASE i # 0
    <3>1. fields[i].seq = n + 1 /\ fields[i].field = got + i
      BY <1>1, <1>5, <2>2
    <3>2. i \in 1 .. len /\ i + 1 \in 1 .. len
      BY <1>1, <2>2
    <3>3. fields[i].size = size
      BY ZenonT(40), <1>1, <3>1, <3>2 DEF Framing
    <3>4. got + i < size
      <4>1. PICK s \in Nat : s = size
        BY <1>3
      <4>2. got + k <= s
        BY <4>1
      <4>3. got + i < s
        BY <1>1, <4>2
      <4> QED
        BY <4>1, <4>3
    <3>5. \/ fields[i + 1].seq = fields[i].seq /\ fields[i + 1].field = fields[i].field + 1
          \/ fields[i].field = fields[i].size
      BY <1>1, <3>2 DEF Framing
    <3>6. fields[i].field # fields[i].size
      <4> HIDE DEF size
      <4>1. got + i # size
        BY <1>1, <1>3, <3>4
      <4> QED
        BY <3>1, <3>3, <4>1
    <3>7. fields[i + 1].seq = n + 1 /\ fields[i + 1].field = (got + i) + 1
      BY <3>1, <3>5, <3>6
    <3>8. (got + i) + 1 = got + (i + 1)
      BY <1>1
    <3> QED
      BY <3>7, <3>8
  <2> QED
    BY <2>1, <2>2
<1>6. k \in Run
  <2> HIDE DEF Run
  <2>1. k \in Nat
    BY <1>1
  <2> QED
    BY <1>4, <1>5, <2>1, Induction
<1>7. k \in Nat /\ k >= 1 /\ k <= k
  BY <1>1
<1> QED
  BY <1>3, <1>6, <1>7

\* What is left of a sequence without its first k elements.
LEMMA RestOf ==
  ASSUME NEW S, NEW all \in Seq(S), NEW k \in 1 .. Len(all)
  PROVE  /\ SubSeq(all, k + 1, Len(all)) \in Seq(S)
         /\ Len(SubSeq(all, k + 1, Len(all))) = Len(all) - k
         /\ \A i \in 1 .. Len(all) - k : SubSeq(all, k + 1, Len(all))[i] = all[k + i]
<1>1. PICK n \in Nat, m \in Nat : n = Len(all) /\ m = k + 1 /\ m <= n + 1
  BY LenProperties
<1>2. \A i \in m .. n : all[i] \in S
  BY <1>1
<1> DEFINE rest == SubSeq(all, m, n)
<1>3. /\ rest \in Seq(S) /\ Len(rest) = IF m <= n THEN (n - m) + 1 ELSE 0
      /\ \A i \in 1 .. (n - m) + 1 : rest[i] = all[(m + i) - 1]
  BY <1>1, <1>2
<1> HIDE DEF rest
<1>4. (n - m) + 1 = n - k /\ (m > n => n - k = 0) /\ \A i \in 1 .. n - k : (m + i) - 1 = k + i
  BY <1>1
<1>5. Len(rest) = n - k
  BY <1>1, <1>3, <1>4
<1>6. \A i \in 1 .. n - k : rest[i] = all[k + i]
  BY <1>3, <1>4
<1> QED
  BY <1>1, <1>3, <1>5, <1>6 DEF rest

\* A part of the stream has been read, up to some field of the packet or to its end.
LEMMA FramingTaken ==
  ASSUME NEW fields, NEW packets, NEW n, NEW got, Framing(fields, packets, n, got),
         NEW k \in DOMAIN fields, got + k <= packets[n + 1].size
  PROVE  /\ got + k < packets[n + 1].size =>
              Framing(SubSeq(fields, k + 1, Len(fields)), packets, n, got + k)
         /\ got + k = packets[n + 1].size =>
              Framing(SubSeq(fields, k + 1, Len(fields)), packets, n + 1, 0)
<1> DEFINE len  == Len(fields)
           rest == SubSeq(fields, k + 1, len)
           size == packets[n + 1].size
<1>1. /\ fields \in Seq(StreamFields) /\ packets \in Seq(SentPackets)
      /\ n \in Nat /\ got \in Nat /\ len \in Nat /\ DOMAIN fields = 1 .. len /\ k \in 1 .. len
      /\ \A i \in 1 .. len : fields[i].seq \in Nat /\ fields[i].size \in Nat /\ fields[i].field \in Nat
  BY FramingTypes
<1>2. n + 1 \in DOMAIN packets /\ fields[k].seq = n + 1 /\ fields[k].field = got + k
  BY FramingRun
<1>3. fields[k].size = size /\ size \in Nat
  BY <1>1, <1>2 DEF Framing
<1>4. /\ rest \in Seq(StreamFields) /\ Len(rest) = len - k /\ DOMAIN rest = 1 .. len - k
      /\ \A i \in 1 .. len - k : rest[i] = fields[k + i]
  <2>1. /\ rest \in Seq(StreamFields) /\ Len(rest) = len - k
        /\ \A i \in 1 .. len - k : rest[i] = fields[k + i]
    BY <1>1, RestOf
  <2> QED
    BY <2>1, LenProperties
<1>5. \A i \in 1 .. len - k : /\ k + i \in 1 .. len /\ k + (i + 1) = (k + i) + 1
                              /\ i + 1 \in 1 .. len - k => (k + i) + 1 \in 1 .. len
  BY SMTT(30), <1>1
<1> HIDE DEF len, rest, size
<1>6. \A i \in DOMAIN rest :
        /\ rest[i].seq \in DOMAIN packets /\ rest[i].size = packets[rest[i].seq].size
        /\ rest[i].field \in 1 .. rest[i].size
  <2> SUFFICES ASSUME NEW i \in 1 .. len - k
               PROVE  /\ rest[i].seq \in DOMAIN packets /\ rest[i].size = packets[rest[i].seq].size
                      /\ rest[i].field \in 1 .. rest[i].size
    BY <1>4
  <2>1. rest[i] = fields[k + i] /\ k + i \in DOMAIN fields
    BY <1>1, <1>4, <1>5
  <2> QED
    BY <2>1 DEF Framing
<1>7. \A i \in DOMAIN rest : i + 1 \in DOMAIN rest =>
        \/ rest[i + 1].seq = rest[i].seq /\ rest[i + 1].field = rest[i].field + 1
        \/ /\ rest[i].field = rest[i].size
           /\ rest[i + 1].seq = rest[i].seq + 1 /\ rest[i + 1].field = 1
  <2> SUFFICES ASSUME NEW i \in 1 .. len - k, i + 1 \in 1 .. len - k
               PROVE  \/ rest[i + 1].seq = rest[i].seq /\ rest[i + 1].field = rest[i].field + 1
                      \/ /\ rest[i].field = rest[i].size
                         /\ rest[i + 1].seq = rest[i].seq + 1 /\ rest[i + 1].field = 1
    BY <1>4
  <2>1. rest[i] = fields[k + i] /\ rest[i + 1] = fields[(k + i) + 1]
    BY <1>4, <1>5
  <2>2. k + i \in DOMAIN fields /\ (k + i) + 1 \in DOMAIN fields
    BY <1>1, <1>5
  <2> QED
    BY <2>1, <2>2 DEF Framing
<1>8. fields # <<>>
  <2>1. len # 0
    BY <1>1
  <2> QED
    BY <2>1, FramingTypes DEF len
<1>9. fields[len].seq = Len(packets) /\ fields[len].field = fields[len].size
  BY <1>8 DEF Framing, len
<1>10. rest # <<>> =>
         /\ k + 1 \in 1 .. len /\ rest[1] = fields[k + 1] /\ Len(rest) \in 1 .. len - k
         /\ rest[Len(rest)].seq = Len(packets) /\ rest[Len(rest)].field = rest[Len(rest)].size
  <2> SUFFICES ASSUME rest # <<>>
               PROVE  /\ k + 1 \in 1 .. len /\ rest[1] = fields[k + 1] /\ Len(rest) \in 1 .. len - k
                      /\ rest[Len(rest)] = fields[len]
    BY <1>9
  <2>1. len - k # 0
    BY <1>4, EmptySeq
  <2>2. 1 \in 1 .. len - k /\ len - k \in 1 .. len - k /\ k + (len - k) = len /\ k + 1 \in 1 .. len
    BY <1>1, <2>1
  <2> QED
    BY <1>4, <2>2
<1>11. rest = <<>> => k = len
  <2>1. rest = <<>> => len - k = 0
    BY <1>4, EmptySeq
  <2> QED
    BY <1>1, <2>1
<1>12. CASE got + k < size
  <2>1. rest # <<>>
    <3>1. got + k # size
      BY <1>1, <1>3, <1>12
    <3> QED
      BY <1>2, <1>3, <1>9, <1>11, <3>1
  <2>2. rest[1].seq = n + 1 /\ rest[1].field = (got + k) + 1
    <3>1. got + k # size
      BY <1>1, <1>3, <1>12
    <3>2. k + 1 \in DOMAIN fields /\ k \in DOMAIN fields /\ rest[1] = fields[k + 1]
      BY <1>1, <1>10, <2>1
    <3>3. fields[k + 1].seq = fields[k].seq /\ fields[k + 1].field = fields[k].field + 1
      BY <1>2, <1>3, <3>1, <3>2 DEF Framing
    <3> QED
      BY <1>2, <3>2, <3>3
  <2>3. got + k \in Nat
    BY <1>1
  <2>4. Framing(rest, packets, n, got + k)
    BY <1>1, <1>4, <1>6, <1>7, <1>10, <2>1, <2>2, <2>3 DEF Framing
  <2>5. got + k # size
    BY <1>1, <1>3, <1>12
  <2> QED
    BY <2>4, <2>5 DEF rest, len, size
<1>13. CASE got + k = size
  <2>1. ASSUME rest # <<>> PROVE rest[1].seq = (n + 1) + 1 /\ rest[1].field = 0 + 1
    <3>1. k + 1 \in DOMAIN fields /\ k \in DOMAIN fields /\ rest[1] = fields[k + 1]
      BY <1>1, <1>10, <2>1
    <3>2. \/ fields[k + 1].seq = fields[k].seq /\ fields[k + 1].field = fields[k].field + 1
          \/ fields[k + 1].seq = fields[k].seq + 1 /\ fields[k + 1].field = 1
      BY <3>1 DEF Framing
    <3>3. CASE fields[k + 1].seq = fields[k].seq /\ fields[k + 1].field = fields[k].field + 1
      <4>1. fields[k + 1].field = size + 1
        BY <1>2, <1>13, <3>3
      <4>2. fields[k + 1].field \in 1 .. fields[k + 1].size
        BY <3>1 DEF Framing
      <4>3. fields[k + 1].size = size
        BY <1>2, <3>1, <3>3 DEF Framing, size
      <4> QED
        BY <1>3, <4>1, <4>2, <4>3
    <3>4. CASE fields[k + 1].seq = fields[k].seq + 1 /\ fields[k + 1].field = 1
      BY <1>2, <3>1, <3>4
    <3> QED
      BY <3>2, <3>3, <3>4
  <2>2. rest = <<>> => n + 1 = Len(packets) /\ 0 = 0
    BY <1>2, <1>9, <1>11
  <2>3. n + 1 \in Nat /\ 0 \in Nat
    BY <1>1
  <2>4. Framing(rest, packets, n + 1, 0)
    BY <1>1, <1>4, <1>6, <1>7, <1>10, <2>1, <2>2, <2>3 DEF Framing
  <2>5. ~(got + k < size)
    BY <1>3, <1>13
  <2> QED
    BY <2>4, <2>5 DEF rest, len, size
<1> QED
  BY <1>1, <1>3, <1>12, <1>13 DEF size

\* A packet is given to the connection.
LEMMA FramingSent ==
  ASSUME NEW fields, NEW packets, NEW n, NEW got, Framing(fields, packets, n, got), n <= Len(packets),
         NEW p \in Packets, p.seq = Len(packets) + 1, p.size > 0,
         NEW q \in SentPackets, q.size = p.size
  PROVE  Framing(fields \o FieldsOf(p), Append(packets, q), n, got)
<1> DEFINE len  == Len(fields)
           size == p.size
           more == FieldsOf(p)
           all  == fields \o more
           m    == Len(packets)
           long == Append(packets, q)
<1>1. /\ fields \in Seq(StreamFields) /\ packets \in Seq(SentPackets)
      /\ n \in Nat /\ got \in Nat /\ len \in Nat /\ DOMAIN fields = 1 .. len
      /\ m \in Nat /\ DOMAIN packets = 1 .. m
      /\ \A i \in 1 .. len : fields[i].seq \in Nat /\ fields[i].size \in Nat /\ fields[i].field \in Nat
      /\ size \in Nat \ {0}
  BY FramingTypes, FlowSenderAssumption DEF Packets
<1>2. /\ more \in Seq(StreamFields) /\ Len(more) = size
      /\ \A i \in 1 .. size : more[i].seq = m + 1 /\ more[i].size = size /\ more[i].field = i
  BY <1>1, FieldsTypes DEF FieldsOf
<1>3. /\ all \in Seq(StreamFields) /\ Len(all) = len + size /\ DOMAIN all = 1 .. len + size
      /\ \A i \in 1 .. len : all[i] = fields[i]
      /\ \A i \in 1 .. size : all[len + i] = more[i]
  <2>1. /\ all \in Seq(StreamFields) /\ Len(all) = len + size
        /\ \A i \in 1 .. len + size : all[i] = IF i <= len THEN fields[i] ELSE more[i - len]
    <3>1. fields \in Seq(StreamFields) /\ more \in Seq(StreamFields) /\ Len(more) = size
      BY <1>1, <1>2
    <3> HIDE DEF more, size
    <3>2. /\ fields \o more \in Seq(StreamFields) /\ Len(fields \o more) = Len(fields) + Len(more)
          /\ \A i \in 1 .. Len(fields) + Len(more) :
               (fields \o more)[i] = IF i <= Len(fields) THEN fields[i] ELSE more[i - Len(fields)]
      BY <3>1, ConcatProperties
    <3> QED
      BY <3>1, <3>2
  <2>2. \A i \in 1 .. len : i \in 1 .. len + size /\ i <= len
    BY <1>1
  <2>3. \A i \in 1 .. size : len + i \in 1 .. len + size /\ ~(len + i <= len) /\ (len + i) - len = i
    BY <1>1
  <2> QED
    BY <2>1, <2>2, <2>3, LenProperties
<1>4. /\ long \in Seq(SentPackets) /\ Len(long) = m + 1 /\ DOMAIN long = 1 .. m + 1
      /\ long[m + 1] = q /\ \A i \in 1 .. m : long[i] = packets[i]
  BY <1>1, AppendProperties, LenProperties
<1>5. \A i \in 1 .. len + size : i \in 1 .. len \/ \E j \in 1 .. size : i = len + j
  <2> SUFFICES ASSUME NEW i \in 1 .. len + size, i \notin 1 .. len PROVE \E j \in 1 .. size : i = len + j
    OBVIOUS
  <2>1. i - len \in 1 .. size /\ i = len + (i - len)
    BY <1>1
  <2> QED
    BY <2>1
<1> HIDE DEF len, size, more, all, m, long
<1>6. ASSUME NEW i \in DOMAIN all
      PROVE  /\ all[i].seq \in DOMAIN long /\ all[i].size = long[all[i].seq].size
             /\ all[i].field \in 1 .. all[i].size
  <2>1. CASE i \in 1 .. len
    <3>1. all[i] = fields[i] /\ i \in DOMAIN fields
      BY <1>1, <1>3, <2>1
    <3>2. /\ fields[i].seq \in 1 .. m /\ fields[i].size = packets[fields[i].seq].size
          /\ fields[i].field \in 1 .. fields[i].size
      BY <1>1, <3>1 DEF Framing
    <3>3. \A x \in 1 .. m : x \in 1 .. m + 1
      BY <1>1
    <3> QED
      BY <1>4, <3>1, <3>2, <3>3
  <2>2. CASE \E j \in 1 .. size : i = len + j
    <3>1. PICK j \in 1 .. size : i = len + j
      BY <2>2
    <3>2. all[i].seq = m + 1 /\ all[i].size = size /\ all[i].field = j
      BY <1>2, <1>3, <3>1
    <3>3. m + 1 \in 1 .. m + 1
      BY <1>1
    <3> QED
      BY <1>4, <3>2, <3>3 DEF size
  <2> QED
    BY <1>3, <1>5, <1>6, <2>1, <2>2
<1>7. ASSUME NEW i \in DOMAIN all, i + 1 \in DOMAIN all
      PROVE  \/ all[i + 1].seq = all[i].seq /\ all[i + 1].field = all[i].field + 1
             \/ /\ all[i].field = all[i].size
                /\ all[i + 1].seq = all[i].seq + 1 /\ all[i + 1].field = 1
  <2>1. CASE i \in 1 .. len /\ i + 1 \in 1 .. len
    <3>1. all[i] = fields[i] /\ all[i + 1] = fields[i + 1] /\ i \in DOMAIN fields /\ i + 1 \in DOMAIN fields
      BY <1>1, <1>3, <2>1
    <3> QED
      BY <3>1 DEF Framing
  <2>2. CASE i = len /\ i \in 1 .. len
    <3>1. all[i] = fields[len] /\ fields # <<>>
      BY <1>1, <1>3, <2>2, FramingTypes DEF len
    <3>2. all[i].seq = m /\ all[i].field = all[i].size
      BY <3>1 DEF Framing, len, m
    <3>3. 1 \in 1 .. size /\ i + 1 = len + 1
      BY <1>1, <2>2
    <3>4. all[i + 1].seq = m + 1 /\ all[i + 1].field = 1
      BY <1>2, <1>3, <3>3
    <3> QED
      BY <3>2, <3>4
  <2>3. CASE \E j \in 1 .. size : i = len + j
    <3>1. PICK j \in 1 .. size : i = len + j
      BY <2>3
    <3>2. j + 1 \in 1 .. size /\ i + 1 = len + (j + 1)
      BY <1>1, <1>3, <1>7, <3>1
    <3> QED
      BY <1>2, <1>3, <3>1, <3>2
  <2>4. i \in 1 .. len => i = len \/ i + 1 \in 1 .. len
    BY <1>1
  <2> QED
    BY <1>3, <1>5, <1>7, <2>1, <2>2, <2>3, <2>4
<1>8. all # <<>>
  <2>1. len + size # 0
    BY <1>1
  <2> QED
    BY <1>3, <2>1
<1>9. all[1].seq = n + 1 /\ all[1].field = got + 1
  <2>1. CASE fields = <<>>
    <3>1. len = 0 /\ n = m /\ got = 0
      BY <2>1 DEF Framing, len, m
    <3>2. 1 \in 1 .. size /\ 1 = len + 1 /\ 1 = got + 1
      BY <1>1, <3>1
    <3>3. all[1] = more[1]
      BY <1>3, <3>2
    <3> QED
      BY <1>2, <3>1, <3>2, <3>3
  <2>2. CASE fields # <<>>
    <3>1. len # 0
      BY <2>2, FramingTypes DEF len
    <3>2. 1 \in 1 .. len
      BY <1>1, <3>1
    <3> QED
      BY <1>3, <2>2, <3>2 DEF Framing
  <2> QED
    BY <2>1, <2>2
<1>10. all[Len(all)].seq = Len(long) /\ all[Len(all)].field = all[Len(all)].size
  <2>1. size \in 1 .. size
    BY <1>1
  <2> QED
    BY <1>2, <1>3, <1>4, <2>1
<1>11. Framing(all, long, n, got)
  BY <1>1, <1>3, <1>4, <1>6, <1>7, <1>8, <1>9, <1>10 DEF Framing
<1> QED
  BY <1>11 DEF all, long, more

\* The flows whose packets TCPrecvPacket can tell apart.
Framed(f) == f \in asked.flows /\ Opt(f).proto = "TCP" /\ Opt(f).log # "none"

\* What was sent, what is logged, what is in the stream, and where the thread is.
InFrames(packets, recs, fields, t, least) ==
  /\ packets \in Seq(SentPackets)
  /\ \A j \in DOMAIN packets : packets[j].seq = j /\ packets[j].size >= least
  /\ Len(recs) <= Len(packets)
  /\ \A i \in 1 .. Len(recs) : recs[i].seq = i /\ recs[i].size = packets[i].size
  /\ t.pc # "asleep" => Framing(fields, packets, Len(recs), t.got)
  /\ t.pc = "payload" =>
       /\ Len(recs) + 1 \in DOMAIN packets /\ t.header.seq = Len(recs) + 1
       /\ t.size = packets[Len(recs) + 1].size

\* That is so for every flow that is framed.
FramesKept(f) ==
  Framed(f) =>
    /\ failures[f] = 0
    /\ InFrames(sent[f], OfFlows(recvLog, {f}), stream[f], rcv[f], MinSize(f))

\* A step that is not one of the stream of a flow.
FramesElse(f) ==
  /\ asked' = asked /\ failures'[f] = failures[f] /\ sent'[f] = sent[f] /\ stream'[f] = stream[f]
  /\ rcv'[f] = rcv[f] /\ OfFlows(recvLog', {f}) = OfFlows(recvLog, {f})

\* Nothing is sent at first.
LEMMA FramesInitially == Init => \A f \in Flows : FramesKept(f)
<1> SUFFICES ASSUME Init, NEW f \in Flows PROVE FramesKept(f)
  OBVIOUS
<1>1. /\ failures[f] = 0 /\ sent[f] = <<>> /\ stream[f] = <<>> /\ rcv[f] = AtPreamble /\ recvLog = <<>>
  BY DEF Init, SenderInit, ReceiverInit
<1>2. OfFlows(recvLog, {f}) = <<>>
  BY <1>1, OfFlowsNone
<1>3. AtPreamble.pc = "preamble" /\ AtPreamble.got = 0
  BY DEF AtPreamble
<1>4. /\ <<>> \in Seq(SentPackets) /\ <<>> \in Seq(StreamFields) /\ Len(<<>>) = 0 /\ DOMAIN <<>> = {}
      /\ 1 .. 0 = {}
  OBVIOUS
<1>5. Framing(<<>>, <<>>, 0, 0)
  BY <1>4 DEF Framing
<1>6. InFrames(<<>>, <<>>, <<>>, AtPreamble, MinSize(f))
  BY <1>3, <1>4, <1>5 DEF InFrames
<1> QED
  BY <1>1, <1>2, <1>6 DEF FramesKept

\* A record of another flow.
LEMMA OfAnother ==
  ASSUME MeasureInv, NEW f \in Flows, NEW r \in Records, r.flow # f, recvLog' = Append(recvLog, r)
  PROVE  OfFlows(recvLog', {f}) = OfFlows(recvLog, {f})
<1> DEFINE log == recvLog
<1>1. log \in Seq(Records)
  BY DEF MeasureInv, MeasureTypes
<1> HIDE DEF log
<1>2. OfFlows(Append(log, r), {f}) = OfFlows(log, {f})
  BY <1>1, OneMore
<1> QED
  BY <1>2 DEF log

\* What a thread logs.
LEMMA LoggedFlow ==
  ASSUME asked \in Cases, now \in Nat, NEW t \in Flows, NEW p \in Packets \cup StreamFields, NEW size \in Nat
  PROVE  /\ Logged(t, p, size) \in Records /\ Logged(t, p, size).flow \in {t, p.flow}
         /\ Opt(t).log # "none" =>
              /\ Logged(t, p, size).flow = p.flow /\ Logged(t, p, size).seq = p.seq
              /\ Logged(t, p, size).size = size
<1>1. Opt(t).log \in {"standard", "short", "none"}
  BY OptionTypes
<1>2. Logged(t, p, size) \in Records
  BY LoggedTypes
<1> QED
  BY <1>1, <1>2 DEF Logged

\* What a step of the measurement does to a stream.
LEMMA FramesMove ==
  ASSUME MeasureInv, [Next]_vars, NEW f \in Flows, Framed(f)
  PROVE  \/ FramesElse(f)
         \/ SendPacket(f) /\ UNCHANGED <<receiverVars, dec>>
         \/ dec.pc = "off" /\ (ReadPreamble(f) \/ ReadPayload(f))
<1>1. /\ asked \in Cases /\ now \in Nat /\ failures \in [Flows -> Nat]
      /\ sent \in [Flows -> Seq(SentPackets)] /\ stream \in [Flows -> Seq(StreamFields)]
      /\ rcv \in [Flows -> ThreadStates] /\ net \in [Flows -> SUBSET Packets]
      /\ asked.flows \subseteq Flows /\ \A g \in Flows : Opt(g).port \in Flows
  BY OptionTypes DEF MeasureInv, MeasureTypes
<1>2. f \in asked.flows /\ Opt(f).proto = "TCP"
  BY DEF Framed
<1>3. ASSUME NEW g \in Flows, Sender(g), UNCHANGED <<receiverVars, dec>>, ~(g = f /\ SendPacket(f))
      PROVE  FramesElse(f)
  <2>1. UNCHANGED <<rcv, copies, recvLog>>
    BY <1>3 DEF receiverVars
  <2>2. CASE SendPacket(g)
    <3>1. g # f
      BY <1>3, <2>2
    <3>2. asked' = asked /\ failures' = failures /\ \E q : sent' = [sent EXCEPT ![g] = q]
      BY <2>2 DEF SendPacket
    <3>3. (\E q : stream' = [stream EXCEPT ![g] = q]) \/ stream' = stream
      BY <2>2 DEF SendPacket, Transmit
    <3> QED
      BY <1>1, <2>1, <3>1, <3>2, <3>3 DEF FramesElse
  <2>3. CASE SendFails(g)
    <3>1. g # f
      BY <1>2, <2>3 DEF SendFails
    <3>2. /\ asked' = asked /\ stream' = stream /\ sent' = sent
          /\ failures' = [failures EXCEPT ![g] = @ + 1]
      BY <2>3 DEF SendFails
    <3> QED
      BY <1>1, <2>1, <3>1, <3>2 DEF FramesElse
  <2>4. CASE StartFlow(g) \/ ReadEcho(g) \/ WaitOver(g) \/ OffOver(g) \/ ReadLastEcho(g) \/ TailOver(g)
    <3>1. UNCHANGED <<asked, failures, stream, sent>>
      BY <2>4 DEF StartFlow, ReadEcho, WaitOver, OffOver, ReadLastEcho, TailOver
    <3> QED
      BY <2>1, <3>1 DEF FramesElse
  <2> QED
    BY <1>3, <2>2, <2>3, <2>4 DEF Sender
<1>4. CASE Tick /\ UNCHANGED <<receiverVars, dec>>
  BY <1>4 DEF Tick, receiverVars, FramesElse
<1>5. CASE StartDecoder \/ Decodes \/ UNCHANGED vars
  BY <1>5 DEF StartDecoder, Decodes, Others, vars, senderVars, receiverVars, FramesElse
<1>6. ASSUME NEW t \in Flows, ReceiveDatagram(t) PROVE FramesElse(f)
  <2>1. PICK p \in net[Opt(t).port] : recvLog' = Append(recvLog, Logged(t, p, p.size))
    BY <1>6 DEF ReceiveDatagram
  <2>2. p \in Packets /\ Opt(p.flow).proto # "TCP" /\ Opt(t).proto = "UDP"
    BY <1>1, <1>6, <2>1 DEF ReceiveDatagram, MeasureInv, NetKept
  <2>3. p.size \in Nat
    BY <2>2, FlowSenderAssumption DEF Packets
  <2>4. Logged(t, p, p.size) \in Records /\ Logged(t, p, p.size).flow \in {t, p.flow}
    BY <1>1, <2>2, <2>3, LoggedFlow
  <2>5. Logged(t, p, p.size).flow # f
    BY <1>2, <2>2, <2>4
  <2>6. OfFlows(recvLog', {f}) = OfFlows(recvLog, {f})
    BY <2>1, <2>4, <2>5, OfAnother
  <2>7. UNCHANGED <<asked, failures, stream, sent, rcv>>
    BY <1>6 DEF ReceiveDatagram
  <2> QED
    BY <2>6, <2>7 DEF FramesElse
<1>7. ASSUME NEW t \in Flows, ReceiveRaw(t) PROVE FramesElse(f)
  <2>1. PICK p \in net[t] : recvLog' = Append(recvLog, Logged(t, p, p.size))
    BY <1>7 DEF ReceiveRaw
  <2>2. p \in Packets /\ Opt(p.flow).proto # "TCP" /\ Opt(t).proto = "ICMP"
    BY <1>1, <1>7, <2>1 DEF ReceiveRaw, MeasureInv, NetKept
  <2>3. p.size \in Nat
    BY <2>2, FlowSenderAssumption DEF Packets
  <2>4. Logged(t, p, p.size) \in Records /\ Logged(t, p, p.size).flow \in {t, p.flow}
    BY <1>1, <2>2, <2>3, LoggedFlow
  <2>5. Logged(t, p, p.size).flow # f
    BY <1>2, <2>2, <2>4
  <2>6. OfFlows(recvLog', {f}) = OfFlows(recvLog, {f})
    BY <2>1, <2>4, <2>5, OfAnother
  <2>7. UNCHANGED <<asked, failures, stream, sent, rcv>>
    BY <1>7 DEF ReceiveRaw
  <2> QED
    BY <2>6, <2>7 DEF FramesElse
<1>8. ASSUME NEW g \in Flows, g # f, ReadPreamble(g) PROVE FramesElse(f)
  <2>1. /\ UNCHANGED <<asked, failures, sent, recvLog>>
        /\ \E q : stream' = [stream EXCEPT ![g] = q]
    BY <1>8 DEF ReadPreamble, Unread, Taken
  <2>2. rcv'[f] = rcv[f]
    BY <1>1, <1>8 DEF ReadPreamble
  <2> QED
    BY <1>1, <1>8, <2>1, <2>2 DEF FramesElse
<1>9. ASSUME NEW g \in Flows, g # f, ReadPayload(g) PROVE FramesElse(f)
  <2>1. PICK k \in Some(g, rcv[g].size - rcv[g].got) :
          /\ Taken(g, k)
          /\ IF Opt(g).log = "none" \/ rcv[g].got + k = rcv[g].size
             THEN /\ recvLog' = Append(recvLog, Logged(g, rcv[g].header,
                                                       IF Opt(g).log = "none" THEN k ELSE rcv[g].size))
                  /\ rcv' = [rcv EXCEPT ![g] = AtPreamble]
             ELSE rcv' = [rcv EXCEPT ![g].got = @ + k] /\ UNCHANGED recvLog
    BY <1>9 DEF ReadPayload
  <2>2. UNCHANGED <<asked, failures, sent>> /\ \E q : stream' = [stream EXCEPT ![g] = q]
    BY <1>9, <2>1 DEF ReadPayload, Unread, Taken
  <2>3. rcv'[f] = rcv[f]
    BY <1>1, <1>9, <2>1
  <2>4. /\ rcv[g].header \in StreamFields /\ rcv[g].header.flow = g /\ rcv[g].size \in Nat
        /\ rcv[g].got \in Nat /\ rcv[g].got < rcv[g].size
    BY SMTT(30), <1>1, <1>9, FlowSenderAssumption DEF ReadPayload, MeasureInv, ThreadKept, ThreadStates
  <2>5. k \in Nat
    <3>1. rcv[g].size - rcv[g].got \in Nat
      BY <2>4
    <3>2. k \in 1 .. Len(stream[g])
      BY <1>1, <2>1, <3>1, TakenKeeps
    <3> QED
      BY <1>1, <3>2, LenProperties
  <2>6. OfFlows(recvLog', {f}) = OfFlows(recvLog, {f})
    <3> DEFINE size == IF Opt(g).log = "none" THEN k ELSE rcv[g].size
               r    == Logged(g, rcv[g].header, size)
    <3>1. size \in Nat
      BY <2>4, <2>5
    <3> HIDE DEF size
    <3>2. r \in Records /\ r.flow \in {g, rcv[g].header.flow}
      BY <1>1, <2>4, <3>1, LoggedFlow
    <3>3. recvLog' = recvLog \/ recvLog' = Append(recvLog, r)
      BY <2>1 DEF size
    <3> HIDE DEF r
    <3>4. r.flow # f
      BY <1>9, <2>4, <3>2
    <3> QED
      BY <3>2, <3>3, <3>4, OfAnother
  <2> QED
    BY <1>1, <1>9, <2>2, <2>3, <2>6 DEF FramesElse
<1> QED
  BY <1>3, <1>4, <1>5, <1>6, <1>7, <1>8, <1>9 DEF Next, Receiver

\* Such a step leaves the frames.
LEMMA FramesElseKeeps ==
  ASSUME NEW f \in Flows, FramesKept(f), FramesElse(f)
  PROVE  FramesKept(f)'
<1>1. (Framed(f)' <=> Framed(f)) /\ MinSize(f)' = MinSize(f)
  BY DEF FramesElse, Framed, Opt, MinSize, Carried
<1>2. /\ failures'[f] = failures[f] /\ sent'[f] = sent[f] /\ stream'[f] = stream[f]
      /\ rcv'[f] = rcv[f] /\ OfFlows(recvLog', {f}) = OfFlows(recvLog, {f})
  BY DEF FramesElse
<1> QED
  BY <1>1, <1>2 DEF FramesKept

\* What a step inside the stream of a flow leaves to show.
LEMMA FramesTo ==
  ASSUME NEW f \in Flows, asked' = asked, failures'[f] = 0,
         InFrames(sent'[f], OfFlows(recvLog', {f}), stream'[f], rcv'[f], MinSize(f))
  PROVE  FramesKept(f)'
<1>1. MinSize(f)' = MinSize(f)
  BY DEF Opt, MinSize, Carried
<1> QED
  BY <1>1 DEF FramesKept

\* A packet is sent.
LEMMA FramesSend ==
  ASSUME MeasureInv, NEW f \in Flows, Framed(f), FramesKept(f), SendPacket(f), UNCHANGED <<receiverVars, dec>>
  PROVE  FramesKept(f)'
<1> DEFINE packets == sent[f]
           recs    == OfFlows(recvLog, {f})
           fields  == stream[f]
           t       == rcv[f]
           least   == MinSize(f)
<1>1. /\ snd[f].pc = "sending" /\ Opt(f).proto = "TCP" /\ failures[f] = 0
      /\ sent' = [sent EXCEPT ![f] = Append(@, NewPacket(f))]
      /\ stream' = [stream EXCEPT ![f] = @ \o FieldsOf(Packet(f))]
      /\ UNCHANGED <<asked, failures, rcv, recvLog>>
  BY DEF SendPacket, Transmit, NewPacket, receiverVars, Framed, FramesKept
<1>2. /\ sent \in [Flows -> Seq(SentPackets)] /\ stream \in [Flows -> Seq(StreamFields)]
      /\ snd \in [Flows -> SenderStates] /\ asked \in Cases
  BY DEF MeasureInv, MeasureTypes
<1>3. InFrames(packets, recs, fields, t, least)
  BY DEF FramesKept
<1>4. /\ NewPacket(f) \in SentPackets /\ Packet(f) \in Packets /\ Packet(f).seq = NewPacket(f).seq
      /\ NewPacket(f).seq = snd[f].seq /\ NewPacket(f).size = snd[f].size /\ Packet(f).size = snd[f].size
  BY <1>1, PacketTypes DEF NewPacket, Packet
<1>5. PICK p \in Packets, q \in SentPackets : p = Packet(f) /\ q = NewPacket(f)
  BY <1>4
<1>6. PICK m \in Nat : m = Len(packets) /\ DOMAIN packets = 1 .. m
  BY <1>2, LenProperties
<1>7. q.seq = m + 1 /\ p.seq = m + 1
  <2>1. snd[f].seq - 1 = Len(sent[f]) + failures[f] + (IF snd[f].pc = "waiting" THEN -1 ELSE 0)
    BY DEF MeasureInv, SenderKept
  <2>2. snd[f].seq \in Nat
    BY <1>2 DEF SenderStates
  <2>3. snd[f].seq - 1 = m
    BY <1>1, <1>6, <2>1
  <2> QED
    BY <1>4, <1>5, <2>2, <2>3
<1>8. least \in Nat \ {0} /\ q.size \in Nat /\ q.size >= least /\ p.size = q.size
  <2>1. snd[f].size \in least .. Largest /\ least \in Nat \ {0} /\ Largest \in Nat
    BY <1>1, <1>2, OptionTypes DEF MeasureInv, SenderKept
  <2> QED
    BY <1>4, <1>5, <2>1
<1>9. sent'[f] = Append(packets, q) /\ stream'[f] = fields \o FieldsOf(p) /\ packets \in Seq(SentPackets)
  BY <1>1, <1>2, <1>5
<1>10. rcv'[f] = t /\ OfFlows(recvLog', {f}) = recs /\ failures'[f] = 0 /\ asked' = asked
  BY <1>1
<1> HIDE DEF packets, recs, fields, t, least
<1>11. /\ Append(packets, q) \in Seq(SentPackets) /\ DOMAIN Append(packets, q) = 1 .. m + 1
       /\ Len(Append(packets, q)) = m + 1 /\ Append(packets, q)[m + 1] = q
       /\ \A j \in 1 .. m : Append(packets, q)[j] = packets[j]
  BY <1>6, <1>9, AppendProperties, LenProperties
<1>12. \A j \in 1 .. m + 1 : j = m + 1 \/ j \in 1 .. m
  OBVIOUS
<1>13. /\ \A j \in 1 .. m : packets[j].seq = j /\ packets[j].size >= least
       /\ Len(recs) <= m
       /\ \A i \in 1 .. Len(recs) : recs[i].seq = i /\ recs[i].size = packets[i].size
       /\ t.pc # "asleep" => Framing(fields, packets, Len(recs), t.got)
       /\ t.pc = "payload" =>
            /\ Len(recs) + 1 \in 1 .. m /\ t.header.seq = Len(recs) + 1
            /\ t.size = packets[Len(recs) + 1].size
  BY <1>3, <1>6 DEF InFrames
<1>14. Len(recs) \in Nat
  <2> DEFINE log == recvLog
             flows == {f}
  <2>1. log \in Seq(Records)
    BY DEF MeasureInv, MeasureTypes
  <2> HIDE DEF log, flows
  <2>2. OfFlows(log, flows) \in Seq(Records)
    BY <2>1, OfFlowsTypes
  <2> QED
    BY <2>2, LenProperties DEF log, flows, recs
<1>15. \A i \in 1 .. Len(recs) : i \in 1 .. m
  BY <1>13, <1>14
<1>16. \A j \in 1 .. m + 1 : Append(packets, q)[j].seq = j /\ Append(packets, q)[j].size >= least
  BY <1>7, <1>8, <1>11, <1>12, <1>13
<1>17. t.pc # "asleep" => Framing(fields \o FieldsOf(p), Append(packets, q), Len(recs), t.got)
  <2>1. p.size > 0
    BY <1>8
  <2> QED
    BY <1>6, <1>7, <1>8, <1>13, <2>1, FramingSent
<1>18. t.pc = "payload" =>
         /\ Len(recs) + 1 \in 1 .. m + 1 /\ t.header.seq = Len(recs) + 1
         /\ t.size = Append(packets, q)[Len(recs) + 1].size
  <2>1. \A j \in 1 .. m : j \in 1 .. m + 1
    OBVIOUS
  <2> QED
    BY <1>11, <1>13, <2>1
<1>19. InFrames(Append(packets, q), recs, fields \o FieldsOf(p), t, least)
  <2>1. Len(recs) <= m + 1
    BY <1>13, <1>14
  <2>2. \A i \in 1 .. Len(recs) : recs[i].seq = i /\ recs[i].size = Append(packets, q)[i].size
    BY <1>11, <1>13, <1>15
  <2> QED
    BY <1>11, <1>16, <1>17, <1>18, <2>1, <2>2 DEF InFrames
<1> QED
  BY <1>9, <1>10, <1>19, FramesTo DEF least

\* There is a packet to read when a stream is not empty.
LEMMA FramingNext ==
  ASSUME NEW fields, NEW packets, NEW n, NEW got, Framing(fields, packets, n, got), NEW k \in DOMAIN fields
  PROVE  n + 1 \in DOMAIN packets /\ packets[n + 1].size \in Nat
<1>1. k \in 1 .. Len(fields) /\ Len(fields) \in Nat /\ (Len(fields) = 0 <=> fields = <<>>)
  BY FramingTypes
<1>2. fields # <<>> /\ 1 \in DOMAIN fields
  BY <1>1, FramingTypes
<1>3. fields[1].seq = n + 1 /\ fields[1].seq \in DOMAIN packets
  BY <1>2 DEF Framing
<1> QED
  BY <1>3, FramingTypes

\* TCPrecvPacket reads a part of the preamble.
LEMMA FramesPreamble ==
  ASSUME MeasureInv, NEW f \in Flows, Framed(f), FramesKept(f), ReadPreamble(f)
  PROVE  FramesKept(f)'
<1> DEFINE packets == sent[f]
           recs    == OfFlows(recvLog, {f})
           fields  == stream[f]
           least   == MinSize(f)
           n       == Len(recs)
<1>1. PICK k \in Some(f, PreambleSize(f) - rcv[f].got) :
        /\ Taken(f, k)
        /\ IF rcv[f].got + k = PreambleSize(f)
           THEN rcv' = [rcv EXCEPT ![f] = AfterPreamble(f, stream[f][k])]
           ELSE rcv' = [rcv EXCEPT ![f].got = @ + k]
  BY DEF ReadPreamble
<1>2. /\ rcv[f].pc = "preamble" /\ UNCHANGED <<asked, failures, sent, recvLog>>
      /\ asked \in Cases /\ rcv \in [Flows -> ThreadStates] /\ stream \in [Flows -> Seq(StreamFields)]
      /\ rcv[f].got < PreambleSize(f) /\ failures[f] = 0 /\ Opt(f).log # "none"
  BY DEF ReadPreamble, Unread, MeasureInv, MeasureTypes, ThreadKept, Framed, FramesKept
<1>3. InFrames(packets, recs, fields, rcv[f], least)
  BY DEF FramesKept
<1>4. Framing(fields, packets, n, rcv[f].got)
  BY <1>2, <1>3 DEF InFrames
<1>5. PICK old \in ThreadStates : old = rcv[f]
  BY <1>2
<1>6. PICK p \in Nat \ {0} : p = PreambleSize(f) /\ p <= least /\ least \in Nat
  BY <1>2, OptionTypes
<1>7. PICK got \in Nat : got = old.got /\ got < p /\ p - got \in Nat
  BY <1>2, <1>5, <1>6 DEF ThreadStates
<1>8. k \in 1 .. Len(fields) /\ k <= p - got
  BY <1>1, <1>2, <1>5, <1>6, <1>7, TakenKeeps
<1>9. stream'[f] = SubSeq(fields, k + 1, Len(fields))
  BY <1>1, <1>2 DEF Taken
<1>10. rcv'[f] = IF got + k = p THEN AfterPreamble(f, fields[k]) ELSE [old EXCEPT !.got = got + k]
  BY <1>1, <1>2, <1>5, <1>6, <1>7
<1>11. sent'[f] = packets /\ OfFlows(recvLog', {f}) = recs /\ failures'[f] = 0 /\ asked' = asked
  BY <1>2
<1>12. Framing(fields, packets, n, got)
  BY <1>4, <1>5, <1>7
<1> DEFINE rest == SubSeq(fields, k + 1, Len(fields))
           z    == packets[n + 1].size
           t    == rcv'[f]
<1>13. t = IF got + k = p THEN AfterPreamble(f, fields[k]) ELSE [old EXCEPT !.got = got + k]
  BY <1>10
<1>14. old.pc = "preamble"
  BY <1>2, <1>5
<1> HIDE DEF packets, recs, fields, least, n, rest, z, t
<1>15. k \in DOMAIN fields /\ k \in Nat /\ k >= 1
  BY <1>8, <1>12, FramingTypes
<1>16. n + 1 \in DOMAIN packets /\ z \in Nat /\ z >= least /\ n \in Nat
  <2>1. n + 1 \in DOMAIN packets /\ z \in Nat
    BY <1>12, <1>15, FramingNext DEF z
  <2> QED
    BY <1>3, <1>12, <2>1, FramingTypes DEF InFrames, z
<1>17. got + k <= p /\ p <= z
  BY <1>6, <1>7, <1>8, <1>15, <1>16
<1>18. got + k <= z
  BY <1>6, <1>7, <1>15, <1>16, <1>17
<1>19. fields[k].seq = n + 1 /\ fields[k].field = got + k
  BY <1>12, <1>15, <1>18, FramingRun DEF z
<1>20. got + k < z => Framing(rest, packets, n, got + k)
  BY <1>12, <1>15, <1>18, FramingTaken DEF z, rest
<1>21. /\ t.pc # "asleep" => Framing(rest, packets, n, t.got)
       /\ t.pc = "payload" => t.header.seq = n + 1 /\ t.size = z
  <2>1. CASE got + k = p
    <3>1. SizeRead(f, fields[k]) = z
      <4>1. fields[k].size = z
        BY <1>12, <1>15, <1>19 DEF Framing, z
      <4> QED
        BY <1>6, <1>19, <2>1, <4>1 DEF SizeRead
    <3>2. t = IF z > p THEN [pc |-> "payload", got |-> p, size |-> z, header |-> fields[k]]
              ELSE [pc |-> "asleep", got |-> 0, size |-> 0, header |-> fields[k]]
      BY <1>2, <1>6, <1>13, <2>1, <3>1 DEF AfterPreamble
    <3>3. z > p => got + k < z
      BY <1>6, <1>16, <2>1
    <3> QED
      BY <1>19, <1>20, <2>1, <3>2, <3>3
  <2>2. CASE got + k # p
    <3>1. t = [old EXCEPT !.got = got + k]
      BY <1>13, <2>2
    <3>2. t.pc = "preamble" /\ t.got = got + k
      BY <1>14, <3>1 DEF ThreadStates
    <3>3. got + k < z
      BY <1>6, <1>7, <1>15, <1>16, <1>17, <2>2
    <3> QED
      BY <1>20, <3>2, <3>3
  <2> QED
    BY <2>1, <2>2
<1>22. InFrames(packets, recs, rest, t, least)
  BY <1>3, <1>16, <1>21 DEF InFrames, n, z
<1> QED
  BY <1>9, <1>11, <1>22, FramesTo DEF t, rest, least

\* TCPrecvPacket reads a part of the payload.
LEMMA FramesPayload ==
  ASSUME MeasureInv, NEW f \in Flows, Framed(f), FramesKept(f), ReadPayload(f)
  PROVE  FramesKept(f)'
<1> DEFINE packets == sent[f]
           recs    == OfFlows(recvLog, {f})
           fields  == stream[f]
           least   == MinSize(f)
           n       == Len(recs)
<1>1. Opt(f).log # "none"
  BY DEF Framed
<1>2. PICK k \in Some(f, rcv[f].size - rcv[f].got) :
        /\ Taken(f, k)
        /\ IF rcv[f].got + k = rcv[f].size
           THEN /\ recvLog' = Append(recvLog, Logged(f, rcv[f].header, rcv[f].size))
                /\ rcv' = [rcv EXCEPT ![f] = AtPreamble]
           ELSE rcv' = [rcv EXCEPT ![f].got = @ + k] /\ UNCHANGED recvLog
  BY <1>1 DEF ReadPayload
<1>3. /\ rcv[f].pc = "payload" /\ UNCHANGED <<asked, failures, sent>>
      /\ asked \in Cases /\ now \in Nat
      /\ rcv \in [Flows -> ThreadStates] /\ stream \in [Flows -> Seq(StreamFields)]
      /\ failures[f] = 0 /\ recvLog \in Seq(Records)
      /\ rcv[f].got < rcv[f].size /\ rcv[f].header \in StreamFields /\ rcv[f].header.flow = f
  BY DEF ReadPayload, Unread, MeasureInv, MeasureTypes, ThreadKept, FramesKept
<1>4. InFrames(packets, recs, fields, rcv[f], least)
  BY DEF FramesKept
<1>5. PICK old \in ThreadStates : old = rcv[f]
  BY <1>3
<1>6. PICK got \in Nat, size \in Nat : got = old.got /\ size = old.size /\ size - got \in Nat
  BY <1>3, <1>5 DEF ThreadStates
<1>7. /\ Framing(fields, packets, n, got)
      /\ n + 1 \in DOMAIN packets /\ old.header.seq = n + 1 /\ size = packets[n + 1].size
  BY <1>3, <1>4, <1>5, <1>6 DEF InFrames
<1>8. k \in 1 .. Len(fields) /\ k <= size - got
  BY <1>2, <1>3, <1>5, <1>6, TakenKeeps
<1>9. stream'[f] = SubSeq(fields, k + 1, Len(fields))
  BY <1>2, <1>3 DEF Taken
<1>10. sent'[f] = packets /\ failures'[f] = 0 /\ asked' = asked
  BY <1>3
<1> DEFINE rest == SubSeq(fields, k + 1, Len(fields))
<1>11. k \in DOMAIN fields /\ k \in Nat /\ k >= 1 /\ n \in Nat
  BY <1>7, <1>8, FramingTypes
<1>12. got + k <= size
  BY <1>6, <1>8, <1>11
<1>13. CASE got + k = size
  <2> DEFINE r == Logged(f, old.header, size)
  <2>1. recvLog' = Append(recvLog, r) /\ rcv'[f] = AtPreamble
    BY <1>2, <1>3, <1>5, <1>6, <1>13
  <2>2. r \in Records /\ r.flow = f /\ r.seq = n + 1 /\ r.size = size
    BY <1>1, <1>3, <1>5, <1>6, <1>7, LoggedFlow
  <2> HIDE DEF r
  <2>3. OfFlows(recvLog', {f}) = Append(recs, r) /\ recs \in Seq(Records)
    <3> DEFINE log == recvLog
    <3>1. log \in Seq(Records)
      BY <1>3
    <3> HIDE DEF log
    <3>2. OfFlows(log, {f}) \in Seq(Records) /\ OfFlows(Append(log, r), {f}) = Append(OfFlows(log, {f}), r)
      BY <2>2, <3>1, OneMore
    <3> QED
      BY <2>1, <3>2 DEF log
  <2>4. AtPreamble.pc = "preamble" /\ AtPreamble.got = 0
    BY DEF AtPreamble
  <2> HIDE DEF packets, recs, fields, least, rest
  <2>5. Framing(rest, packets, n + 1, 0)
    BY <1>7, <1>11, <1>12, <1>13, FramingTaken DEF rest
  <2> HIDE DEF n
  <2>6. /\ Len(Append(recs, r)) = n + 1 /\ Append(recs, r)[n + 1] = r
        /\ \A i \in 1 .. n : Append(recs, r)[i] = recs[i]
    BY <2>2, <2>3, AppendProperties DEF n
  <2>7. \A i \in 1 .. n + 1 : i = n + 1 \/ i \in 1 .. n
    BY <1>11
  <2>8. /\ packets \in Seq(SentPackets)
        /\ \A j \in DOMAIN packets : packets[j].seq = j /\ packets[j].size >= least
        /\ \A i \in 1 .. n : recs[i].seq = i /\ recs[i].size = packets[i].size
    BY <1>4 DEF InFrames, n
  <2>9. n + 1 <= Len(packets)
    BY <1>7, FramingTypes
  <2>10. \A i \in 1 .. n + 1 : Append(recs, r)[i].seq = i /\ Append(recs, r)[i].size = packets[i].size
    BY <1>7, <2>2, <2>6, <2>7, <2>8
  <2>11. InFrames(packets, Append(recs, r), rest, AtPreamble, least)
    BY <2>4, <2>5, <2>6, <2>8, <2>9, <2>10 DEF InFrames
  <2> QED
    BY <1>9, <1>10, <2>1, <2>3, <2>11, FramesTo DEF least, rest
<1>14. CASE got + k # size
  <2>1. recvLog' = recvLog /\ rcv'[f] = [old EXCEPT !.got = got + k]
    BY <1>2, <1>3, <1>5, <1>6, <1>14
  <2> DEFINE t == [old EXCEPT !.got = got + k]
  <2>2. t.pc = "payload" /\ t.got = got + k /\ t.size = size /\ t.header = old.header
    BY <1>3, <1>5, <1>6 DEF ThreadStates
  <2>3. got + k < size
    BY <1>6, <1>11, <1>12, <1>14
  <2>4. OfFlows(recvLog', {f}) = recs /\ rcv'[f] = t
    BY <2>1
  <2> HIDE DEF packets, recs, fields, least, rest, t
  <2>5. Framing(rest, packets, n, got + k)
    BY <1>7, <1>11, <1>12, <2>3, FramingTaken DEF rest
  <2>6. InFrames(packets, recs, rest, t, least)
    BY <1>4, <1>7, <2>2, <2>5 DEF InFrames
  <2> QED
    BY <1>9, <1>10, <2>4, <2>6, FramesTo DEF least, rest
<1> QED
  BY <1>13, <1>14

\* A step of the measurement leaves the frames.
LEMMA FramesStep == MeasureInv /\ (\A f \in Flows : FramesKept(f)) /\ [Next]_vars
                    => \A f \in Flows : FramesKept(f)'
<1> SUFFICES ASSUME MeasureInv, [Next]_vars, NEW f \in Flows, FramesKept(f) PROVE FramesKept(f)'
  OBVIOUS
<1>1. CASE ~Framed(f)
  <2>1. ~Framed(f)'
    BY <1>1, DecoderMoves DEF Framed, Opt
  <2> QED
    BY <2>1 DEF FramesKept
<1>2. CASE Framed(f)
  BY <1>2, FramesMove, FramesElseKeeps, FramesSend, FramesPreamble, FramesPayload
<1> QED
  BY <1>1, <1>2

\* Frames that are kept are what the property states.
LEMMA FramesAreFound == MeasureInv /\ (\A f \in Flows : FramesKept(f)) => FramesFound
<1> SUFFICES ASSUME MeasureInv, \A f \in Flows : FramesKept(f),
                    NEW f \in asked.flows, Opt(f).proto = "TCP", Opt(f).log # "none"
             PROVE  IsPrefix(Fields(OfFlows(recvLog, {f})), Fields(sent[f]))
  BY DEF FramesFound
<1> DEFINE recs    == OfFlows(recvLog, {f})
           packets == sent[f]
<1>1. f \in Flows /\ Framed(f)
  BY OptionTypes DEF MeasureInv, MeasureTypes, Framed
<1>2. InFrames(packets, recs, stream[f], rcv[f], MinSize(f))
  BY <1>1 DEF FramesKept
<1>3. recs \in Seq(Records)
  <2> DEFINE log == recvLog
             flows == {f}
  <2>1. log \in Seq(Records)
    BY DEF MeasureInv, MeasureTypes
  <2> HIDE DEF log, flows
  <2>2. OfFlows(log, flows) \in Seq(Records)
    BY <2>1, OfFlowsTypes
  <2> QED
    BY <2>2 DEF log, flows
<1> HIDE DEF recs, packets
<1>4. PICK n \in Nat, m \in Nat :
        /\ n = Len(recs) /\ m = Len(packets) /\ n <= m /\ DOMAIN recs = 1 .. n /\ DOMAIN packets = 1 .. m
  BY <1>2, <1>3, LenProperties DEF InFrames
<1>5. \A i \in 1 .. n : i \in 1 .. m /\ recs[i].seq = packets[i].seq /\ recs[i].size = packets[i].size
  <2>1. \A i \in 1 .. n : i \in 1 .. m
    BY <1>4
  <2> QED
    BY <1>2, <1>4, <2>1 DEF InFrames
<1> DEFINE a == Fields(recs)
           b == Fields(packets)
<1>6. /\ a = [i \in 1 .. n |-> [seq |-> recs[i].seq, size |-> recs[i].size]]
      /\ b = [i \in 1 .. m |-> [seq |-> packets[i].seq, size |-> packets[i].size]]
  BY <1>4 DEF Fields
<1>7. Len(a) = n /\ Len(b) = m
  BY <1>6
<1>8. \A i \in 1 .. n : a[i] = b[i]
  BY <1>5, <1>6
<1> HIDE DEF a, b
<1>9. SubSeq(a, 1, n) = SubSeq(b, 1, n)
  BY <1>8
<1> QED
  BY <1>4, <1>7, <1>9 DEF IsPrefix, a, b, recs, packets

\* TCPrecvPacket: whatever the sizes of the packets and the parts in which recv() returns the
\* stream, the records of a TCP flow with a header are its packets, in the order in which
\* flowSender sent them, with their sizes, up to some packet.
THEOREM PacketsFramed == Spec => []FramesFound
<1> DEFINE AllKept == \A f \in Flows : FramesKept(f)
<1>1. Init => AllKept
  BY FramesInitially
<1>2. MeasureInv /\ AllKept /\ [Next]_vars => AllKept'
  BY FramesStep
<1>3. MeasureInv /\ AllKept => FramesFound
  BY FramesAreFound
<1> HIDE DEF AllKept
<1> QED
  BY <1>1, <1>2, <1>3, MeasureInitially, MeasureStep, PTL DEF Spec
-----------------------------------------------------------------------------
(* The limits of a flow. *)

\* What has been sent before the last packet.
Before(packets) == IF packets = <<>> THEN 0 ELSE Size(Front(packets))
\* byteSent with the packet that the loop waits after.
BytesOf(s) == IF s.pc = "waiting" THEN s.bytes + s.chk ELSE s.bytes

\* The loop of a flow at some time: s is its state; total and before are the sums of the sizes of
\* its packets, failed are its sends that failed; packets, bytes and duration are its limits.
InLimits(s, time, total, before, failed, packets, bytes, duration) ==
  /\ s.last <= time
  /\ s.seq - 1 <= packets
  /\ s.pc # "idle" => s.end >= duration
  /\ s.pc \in {"sending", "waiting"} => s.seq - 1 < packets
  /\ s.pc \in {"tail", "ended"} => s.last >= s.end \/ s.seq - 1 >= packets \/ s.bytes >= bytes
  /\ total < Forever =>
       /\ BytesOf(s) = total - failed /\ BytesOf(s) >= 0
       /\ s.pc = "sending" => s.bytes < bytes
       /\ before < bytes + failed
LimitsKept(f) ==
  InLimits(snd[f], now, Size(sent[f]), Before(sent[f]), failures[f],
           NumPacket(f), ByteToSend(f), Duration(f))

\* No number of the flow has reached UINT_MAX or ULONG_MAX.
FarFromForever ==
  now < Forever /\ \A f \in asked.flows : snd[f].seq <= Forever /\ Size(sent[f]) < Forever

\* The limits of a flow are numbers.
LEMMA LimitTypes ==
  ASSUME asked \in Cases, NEW f \in Flows
  PROVE  /\ NumPacket(f) \in Nat \ {0} /\ ByteToSend(f) \in Nat \ {0} /\ Duration(f) \in Nat
         /\ Forever \in Nat \ {0} /\ Opt(f).packets \in Nat /\ Opt(f).bytes \in Nat /\ Opt(f).duration \in Nat
         /\ MinSize(f) \in Nat \ {0}
<1>1. Sendable(Opt(f)) /\ Forever \in Nat \ {0}
  BY FlowSenderAssumption DEF Opt
<1>2. Opt(f).packets \in Nat /\ Opt(f).bytes \in Nat /\ Opt(f).duration \in Nat
  BY <1>1 DEF Sendable
<1> QED
  BY <1>1, <1>2, OptionTypes DEF NumPacket, ByteToSend

\* A packet that is sent adds its size.
LEMMA SizesSent ==
  ASSUME MeasureInv, NEW f \in Flows
  PROVE  /\ Size(sent[f]) \in Nat /\ Before(sent[f]) \in Nat
         /\ \A p \in SentPackets :
              /\ Size(Append(sent[f], p)) = Size(sent[f]) + p.size
              /\ Before(Append(sent[f], p)) = Size(sent[f])
<1> DEFINE packets == sent[f]
<1>1. packets \in Seq(SentPackets)
  BY DEF MeasureInv, MeasureTypes
<1> HIDE DEF packets
<1>2. \A p \in SentPackets : p.size \in Nat
  BY FlowSenderAssumption DEF SentPackets
<1>3. \A all \in Seq(SentPackets) : Size(all) \in Nat
  <2> TAKE all \in Seq(SentPackets)
  <2>1. CASE \E p : p \in SentPackets
    <3>1. PICK p \in SentPackets : TRUE
      BY <2>1
    <3> QED
      BY <1>2, <3>1, SizeAppend
  <2>2. CASE ~\E p : p \in SentPackets
    <3>1. all = <<>>
      BY <2>2
    <3> QED
      BY <3>1, SizeNone
  <2> QED
    BY <2>1, <2>2
<1>4. ASSUME NEW p \in SentPackets
      PROVE  Size(Append(packets, p)) = Size(packets) + p.size /\ Before(Append(packets, p)) = Size(packets)
  <2>1. Size(Append(packets, p)) = Size(packets) + p.size
    BY <1>1, <1>2, SizeAppend
  <2>2. Append(packets, p) # <<>> /\ Front(Append(packets, p)) = packets
    BY <1>1 DEF Front
  <2> QED
    BY <2>1, <2>2 DEF Before
<1>5. Before(packets) \in Nat
  <2>1. packets # <<>> => Front(packets) \in Seq(SentPackets)
    BY <1>1 DEF Front
  <2> QED
    BY <1>3, <2>1 DEF Before
<1> QED
  BY <1>1, <1>3, <1>4, <1>5 DEF packets

\* A step that is not one of the flow's.
LEMMA LimitsElse ==
  ASSUME MeasureInv, NEW f \in Flows, LimitsKept(f), asked' = asked, now' \in Nat, now' >= now,
         snd'[f] = snd[f], failures'[f] = failures[f], sent'[f] = sent[f]
  PROVE  LimitsKept(f)'
<1>1. NumPacket(f)' = NumPacket(f) /\ ByteToSend(f)' = ByteToSend(f) /\ Duration(f)' = Duration(f)
  BY DEF NumPacket, ByteToSend, Duration, Opt
<1>2. snd[f].last \in Nat /\ now \in Nat
  BY DEF MeasureInv, MeasureTypes, SenderStates
<1>3. InLimits(snd[f], now', Size(sent[f]), Before(sent[f]), failures[f],
               NumPacket(f), ByteToSend(f), Duration(f))
  BY <1>2 DEF LimitsKept, InLimits
<1> QED
  BY <1>1, <1>3 DEF LimitsKept

\* What a step of the flow leaves to show.
LEMMA LimitsTo ==
  ASSUME NEW f \in Flows, asked' = asked, now' = now,
         InLimits(snd'[f], now, Size(sent'[f]), Before(sent'[f]), failures'[f],
                  NumPacket(f), ByteToSend(f), Duration(f))
  PROVE  LimitsKept(f)'
<1>1. NumPacket(f)' = NumPacket(f) /\ ByteToSend(f)' = ByteToSend(f) /\ Duration(f)' = Duration(f)
  BY DEF NumPacket, ByteToSend, Duration, Opt
<1> QED
  BY <1>1 DEF LimitsKept

\* The loop begins.
LEMMA LimitsStart ==
  ASSUME MeasureInv, NEW f \in Flows, LimitsKept(f), StartFlow(f)
  PROVE  LimitsKept(f)'
<1>1. PICK n \in NextSizes(f), on \in IF Opt(f).bursty THEN OnTimes ELSE {Duration(f)} :
        snd' = [snd EXCEPT ![f] = [Idle EXCEPT !.pc = "sending", !.last = now, !.size = n,
                                               !.on = on, !.end = now + Duration(f)]]
  BY DEF StartFlow
<1>2. /\ asked \in Cases /\ now \in Nat /\ snd \in [Flows -> SenderStates] /\ snd[f].pc = "idle"
      /\ failures \in [Flows -> Nat] /\ sent \in [Flows -> Seq(SentPackets)]
      /\ UNCHANGED <<asked, now, failures, sent>>
  BY DEF StartFlow, MeasureInv, MeasureTypes
<1> DEFINE s == snd'[f]
<1>3. s.pc = "sending" /\ s.last = now /\ s.end = now + Duration(f) /\ s.seq = 1 /\ s.bytes = 0
  BY <1>1, <1>2 DEF Idle
<1>4. sent[f] = <<>> /\ failures[f] = 0
  <2>1. snd[f].seq = 1
    BY <1>2 DEF MeasureInv, SenderKept
  <2>2. snd[f].seq - 1 = Len(sent[f]) + failures[f] + (IF snd[f].pc = "waiting" THEN -1 ELSE 0)
    BY DEF MeasureInv, SenderKept
  <2>3. Len(sent[f]) \in Nat /\ failures[f] \in Nat
    BY <1>2, LenProperties
  <2>4. Len(sent[f]) = 0 /\ failures[f] = 0
    BY <1>2, <2>1, <2>2, <2>3
  <2> QED
    BY <1>2, <2>4, EmptySeq
<1>5. Size(sent[f]) = 0 /\ Before(sent[f]) = 0
  BY <1>4, SizeNone DEF Before
<1> HIDE DEF s
<1>6. InLimits(s, now, 0, 0, 0, NumPacket(f), ByteToSend(f), Duration(f))
  BY <1>2, <1>3, LimitTypes DEF InLimits, BytesOf
<1> QED
  BY <1>2, <1>4, <1>5, <1>6, LimitsTo DEF s

\* The state of a loop that waits.
LEMMA WaitsFor ==
  ASSUME MeasureInv, NEW f \in Flows, NEW chk \in Int, GoesToWait(f, chk)
  PROVE  /\ snd'[f].pc = "waiting" /\ snd'[f].seq = snd[f].seq /\ snd'[f].bytes = snd[f].bytes
         /\ snd'[f].last = now /\ snd'[f].end = snd[f].end /\ snd'[f].chk = chk
<1>1. snd \in [Flows -> SenderStates]
  BY DEF MeasureInv, MeasureTypes
<1>2. PICK n, w : snd' = [snd EXCEPT ![f].pc = "waiting", ![f].size = n, ![f].chk = chk,
                                      ![f].stamp = snd[f].last, ![f].last = now,
                                      ![f].due = now + Remaining(f, w)]
  BY DEF GoesToWait
<1>3. PICK old \in SenderStates : old = snd[f]
  BY <1>1
<1> DEFINE due == now + Remaining(f, w)
<1>4. snd'[f] = [old EXCEPT !.pc = "waiting", !.size = n, !.chk = chk, !.stamp = old.last,
                            !.last = now, !.due = due]
  BY <1>1, <1>2, <1>3
<1> HIDE DEF due
<1> QED
  BY <1>3, <1>4 DEF SenderStates

\* A packet is sent; it could not be sent.
LEMMA LimitsSend ==
  ASSUME MeasureInv, NEW f \in Flows, LimitsKept(f), SendPacket(f)
  PROVE  LimitsKept(f)'
<1>1. /\ snd[f].pc = "sending" /\ GoesToWait(f, snd[f].size)
      /\ sent' = [sent EXCEPT ![f] = Append(@, NewPacket(f))]
      /\ UNCHANGED <<asked, now, failures>>
      /\ asked \in Cases /\ now \in Nat /\ snd \in [Flows -> SenderStates]
      /\ failures \in [Flows -> Nat] /\ sent \in [Flows -> Seq(SentPackets)]
  BY DEF SendPacket, NewPacket, MeasureInv, MeasureTypes
<1>2. NewPacket(f) \in SentPackets /\ NewPacket(f).size = snd[f].size
  BY <1>1, PacketTypes DEF NewPacket
<1>3. PICK old \in SenderStates : old = snd[f] /\ old.size \in Nat /\ old.bytes \in Nat /\ old.seq \in Nat
  BY SMTT(30), <1>1, FlowSenderAssumption DEF SenderStates
<1> DEFINE s     == snd'[f]
           total == Size(sent[f])
           n     == old.size
<1>4. /\ s.pc = "waiting" /\ s.seq = old.seq /\ s.bytes = old.bytes /\ s.last = now /\ s.end = old.end
      /\ s.chk = n
  <2>1. n \in Int
    BY <1>3
  <2> QED
    BY <1>1, <1>3, <2>1, WaitsFor
<1>5. /\ total \in Nat /\ Size(sent'[f]) = total + n /\ Before(sent'[f]) = total
      /\ Before(sent[f]) \in Nat /\ failures[f] \in Nat /\ failures'[f] = failures[f]
  <2>1. sent'[f] = Append(sent[f], NewPacket(f))
    BY <1>1
  <2> QED
    BY <1>1, <1>2, <1>3, <2>1, SizesSent
<1>6. InLimits(old, now, total, Before(sent[f]), failures[f], NumPacket(f), ByteToSend(f), Duration(f))
  BY <1>3 DEF LimitsKept
<1>7. PICK packets \in Nat, bytes \in Nat, duration \in Nat, failed \in Nat :
        packets = NumPacket(f) /\ bytes = ByteToSend(f) /\ duration = Duration(f) /\ failed = failures[f]
  BY <1>1, <1>5, LimitTypes
<1>8. old.pc = "sending"
  BY <1>1, <1>3
<1>9. Forever \in Nat
  BY FlowSenderAssumption
<1> HIDE DEF s, total, n
<1>10. BytesOf(s) = old.bytes + n
  BY <1>4 DEF BytesOf
<1>11. /\ s.seq - 1 < packets /\ s.seq - 1 <= packets /\ s.end >= duration
       /\ total < Forever => old.bytes = total - failed /\ old.bytes < bytes
  BY <1>4, <1>6, <1>7, <1>8 DEF InLimits, BytesOf
<1>12. n \in Nat
  BY <1>3 DEF n
<1>13. total + n < Forever =>
         BytesOf(s) = (total + n) - failed /\ BytesOf(s) >= 0 /\ total < bytes + failed
  BY <1>3, <1>5, <1>7, <1>9, <1>10, <1>11, <1>12
<1>14. InLimits(s, now, total + n, total, failed, packets, bytes, duration)
  BY <1>1, <1>4, <1>11, <1>13 DEF InLimits
<1> QED
  BY <1>1, <1>5, <1>7, <1>14, LimitsTo DEF s

\* A send that fails keeps the limits of the flow.
LEMMA LimitsFail ==
  ASSUME MeasureInv, NEW f \in Flows, LimitsKept(f), SendFails(f)
  PROVE  LimitsKept(f)'
<1>1. /\ snd[f].pc = "sending" /\ snd[f].bytes > 0 /\ GoesToWait(f, -1)
      /\ failures' = [failures EXCEPT ![f] = @ + 1]
      /\ UNCHANGED <<asked, now, sent>>
      /\ asked \in Cases /\ now \in Nat /\ snd \in [Flows -> SenderStates]
      /\ failures \in [Flows -> Nat]
  BY DEF SendFails, MeasureInv, MeasureTypes
<1>2. PICK old \in SenderStates : old = snd[f] /\ old.bytes \in Nat /\ old.seq \in Nat /\ old.bytes > 0
  BY <1>1, FlowSenderAssumption DEF SenderStates
<1> DEFINE s      == snd'[f]
           total  == Size(sent[f])
           before == Before(sent[f])
<1>3. /\ s.pc = "waiting" /\ s.seq = old.seq /\ s.bytes = old.bytes /\ s.last = now /\ s.end = old.end
      /\ s.chk = -1
  BY <1>1, <1>2, WaitsFor
<1>4. total \in Nat /\ before \in Nat
  BY SizesSent
<1>5. PICK packets \in Nat, bytes \in Nat, duration \in Nat, failed \in Nat :
        packets = NumPacket(f) /\ bytes = ByteToSend(f) /\ duration = Duration(f) /\ failed = failures[f]
  BY <1>1, LimitTypes
<1>6. InLimits(old, now, total, before, failed, packets, bytes, duration) /\ old.pc = "sending"
  BY <1>1, <1>2, <1>5 DEF LimitsKept
<1>7. failures'[f] = failed + 1
  BY <1>1, <1>5
<1> HIDE DEF s, total, before
<1>8. BytesOf(s) = old.bytes + (-1)
  BY <1>3 DEF BytesOf
<1>9. /\ s.seq - 1 < packets /\ s.seq - 1 <= packets /\ s.end >= duration
      /\ total < Forever => old.bytes = total - failed /\ before < bytes + failed
  BY <1>3, <1>6 DEF InLimits, BytesOf
<1>10. total < Forever =>
         BytesOf(s) = total - (failed + 1) /\ BytesOf(s) >= 0 /\ before < bytes + (failed + 1)
  BY <1>2, <1>4, <1>5, <1>8, <1>9
<1>11. InLimits(s, now, total, before, failed + 1, packets, bytes, duration)
  BY <1>1, <1>3, <1>9, <1>10 DEF InLimits
<1> QED
  BY <1>1, <1>5, <1>7, <1>11, LimitsTo DEF s, total, before
-----------------------------------------------------------------------------
\* A step that leaves what was sent: the loop goes on if a limit is left, and ends if not.
LEMMA LimitsLoop ==
  ASSUME MeasureInv, NEW f \in Flows, LimitsKept(f), UNCHANGED <<asked, now, failures, sent>>,
         NEW s \in SenderStates, snd' = [snd EXCEPT ![f] = s],
         snd[f].pc # "idle", s.pc \notin {"idle", "waiting"},
         s.last <= now, s.end = snd[f].end, s.seq - 1 <= NumPacket(f),
         s.pc = "sending" => Within(f, s),
         s.pc \in {"tail", "ended"} => ~Within(f, s),
         Size(sent[f]) < Forever => s.bytes = BytesOf(snd[f])
  PROVE  LimitsKept(f)'
<1>1. asked \in Cases /\ snd \in [Flows -> SenderStates] /\ now \in Nat /\ failures \in [Flows -> Nat]
  BY DEF MeasureInv, MeasureTypes
<1>2. snd'[f] = s
  BY <1>1
<1> DEFINE total  == Size(sent[f])
           before == Before(sent[f])
<1>3. total \in Nat /\ before \in Nat
  BY SizesSent
<1>4. PICK packets \in Nat, bytes \in Nat, duration \in Nat, failed \in Nat :
        packets = NumPacket(f) /\ bytes = ByteToSend(f) /\ duration = Duration(f) /\ failed = failures[f]
  BY <1>1, LimitTypes
<1>5. s.bytes \in Nat /\ s.last \in Nat /\ s.seq \in Nat /\ s.end \in Nat
  BY FlowSenderAssumption DEF SenderStates
<1>6. PICK old \in SenderStates : old = snd[f]
  BY <1>1
<1>7. InLimits(old, now, total, before, failed, packets, bytes, duration)
  BY <1>4, <1>6 DEF LimitsKept
<1> HIDE DEF total, before
<1>8. s.end >= duration
  BY <1>6, <1>7 DEF InLimits
<1>9. Within(f, s) <=> s.last < s.end /\ s.seq - 1 < packets /\ s.bytes < bytes
  BY <1>4 DEF Within
<1>10. s.pc \in {"tail", "ended"} => s.last >= s.end \/ s.seq - 1 >= packets \/ s.bytes >= bytes
  BY <1>4, <1>5, <1>9
<1>11. /\ s.pc \in {"sending", "waiting"} => s.seq - 1 < packets
       /\ s.pc = "sending" => s.bytes < bytes
  BY <1>9
<1>12. BytesOf(s) = s.bytes
  BY DEF BytesOf
<1>13. total < Forever => s.bytes = total - failed /\ s.bytes >= 0 /\ before < bytes + failed
  <2>1. total < Forever => s.bytes = BytesOf(old)
    BY <1>6 DEF total
  <2> QED
    BY <1>7, <2>1 DEF InLimits
<1>14. s.seq - 1 <= packets
  BY <1>4
<1>15. InLimits(s, now, total, before, failed, packets, bytes, duration)
  BY <1>8, <1>10, <1>11, <1>12, <1>13, <1>14 DEF InLimits
<1> QED
  BY <1>2, <1>4, <1>15, LimitsTo DEF total, before

\* What ends the loops leaves the counters.
LEMMA AfterLoopsSame ==
  ASSUME NEW f \in Flows, now \in Nat, NEW s \in SenderStates
  PROVE  /\ AfterLoops(f, s).bytes = s.bytes /\ AfterLoops(f, s).last = s.last
         /\ AfterLoops(f, s).end = s.end
<1>1. PICK due \in Nat : due = now + RttmDelay
  BY FlowSenderAssumption
<1>2. /\ [s EXCEPT !.pc = "tail", !.due = due].bytes = s.bytes /\ [s EXCEPT !.pc = "ended"].bytes = s.bytes
      /\ [s EXCEPT !.pc = "tail", !.due = due].last = s.last /\ [s EXCEPT !.pc = "ended"].last = s.last
      /\ [s EXCEPT !.pc = "tail", !.due = due].end = s.end /\ [s EXCEPT !.pc = "ended"].end = s.end
  BY DEF SenderStates
<1> QED
  BY <1>1, <1>2 DEF AfterLoops

\* The packet is counted, and the limits are compared.
LEMMA LimitsCount ==
  ASSUME MeasureInv, NEW f \in Flows, LimitsKept(f), WaitOver(f)
  PROVE  LimitsKept(f)'
<1>1. /\ snd[f].pc = "waiting" /\ asked \in Cases /\ now \in Nat /\ snd \in [Flows -> SenderStates]
      /\ UNCHANGED <<asked, now, failures, sent>>
  BY DEF WaitOver, MeasureInv, MeasureTypes
<1>2. PICK s \in AfterPacket(f, Counted(f)) : snd' = [snd EXCEPT ![f] = s]
  BY DEF WaitOver
<1>3. PICK old \in SenderStates : old = snd[f] /\ old.pc = "waiting"
  BY <1>1
<1> DEFINE c == Counted(f)
<1>4. PICK b \in 0 .. Forever, x \in Int, m \in Nat \ {0} :
        x = old.bytes + old.chk /\ m = Forever + 1 /\ b = x % m /\ (0 <= x /\ x <= Forever => b = x)
  <2>1. old.bytes + old.chk \in Int /\ Forever + 1 \in Nat \ {0}
    BY FlowSenderAssumption DEF SenderStates
  <2>2. PICK x \in Int, m \in Nat \ {0} : x = old.bytes + old.chk /\ m = Forever + 1
    BY <2>1
  <2>3. x % m \in 0 .. m - 1
    OBVIOUS
  <2>4. m - 1 = Forever
    BY <2>2, FlowSenderAssumption
  <2>5. 0 <= x /\ x < m => x % m = x
    OBVIOUS
  <2>6. 0 <= x /\ x <= Forever => x % m = x
    BY <2>2, <2>5, FlowSenderAssumption
  <2> QED
    BY <2>2, <2>3, <2>4, <2>6
<1>5. PICK q \in Nat, on \in Int : q = old.seq + 1 /\ on = old.on - (now - old.last)
  BY <1>1 DEF SenderStates
<1>6. c = [old EXCEPT !.seq = q, !.bytes = b, !.last = now, !.on = on]
  BY <1>3, <1>4, <1>5 DEF Counted
<1>7. c \in SenderStates /\ c.seq = q /\ c.bytes = b /\ c.last = now /\ c.end = old.end
  BY ZenonT(40), <1>1, <1>6 DEF SenderStates
<1> HIDE DEF c
<1>8. s \in AfterPacket(f, c)
  BY <1>2 DEF c
<1>9. /\ s \in SenderStates /\ s.pc \notin {"idle", "waiting"}
      /\ s.seq = c.seq /\ s.bytes = c.bytes /\ s.last = c.last /\ s.end = c.end
      /\ s.pc = "sending" => Within(f, c)
      /\ s.pc \in {"tail", "ended"} => ~Within(f, c)
  <2>1. CASE s = [c EXCEPT !.pc = "sending"] /\ Within(f, c)
    BY <1>7, <2>1 DEF SenderStates
  <2>2. CASE \E off \in OffTimes : s = [c EXCEPT !.pc = "off", !.due = now + off]
    <3>1. PICK off \in OffTimes : s = [c EXCEPT !.pc = "off", !.due = now + off]
      BY <2>2
    <3>2. PICK due \in Nat : due = now + off
      BY <1>1, FlowSenderAssumption
    <3>3. s = [c EXCEPT !.pc = "off", !.due = due]
      BY <3>1, <3>2
    <3> QED
      BY <1>7, <3>3 DEF SenderStates
  <2>3. CASE s = AfterLoops(f, c) /\ ~Within(f, c)
    BY <1>1, <1>7, <2>3, AfterLoopsTypes, AfterLoopsSame
  <2>4. \/ s = [c EXCEPT !.pc = "sending"] /\ Within(f, c)
        \/ \E off \in OffTimes : s = [c EXCEPT !.pc = "off", !.due = now + off]
        \/ s = AfterLoops(f, c) /\ ~Within(f, c)
    <3>1. CASE Within(f, c) /\ (c.on > 0 \/ ~Opt(f).bursty)
      BY <1>8, <3>1 DEF AfterPacket
    <3>2. CASE ~(Within(f, c) /\ (c.on > 0 \/ ~Opt(f).bursty)) /\ Opt(f).bursty
      BY <1>8, <3>2 DEF AfterPacket
    <3>3. CASE ~(Within(f, c) /\ (c.on > 0 \/ ~Opt(f).bursty)) /\ ~Opt(f).bursty
      BY <1>8, <3>3 DEF AfterPacket
    <3> QED
      BY <3>1, <3>2, <3>3
  <2> QED
    BY <2>1, <2>2, <2>3, <2>4
<1>10. Within(f, s) <=> Within(f, c)
  BY <1>9 DEF Within
<1> DEFINE total  == Size(sent[f])
           before == Before(sent[f])
<1>11. PICK packets \in Nat, bytes \in Nat, duration \in Nat, failed \in Nat :
         packets = NumPacket(f) /\ bytes = ByteToSend(f) /\ duration = Duration(f) /\ failed = failures[f]
  <2>1. failures \in [Flows -> Nat]
    BY DEF MeasureInv, MeasureTypes
  <2> QED
    BY <1>1, <2>1, LimitTypes
<1>12. InLimits(old, now, total, before, failed, packets, bytes, duration)
  BY <1>3, <1>11 DEF LimitsKept
<1>13. total \in Nat
  BY SizesSent
<1> HIDE DEF total, before
<1>14. s.seq - 1 <= packets
  <2>1. old.seq \in Nat /\ old.seq - 1 < packets
    BY <1>3, <1>12 DEF InLimits, SenderStates
  <2> QED
    BY <1>5, <1>7, <1>9, <2>1
<1>15. BytesOf(old) = x
  BY <1>3, <1>4 DEF BytesOf
<1>16. total < Forever => s.bytes = x
  <2>1. total < Forever => x = total - failed /\ x >= 0
    BY <1>12, <1>15 DEF InLimits
  <2>2. total < Forever => 0 <= x /\ x <= Forever
    BY <1>13, <2>1, FlowSenderAssumption
  <2> QED
    BY <1>4, <1>7, <1>9, <2>2
<1>17. Size(sent[f]) < Forever => s.bytes = BytesOf(snd[f])
  BY <1>3, <1>15, <1>16 DEF total
<1>18. s.last <= now /\ s.end = snd[f].end
  BY <1>1, <1>3, <1>7, <1>9
<1> QED
  BY <1>1, <1>2, <1>9, <1>10, <1>11, <1>14, <1>17, <1>18, LimitsLoop

\* The OFF period is over; the last echoes are there, or an echo is.
LEMMA LimitsOff ==
  ASSUME MeasureInv, NEW f \in Flows, LimitsKept(f), OffOver(f)
  PROVE  LimitsKept(f)'
<1>1. /\ snd[f].pc = "off" /\ asked \in Cases /\ now \in Nat /\ snd \in [Flows -> SenderStates]
      /\ UNCHANGED <<asked, now, failures, sent>>
  BY DEF OffOver, MeasureInv, MeasureTypes
<1>2. PICK on \in OnTimes :
        LET s == [snd[f] EXCEPT !.on = on]
        IN snd' = [snd EXCEPT ![f] = IF Within(f, s) THEN [s EXCEPT !.pc = "sending"] ELSE AfterLoops(f, s)]
  BY DEF OffOver
<1> DEFINE c == [snd[f] EXCEPT !.on = on]
           s == IF Within(f, c) THEN [c EXCEPT !.pc = "sending"] ELSE AfterLoops(f, c)
<1>3. snd' = [snd EXCEPT ![f] = s]
  BY <1>2
<1>4. PICK old \in SenderStates : old = snd[f] /\ old.pc = "off"
  BY <1>1
<1>5. /\ c \in SenderStates /\ c.seq = old.seq /\ c.bytes = old.bytes /\ c.last = old.last
      /\ c.end = old.end
  <2>1. on \in Int
    BY FlowSenderAssumption
  <2>2. c = [old EXCEPT !.on = on]
    BY <1>4
  <2> HIDE DEF c
  <2> QED
    BY <2>1, <2>2 DEF SenderStates
<1> HIDE DEF c
<1>6. /\ s \in SenderStates /\ s.pc \in {"sending", "tail", "ended"}
      /\ s.seq = c.seq /\ s.bytes = c.bytes /\ s.last = c.last /\ s.end = c.end
      /\ s.pc = "sending" => Within(f, c)
      /\ s.pc \in {"tail", "ended"} => ~Within(f, c)
  <2>1. CASE Within(f, c)
    BY <1>5, <2>1 DEF SenderStates
  <2>2. CASE ~Within(f, c)
    BY <1>1, <1>5, <2>2, AfterLoopsTypes, AfterLoopsSame
  <2> QED
    BY <2>1, <2>2
<1> HIDE DEF s
<1>7. Within(f, s) <=> Within(f, c)
  BY <1>6 DEF Within
<1>8. s.last <= now /\ s.seq - 1 <= NumPacket(f)
  BY <1>4, <1>5, <1>6 DEF LimitsKept, InLimits
<1>9. s.bytes = BytesOf(snd[f]) /\ s.end = snd[f].end
  BY <1>4, <1>5, <1>6 DEF BytesOf
<1> QED
  BY <1>1, <1>3, <1>6, <1>7, <1>8, <1>9, LimitsLoop

\* The end of the wait for the last echoes keeps the limits of the flow.
LEMMA LimitsTail ==
  ASSUME MeasureInv, NEW f \in Flows, LimitsKept(f), TailOver(f)
  PROVE  LimitsKept(f)'
<1>1. /\ snd[f].pc = "tail" /\ snd \in [Flows -> SenderStates]
      /\ snd' = [snd EXCEPT ![f].pc = "ended"] /\ UNCHANGED <<asked, now, failures, sent>>
  BY DEF TailOver, MeasureInv, MeasureTypes
<1>2. PICK old \in SenderStates : old = snd[f] /\ old.pc = "tail"
  BY <1>1
<1> DEFINE s == [old EXCEPT !.pc = "ended"]
<1>3. snd'[f] = s
  BY <1>1, <1>2
<1>4. /\ s.pc = "ended" /\ s.seq = old.seq /\ s.bytes = old.bytes /\ s.last = old.last /\ s.end = old.end
      /\ BytesOf(s) = BytesOf(old)
  BY <1>2 DEF SenderStates, BytesOf
<1> HIDE DEF s
<1>5. InLimits(s, now, Size(sent[f]), Before(sent[f]), failures[f],
               NumPacket(f), ByteToSend(f), Duration(f))
  BY <1>2, <1>4 DEF LimitsKept, InLimits
<1> QED
  BY <1>1, <1>3, <1>5, LimitsTo

\* An echo that is read keeps the limits of the flow.
LEMMA LimitsEcho ==
  ASSUME MeasureInv, NEW f \in Flows, LimitsKept(f), ReadEcho(f) \/ ReadLastEcho(f)
  PROVE  LimitsKept(f)'
<1>1. /\ snd \in [Flows -> SenderStates] /\ UNCHANGED <<asked, now, failures, sent>>
      /\ \/ snd' = [snd EXCEPT ![f].recv = @ + 1]
         \/ snd' = [snd EXCEPT ![f].recv = @ + 1, ![f].due = now + RttmDelay]
  BY DEF ReadEcho, ReadLastEcho, MeasureInv, MeasureTypes
<1>2. PICK old \in SenderStates : old = snd[f]
  BY <1>1
<1>3. PICK s : s = snd'[f]
  OBVIOUS
<1>4. /\ s.pc = old.pc /\ s.seq = old.seq /\ s.bytes = old.bytes /\ s.last = old.last /\ s.end = old.end
      /\ s.chk = old.chk
  <2>1. CASE s = [old EXCEPT !.recv = @ + 1]
    BY <2>1 DEF SenderStates
  <2>2. CASE s = [old EXCEPT !.recv = @ + 1, !.due = now + RttmDelay]
    BY <2>2 DEF SenderStates
  <2> QED
    BY <1>1, <1>2, <1>3, <2>1, <2>2
<1>5. BytesOf(s) = BytesOf(old)
  BY <1>4 DEF BytesOf
<1>6. InLimits(s, now, Size(sent[f]), Before(sent[f]), failures[f],
               NumPacket(f), ByteToSend(f), Duration(f))
  BY <1>2, <1>4, <1>5 DEF LimitsKept, InLimits
<1> QED
  BY <1>1, <1>3, <1>6, LimitsTo

\* A step of another flow.
LEMMA LimitsOther ==
  ASSUME MeasureInv, NEW f \in Flows, LimitsKept(f), NEW g \in Flows \ {f}, Sender(g)
  PROVE  LimitsKept(f)'
<1>1. /\ snd \in [Flows -> SenderStates] /\ failures \in [Flows -> Nat] /\ now \in Nat
      /\ sent \in [Flows -> Seq(SentPackets)]
  BY DEF MeasureInv, MeasureTypes
<1>2. UNCHANGED <<asked, now>>
  BY DEF Sender, StartFlow, SendPacket, SendFails, ReadEcho, WaitOver, OffOver, ReadLastEcho, TailOver
<1>3. snd'[f] = snd[f]
  BY ZenonT(40), <1>1 DEF Sender, StartFlow, SendPacket, SendFails, ReadEcho, WaitOver, OffOver, ReadLastEcho,
              TailOver, GoesToWait
<1>4. failures'[f] = failures[f]
  BY <1>1 DEF Sender, StartFlow, SendPacket, SendFails, ReadEcho, WaitOver, OffOver, ReadLastEcho, TailOver
<1>5. sent'[f] = sent[f]
  BY <1>1 DEF Sender, StartFlow, SendPacket, SendFails, ReadEcho, WaitOver, OffOver, ReadLastEcho, TailOver
<1> QED
  BY <1>1, <1>2, <1>3, <1>4, <1>5, LimitsElse

\* A step of the measurement leaves the limits.
LEMMA LimitsStep == MeasureInv /\ (\A f \in Flows : LimitsKept(f)) /\ [Next]_vars
                    => \A f \in Flows : LimitsKept(f)'
<1> SUFFICES ASSUME MeasureInv, [Next]_vars, NEW f \in Flows, LimitsKept(f) PROVE LimitsKept(f)'
  OBVIOUS
<1>1. ASSUME NEW g \in Flows, Sender(g)
      PROVE  LimitsKept(f)'
  <2>1. CASE g = f
    BY <1>1, <2>1, LimitsStart, LimitsSend, LimitsFail, LimitsEcho, LimitsCount, LimitsOff, LimitsTail
       DEF Sender
  <2>2. CASE g # f
    BY <1>1, <2>2, LimitsOther
  <2> QED
    BY <2>1, <2>2
<1>2. now \in Nat
  BY DEF MeasureInv, MeasureTypes
<1>3. CASE Tick
  <2>1. /\ now' = now + 1 /\ asked' = asked /\ snd' = snd /\ failures' = failures /\ sent' = sent
    BY <1>3 DEF Tick
  <2>2. now' \in Nat /\ now' >= now
    BY <1>2, <2>1
  <2> QED
    BY <2>1, <2>2, LimitsElse
<1>4. CASE UNCHANGED <<asked, now, snd, failures, sent>>
  BY <1>2, <1>4, LimitsElse
<1>5. (\E g \in Flows : Receiver(g)) \/ StartDecoder \/ Decodes \/ UNCHANGED vars
        => UNCHANGED <<asked, now, snd, failures, sent>>
  BY DEF Receiver, ReceiveDatagram, ReceiveRaw, ReadPreamble, ReadPayload, Unread, StartDecoder, Decodes, Others,
         vars, senderVars
<1> QED
  BY <1>1, <1>3, <1>4, <1>5 DEF Next

\* No loop has begun at first.
LEMMA LimitsInitially == Init => \A f \in Flows : LimitsKept(f)
<1> SUFFICES ASSUME Init, NEW f \in Flows PROVE LimitsKept(f)
  OBVIOUS
<1>1. asked \in Cases /\ now = 0 /\ snd[f] = Idle /\ failures[f] = 0 /\ sent[f] = <<>>
  BY DEF Init, SenderInit
<1>2. Size(sent[f]) = 0 /\ Before(sent[f]) = 0
  BY <1>1, SizeNone DEF Before
<1>3. InLimits(Idle, 0, 0, 0, 0, NumPacket(f), ByteToSend(f), Duration(f))
  BY <1>1, LimitTypes DEF InLimits, BytesOf, Idle
<1> QED
  BY <1>1, <1>2, <1>3 DEF LimitsKept

\* What the loops keep is what the property states.
LEMMA LimitsAreRespected ==
  MeasureInv /\ (\A f \in Flows : LimitsKept(f)) => (FarFromForever => EndsAtItsLimit)
<1> SUFFICES ASSUME MeasureInv, \A f \in Flows : LimitsKept(f), FarFromForever, NEW f \in asked.flows
             PROVE  /\ snd[f].pc = "ended" =>
                         \/ Opt(f).packets > 0 /\ snd[f].seq - 1 = Opt(f).packets
                         \/ Opt(f).bytes > 0 /\ Size(sent[f]) >= Opt(f).bytes
                         \/ now >= Opt(f).duration
                    /\ Opt(f).packets > 0 => snd[f].seq - 1 <= Opt(f).packets
                    /\ Opt(f).bytes > 0 /\ sent[f] # <<>>
                         => Size(Front(sent[f])) < Opt(f).bytes + failures[f]
  BY DEF EndsAtItsLimit
<1>1. f \in Flows /\ asked \in Cases /\ now \in Nat /\ snd[f] \in SenderStates /\ failures[f] \in Nat
  BY OptionTypes DEF MeasureInv, MeasureTypes
<1>2. PICK z \in Nat, k \in Nat, t \in Nat : z = Opt(f).packets /\ k = Opt(f).bytes /\ t = Opt(f).duration
  BY <1>1, LimitTypes
<1>3. PICK s \in SenderStates, failed \in Nat, total \in Nat, before \in Nat :
        s = snd[f] /\ failed = failures[f] /\ total = Size(sent[f]) /\ before = Before(sent[f])
  BY <1>1, SizesSent
<1>4. PICK packets \in Nat, bytes \in Nat, duration \in Nat :
        packets = NumPacket(f) /\ bytes = ByteToSend(f) /\ duration = Duration(f)
  BY <1>1, LimitTypes
<1>5. InLimits(s, now, total, before, failed, packets, bytes, duration)
  BY <1>1, <1>3, <1>4 DEF LimitsKept
<1>6. now < Forever /\ s.seq <= Forever /\ total < Forever /\ Forever \in Nat
  BY <1>3, FlowSenderAssumption DEF FarFromForever
<1>7. /\ packets = IF z = 0 THEN Forever ELSE z
      /\ bytes = IF k = 0 THEN Forever ELSE k
      /\ duration \in {t, Forever}
  BY <1>2, <1>4 DEF NumPacket, ByteToSend, Duration
<1>8. s.seq \in Nat /\ s.bytes \in Nat /\ s.last \in Nat /\ s.end \in Nat
  BY FlowSenderAssumption DEF SenderStates
<1>9. z > 0 => s.seq - 1 <= z
  BY <1>5, <1>7 DEF InLimits
<1>10. k > 0 => before < k + failed
  BY <1>5, <1>6, <1>7 DEF InLimits
<1>11. s.pc = "ended" => (z > 0 /\ s.seq - 1 = z) \/ (k > 0 /\ total >= k) \/ now >= t
  <2> SUFFICES ASSUME s.pc = "ended"
               PROVE  (z > 0 /\ s.seq - 1 = z) \/ (k > 0 /\ total >= k) \/ now >= t
    OBVIOUS
  <2>1. s.last <= now /\ s.end >= duration
    BY <1>5 DEF InLimits
  <2>2. s.last >= s.end \/ s.seq - 1 >= packets \/ s.bytes >= bytes
    BY <1>5 DEF InLimits
  <2>3. BytesOf(s) = s.bytes
    BY DEF BytesOf
  <2>4. s.bytes <= total
    BY <1>3, <1>5, <1>6, <1>8, <2>3 DEF InLimits
  <2>5. CASE s.last >= s.end
    BY <1>1, <1>2, <1>4, <1>6, <1>7, <1>8, <2>1, <2>5
  <2>6. CASE s.seq - 1 >= packets
    BY <1>2, <1>6, <1>7, <1>8, <1>9, <2>6
  <2>7. CASE s.bytes >= bytes
    BY <1>2, <1>3, <1>6, <1>7, <1>8, <2>4, <2>7
  <2> QED
    BY <2>2, <2>5, <2>6, <2>7
<1>12. sent[f] # <<>> => Size(Front(sent[f])) = before
  BY <1>3 DEF Before
<1> QED
  BY <1>2, <1>3, <1>9, <1>10, <1>11, <1>12

\* The two loops of flowSender: as long as no counter has come to UINT_MAX or ULONG_MAX, a flow
\* ends because a limit is reached that a user gave (options -z, -k, -t, or the default
\* duration), and it passes none of them by more than a packet - with sends that fail, ON and OFF
\* periods, and echoes.
THEOREM LimitsRespected == Spec => [](FarFromForever => EndsAtItsLimit)
<1> DEFINE AllKept == \A f \in Flows : LimitsKept(f)
           Limits  == FarFromForever => EndsAtItsLimit
<1>1. Init => AllKept
  BY LimitsInitially
<1>2. MeasureInv /\ AllKept /\ [Next]_vars => AllKept'
  BY LimitsStep
<1>3. MeasureInv /\ AllKept => Limits
  BY LimitsAreRespected
<1> HIDE DEF AllKept, Limits
<1>4. Spec => []Limits
  BY <1>1, <1>2, <1>3, MeasureInitially, MeasureStep, PTL DEF Spec
<1> QED
  BY <1>4 DEF Limits
-----------------------------------------------------------------------------
(* Sums over the elements of a finite set, which SumFunction chooses one after the other. *)

\* Something is chosen from every part of a set.
Picks(pick, S) == \A s \in SUBSET S : s # {} => pick[s] \in s

\* A sum over the parts of a set, from which one element after the other is chosen.
SumsOf(I, S, F, pick) ==
  /\ I \in [SUBSET S -> Int] /\ I[{}] = 0
  /\ \A s \in SUBSET S : s # {} => I[s] = F[pick[s]] + I[s \ {pick[s]}]

\* The element that is added first may be any.
InAnyOrder(I, S, F) == \A s \in SUBSET S : \A x \in s : I[s] = F[x] + I[s \ {x}]

\* What has been chosen is left out: sets get smaller.
LEMMA OneLess ==
  ASSUME NEW S, IsFiniteSet(S), NEW s \in SUBSET S, NEW x \in s
  PROVE  /\ s \ {x} \in SUBSET S /\ Cardinality(s) \in Nat \ {0}
         /\ Cardinality(s \ {x}) = Cardinality(s) - 1
<1>1. IsFiniteSet(s)
  BY FS_Subset
<1>2. Cardinality(s \ {x}) = Cardinality(s) - 1
  BY <1>1, FS_RemoveElement
<1>3. Cardinality(s) \in Nat /\ Cardinality(s) # 0
  BY <1>1, FS_CardinalityType, FS_EmptySet
<1> QED
  BY <1>2, <1>3

\* There are such sums, by induction over the number of elements.
LEMMA SumsAreThere ==
  ASSUME NEW S, IsFiniteSet(S), NEW F \in [S -> Int], NEW pick,
         Picks(pick, S)
  PROVE  \E I : SumsOf(I, S, F, pick)
<1> DEFINE C(k) == {s \in SUBSET S : Cardinality(s) <= k}
           Sums(I, k) == /\ I \in [C(k) -> Int] /\ I[{}] = 0
                         /\ \A s \in C(k) : s # {} => I[s] = F[pick[s]] + I[s \ {pick[s]}]
           Good == {k \in Nat : \E I : Sums(I, k)}
<1>1. 0 \in Good
  <2>1. \A s \in SUBSET S : IsFiniteSet(s) /\ (Cardinality(s) <= 0 => s = {})
    BY FS_Subset, FS_EmptySet, FS_CardinalityType
  <2>2. Sums([s \in C(0) |-> 0], 0)
    BY <2>1, FS_EmptySet
  <2> QED
    BY <2>2
<1>2. ASSUME NEW k \in Nat, k \in Good PROVE k + 1 \in Good
  <2>1. PICK I : Sums(I, k)
    BY <1>2
  <2> DEFINE J == [s \in C(k + 1) |-> IF s = {} THEN 0 ELSE F[pick[s]] + I[s \ {pick[s]}]]
  <2>2. \A s \in C(k + 1) : s # {} => pick[s] \in s /\ s \ {pick[s]} \in C(k)
    <3> SUFFICES ASSUME NEW s \in C(k + 1), s # {} PROVE pick[s] \in s /\ s \ {pick[s]} \in C(k)
      OBVIOUS
    <3>1. pick[s] \in s
      BY DEF Picks
    <3>2. PICK n \in Nat : n = Cardinality(s)
      BY <3>1, OneLess
    <3>3. s \ {pick[s]} \in SUBSET S /\ Cardinality(s \ {pick[s]}) = n - 1
      BY <3>1, <3>2, OneLess
    <3>4. n <= k + 1
      BY <3>2
    <3>5. n - 1 <= k
      BY <3>4
    <3> QED
      BY <3>1, <3>3, <3>5
  <2>3. {} \in C(k) /\ C(k) \subseteq C(k + 1)
    <3>1. \A s \in SUBSET S : Cardinality(s) \in Nat
      BY FS_Subset, FS_CardinalityType
    <3> QED
      BY <3>1, FS_EmptySet
  <2> HIDE DEF C
  <2>4. J \in [C(k + 1) -> Int]
    <3>1. ASSUME NEW s \in C(k + 1), s # {} PROVE F[pick[s]] + I[s \ {pick[s]}] \in Int
      <4>1. s \in SUBSET S /\ pick[s] \in S /\ s \ {pick[s]} \in C(k)
        BY <2>2, <3>1 DEF C
      <4>2. F[pick[s]] \in Int /\ I[s \ {pick[s]}] \in Int
        BY <2>1, <4>1
      <4> QED
        BY <4>2
    <3>2. \A s \in C(k + 1) : (IF s = {} THEN 0 ELSE F[pick[s]] + I[s \ {pick[s]}]) \in Int
      BY <3>1
    <3> QED
      BY <3>2
  <2>5. \A s \in C(k) : J[s] = I[s]
    BY <2>1, <2>3
  <2>6. \A s \in C(k + 1) : s # {} => J[s] = F[pick[s]] + J[s \ {pick[s]}]
    BY <2>2, <2>3, <2>5
  <2>7. J[{}] = 0
    BY <2>3
  <2> HIDE DEF J
  <2>8. Sums(J, k + 1)
    BY <2>4, <2>6, <2>7
  <2> HIDE DEF Sums
  <2> QED
    BY <2>8
<1>3. Cardinality(S) \in Good
  <2> HIDE DEF Good
  <2>1. \A k \in Nat : k \in Good
    BY <1>1, <1>2, Induction
  <2> QED
    BY <2>1, FS_CardinalityType
<1>4. C(Cardinality(S)) = SUBSET S
  BY FS_Subset
<1>5. PICK I : Sums(I, Cardinality(S))
  BY <1>3
<1>6. SumsOf(I, S, F, pick)
  BY <1>4, <1>5 DEF SumsOf
<1> QED
  BY <1>6

\* Any element may be the first.
LEMMA AnyFirst ==
  ASSUME NEW S, IsFiniteSet(S), NEW F \in [S -> Int], NEW pick,
         Picks(pick, S),
         NEW I, SumsOf(I, S, F, pick)
  PROVE  InAnyOrder(I, S, F)
<1> DEFINE Good == {n \in Nat : \A s \in SUBSET S : Cardinality(s) = n => \A x \in s : I[s] = F[x] + I[s \ {x}]}
<1>1. 0 \in Good
  <2>1. \A s \in SUBSET S : Cardinality(s) = 0 => s = {}
    BY FS_Subset, FS_EmptySet
  <2> QED
    BY <2>1
<1>2. ASSUME NEW n \in Nat, n \in Good PROVE n + 1 \in Good
  <2> SUFFICES ASSUME NEW s \in SUBSET S, Cardinality(s) = n + 1, NEW x \in s
               PROVE  I[s] = F[x] + I[s \ {x}]
    OBVIOUS
  <2> DEFINE c == pick[s]
  <2>1. c \in s /\ I[s] = F[c] + I[s \ {c}]
    BY DEF SumsOf, Picks
  <2>2. CASE c = x
    BY <2>1, <2>2
  <2>3. CASE c # x
    <3> HIDE DEF c
    <3>1. /\ s \ {c} \in SUBSET S /\ Cardinality(s \ {c}) = n
          /\ s \ {x} \in SUBSET S /\ Cardinality(s \ {x}) = n
      <4>1. /\ s \ {c} \in SUBSET S /\ Cardinality(s \ {c}) = (n + 1) - 1
            /\ s \ {x} \in SUBSET S /\ Cardinality(s \ {x}) = (n + 1) - 1
        BY <2>1, OneLess
      <4> QED
        BY <4>1
    <3>2. x \in s \ {c} /\ c \in s \ {x} /\ (s \ {c}) \ {x} = (s \ {x}) \ {c}
      BY <2>1, <2>3
    <3>3. I[s \ {c}] = F[x] + I[(s \ {c}) \ {x}]
      BY <1>2, <3>1, <3>2
    <3>4. I[s \ {x}] = F[c] + I[(s \ {x}) \ {c}]
      BY <1>2, <3>1, <3>2
    <3>5. (s \ {x}) \ {c} \in SUBSET S
      OBVIOUS
    <3>6. PICK a \in Int, b \in Int, rest \in Int : a = F[x] /\ b = F[c] /\ rest = I[(s \ {x}) \ {c}]
      BY <2>1, <3>5 DEF SumsOf
    <3>7. I[s] = b + (a + rest)
      BY <2>1, <3>2, <3>3, <3>6
    <3>8. I[s \ {x}] = b + rest
      BY <3>4, <3>6
    <3> QED
      BY <3>6, <3>7, <3>8
  <2> QED
    BY <2>2, <2>3
<1>3. \A n \in Nat : n \in Good
  <2> HIDE DEF Good
  <2> QED
    BY <1>1, <1>2, Induction
<1>4. \A s \in SUBSET S : Cardinality(s) \in Nat
  BY FS_Subset, FS_CardinalityType
<1> QED
  BY <1>3, <1>4 DEF InAnyOrder

\* There are sums that do not depend on what is chosen.
LEMMA SumsInAnyOrder ==
  ASSUME NEW S, IsFiniteSet(S), NEW F \in [S -> Int], NEW pick,
         Picks(pick, S)
  PROVE  \E I : SumsOf(I, S, F, pick) /\ InAnyOrder(I, S, F)
<1>1. PICK I : SumsOf(I, S, F, pick)
  BY SumsAreThere
<1>2. InAnyOrder(I, S, F)
  BY <1>1, AnyFirst
<1> QED
  BY <1>1, <1>2

\* Two functions that agree on a set have the same sums over its parts.
LEMMA SumsAgree ==
  ASSUME NEW S, IsFiniteSet(S), NEW T, IsFiniteSet(T), S \subseteq T,
         NEW F \in [S -> Int], NEW G \in [T -> Int],
         NEW I, InAnyOrder(I, S, F),
         NEW J, InAnyOrder(J, T, G),
         I[{}] = J[{}],
         NEW R \in SUBSET S, \A x \in R : F[x] = G[x]
  PROVE  I[R] = J[R]
<1> DEFINE Good == {n \in Nat : \A s \in SUBSET R : Cardinality(s) = n => I[s] = J[s]}
<1>1. 0 \in Good
  <2>1. \A s \in SUBSET R : Cardinality(s) = 0 => s = {}
    BY FS_Subset, FS_EmptySet
  <2> QED
    BY <2>1
<1>2. ASSUME NEW n \in Nat, n \in Good PROVE n + 1 \in Good
  <2> SUFFICES ASSUME NEW s \in SUBSET R, Cardinality(s) = n + 1 PROVE I[s] = J[s]
    OBVIOUS
  <2>1. s # {} /\ s \in SUBSET S /\ s \in SUBSET T
    <3>1. n + 1 # 0
      OBVIOUS
    <3> QED
      BY <3>1, FS_EmptySet
  <2>2. PICK x \in s : TRUE
    BY <2>1
  <2>3. s \ {x} \in SUBSET R /\ Cardinality(s \ {x}) = n
    <3>1. Cardinality(s \ {x}) = (n + 1) - 1
      BY <2>1, OneLess
    <3> QED
      BY <3>1
  <2>4. I[s \ {x}] = J[s \ {x}]
    BY <1>2, <2>3
  <2>5. I[s] = F[x] + I[s \ {x}] /\ J[s] = G[x] + J[s \ {x}]
    BY <2>1 DEF InAnyOrder
  <2> QED
    BY <2>4, <2>5
<1>3. \A n \in Nat : n \in Good
  <2> HIDE DEF Good
  <2> QED
    BY <1>1, <1>2, Induction
<1>4. Cardinality(R) \in Nat
  BY FS_Subset, FS_CardinalityType
<1> QED
  BY <1>3, <1>4

\* SumFunction is such a sum.
LEMMA SumsUp ==
  ASSUME NEW S, IsFiniteSet(S), NEW F \in [S -> Int]
  PROVE  \E I : /\ I \in [SUBSET S -> Int] /\ I[{}] = 0 /\ SumFunction(F) = I[S]
                /\ InAnyOrder(I, S, F)
<1> DEFINE pick == [s \in SUBSET S |-> CHOOSE x \in s : TRUE]
           def == CHOOSE I : I = [s \in SUBSET S |->
                    IF s = {} THEN 0 ELSE F[CHOOSE x \in s : TRUE] + I[s \ {CHOOSE x \in s : TRUE}]]
<1>1. \A s \in SUBSET S : pick[s] = CHOOSE x \in s : TRUE
  OBVIOUS
<1>2. Picks(pick, S)
  BY DEF Picks
<1>3. SumFunction(F) = def[S]
  BY DEF SumFunction, SumFunctionOnSet, FoldFunctionOnSet, MapThenFoldSet
<1> HIDE DEF pick
<1>4. PICK I : SumsOf(I, S, F, pick) /\ InAnyOrder(I, S, F)
  BY <1>2, SumsInAnyOrder
<1>5. I = [s \in SUBSET S |->
             IF s = {} THEN 0 ELSE F[CHOOSE x \in s : TRUE] + I[s \ {CHOOSE x \in s : TRUE}]]
  BY <1>1, <1>4 DEF SumsOf
<1>6. def = [s \in SUBSET S |->
               IF s = {} THEN 0 ELSE F[CHOOSE x \in s : TRUE] + def[s \ {CHOOSE x \in s : TRUE}]]
  BY <1>5
<1> HIDE DEF def
<1>7. \A s \in SUBSET S : s # {} => def[s] = F[pick[s]] + def[s \ {pick[s]}]
  BY <1>1, <1>6
<1>8. def[{}] = 0
  BY <1>6
<1> DEFINE Good == {n \in Nat : \A s \in SUBSET S : Cardinality(s) = n => def[s] = I[s]}
<1>9. 0 \in Good
  <2>1. \A s \in SUBSET S : Cardinality(s) = 0 => s = {}
    BY FS_Subset, FS_EmptySet
  <2> QED
    BY <1>4, <1>8, <2>1 DEF SumsOf
<1>10. ASSUME NEW n \in Nat, n \in Good PROVE n + 1 \in Good
  <2> SUFFICES ASSUME NEW s \in SUBSET S, Cardinality(s) = n + 1 PROVE def[s] = I[s]
    OBVIOUS
  <2>1. s # {}
    BY FS_EmptySet
  <2>2. pick[s] \in s
    BY <1>2, <2>1 DEF Picks
  <2>3. s \ {pick[s]} \in SUBSET S /\ Cardinality(s \ {pick[s]}) = n
    <3>1. Cardinality(s \ {pick[s]}) = (n + 1) - 1
      BY <2>2, OneLess
    <3> QED
      BY <3>1
  <2>4. def[s \ {pick[s]}] = I[s \ {pick[s]}]
    BY <1>10, <2>3
  <2> QED
    BY <1>4, <1>7, <2>1, <2>4 DEF SumsOf
<1>11. \A n \in Nat : n \in Good
  <2> HIDE DEF Good
  <2> QED
    BY <1>9, <1>10, Induction
<1>12. def[S] = I[S]
  <2>1. Cardinality(S) \in Nat
    BY FS_CardinalityType
  <2> QED
    BY <1>11, <2>1
<1>13. I \in [SUBSET S -> Int] /\ I[{}] = 0
  BY <1>4 DEF SumsOf
<1> HIDE DEF Good
<1> QED
  BY <1>3, <1>4, <1>12, <1>13

\* The sum of no values.
LEMMA SumNone ==
  ASSUME NEW F \in [{} -> Int] PROVE SumFunction(F) = 0
<1>1. \E I : /\ I \in [SUBSET {} -> Int] /\ I[{}] = 0 /\ SumFunction(F) = I[{}]
             /\ InAnyOrder(I, {}, F)
  BY FS_EmptySet, SumsUp
<1> QED
  BY <1>1

\* One more value is added to a sum.
LEMMA SumAppend ==
  ASSUME NEW n \in Nat, NEW F \in [1 .. n -> Int], NEW G \in [1 .. n + 1 -> Int],
         \A i \in 1 .. n : G[i] = F[i]
  PROVE  SumFunction(F) \in Int /\ SumFunction(G) = SumFunction(F) + G[n + 1]
<1> DEFINE S == 1 .. n
           T == 1 .. n + 1
<1>1. IsFiniteSet(S) /\ IsFiniteSet(T)
  BY FS_Interval
<1>2. S \subseteq T /\ n + 1 \in T /\ T \ {n + 1} = S
  OBVIOUS
<1>3. F \in [S -> Int] /\ G \in [T -> Int] /\ \A x \in S : F[x] = G[x]
  OBVIOUS
<1>4. G[n + 1] \in Int
  BY <1>2
<1> HIDE DEF S, T
<1>5. PICK I : /\ I \in [SUBSET S -> Int] /\ I[{}] = 0 /\ SumFunction(F) = I[S]
               /\ InAnyOrder(I, S, F)
  BY <1>1, <1>3, SumsUp
<1>6. PICK J : /\ J \in [SUBSET T -> Int] /\ J[{}] = 0 /\ SumFunction(G) = J[T]
               /\ InAnyOrder(J, T, G)
  BY <1>1, <1>3, SumsUp
<1>7. I[S] = J[S]
  <2>1. S \in SUBSET S /\ S \subseteq T
    BY <1>2
  <2>2. InAnyOrder(I, S, F) /\ InAnyOrder(J, T, G) /\ I[{}] = J[{}]
    BY <1>5, <1>6
  <2>3. F \in [S -> Int] /\ G \in [T -> Int]
    BY <1>3
  <2>4. \A x \in S : F[x] = G[x]
    BY <1>3
  <2> QED
    BY <1>1, <2>1, <2>2, <2>3, <2>4, SumsAgree
<1>8. J[T] = G[n + 1] + J[S]
  BY <1>2, <1>6 DEF InAnyOrder
<1>9. I[S] \in Int
  BY <1>5
<1> QED
  BY <1>4, <1>5, <1>6, <1>7, <1>8, <1>9

\* The sum of values of which one has changed.
LEMMA SumChange ==
  ASSUME NEW S, IsFiniteSet(S), NEW F \in [S -> Int], NEW G \in [S -> Int], NEW k \in S,
         \A i \in S \ {k} : G[i] = F[i]
  PROVE  SumFunction(F) \in Int /\ SumFunction(G) = (SumFunction(F) - F[k]) + G[k]
<1>1. PICK I : /\ I \in [SUBSET S -> Int] /\ I[{}] = 0 /\ SumFunction(F) = I[S]
               /\ InAnyOrder(I, S, F)
  BY SumsUp
<1>2. PICK J : /\ J \in [SUBSET S -> Int] /\ J[{}] = 0 /\ SumFunction(G) = J[S]
               /\ InAnyOrder(J, S, G)
  BY SumsUp
<1> DEFINE R == S \ {k}
<1>3. R \in SUBSET S /\ \A x \in R : F[x] = G[x]
  OBVIOUS
<1>4. I[S] = F[k] + I[R] /\ J[S] = G[k] + J[R]
  BY <1>1, <1>2 DEF InAnyOrder
<1> HIDE DEF R
<1>5. I[R] = J[R]
  BY <1>1, <1>2, <1>3, SumsAgree
<1>6. PICK a \in Int, b \in Int, c \in Int : a = F[k] /\ b = G[k] /\ c = I[R]
  BY <1>1, <1>3
<1>7. SumFunction(F) = a + c /\ SumFunction(G) = b + c
  BY <1>1, <1>2, <1>4, <1>5, <1>6
<1> QED
  BY <1>6, <1>7
-----------------------------------------------------------------------------
(* Total results. *)

\* The log of the receiver is written in the order of reception; that of the sender is if no
\* flow logs what it sends in bursts, whose stamps are older.
InReception ==
  \A c \in Cases : c.dec.input = "sender" =>
    \A f \in c.flows : c.flow[f].meter = "owdm" => ~c.flow[f].bursty

UpTo(log, time) ==
  /\ \A i, j \in DOMAIN log : i <= j => log[i].rx <= log[j].rx
  /\ \A i \in DOMAIN log : log[i].rx <= time
LogsKept == UpTo(recvLog, now) /\ (asked.dec.input = "sender" => UpTo(sendLog, now))

\* The records that are considered are read in that order, before those that are still there.
ReadKept ==
  /\ \A i, j \in DOMAIN Kept : i <= j => Kept[i].rx <= Kept[j].rx
  /\ \A i \in DOMAIN Kept : \A j \in DOMAIN Input : j > dec.read => Kept[i].rx <= Input[j].rx

\* What setline and main sum up of some records.
Jitter(recs) ==
  SumFunction([i \in DOMAIN recs |-> IF i = 1 THEN 0 ELSE Abs(Late(recs[i - 1]) - Late(recs[i]))])
SummedUp(infos, recs, begin) ==
  /\ infos = <<>> <=> recs = <<>>
  /\ SumFunction([z \in DOMAIN infos |-> infos[z].pktrecv]) = Len(recs)
  /\ SumFunction([z \in DOMAIN infos |-> infos[z].byterecv]) = Size(recs)
  /\ recs # <<>> =>
       /\ begin = recs[1].rx
       /\ \A z \in DOMAIN infos : infos[z].last <= recs[Len(recs)].rx
       /\ \E z \in DOMAIN infos : infos[z].last = recs[Len(recs)].rx
  /\ Len(infos) = 1 => infos[1].lastdelay = Late(recs[Len(recs)]) /\ infos[1].jitter = Jitter(recs)
TotalsKept ==
  /\ SummedUp(dec.infos, Kept, dec.begin)
  /\ dec.pc = "done" => dec.total = Totals(dec.infos, Kept, dec.begin)

\* One more element, whatever it is.
LEMMA AppendsTo ==
  ASSUME NEW S, NEW log \in Seq(S), NEW r
  PROVE  /\ Len(Append(log, r)) = Len(log) + 1 /\ DOMAIN Append(log, r) = 1 .. Len(log) + 1
         /\ Append(log, r)[Len(log) + 1] = r
         /\ \A i \in 1 .. Len(log) : Append(log, r)[i] = log[i]
OBVIOUS

\* The times and sizes of a log.
LEMMA RxTypes ==
  ASSUME NEW log \in Seq(Records), NEW i \in DOMAIN log
  PROVE  log[i].rx \in Nat /\ log[i].tx \in Int /\ log[i].size \in Nat
<1>1. log[i] \in Records
  OBVIOUS
<1> QED
  BY <1>1 DEF Records

\* A record that is logged now comes after the others.
LEMMA UpToNow ==
  ASSUME NEW log \in Seq(Records), NEW time \in Nat, UpTo(log, time), NEW r, r.rx = time
  PROVE  UpTo(Append(log, r), time)
<1>1. PICK n \in Nat : n = Len(log) /\ DOMAIN log = 1 .. n
  BY LenProperties
<1>2. /\ DOMAIN Append(log, r) = 1 .. n + 1 /\ Append(log, r)[n + 1] = r
      /\ \A i \in 1 .. n : Append(log, r)[i] = log[i]
  BY <1>1, AppendsTo
<1>3. \A i \in 1 .. n : log[i].rx \in Nat
  BY <1>1, RxTypes
<1> DEFINE long == Append(log, r)
<1> HIDE DEF long
<1>4. \A i \in DOMAIN long : long[i].rx \in Nat /\ long[i].rx <= time
  <2> TAKE i \in DOMAIN long
  <2>1. i \in 1 .. n \/ i = n + 1
    BY <1>2 DEF long
  <2> QED
    BY <1>1, <1>2, <1>3, <2>1 DEF long, UpTo
<1>5. ASSUME NEW i \in DOMAIN long, NEW j \in DOMAIN long, i <= j PROVE long[i].rx <= long[j].rx
  <2>1. i \in 1 .. n + 1 /\ j \in 1 .. n + 1
    BY <1>2 DEF long
  <2>2. CASE j = n + 1
    BY <1>2, <1>4, <2>2 DEF long
  <2>3. CASE j # n + 1
    <3>1. i \in 1 .. n /\ j \in 1 .. n
      BY <1>5, <2>1, <2>3
    <3> QED
      BY <1>1, <1>2, <1>5, <3>1 DEF long, UpTo
  <2> QED
    BY <2>2, <2>3
<1> QED
  BY <1>4, <1>5 DEF UpTo, long

\* What a step writes to the logs.
Writes(log, new) == new = log \/ (now' = now /\ \E r : r.rx = now /\ new = Append(log, r))
LEMMA LogsMove ==
  ASSUME MeasureInv, [Next]_vars
  PROVE  /\ now' = now \/ now' = now + 1
         /\ Writes(recvLog, recvLog')
         /\ InReception /\ asked.dec.input = "sender" => Writes(sendLog, sendLog')
<1>0. asked \in Cases /\ now \in Nat
  BY DEF MeasureInv, MeasureTypes
<1>1. CASE UNCHANGED <<now, recvLog, sendLog>>
  BY <1>1, Zenon DEF Writes
<1>2. CASE Tick /\ UNCHANGED <<receiverVars, dec>>
  BY <1>2 DEF Writes, Tick, receiverVars
<1>3. ASSUME NEW f \in Flows, SendPacket(f), UNCHANGED <<receiverVars, dec>>
      PROVE  /\ UNCHANGED <<now, recvLog>>
             /\ InReception /\ asked.dec.input = "sender" => Writes(sendLog, sendLog')
  <2>1. UNCHANGED <<now, recvLog>> /\ LogSent(f) /\ snd[f].pc = "sending"
    BY <1>3 DEF SendPacket, receiverVars
  <2>2. CASE Opt(f).meter # "owdm"
    BY <2>1, <2>2 DEF LogSent, Writes
  <2>3. CASE Opt(f).meter = "owdm"
    <3>1. SenderKept(f)
      BY DEF MeasureInv
    <3>2. f \in asked.flows /\ (~Opt(f).bursty => snd[f].last = now)
      BY <2>1, <3>1 DEF SenderKept
    <3>3. InReception /\ asked.dec.input = "sender" => ~Opt(f).bursty
      BY <1>0, <2>3, <3>2 DEF InReception, Opt
    <3>4. sendLog' = Append(sendLog, Record(Packet(f), snd[f].last))
      BY <2>1, <2>3 DEF LogSent
    <3>5. Record(Packet(f), snd[f].last).rx = snd[f].last
      BY DEF Record
    <3> QED
      BY <2>1, <3>2, <3>3, <3>4, <3>5 DEF Writes
  <2> QED
    BY <2>1, <2>2, <2>3
<1>4. ASSUME NEW f \in Flows, ReadEcho(f) \/ ReadLastEcho(f), UNCHANGED <<receiverVars, dec>>
      PROVE  UNCHANGED <<now, recvLog>> /\ Writes(sendLog, sendLog')
  <2>1. UNCHANGED <<now, recvLog>> /\ \E m : sendLog' = Append(sendLog, Record(m, now))
    BY <1>4 DEF ReadEcho, ReadLastEcho, receiverVars
  <2>2. \A m : Record(m, now).rx = now
    BY DEF Record
  <2> QED
    BY <2>1, <2>2 DEF Writes
<1>5. ASSUME NEW f \in Flows, Receiver(f)
      PROVE  UNCHANGED <<now, sendLog>> /\ Writes(recvLog, recvLog')
  <2>1. /\ UNCHANGED <<now, sendLog>>
        /\ recvLog' = recvLog \/ \E p, size : recvLog' = Append(recvLog, Logged(f, p, size))
    <3>1. CASE ReceiveDatagram(f)
      BY <3>1 DEF ReceiveDatagram
    <3>2. CASE ReceiveRaw(f)
      BY <3>2 DEF ReceiveRaw
    <3>3. CASE ReadPreamble(f)
      BY <3>3 DEF ReadPreamble, Unread
    <3>4. CASE ReadPayload(f)
      BY <3>4 DEF ReadPayload, Unread
    <3> QED
      BY <1>5, <3>1, <3>2, <3>3, <3>4 DEF Receiver
  <2>2. \A p, size : Logged(f, p, size).rx = now
    <3>1. Opt(f).log \in {"standard", "short", "none"}
      BY <1>0, OptionTypes
    <3> QED
      BY <3>1 DEF Logged
  <2> QED
    BY <2>1, <2>2 DEF Writes
<1>6. CASE StartDecoder \/ Decodes \/ UNCHANGED vars
  <2>1. UNCHANGED <<now, recvLog, sendLog>>
    BY <1>6 DEF StartDecoder, Decodes, Others, vars, senderVars, receiverVars
  <2> QED
    BY <1>1, <2>1
<1>7. ASSUME NEW f \in Flows, Sender(f), UNCHANGED <<receiverVars, dec>>,
             ~(SendPacket(f) \/ ReadEcho(f) \/ ReadLastEcho(f))
      PROVE  UNCHANGED <<now, recvLog, sendLog>>
  BY <1>7 DEF Sender, StartFlow, SendFails, WaitOver, OffOver, TailOver, receiverVars
<1>8. Writes(recvLog, recvLog) /\ Writes(sendLog, sendLog)
  BY DEF Writes
<1>9. CASE \E f \in Flows : Sender(f) /\ UNCHANGED <<receiverVars, dec>>
  <2>1. PICK f \in Flows : Sender(f) /\ UNCHANGED <<receiverVars, dec>>
    BY <1>9
  <2>2. CASE SendPacket(f)
    BY <1>3, <1>8, <2>1, <2>2
  <2>3. CASE ReadEcho(f) \/ ReadLastEcho(f)
    BY <1>4, <1>8, <2>1, <2>3
  <2>4. CASE ~(SendPacket(f) \/ ReadEcho(f) \/ ReadLastEcho(f))
    BY <1>1, <1>7, <2>1, <2>4
  <2> QED
    BY <2>2, <2>3, <2>4
<1>10. CASE \E f \in Flows : Receiver(f)
  BY <1>5, <1>8, <1>10
<1> QED
  BY <1>2, <1>6, <1>9, <1>10 DEF Next

\* A step of the measurement leaves the logs in order.
LEMMA LogsStep ==
  ASSUME InReception, MeasureInv, LogsKept, [Next]_vars
  PROVE  LogsKept'
<1>1. /\ now \in Nat /\ recvLog \in Seq(Records) /\ sendLog \in Seq(Records) /\ asked' = asked
      /\ now' = now \/ now' = now + 1
  BY LogsMove, DecoderMoves DEF MeasureInv, MeasureTypes
<1>2. ASSUME NEW log \in Seq(Records), NEW new, UpTo(log, now), Writes(log, new) PROVE UpTo(new, now')
  <2>1. CASE new = log
    <3>1. \A i \in DOMAIN log : log[i].rx \in Nat
      BY RxTypes
    <3> QED
      BY <1>1, <1>2, <2>1, <3>1 DEF UpTo
  <2>2. CASE now' = now /\ \E r : r.rx = now /\ new = Append(log, r)
    BY <1>1, <1>2, <2>2, UpToNow
  <2> QED
    BY <1>2, <2>1, <2>2 DEF Writes
<1>3. UpTo(recvLog, now) => UpTo(recvLog', now')
  BY <1>1, <1>2, LogsMove
<1>4. asked.dec.input = "sender" /\ UpTo(sendLog, now) => UpTo(sendLog', now')
  BY <1>1, <1>2, LogsMove
<1> QED
  BY <1>1, <1>3, <1>4 DEF LogsKept, UpTo

\* The log that ITGDec reads does not change any more when it reads.
LEMMA InputStays ==
  ASSUME MeasureInv, [Next]_vars
  PROVE  dec.pc = "off" \/ Input' = Input
<1>1. CASE UNCHANGED <<asked, recvLog, sendLog>>
  BY <1>1 DEF Input
<1>2. ASSUME NEW f \in Flows, Sender(f) PROVE dec.pc = "off"
  <2>1. SenderKept(f)
    BY DEF MeasureInv
  <2>2. snd[f].pc # "ended" /\ f \in asked.flows
    BY <1>2, <2>1 DEF SenderKept, Sender, StartFlow, SendPacket, SendFails, ReadEcho, WaitOver, OffOver,
                      ReadLastEcho, TailOver, Active
  <2> QED
    BY SMTT(30), <2>2, NotDecoding
<1>3. CASE Tick /\ UNCHANGED <<receiverVars, dec>>
  BY <1>1, <1>3 DEF Tick, receiverVars
<1>4. CASE StartDecoder \/ Decodes \/ UNCHANGED vars
  <2>1. UNCHANGED <<asked, recvLog, sendLog>>
    BY <1>4 DEF StartDecoder, Decodes, Others, vars, senderVars, receiverVars
  <2> QED
    BY <1>1, <2>1
<1> QED
  BY <1>2, <1>3, <1>4 DEF Next

\* What a step does to the records that are considered.
LEMMA KeptMoves ==
  ASSUME MeasureInv, NEW r \in Records, dec'.out = Append(dec.out, r), asked' = asked
  PROVE  Kept' = IF r.flow \in asked.dec.keep THEN Append(Kept, r) ELSE Kept
<1> DEFINE out == dec.out
           keep == asked.dec.keep
<1>1. out \in Seq(Records)
  BY DEF MeasureInv, MeasureTypes
<1>2. Kept = OfFlows(out, keep) /\ Kept' = OfFlows(Append(out, r), keep)
  BY DEF Kept, Valid
<1> HIDE DEF out, keep
<1>3. OfFlows(Append(out, r), keep) = IF r.flow \in keep THEN Append(OfFlows(out, keep), r) ELSE OfFlows(out, keep)
  BY <1>1, OfFlowsAppend
<1> QED
  BY <1>2, <1>3 DEF keep

\* Types of the records, of which there are none before ITGDec starts.
LEMMA KeptTypes ==
  ASSUME MeasureInv
  PROVE  /\ Kept \in Seq(Records) /\ Input \in Seq(Records)
         /\ dec.pc = "off" => Kept = <<>>
<1> DEFINE out == dec.out
           keep == asked.dec.keep
<1>1. out \in Seq(Records) /\ Input \in Seq(Records) /\ (dec.pc = "off" => out = <<>>)
  BY DEF MeasureInv, MeasureTypes, DecoderKept, Input
<1>2. Kept = OfFlows(out, keep)
  BY DEF Kept, Valid
<1> HIDE DEF out, keep
<1>3. OfFlows(out, keep) \in Seq(Records) /\ OfFlows(<<>>, keep) = <<>>
  BY <1>1, OfFlowsTypes, OfFlowsNone
<1> QED
  BY <1>1, <1>2, <1>3

\* A step of the measurement leaves the records that are considered in order.
LEMMA ReadStep ==
  ASSUME MeasureInv, LogsKept, ReadKept, [Next]_vars
  PROVE  ReadKept'
<1>1. /\ asked' = asked /\ Kept \in Seq(Records) /\ Input \in Seq(Records)
      /\ dec.pc = "off" => Kept = <<>>
      /\ dec.pc = "off" \/ Input' = Input
      /\ KeepsRecords \/ \E r \in Records : ReadsRecord(r)
  BY DecoderMoves, KeptTypes, InputStays
<1>2. CASE KeepsRecords
  <2>1. Kept' = Kept /\ dec'.read = dec.read
    BY <1>1, <1>2 DEF KeepsRecords, Kept, Valid
  <2>2. CASE dec.pc = "off"
    <3>1. DOMAIN Kept' = {}
      BY <1>1, <2>1, <2>2
    <3> QED
      BY <3>1 DEF ReadKept
  <2>3. CASE dec.pc # "off"
    BY <1>1, <2>1, <2>3 DEF ReadKept
  <2> QED
    BY <2>2, <2>3
<1>3. ASSUME NEW r \in Records, ReadsRecord(r) PROVE ReadKept'
  <2>1. /\ Input' = Input /\ dec'.out = Append(dec.out, r) /\ dec'.read = dec.read + 1
        /\ dec.read \in Nat /\ dec.read < Len(Input) /\ r.rx = Input[dec.read + 1].rx
    BY <1>1, <1>3 DEF ReadsRecord, MeasureInv, MeasureTypes
  <2>2. Kept' = IF r.flow \in asked.dec.keep THEN Append(Kept, r) ELSE Kept
    BY <1>1, <2>1, KeptMoves
  <2>3. \A i, j \in DOMAIN Input : i <= j => Input[i].rx <= Input[j].rx
    BY DEF LogsKept, UpTo, Input
  <2>4. PICK m \in Nat, n \in Nat, a \in Nat :
          m = Len(Kept) /\ DOMAIN Kept = 1 .. m /\ n = Len(Input) /\ DOMAIN Input = 1 .. n /\ a = dec.read
    BY <1>1, <2>1, LenProperties
  <2>5. /\ \A i \in 1 .. m : Kept[i].rx \in Nat
        /\ \A i \in 1 .. n : Input[i].rx \in Nat
    BY <1>1, <2>4, RxTypes
  <2>6. /\ \A i, j \in 1 .. m : i <= j => Kept[i].rx <= Kept[j].rx
        /\ \A i \in 1 .. m : \A j \in 1 .. n : j > a => Kept[i].rx <= Input[j].rx
    BY <2>4 DEF ReadKept
  <2>7. a + 1 \in 1 .. n /\ r.rx = Input[a + 1].rx /\ r.rx \in Nat
    BY <2>1, <2>4, <2>5
  <2>8. \A j \in 1 .. n : j > a + 1 => r.rx <= Input[j].rx
    BY <2>3, <2>4, <2>7
  <2>9. \A i \in 1 .. m : Kept[i].rx <= r.rx
    BY <2>6, <2>7
  <2>10. CASE r.flow \notin asked.dec.keep
    <3>1. \A i \in 1 .. m : \A j \in 1 .. n : j > a + 1 => Kept[i].rx <= Input[j].rx
      BY <2>6
    <3> QED
      BY <2>1, <2>2, <2>4, <2>6, <2>10, <3>1 DEF ReadKept
  <2>11. CASE r.flow \in asked.dec.keep
    <3> DEFINE new == Append(Kept, r)
    <3>1. /\ DOMAIN new = 1 .. m + 1 /\ new[m + 1] = r
          /\ \A i \in 1 .. m : new[i] = Kept[i]
      BY <1>1, <2>4, AppendsTo
    <3> HIDE DEF new
    <3>2. ASSUME NEW i \in 1 .. m + 1, NEW j \in 1 .. m + 1, i <= j PROVE new[i].rx <= new[j].rx
      <4>1. CASE j = m + 1 /\ i = m + 1
        BY <2>7, <3>1, <4>1
      <4>2. CASE j = m + 1 /\ i # m + 1
        <5>1. i \in 1 .. m
          BY <4>2
        <5> QED
          BY <2>9, <3>1, <4>2, <5>1
      <4>3. CASE j # m + 1
        <5>1. i \in 1 .. m /\ j \in 1 .. m
          BY <3>2, <4>3
        <5> QED
          BY <2>6, <3>1, <3>2, <5>1
      <4> QED
        BY <4>1, <4>2, <4>3
    <3>3. ASSUME NEW i \in 1 .. m + 1, NEW j \in 1 .. n, j > a + 1 PROVE new[i].rx <= Input[j].rx
      <4>1. CASE i = m + 1
        BY <2>8, <3>1, <3>3, <4>1
      <4>2. CASE i # m + 1
        <5>1. i \in 1 .. m /\ j > a
          BY <3>3, <4>2
        <5> QED
          BY <2>6, <3>1, <5>1
      <4> QED
        BY <4>1, <4>2
    <3>4. Kept' = new
      BY <2>2, <2>11 DEF new
    <3> QED
      BY SMTT(30), <2>1, <2>4, <3>1, <3>2, <3>3, <3>4 DEF ReadKept
  <2> QED
    BY <2>10, <2>11
<1> QED
  BY <1>1, <1>2, <1>3

\* setline: the jitter and the time of the last record of a flow.
LEMMA RestOfUpdate ==
  ASSUME NEW s \in InfoTypes, NEW r \in MarkedRecords
  PROVE  /\ Update(s, r).jitter = s.jitter + Abs(s.lastdelay - Late(r))
         /\ Update(s, r).lastdelay = Late(r)
         /\ Update(s, r).last = IF r.rx > s.last THEN r.rx ELSE s.last
<1>1. PICK l \in InfoTypes : l = Losses(s, r)
  BY LossesTypes
<1>2. l.jitter = s.jitter /\ l.last = s.last
  BY <1>1 DEF Losses, InfoTypes
<1>3. Update(s, r) =
        [l EXCEPT
           !.byterecv = @ + r.size, !.pktrecv = @ + 1, !.delay = @ + Late(r),
           !.maxdelay = IF Late(r) > @ THEN Late(r) ELSE @,
           !.mindelay = IF Late(r) < @ THEN Late(r) ELSE @,
           !.jitter = @ + Abs(s.lastdelay - Late(r)), !.lastdelay = Late(r),
           !.first = IF r.rx < @ THEN r.rx ELSE @,
           !.last = IF r.rx > @ THEN r.rx ELSE @]
  BY <1>1 DEF Update
<1>4. {"byterecv", "pktrecv", "delay", "maxdelay", "mindelay", "jitter", "lastdelay", "first", "last"}
        \subseteq DOMAIN l
  BY DEF InfoTypes
<1> QED
  BY <1>2, <1>3, <1>4

\* The number at which a record is counted is the next one, or one of those before.
LEMMA OneLonger ==
  ASSUME NEW m \in Nat, NEW n \in Nat, 1 .. m \subseteq 1 .. n, NEW k \in 1 .. n,
         \A z \in 1 .. n : z # k => z \in 1 .. m
  PROVE  /\ k \notin 1 .. m => n = m + 1 /\ k = m + 1
         /\ k \in 1 .. m => n = m
<1>1. ASSUME k \notin 1 .. m PROVE n = m + 1 /\ k = m + 1
  <2>1. k > m /\ n > m
    BY <1>1
  <2>2. m + 1 \in 1 .. n /\ n \in 1 .. n
    BY <2>1
  <2>3. m + 1 = k
    BY <2>2
  <2>4. n = k
    BY <2>1, <2>2
  <2> QED
    BY <2>3, <2>4
<1>2. ASSUME k \in 1 .. m PROVE n = m
  <2>1. n \in 1 .. m /\ (m > 0 => m \in 1 .. n)
    BY <1>2
  <2> QED
    BY <1>2, <2>1
<1> QED
  BY <1>1, <1>2

\* What a record adds to the sum of a field.
AddsOne(F, G, m, n, k, add) ==
  /\ F \in [1 .. m -> Int] /\ G \in [1 .. n -> Int] /\ k \in 1 .. n /\ add \in Int
  /\ 1 .. m \subseteq 1 .. n /\ \A z \in 1 .. n : z # k => z \in 1 .. m /\ G[z] = F[z]
  /\ k \notin 1 .. m => G[k] = add
  /\ k \in 1 .. m => G[k] = F[k] + add
LEMMA SetLineSum ==
  ASSUME NEW m \in Nat, NEW n \in Nat, NEW F, NEW G, NEW k, NEW add, AddsOne(F, G, m, n, k, add)
  PROVE  SumFunction(F) \in Int /\ SumFunction(G) = SumFunction(F) + add
<1> USE DEF AddsOne
<1>0. /\ k \notin 1 .. m => n = m + 1 /\ k = m + 1
      /\ k \in 1 .. m => n = m
  BY OneLonger
<1>1. CASE k \notin 1 .. m
  <2>1. n = m + 1 /\ k = m + 1
    BY <1>0, <1>1
  <2>2. \A z \in 1 .. m : G[z] = F[z]
    BY <1>1
  <2>3. G \in [1 .. m + 1 -> Int]
    BY <2>1
  <2>4. SumFunction(F) \in Int /\ SumFunction(G) = SumFunction(F) + G[m + 1]
    BY <2>2, <2>3, SumAppend
  <2> QED
    BY <1>1, <2>1, <2>4
<1>2. CASE k \in 1 .. m
  <2>1. n = m /\ IsFiniteSet(1 .. m)
    BY <1>0, <1>2, FS_Interval
  <2>2. \A z \in (1 .. m) \ {k} : G[z] = F[z]
    BY <2>1
  <2>3. G \in [1 .. m -> Int]
    BY <2>1
  <2> DEFINE S == 1 .. m
  <2>4. IsFiniteSet(S) /\ F \in [S -> Int] /\ G \in [S -> Int] /\ k \in S /\ \A z \in S \ {k} : G[z] = F[z]
    BY <1>2, <2>1, <2>2, <2>3
  <2> HIDE DEF S
  <2>5. SumFunction(F) \in Int /\ SumFunction(G) = (SumFunction(F) - F[k]) + G[k]
    BY ZenonT(40), <2>4, SumChange
  <2>6. F[k] \in Int /\ G[k] = F[k] + add
    BY <1>2, <2>4
  <2>7. PICK a \in Int, b \in Int : a = SumFunction(F) /\ b = F[k]
    BY <2>5, <2>6
  <2>8. (a - b) + (b + add) = a + add
    OBVIOUS
  <2> QED
    BY <2>5, <2>6, <2>7, <2>8
<1> QED
  BY <1>1, <1>2

\* Jitter of one more record.
LEMMA JitterAppend ==
  ASSUME NEW recs \in Seq(Records), NEW r \in Records
  PROVE  /\ recs = <<>> => Jitter(Append(recs, r)) = 0
         /\ recs # <<>> => /\ Jitter(recs) \in Int
                           /\ Jitter(Append(recs, r)) = Jitter(recs) + Abs(Late(recs[Len(recs)]) - Late(r))
<1>1. PICK n \in Nat : n = Len(recs) /\ DOMAIN recs = 1 .. n
  BY LenProperties
<1> DEFINE long == Append(recs, r)
           Change(q, i) == IF i = 1 THEN 0 ELSE Abs(Late(q[i - 1]) - Late(q[i]))
           F == [i \in 1 .. n |-> Change(recs, i)]
           G == [i \in 1 .. n + 1 |-> Change(long, i)]
<1>2. /\ DOMAIN long = 1 .. n + 1 /\ long[n + 1] = r
      /\ \A i \in 1 .. n : long[i] = recs[i]
  BY <1>1, AppendsTo
<1>3. \A i \in 1 .. n : Late(recs[i]) \in Int
  BY <1>1, RxTypes DEF Late
<1>4. Late(r) \in Int
  BY DEF Late, Records
<1> HIDE DEF long
<1>5. \A i \in 1 .. n + 1 : Late(long[i]) \in Int
  <2> TAKE i \in 1 .. n + 1
  <2>1. i = n + 1 \/ i \in 1 .. n
    OBVIOUS
  <2> QED
    BY <1>2, <1>3, <1>4, <2>1
<1>6. ASSUME NEW i \in 1 .. n + 1 PROVE Change(long, i) \in Int
  <2>1. CASE i = 1
    BY <2>1
  <2>2. CASE i # 1
    <3>1. i - 1 \in 1 .. n + 1
      BY <2>2
    <3>2. Late(long[i - 1]) \in Int /\ Late(long[i]) \in Int
      BY <1>5, <3>1
    <3>3. Late(long[i - 1]) - Late(long[i]) \in Int
      BY <3>2
    <3> QED
      BY <2>2, <3>3, AbsTypes
  <2> QED
    BY <2>1, <2>2
<1>7. ASSUME NEW i \in 1 .. n PROVE Change(long, i) = Change(recs, i)
  <2>1. i # 1 => i - 1 \in 1 .. n
    OBVIOUS
  <2> QED
    BY <1>2, <2>1
<1>8. Jitter(recs) = SumFunction(F) /\ Jitter(long) = SumFunction(G)
  BY <1>1, <1>2 DEF Jitter
<1>9. /\ G \in [1 .. n + 1 -> Int] /\ F \in [1 .. n -> Int]
      /\ \A i \in 1 .. n : G[i] = F[i]
      /\ G[n + 1] = Change(long, n + 1)
  <2>1. \A i \in 1 .. n : i \in 1 .. n + 1
    OBVIOUS
  <2>2. n + 1 \in 1 .. n + 1
    OBVIOUS
  <2> HIDE DEF Change
  <2> QED
    BY <1>6, <1>7, <2>1, <2>2
<1> HIDE DEF F, G
<1>10. SumFunction(F) \in Int /\ SumFunction(G) = SumFunction(F) + G[n + 1]
  BY <1>9, SumAppend
<1>11. ASSUME recs = <<>> PROVE Jitter(long) = 0
  <2>1. n = 0
    BY <1>1, <1>11
  <2>2. F \in [{} -> Int]
    BY <1>9, <2>1
  <2>3. SumFunction(F) = 0
    BY <2>2, SumNone
  <2>4. G[n + 1] = 0
    BY <1>9, <2>1
  <2> QED
    BY <1>8, <1>10, <2>3, <2>4
<1>12. ASSUME recs # <<>>
       PROVE  Jitter(recs) \in Int /\ Jitter(long) = Jitter(recs) + Abs(Late(recs[Len(recs)]) - Late(r))
  <2>1. n > 0
    BY <1>1, <1>12
  <2>2. n + 1 # 1 /\ (n + 1) - 1 = n /\ n \in 1 .. n
    BY <2>1
  <2>3. Change(long, n + 1) = Abs(Late(long[n]) - Late(long[n + 1]))
    BY <2>2
  <2>4. G[n + 1] = Abs(Late(recs[n]) - Late(r))
    BY <1>2, <1>9, <2>2, <2>3
  <2> QED
    BY <1>1, <1>8, <1>10, <2>4
<1> QED
  BY <1>11, <1>12 DEF long

\* Every record is summed up: in the statistics, and in the time that has gone by.
LEMMA SummedUpNext ==
  ASSUME NEW infos \in Seq(InfoTypes),
         \A z, y \in DOMAIN infos : infos[z].flow = infos[y].flow => z = y,
         NEW recs \in Seq(Records), NEW begin, SummedUp(infos, recs, begin),
         NEW r \in Records, NEW s \in MarkedRecords, s.rx = r.rx, s.tx = r.tx, s.size = r.size,
         \A i \in DOMAIN recs : recs[i].rx <= r.rx
  PROVE  SummedUp(SetLine(infos, s), Append(recs, r),
                  IF infos = <<>> \/ r.rx < begin THEN r.rx ELSE begin)
<1> DEFINE new  == SetLine(infos, s)
           long == Append(recs, r)
           from == IF infos = <<>> \/ r.rx < begin THEN r.rx ELSE begin
<1>1. new \in Seq(InfoTypes) /\ DOMAIN infos \subseteq DOMAIN new
  BY SetLineInfos
<1>2. \E k \in DOMAIN new :
        /\ new[k].flow = s.flow
        /\ k \notin DOMAIN infos => new[k] = NewFlow(s) /\ \A z \in DOMAIN infos : infos[z].flow # s.flow
        /\ k \in DOMAIN infos => infos[k].flow = s.flow /\ new[k] = Update(infos[k], s)
        /\ \A z \in DOMAIN new : z # k => z \in DOMAIN infos /\ new[z] = infos[z] /\ infos[z].flow # s.flow
  BY SetLineInfos
<1> HIDE DEF new
<1>3. PICK k \in DOMAIN new :
        /\ k \notin DOMAIN infos => new[k] = NewFlow(s)
        /\ k \in DOMAIN infos => new[k] = Update(infos[k], s)
        /\ \A z \in DOMAIN new : z # k => z \in DOMAIN infos /\ new[z] = infos[z]
  BY <1>2
<1>4. PICK m \in Nat, n \in Nat, c \in Nat :
        /\ m = Len(infos) /\ DOMAIN infos = 1 .. m /\ n = Len(new) /\ DOMAIN new = 1 .. n
        /\ c = Len(recs) /\ DOMAIN recs = 1 .. c
  BY <1>1, LenProperties
<1>5. /\ Len(long) = c + 1 /\ long[c + 1] = r /\ DOMAIN long = 1 .. c + 1
      /\ \A i \in 1 .. c : long[i] = recs[i]
  BY <1>4, AppendsTo
<1>6. /\ \A z \in 1 .. m : infos[z] \in InfoTypes
      /\ \A z \in 1 .. n : new[z] \in InfoTypes
  BY <1>1, <1>4
<1>7. /\ k \notin 1 .. m => n = m + 1 /\ k = m + 1
      /\ k \in 1 .. m => n = m
      /\ 1 .. m \subseteq 1 .. n /\ k \in 1 .. n /\ \A z \in 1 .. n : z # k => z \in 1 .. m
  <2>1. 1 .. m \subseteq 1 .. n /\ k \in 1 .. n /\ \A z \in 1 .. n : z # k => z \in 1 .. m
    BY <1>1, <1>3, <1>4
  <2> QED
    BY <2>1, OneLonger
<1>8. r.rx \in Nat /\ r.tx \in Int /\ r.size \in Nat /\ \A i \in 1 .. c : recs[i].rx \in Nat
  <2>1. r.rx \in Nat /\ r.tx \in Int /\ r.size \in Nat
    BY DEF Records
  <2> QED
    BY <1>4, <2>1, RxTypes
<1>9. Late(s) = Late(r) /\ Late(r) \in Int
  BY <1>8 DEF Late
\* numbers and bytes
<1>10. SumFunction([z \in 1 .. n |-> new[z].pktrecv]) = SumFunction([z \in 1 .. m |-> infos[z].pktrecv]) + 1
  <2> DEFINE F == [z \in 1 .. m |-> infos[z].pktrecv]
             G == [z \in 1 .. n |-> new[z].pktrecv]
  <2>1. \A i \in InfoTypes : i.pktrecv \in Int
    BY DEF InfoTypes
  <2>2. F \in [1 .. m -> Int] /\ G \in [1 .. n -> Int]
    BY <1>6, <2>1
  <2>3. k \notin 1 .. m => G[k] = 1
    BY <1>3, <1>4, NewFlowTypes
  <2>4. k \in 1 .. m => G[k] = F[k] + 1
    BY <1>3, <1>4, <1>6, UpdateTypes
  <2>5. \A z \in 1 .. n : z # k => z \in 1 .. m /\ G[z] = F[z]
    BY <1>3, <1>4, <1>7
  <2> HIDE DEF F, G
  <2>6. SumFunction(G) = SumFunction(F) + 1
    <3>1. AddsOne(F, G, m, n, k, 1)
      BY <1>7, <2>2, <2>3, <2>4, <2>5 DEF AddsOne
    <3> QED
      BY <3>1, SetLineSum
  <2> QED
    BY <2>6 DEF F, G
<1>11. SumFunction([z \in 1 .. n |-> new[z].byterecv])
         = SumFunction([z \in 1 .. m |-> infos[z].byterecv]) + r.size
  <2> DEFINE F == [z \in 1 .. m |-> infos[z].byterecv]
             G == [z \in 1 .. n |-> new[z].byterecv]
  <2>1. \A i \in InfoTypes : i.byterecv \in Int
    BY DEF InfoTypes
  <2>2. F \in [1 .. m -> Int] /\ G \in [1 .. n -> Int]
    BY <1>6, <2>1
  <2>3. k \notin 1 .. m => G[k] = r.size
    BY <1>3, <1>4, NewFlowTypes
  <2>4. k \in 1 .. m => G[k] = F[k] + r.size
    BY <1>3, <1>4, <1>6, UpdateTypes
  <2>5. \A z \in 1 .. n : z # k => z \in 1 .. m /\ G[z] = F[z]
    BY <1>3, <1>4, <1>7
  <2>6. r.size \in Int
    BY <1>8
  <2> HIDE DEF F, G
  <2>7. SumFunction(G) = SumFunction(F) + r.size
    <3>1. AddsOne(F, G, m, n, k, r.size)
      BY <1>7, <2>2, <2>3, <2>4, <2>5, <2>6 DEF AddsOne
    <3> QED
      BY <3>1, SetLineSum
  <2> QED
    BY <2>7 DEF F, G
<1>12. Size(long) = Size(recs) + r.size
  <2>1. \A q \in Records : q.size \in Nat
    BY DEF Records
  <2> QED
    BY <2>1, SizeAppend
<1>13. new # <<>> /\ long # <<>>
  <2>1. n > 0
    BY <1>7
  <2>2. Len(<<>>) = 0 /\ c + 1 # 0
    OBVIOUS
  <2> HIDE DEF long
  <2> QED
    BY <1>4, <1>5, <2>1, <2>2
\* times
<1>14. infos = <<>> <=> recs = <<>>
  BY DEF SummedUp
<1>15. from = long[1].rx
  <2>1. CASE recs = <<>>
    <3>1. c = 0 /\ from = r.rx
      BY <1>4, <1>14, <2>1
    <3> QED
      BY <1>5, <3>1
  <2>2. CASE recs # <<>>
    <3>1. c > 0
      BY <1>4, <2>2
    <3>2. 1 \in 1 .. c /\ begin = recs[1].rx
      BY <2>2, <3>1 DEF SummedUp
    <3>3. recs[1].rx <= r.rx /\ recs[1].rx \in Nat
      BY <1>4, <1>8, <3>2
    <3>4. ~(r.rx < begin)
      BY <1>8, <3>2, <3>3
    <3>5. from = begin
      BY <1>14, <2>2, <3>4
    <3> QED
      BY <1>5, <3>2, <3>5
  <2> QED
    BY <2>1, <2>2
<1>16. \A z \in 1 .. m : infos[z].last <= r.rx /\ infos[z].last \in Nat
  <2>1. \A i \in InfoTypes : i.last \in Nat
    BY DEF InfoTypes
  <2>2. CASE recs = <<>>
    <3>1. m = 0
      BY <1>4, <1>14, <2>2
    <3> QED
      BY <3>1
  <2>3. CASE recs # <<>>
    <3>1. c \in 1 .. c
      BY <1>4, <2>3
    <3>2. recs[c].rx <= r.rx /\ recs[c].rx \in Nat
      BY <1>4, <1>8, <3>1
    <3>3. \A z \in 1 .. m : infos[z].last <= recs[c].rx
      BY <1>4, <2>3 DEF SummedUp
    <3> QED
      BY <1>6, <1>8, <2>1, <3>2, <3>3
  <2> QED
    BY <2>2, <2>3
<1>17. new[k].last = r.rx
  <2>1. CASE k \notin 1 .. m
    BY <1>3, <1>4, <2>1 DEF NewFlow
  <2>2. CASE k \in 1 .. m
    <3>1. new[k].last = IF s.rx > infos[k].last THEN s.rx ELSE infos[k].last
      BY <1>3, <1>4, <1>6, <2>2, RestOfUpdate
    <3> QED
      BY <1>8, <1>16, <2>2, <3>1
  <2> QED
    BY <2>1, <2>2
<1>18. \A z \in 1 .. n : new[z].last <= r.rx
  <2> TAKE z \in 1 .. n
  <2>1. CASE z = k
    BY <1>8, <1>17, <2>1
  <2>2. CASE z # k
    BY <1>3, <1>4, <1>7, <1>16, <2>2
  <2> QED
    BY <2>1, <2>2
\* jitter
<1>19. ASSUME n = 1 PROVE new[1].lastdelay = Late(r) /\ new[1].jitter = Jitter(long)
  <2>1. k = 1
    BY <1>7, <1>19
  <2>2. CASE k \notin 1 .. m
    <3>1. new[1] = NewFlow(s) /\ m = 0
      BY <1>3, <1>4, <1>7, <1>19, <2>1, <2>2
    <3>2. recs = <<>>
      BY <1>4, <1>14, <3>1
    <3>3. Jitter(long) = 0
      BY <3>2, JitterAppend
    <3> QED
      BY <1>9, <3>1, <3>3 DEF NewFlow
  <2>3. CASE k \in 1 .. m
    <3>1. m = 1 /\ new[1] = Update(infos[1], s) /\ infos[1] \in InfoTypes
      BY <1>3, <1>4, <1>6, <1>7, <1>19, <2>1, <2>3
    <3>2. recs # <<>>
      <4>1. DOMAIN <<>> = {} /\ 1 \in DOMAIN infos
        BY <1>4, <3>1
      <4>2. infos # <<>>
        BY <4>1
      <4> QED
        BY <1>14, <4>2
    <3>3. infos[1].lastdelay = Late(recs[c]) /\ infos[1].jitter = Jitter(recs)
      BY <1>4, <3>1 DEF SummedUp
    <3>4. Jitter(long) = Jitter(recs) + Abs(Late(recs[c]) - Late(r))
      BY <1>4, <3>2, JitterAppend
    <3>5. /\ new[1].jitter = infos[1].jitter + Abs(infos[1].lastdelay - Late(s))
          /\ new[1].lastdelay = Late(s)
      BY <3>1, RestOfUpdate
    <3> QED
      BY <1>9, <3>3, <3>4, <3>5
  <2> QED
    BY <2>2, <2>3
<1>20. /\ SumFunction([z \in 1 .. m |-> infos[z].pktrecv]) = c
       /\ SumFunction([z \in 1 .. m |-> infos[z].byterecv]) = Size(recs)
  BY <1>4 DEF SummedUp
<1>21. /\ SumFunction([z \in DOMAIN new |-> new[z].pktrecv]) = Len(long)
       /\ SumFunction([z \in DOMAIN new |-> new[z].byterecv]) = Size(long)
  BY <1>4, <1>5, <1>10, <1>11, <1>12, <1>20
<1> HIDE DEF long, from
<1>22. SummedUp(new, long, from)
  BY <1>4, <1>5, <1>7, <1>13, <1>15, <1>17, <1>18, <1>19, <1>21 DEF SummedUp
<1> QED
  BY <1>22 DEF new, long, from

\* A step of the measurement leaves the sums right.
LEMMA TotalsStep ==
  ASSUME MeasureInv, InfosKept, LogsKept, ReadKept, TotalsKept, [Next]_vars
  PROVE  TotalsKept'
<1>1. /\ asked' = asked /\ Kept \in Seq(Records) /\ Input \in Seq(Records)
      /\ KeepsRecords \/ \E r \in Records : ReadsRecord(r)
  BY DecoderMoves, KeptTypes
<1>2. CASE KeepsRecords
  <2>1. Kept' = Kept /\ dec'.infos = dec.infos /\ dec'.begin = dec.begin
    BY <1>1, <1>2 DEF KeepsRecords, Kept, Valid
  <2>2. Kept = Valid(asked.dec)
    BY DEF Kept
  <2>3. dec'.pc = "done" => dec'.total = Totals(dec.infos, Kept, dec.begin)
    BY <1>2, <2>2 DEF KeepsRecords, TotalsKept
  <2> QED
    BY <2>1, <2>3 DEF TotalsKept
<1>3. ASSUME NEW r \in Records, ReadsRecord(r) PROVE TotalsKept'
  <2>1. /\ dec'.out = Append(dec.out, r) /\ dec'.pc = "reading" /\ dec.pc = "reading"
        /\ dec.read \in Nat /\ dec.read < Len(Input) /\ r.rx = Input[dec.read + 1].rx
    BY <1>3 DEF ReadsRecord, MeasureInv, MeasureTypes
  <2>2. Kept' = IF r.flow \in asked.dec.keep THEN Append(Kept, r) ELSE Kept
    BY <1>1, <2>1, KeptMoves
  <2>3. CASE r.flow \notin asked.dec.keep
    <3>1. dec'.infos = dec.infos /\ dec'.begin = dec.begin /\ Kept' = Kept
      BY <1>3, <2>2, <2>3 DEF ReadsRecord
    <3> QED
      BY <2>1, <3>1 DEF TotalsKept
  <2>4. CASE r.flow \in asked.dec.keep
    <3> DEFINE infos == dec.infos
               begin == dec.begin
               recs  == Kept
               s     == Marked(r)
    <3>1. /\ dec'.infos = SetLine(infos, s) /\ Kept' = Append(recs, r)
          /\ dec'.begin = IF infos = <<>> \/ r.rx < begin THEN r.rx ELSE begin
      BY <1>3, <2>2, <2>4 DEF ReadsRecord
    <3>2. infos \in Seq(InfoTypes) /\ \A z, y \in DOMAIN infos : infos[z].flow = infos[y].flow => z = y
      BY DEF InfosKept
    <3>3. s \in MarkedRecords /\ s.rx = r.rx /\ s.tx = r.tx /\ s.size = r.size
      BY DEF Marked, MarkedRecords, Records
    <3>4. \A i \in DOMAIN recs : recs[i].rx <= r.rx
      <4>1. PICK a \in Nat, n \in Nat : a = dec.read /\ n = Len(Input) /\ DOMAIN Input = 1 .. n
        BY <1>1, <2>1, LenProperties
      <4>2. a + 1 \in DOMAIN Input /\ a + 1 > a
        BY <2>1, <4>1
      <4> QED
        BY <2>1, <4>1, <4>2 DEF ReadKept
    <3>5. recs \in Seq(Records) /\ SummedUp(infos, recs, begin)
      BY <1>1 DEF TotalsKept
    <3> HIDE DEF infos, begin, recs, s
    <3>6. SummedUp(SetLine(infos, s), Append(recs, r),
                   IF infos = <<>> \/ r.rx < begin THEN r.rx ELSE begin)
      BY <3>2, <3>3, <3>4, <3>5, SummedUpNext
    <3>7. SummedUp(dec'.infos, Kept', dec'.begin)
      BY <3>1, <3>6
    <3>8. SummedUp(dec.infos, Kept, dec.begin)'
      BY <3>7 DEF SummedUp, Jitter, Late, Abs, Size
    <3> QED
      BY <2>1, <3>8 DEF TotalsKept
  <2> QED
    BY <2>3, <2>4
<1> QED
  BY <1>1, <1>2, <1>3

\* Nothing is summed up before.
LEMMA TotalsInitially == Init => LogsKept /\ ReadKept /\ TotalsKept
<1> SUFFICES ASSUME Init PROVE LogsKept /\ ReadKept /\ TotalsKept
  OBVIOUS
<1>1. /\ dec.pc = "off" /\ dec.out = <<>> /\ dec.infos = <<>> /\ dec.begin = 0
      /\ recvLog = <<>> /\ sendLog = <<>>
  BY DEF Init, SenderInit, ReceiverInit, DecoderInit
<1>2. Kept = <<>>
  BY <1>1, OfFlowsNone DEF Kept, Valid
<1>3. LogsKept
  BY <1>1 DEF LogsKept, UpTo
<1>4. ReadKept
  BY <1>2 DEF ReadKept
<1>5. SummedUp(<<>>, <<>>, 0)
  <2>1. DOMAIN <<>> = {} /\ Len(<<>>) = 0
    OBVIOUS
  <2>2. SumFunction([z \in {} |-> <<>>[z].pktrecv]) = 0 /\ SumFunction([z \in {} |-> <<>>[z].byterecv]) = 0
    BY SumNone
  <2> QED
    BY <2>1, <2>2, SizeNone DEF SummedUp
<1> QED
  BY <1>1, <1>2, <1>3, <1>4, <1>5 DEF TotalsKept

\* The greatest number of a set.
LEMMA Greatest ==
  ASSUME NEW S, S \subseteq Int, NEW m \in S, \A x \in S : x <= m
  PROVE  Max(S) = m
<1>1. m \in Int /\ \A y \in S : y \in Int
  OBVIOUS
<1>2. \A x \in S : (\A y \in S : x >= y) <=> x = m
  BY <1>1
<1>3. Max(S) = CHOOSE x \in S : \A y \in S : x >= y
  BY DEF Max
<1> QED
  BY <1>2, <1>3

\* The sums that are kept are the total results.
LEMMA TotalsAreRight == MeasureInv /\ InfosKept /\ ReadKept /\ TotalsKept => TotalsAddUp
<1> SUFFICES ASSUME MeasureInv, InfosKept, ReadKept, TotalsKept, dec.pc = "done", Kept # <<>>
             PROVE  /\ dec.total.pktrecv = Len(Kept) /\ dec.total.byterecv = Size(Kept)
                    /\ dec.total.time = Last(Kept).rx - Head(Kept).rx
                    /\ dec.total.flows = 1 => dec.total.jitter = dec.infos[1].jitter
  BY DEF TotalsAddUp
<1> DEFINE infos == dec.infos
           recs  == Kept
           begin == dec.begin
           total == Totals(infos, recs, begin)
<1>1. SummedUp(infos, recs, begin) /\ dec.total = total
  BY DEF TotalsKept
<1>2. recs \in Seq(Records) /\ recs # <<>> /\ infos \in Seq(InfoTypes)
  BY KeptTypes DEF InfosKept
<1> HIDE DEF infos, recs, begin
<1>3. infos # <<>>
  BY <1>1, <1>2 DEF SummedUp
<1>4. /\ total.flows = Len(infos)
      /\ total.pktrecv = SumFunction([z \in DOMAIN infos |-> infos[z].pktrecv])
      /\ total.byterecv = SumFunction([z \in DOMAIN infos |-> infos[z].byterecv])
      /\ total.jitter = Jitter(recs)
      /\ total.time = Max({infos[z].last : z \in DOMAIN infos}) - begin
  BY <1>3 DEF Totals, Jitter
<1> HIDE DEF total
<1>5. total.pktrecv = Len(recs) /\ total.byterecv = Size(recs)
  BY <1>1, <1>4 DEF SummedUp
<1>6. total.flows = 1 => total.jitter = infos[1].jitter
  BY <1>1, <1>4 DEF SummedUp
<1>7. total.time = Last(recs).rx - Head(recs).rx
  <2>1. Last(recs) = recs[Len(recs)] /\ Head(recs) = recs[1]
    BY <1>2 DEF Last
  <2>2. /\ begin = recs[1].rx
        /\ \A z \in DOMAIN infos : infos[z].last <= recs[Len(recs)].rx
        /\ \E z \in DOMAIN infos : infos[z].last = recs[Len(recs)].rx
    BY <1>1, <1>2 DEF SummedUp
  <2> DEFINE S == {infos[z].last : z \in DOMAIN infos}
  <2>3. S \subseteq Int
    <3>1. \A z \in DOMAIN infos : infos[z] \in InfoTypes
      BY <1>2
    <3>2. \A i \in InfoTypes : i.last \in Int
      BY DEF InfoTypes
    <3> QED
      BY <3>1, <3>2
  <2>4. recs[Len(recs)].rx \in S /\ \A x \in S : x <= recs[Len(recs)].rx
    BY <2>2
  <2> HIDE DEF S
  <2>5. Max(S) = recs[Len(recs)].rx
    BY <2>3, <2>4, Greatest
  <2> QED
    BY <1>4, <2>1, <2>2, <2>5 DEF S
<1> QED
  BY <1>1, <1>5, <1>6, <1>7 DEF recs, infos

\* The total results are those of all packets that are considered (setline, main): their number
\* and bytes, the time from the first to the last of them, and the jitter of a single flow.
THEOREM TotalsRight == ASSUME InReception PROVE Spec => []TotalsAddUp
<1> DEFINE Inv == MeasureInv /\ InfosKept /\ LogsKept /\ ReadKept /\ TotalsKept
<1>1. Init => Inv
  BY MeasureInitially, InfosInitially, TotalsInitially
<1>2. Inv /\ [Next]_vars => Inv'
  BY MeasureStep, InfosStep, LogsStep, ReadStep, TotalsStep
<1>3. Inv => TotalsAddUp
  BY TotalsAreRight
<1> QED
  BY <1>1, <1>2, <1>3, PTL DEF Spec
=============================================================================
