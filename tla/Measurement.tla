---------------------------- MODULE Measurement ----------------------------
(***************************************************************************)
(* A measurement from end to end: flows are sent, received and logged, and *)
(* ITGDec is run on a log when all of them have ended.  Datagrams that are *)
(* still under way then are lost.                                          *)
(***************************************************************************)
EXTENDS FlowReceiver, Decoder

vars == <<senderVars, receiverVars, dec>>

Init == SenderInit /\ ReceiverInit /\ DecoderInit

\* The log that ITGDec reads.
Input == IF asked.dec.input = "sender" THEN sendLog ELSE recvLog

\* Once the flows have ended their data threads are cancelled, and a user runs ITGDec.
AllEnded == \A f \in asked.flows : snd[f].pc = "ended"
Others   == UNCHANGED <<senderVars, receiverVars>>
StartDecoder ==
  /\ AllEnded /\ dec.pc = "off"
  /\ dec' = [dec EXCEPT !.pc = "reading"]
  /\ Others
Decodes == (ReadLine(asked.dec, Input, sendLog) \/ Elaborate(asked.dec, Input)) /\ Others

Next ==
  \/ \E f \in Flows : Sender(f) /\ UNCHANGED <<receiverVars, dec>>
  \/ Tick /\ UNCHANGED <<receiverVars, dec>>
  \/ dec.pc = "off" /\ UNCHANGED dec /\ \E f \in Flows : Receiver(f)
  \/ StartDecoder
  \/ Decodes

Spec == Init /\ [][Next]_vars

\* Threads that can go on do, and the clock advances.
FairSpec ==
  /\ Spec
  /\ WF_vars(Tick /\ UNCHANGED <<receiverVars, dec>>)
  /\ \A f \in Flows : WF_vars(Sender(f) /\ UNCHANGED <<receiverVars, dec>>)
-----------------------------------------------------------------------------
\* Types, and how the numbers of packets, failures and records belong together.
TypeOK ==
  /\ SenderTypeOK /\ ReceiverTypeOK
  /\ dec.pc \in {"off", "reading", "failed", "done"}
  /\ dec.read \in 0 .. Len(Input)
  /\ dec.pc # "off" => AllEnded

Size(packets) ==
  LET upTo[i \in 0 .. Len(packets)] == IF i = 0 THEN 0 ELSE upTo[i - 1] + packets[i].size
  IN  upTo[Len(packets)]

(***************************************************************************)
(* A flow ends for a reason a user gave - as many packets as -z says have  *)
(* been sent or tried, the bytes of -k have been sent, the time of -t is   *)
(* over - and none of the limits is passed by more than one packet         *)
(* (flowSender's two loops, the default duration, failing sends).          *)
(***************************************************************************)
EndsAtItsLimit ==
  \A f \in asked.flows :
    LET tried == snd[f].seq - 1
        bytes == Size(sent[f])
    IN /\ snd[f].pc = "ended" =>
            \/ Opt(f).packets > 0 /\ tried = Opt(f).packets
            \/ Opt(f).bytes > 0 /\ bytes >= Opt(f).bytes
            \/ now >= Opt(f).duration
       /\ Opt(f).packets > 0 => tried <= Opt(f).packets
       /\ Opt(f).bytes > 0 /\ sent[f] # <<>> => Size(Front(sent[f])) < Opt(f).bytes + failures[f]

(***************************************************************************)
(* A packet is stamped with the time at which it is sent, unless the flow  *)
(* is bursty, and a record of the receiver with a standard header holds    *)
(* the stamp of the packet it tells of.                                    *)
(***************************************************************************)
TrueStamps ==
  /\ \A f \in asked.flows : ~Opt(f).bursty => \A i \in DOMAIN sent[f] : sent[f][i].tx = sent[f][i].at
  /\ \A i \in DOMAIN recvLog :
       LET r == recvLog[i] IN Opt(r.flow).log = "standard" =>
         \E j \in DOMAIN sent[r.flow] : sent[r.flow][j].seq = r.seq /\ sent[r.flow][j].tx = r.tx

(***************************************************************************)
(* TCPrecvPacket finds the packets in the stream again, whatever parts of  *)
(* them recv() returns: what is logged of a TCP flow is what was sent, in  *)
(* the same order, up to some packet.                                      *)
(***************************************************************************)
Fields(seq) == [i \in DOMAIN seq |-> [seq |-> seq[i].seq, size |-> seq[i].size]]
FramesFound ==
  \A f \in asked.flows : Opt(f).proto = "TCP" /\ Opt(f).log # "none" =>
    IsPrefix(Fields(OfFlows(recvLog, {f})), Fields(sent[f]))

(***************************************************************************)
(* The loss that ITGDec reports of a flow with more than one record is the *)
(* number of packets missing up to the greatest number received if nothing *)
(* was duplicated, and never more than that (setline, for any order).      *)
(***************************************************************************)
RecordsOf(f) == OfFlows(dec.out, {f})
Seen(recs)   == {recs[i].seq : i \in DOMAIN recs}
LossesReported ==
  \A z \in DOMAIN dec.infos :
    LET s == dec.infos[z]
        recs == RecordsOf(s.flow)
        missing == Max(Seen(recs)) - Cardinality(Seen(recs))
    IN s.flow # OneFlow /\ s.pktrecv > 1 /\ 0 \notin Seen(recs) =>
         /\ s.pktloss \in 0 .. missing
         /\ Cardinality(Seen(recs)) = Len(recs) => s.pktloss = missing
         /\ s.pktrecv = Len(recs) /\ s.byterecv = Size(recs)

(***************************************************************************)
(* Where a loss is reported there is a number of loss bursts to divide it  *)
(* by ("Average loss-burst size" in the summary).                          *)
(***************************************************************************)
BurstsCounted ==
  \A z \in DOMAIN dec.infos :
    dec.infos[z].pktloss > 0 => dec.infos[z].lossEvents \in 1 .. dec.infos[z].pktloss

(***************************************************************************)
(* split keeps the flows apart: the file of a flow has its records of the  *)
(* log, in the order of the log, and none of another flow.                 *)
(***************************************************************************)
FlowsKeptApart ==
  dec.pc \in {"reading", "done"} /\ ~asked.dec.join =>
    \A i \in DOMAIN dec.files :
      /\ dec.files[i].recs = RecordsOf(dec.files[i].flow)
      /\ dec.files[i].flow \in asked.dec.keep

(***************************************************************************)
(* The total results are those of all packets that are considered: their   *)
(* number, their bytes, the time from the first to the last of them, and   *)
(* for a single flow its jitter, which setline and main sum up in their    *)
(* own ways (logs written in the order of reception).                      *)
(***************************************************************************)
Kept == Valid(asked.dec)
TotalsAddUp ==
  dec.pc = "done" /\ Kept # <<>> =>
    /\ dec.total.pktrecv = Len(Kept) /\ dec.total.byterecv = Size(Kept)
    /\ dec.total.time = Last(Kept).rx - Head(Kept).rx
    /\ dec.total.flows = 1 => dec.total.jitter = dec.infos[1].jitter

(***************************************************************************)
(* The row of an interval of the bitrate series holds the bytes of exactly *)
(* the packets received in it, merged or combined, and the series sum up   *)
(* to the total results: the bitrate series to all bytes, the loss series  *)
(* to the total loss when packets arrived in order (elabsplit, merge,      *)
(* mergeCombined and the summary, for logs written in the order of         *)
(* reception).                                                             *)
(***************************************************************************)
InInterval(z, ms, r) ==
  /\ r.rx - dec.begin <= z * ms
  /\ z > 1 => r.rx - dec.begin > (z - 1) * ms
BytesIn(z, ms) ==
  SumFunction([i \in DOMAIN Kept |-> IF InInterval(z, ms, Kept[i]) THEN Kept[i].size ELSE 0])
RowsOf(kind) ==
  IF asked.dec.combined THEN [z \in DOMAIN dec.combined |-> dec.combined[z][kind]] ELSE dec.merged[kind]
InOrder(recs) == \A i, j \in DOMAIN recs : i < j => recs[i].seq < recs[j].seq
SeriesAddUp ==
  dec.pc = "done" /\ Kept # <<>> =>
    /\ asked.dec.interval["bit"] > 0 =>
         /\ \A z \in DOMAIN RowsOf("bit") : RowsOf("bit")[z] = BytesIn(z, asked.dec.interval["bit"])
         /\ SumFunction(RowsOf("bit")) = dec.total.byterecv
    /\ asked.dec.interval["pkt"] > 0 /\ ~asked.dec.join
         /\ (\A f \in asked.dec.keep : InOrder(RecordsOf(f)) /\ Len(RecordsOf(f)) # 1 /\ 0 \notin Seen(RecordsOf(f)))
       => SumFunction(RowsOf("pkt")) = dec.total.pktloss

(***************************************************************************)
(* With the log of the sender (-r) the record of a packet gets back the    *)
(* stamp that its header was too short for, and no record is without one.  *)
(***************************************************************************)
DelaysReconstructed ==
  asked.dec.reconstruct =>
    /\ dec.pc # "failed"
    /\ \A i \in DOMAIN dec.out :
         LET r == dec.out[i]
         IN \E j \in DOMAIN sent[r.flow] : sent[r.flow][j].seq = r.seq /\ sent[r.flow][j].tx = r.tx

(***************************************************************************)
(* Every flow ends, also one that waits for echoes which never come (the   *)
(* limits of flowSender, the time-out of the round-trip-time meter).       *)
(***************************************************************************)
FlowsEnd == <>AllEnded
=============================================================================
