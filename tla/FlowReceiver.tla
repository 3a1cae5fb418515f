---------------------------- MODULE FlowReceiver ----------------------------
(***************************************************************************)
(* The data threads of ITGRecv and the network before them: what udpSock,  *)
(* icmpSock and tcpSock read, how TCPrecvPacket finds the packets in a     *)
(* stream of bytes, what is logged of a packet, and the echo of a round-   *)
(* trip-time meter.  Datagrams are lost, duplicated and reordered; recv()  *)
(* returns any part of what a stream holds.                                *)
(***************************************************************************)
EXTENDS FlowSender

VARIABLES
  rcv,      \* rcv[f]: the thread of f inside TCPrecvPacket
  copies,   \* datagrams delivered twice so far
  recvLog   \* the log file of ITGRecv

receiverVars == <<rcv, copies, recvLog>>

\* Waiting for the preamble or the rest of a packet, or asleep for ever; `got` fields are
\* read, and `size` is the size of the packet, as read from its last preamble field.
AtPreamble == [pc |-> "preamble", got |-> 0, size |-> 0, header |-> <<>>]

ReceiverTypeOK ==
  /\ \A f \in Flows :
       /\ rcv[f].pc \in {"preamble", "payload", "asleep"}
       /\ rcv[f].got \in 0 .. Largest
       /\ rcv[f].pc = "payload" => rcv[f].got < rcv[f].size
  /\ copies \in 0 .. asked.copies

ReceiverInit ==
  /\ rcv = [f \in Flows |-> AtPreamble]
  /\ copies = 0
  /\ recvLog = <<>>
-----------------------------------------------------------------------------
\* What thread t logs of packet p, by the payload type of its flow.
Logged(t, p, size) ==
  CASE Opt(t).log = "standard" -> [flow |-> p.flow, seq |-> p.seq, tx |-> p.tx, rx |-> now, size |-> size]
    [] Opt(t).log = "short"    -> [flow |-> p.flow, seq |-> p.seq, tx |-> now, rx |-> now, size |-> size]
    [] Opt(t).log = "none"     -> [flow |-> t, seq |-> 0, tx |-> now, rx |-> now, size |-> size]

\* A thread of the port reads a datagram, which the network may deliver again.
ReceiveDatagram(t) ==
  /\ Active(t) /\ Opt(t).proto = "UDP"
  /\ \E p \in net[Opt(t).port] :
       /\ recvLog' = Append(recvLog, Logged(t, p, p.size))
       /\ back' = IF Opt(t).meter = "rttm" THEN [back EXCEPT ![p.flow] = @ \cup {p}] ELSE back
       /\ \/ /\ net' = [net EXCEPT ![Opt(t).port] = @ \ {p}]
             /\ UNCHANGED copies
          \/ /\ copies < asked.copies
             /\ copies' = copies + 1
             /\ UNCHANGED net
  /\ UNCHANGED <<asked, now, snd, failures, stream, sendLog, sent, rcv>>

\* The raw socket of an ICMP thread gets the packets of all ICMP flows.
ReceiveRaw(t) ==
  /\ Active(t) /\ Opt(t).proto = "ICMP"
  /\ \E p \in net[t] :
       /\ recvLog' = Append(recvLog, Logged(t, p, p.size))
       /\ net' = [net EXCEPT ![t] = @ \ {p}]
  /\ UNCHANGED <<asked, now, snd, failures, stream, back, sendLog, sent, rcv, copies>>

\* recv() returns some of the fields that are there, at most as many as it is asked for.
Some(f, wanted) == 1 .. (IF Len(stream[f]) < wanted THEN Len(stream[f]) ELSE wanted)
Taken(f, k)     == stream' = [stream EXCEPT ![f] = SubSeq(@, k + 1, Len(@))]
Unread(f)       == UNCHANGED <<asked, now, snd, failures, net, back, sendLog, sent, copies>>

\* After the preamble: the rest of the packet.  If there is none, TCPrecvPacket returns 0,
\* which tcpSock takes for the end of the connection.
PreambleSize(f) == Header(Opt(f).log) + Carried(f)
SizeRead(f, p)  == IF p.field = PreambleSize(f) THEN p.size ELSE Largest  \* anything, from a wrong place
AfterPreamble(f, p) ==
  LET size == IF Opt(f).log = "none" THEN PreambleSize(f) + Largest ELSE SizeRead(f, p)
  IN IF size > PreambleSize(f)
     THEN [pc |-> "payload", got |-> PreambleSize(f), size |-> size, header |-> p]
     ELSE [pc |-> "asleep", got |-> 0, size |-> 0, header |-> p]
ReadPreamble(f) ==
  /\ Active(f) /\ Opt(f).proto = "TCP" /\ rcv[f].pc = "preamble"
  /\ \E k \in Some(f, PreambleSize(f) - rcv[f].got) :
       /\ Taken(f, k)
       /\ IF rcv[f].got + k = PreambleSize(f)
          THEN rcv' = [rcv EXCEPT ![f] = AfterPreamble(f, stream[f][k])]
          ELSE rcv' = [rcv EXCEPT ![f].got = @ + k]
  /\ UNCHANGED recvLog
  /\ Unread(f)

\* Mutant: one recv() is taken for the whole packet.
ReadPayloadOnce(f) ==
  /\ rcv[f].pc = "payload"
  /\ \E k \in Some(f, rcv[f].size - rcv[f].got) : Taken(f, k)
  /\ recvLog' = Append(recvLog, Logged(f, rcv[f].header, rcv[f].size))
  /\ rcv' = [rcv EXCEPT ![f] = AtPreamble]
  /\ Unread(f)

\* The rest of the packet, which is then logged.  Without a header its size is what one
\* more recv() returns.
ReadPayload(f) ==
  /\ rcv[f].pc = "payload"
  /\ \E k \in Some(f, rcv[f].size - rcv[f].got) :
       /\ Taken(f, k)
       /\ IF Opt(f).log = "none" \/ rcv[f].got + k = rcv[f].size
          THEN /\ recvLog' = Append(recvLog, Logged(f, rcv[f].header,
                                                    IF Opt(f).log = "none" THEN k ELSE rcv[f].size))
               /\ rcv' = [rcv EXCEPT ![f] = AtPreamble]
          ELSE /\ rcv' = [rcv EXCEPT ![f].got = @ + k]
               /\ UNCHANGED recvLog
  /\ Unread(f)

Receiver(f) == ReceiveDatagram(f) \/ ReceiveRaw(f) \/ ReadPreamble(f) \/ ReadPayload(f)
=============================================================================
