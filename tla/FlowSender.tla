----------------------------- MODULE FlowSender -----------------------------
(***************************************************************************)
(* The send loop of ITGSend: how flowSender numbers, stamps and sizes the  *)
(* packets of a flow, how long it waits between them, which limits end it, *)
(* what it does in the OFF periods of a bursty flow, and how it reads the  *)
(* packets that come back with a round-trip-time meter.                    *)
(*                                                                         *)
(* Only waiting takes time, which passes in ticks.  A size is a number of  *)
(* 4-byte fields: a standard header has 4 of them (flow, sequence number,  *)
(* seconds, microseconds), a short one 2, and a size takes one more.       *)
(***************************************************************************)
EXTENDS Options

CONSTANTS
  Flows,           \* the flows of this instance
  Cases,           \* options of the flows and of ITGDec, and how many datagrams of a flow
                   \* cannot be sent and how many the network duplicates (bounds)
  OnTimes,         \* ON periods of a bursty flow, and
  OffTimes,        \* OFF periods
  Largest,         \* MAX_PAYLOAD_SIZE
  Forever,         \* UINT_MAX, ULONG_MAX: no limit
  DefaultDuration, \* the duration of a flow without option -t
  RttmDelay,       \* how long a flow waits for the last echoes
  TicksPerSecond

\* The options of a flow: what flowParser accepts, with sizes that fit the buffer.
Sendable(o) ==
  /\ o.proto \in {"UDP", "TCP", "ICMP"} /\ o.log \in {"standard", "short", "none"}
  /\ o.min \in Nat /\ o.min >= Header(o.log) /\ o.min < Largest
  /\ o.sizes \subseteq Nat /\ o.waits \subseteq Nat
  /\ {o.duration, o.packets, o.bytes} \subseteq Nat
  /\ o.port \in Flows

\* A port that is read with UDP is not called like the raw socket of an ICMP flow.
ASSUME FlowSenderAssumption ==
  /\ {Largest, Forever, DefaultDuration, TicksPerSecond} \subseteq Nat \ {0}
  /\ RttmDelay \in Nat
  /\ OnTimes \subseteq Nat /\ OffTimes \subseteq Nat
  /\ \A c \in Cases :
       /\ c.flows \subseteq Flows /\ {c.failures, c.copies} \subseteq Nat
       /\ \A f \in Flows : Sendable(c.flow[f])
       /\ \A f, g \in c.flows : c.flow[f].proto = "UDP" /\ c.flow[g].proto = "ICMP" => c.flow[f].port # g

VARIABLES
  asked,     \* the case at hand
  now,       \* the clock of the hosts
  snd,       \* snd[f]: locals of the flowSender thread of f
  failures,  \* failures[f]: sends that have failed
  net,       \* net[p]: datagrams under way to port p, or to the raw socket of p
  stream,    \* stream[f]: fields of f under way, each with its packet and its place in it
  back,      \* back[f]: echoes of f under way
  sendLog,   \* the log file of ITGSend
  sent       \* history: sent[f], what f gave to the network, and when

senderVars == <<asked, now, snd, failures, net, stream, back, sendLog, sent>>

Opt(f)    == asked.flow[f]
Active(f) == f \in asked.flows

\* TCP packets carry their size, unless they have no header.
Carried(f) == IF Opt(f).proto = "TCP" /\ Opt(f).log # "none" THEN 1 ELSE 0
\* The least size that the options left, which is more than the header if -T was one of them.
MinSize(f) == Opt(f).min + Carried(f)

\* The size that PktSize->Next() returns, made to fit the buffer and the header.
Clamp(f, n) == IF n > Largest THEN Largest ELSE IF n < MinSize(f) THEN MinSize(f) ELSE n
NextSizes(f) == {Clamp(f, n) : n \in Opt(f).sizes}

\* Options -z and -k switch off the default duration, and that value given with -t.
NumPacket(f)  == IF Opt(f).packets = 0 THEN Forever ELSE Opt(f).packets
ByteToSend(f) == IF Opt(f).bytes = 0 THEN Forever ELSE Opt(f).bytes
Duration(f)   ==
  IF Opt(f).duration = DefaultDuration /\ (Opt(f).packets > 0 \/ Opt(f).bytes > 0)
  THEN Forever ELSE Opt(f).duration

Packet(f) == [flow |-> f, seq |-> snd[f].seq, tx |-> snd[f].last, size |-> snd[f].size]

Idle == [pc |-> "idle", seq |-> 1, bytes |-> 0, last |-> 0, stamp |-> 0, due |-> 0, size |-> 0,
         chk |-> 0, on |-> 0, end |-> 0, recv |-> 0]

SenderTypeOK ==
  /\ asked \in Cases
  /\ now \in Nat
  /\ \A f \in Flows :
       /\ snd[f].pc \in {"idle", "sending", "waiting", "off", "tail", "ended"}
       /\ snd[f].pc # "idle" => snd[f].size \in MinSize(f) .. Largest
       /\ snd[f].bytes \in 0 .. Forever
       /\ snd[f].seq - 1 = Len(sent[f]) + failures[f] + (IF snd[f].pc = "waiting" THEN -1 ELSE 0)
       /\ failures[f] \in 0 .. asked.failures

SenderInit ==
  /\ asked \in Cases
  /\ now = 0
  /\ snd = [f \in Flows |-> Idle]
  /\ failures = [f \in Flows |-> 0]
  /\ net = [f \in Flows |-> {}]
  /\ stream = [f \in Flows |-> <<>>]
  /\ back = [f \in Flows |-> {}]
  /\ sendLog = <<>>
  /\ sent = [f \in Flows |-> <<>>]
-----------------------------------------------------------------------------
\* The loop begins: end_time, the size of the first packet, the first ON period.
StartFlow(f) ==
  /\ Active(f) /\ snd[f].pc = "idle"
  /\ \E n \in NextSizes(f), on \in IF Opt(f).bursty THEN OnTimes ELSE {Duration(f)} :
       snd' = [snd EXCEPT ![f] = [Idle EXCEPT !.pc = "sending", !.last = now, !.size = n,
                                              !.on = on, !.end = now + Duration(f)]]
  /\ UNCHANGED <<asked, now, failures, net, stream, back, sendLog, sent>>

\* The fields of a packet, as they follow each other in the stream of a connection.
FieldsOf(p) ==
  [i \in 1 .. p.size |-> [flow |-> p.flow, seq |-> p.seq, tx |-> p.tx, size |-> p.size, field |-> i]]

\* A packet is given to the network: to the connection, or to the sockets of the receiver
\* that it will be delivered to - its port, or every raw socket.
Sockets(f) ==
  IF Opt(f).proto = "ICMP" THEN {g \in asked.flows : Opt(g).proto = "ICMP"} ELSE {Opt(f).port}
Transmit(f) ==
  IF Opt(f).proto = "TCP"
  THEN /\ stream' = [stream EXCEPT ![f] = @ \o FieldsOf(Packet(f))]
       /\ UNCHANGED net
  ELSE /\ net' = [p \in Flows |-> IF p \in Sockets(f) THEN net[p] \cup {Packet(f)} ELSE net[p]]
       /\ UNCHANGED stream

\* With a one-way-delay meter the packet is logged, with its stamp for both times.
Record(p, rx) == [flow |-> p.flow, seq |-> p.seq, tx |-> p.tx, rx |-> rx, size |-> p.size]
LogSent(f) ==
  sendLog' = IF Opt(f).meter = "owdm" THEN Append(sendLog, Record(Packet(f), snd[f].last))
             ELSE sendLog

\* The size of the next packet and the time until then are drawn.  To guarantee the mean
\* rate (option -j), the time since the last packet is taken off.
Remaining(f, w) ==
  LET lost == IF Opt(f).adjust THEN now - snd[f].last ELSE 0 IN IF w > lost THEN w - lost ELSE 0
GoesToWait(f, chk) ==
  \E n \in NextSizes(f), w \in Opt(f).waits :
    snd' = [snd EXCEPT ![f].pc = "waiting", ![f].size = n, ![f].chk = chk, ![f].stamp = snd[f].last,
                       ![f].last = now, ![f].due = now + Remaining(f, w)]

SendPacket(f) ==
  /\ snd[f].pc = "sending"
  /\ Transmit(f) /\ LogSent(f)
  /\ sent' = [sent EXCEPT ![f] = Append(@, [flow |-> f, seq |-> snd[f].seq, tx |-> snd[f].last,
                                              size |-> snd[f].size, at |-> now])]
  /\ GoesToWait(f, snd[f].size)
  /\ UNCHANGED <<asked, now, failures, back>>

\* send() fails: the packet has had its number, and byteSent will be one less.  (The first
\* one succeeds: byteSent would become ULONG_MAX, and the flow would end.)
SendFails(f) ==
  /\ snd[f].pc = "sending" /\ snd[f].bytes > 0
  /\ Opt(f).proto = "UDP" /\ failures[f] < asked.failures
  /\ failures' = [failures EXCEPT ![f] = @ + 1]
  /\ GoesToWait(f, -1)
  /\ UNCHANGED <<asked, now, net, stream, back, sendLog, sent>>

\* An echo is read while the flow waits.  Its time of departure is logged with the
\* seconds of the echo and the fraction of the stamp of the packet that was sent last.
Mixed(echo, f) == (echo.tx \div TicksPerSecond) * TicksPerSecond + (snd[f].stamp % TicksPerSecond)
ReadEcho(f) ==
  /\ snd[f].pc = "waiting" /\ Opt(f).meter = "rttm"
  /\ \E echo \in back[f] :
       /\ back' = [back EXCEPT ![f] = @ \ {echo}]
       /\ sendLog' = Append(sendLog, Record([echo EXCEPT !.tx = Mixed(echo, f)], now))
  /\ snd' = [snd EXCEPT ![f].recv = @ + 1]
  /\ UNCHANGED <<asked, now, failures, net, stream, sent>>

\* Mutant: the number of the next packet is compared with the limit.
WithinOneLess(f, s) == s.last < s.end /\ s.seq < NumPacket(f) /\ s.bytes < ByteToSend(f)

\* The conditions of the two loops, after a packet.
Within(f, s) == s.last < s.end /\ s.seq - 1 < NumPacket(f) /\ s.bytes < ByteToSend(f)
AfterLoops(f, s) ==
  IF Opt(f).meter = "rttm" /\ s.seq - 1 > s.recv
  THEN [s EXCEPT !.pc = "tail", !.due = now + RttmDelay] ELSE [s EXCEPT !.pc = "ended"]
\* Mutants: a packet that could not be sent keeps its number; the time is not read.
CountedIfSent(f) ==
  [snd[f] EXCEPT !.seq = IF snd[f].chk < 0 THEN @ ELSE @ + 1, !.bytes = (@ + snd[f].chk) % (Forever + 1),
                 !.last = now, !.on = @ - (now - snd[f].last)]
CountedTimeless(f) ==
  [snd[f] EXCEPT !.seq = @ + 1, !.bytes = (@ + snd[f].chk) % (Forever + 1), !.on = @ - (now - snd[f].last)]

Counted(f) ==
  [snd[f] EXCEPT !.seq = @ + 1, !.bytes = (@ + snd[f].chk) % (Forever + 1), !.last = now,
                 !.on = @ - (now - snd[f].last)]
AfterPacket(f, s) ==
  IF Within(f, s) /\ (s.on > 0 \/ ~Opt(f).bursty) THEN {[s EXCEPT !.pc = "sending"]}
  ELSE IF Opt(f).bursty THEN {[s EXCEPT !.pc = "off", !.due = now + off] : off \in OffTimes}
  ELSE {AfterLoops(f, s)}
WaitOver(f) ==
  /\ snd[f].pc = "waiting" /\ snd[f].due = now
  /\ \E s \in AfterPacket(f, Counted(f)) : snd' = [snd EXCEPT ![f] = s]
  /\ UNCHANGED <<asked, now, failures, net, stream, back, sendLog, sent>>

\* The OFF period is over: a new ON period, if the limits allow.  The clock is not read.
OffOver(f) ==
  /\ snd[f].pc = "off" /\ snd[f].due = now
  /\ \E on \in OnTimes :
       LET s == [snd[f] EXCEPT !.on = on]
       IN snd' = [snd EXCEPT ![f] = IF Within(f, s) THEN [s EXCEPT !.pc = "sending"] ELSE AfterLoops(f, s)]
  /\ UNCHANGED <<asked, now, failures, net, stream, back, sendLog, sent>>

\* The last echoes: their own stamps are logged, and each gives the next one more time.
ReadLastEcho(f) ==
  /\ snd[f].pc = "tail" /\ snd[f].seq - 1 > snd[f].recv
  /\ \E echo \in back[f] :
       /\ back' = [back EXCEPT ![f] = @ \ {echo}]
       /\ sendLog' = Append(sendLog, Record(echo, now))
  /\ snd' = [snd EXCEPT ![f].recv = @ + 1, ![f].due = now + RttmDelay]
  /\ UNCHANGED <<asked, now, failures, net, stream, sent>>

\* Mutant: only the last echo ends the flow.
TailOverAtLastEcho(f) ==
  /\ snd[f].pc = "tail" /\ snd[f].seq - 1 <= snd[f].recv
  /\ snd' = [snd EXCEPT ![f].pc = "ended"]
  /\ UNCHANGED <<asked, now, failures, net, stream, back, sendLog, sent>>

\* No echo for some time, or all of them are there.
TailOver(f) ==
  /\ snd[f].pc = "tail" /\ (snd[f].due = now \/ snd[f].seq - 1 <= snd[f].recv)
  /\ snd' = [snd EXCEPT ![f].pc = "ended"]
  /\ UNCHANGED <<asked, now, failures, net, stream, back, sendLog, sent>>

Sender(f) ==
  \/ StartFlow(f) \/ SendPacket(f) \/ SendFails(f) \/ ReadEcho(f)
  \/ WaitOver(f) \/ OffOver(f) \/ ReadLastEcho(f) \/ TailOver(f)

\* Time passes while every thread that has something to do waits.
Waiting(f) == snd[f].pc \in {"waiting", "off", "tail"}
Tick ==
  /\ \E f \in Flows : Waiting(f)
  /\ \A f \in asked.flows :
       \/ snd[f].pc = "ended"
       \/ Waiting(f) /\ snd[f].due > now /\ (snd[f].pc = "tail" => snd[f].seq - 1 > snd[f].recv)
  /\ now' = now + 1
  /\ UNCHANGED <<asked, snd, failures, net, stream, back, sendLog, sent>>
=============================================================================
