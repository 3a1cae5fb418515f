------------------------------ MODULE Options ------------------------------
(***************************************************************************)
(* What the options of a line of ITGSend make of the description of a      *)
(* flow.  An option is a record: its name, and what its arguments say.     *)
(*                                                                         *)
(* Sizes are in fields of 4 bytes.  A standard header has 4 of them, a     *)
(* short one 2; without a header the flow is still identified.             *)
(***************************************************************************)
EXTENDS Integers, Sequences, FiniteSets

StandardMinPayloadSize == 4
ShortMinPayloadSize    == 2
NoneMinPayloadSize     == 1

Header(log) ==
  CASE log = "standard" -> StandardMinPayloadSize
    [] log = "short"    -> ShortMinPayloadSize
    [] log = "none"     -> NoneMinPayloadSize

LawKinds == {"Constant", "Uniform", "Exponential", "Pareto", "Cauchy", "Normal", "Poisson", "Gamma",
             "Weibull", "Student"}
Slots == {"idt", "size", "on", "off"}

\* A random variable: its kind, the shape it was created with, and how it is scaled.
Law(kind, shape, scale) == [kind |-> kind, shape |-> shape, scale |-> scale]

\* A flow before its options are read.  `local` is the address of this host.
Default(local, duration) ==
  [meter |-> "owdm", log |-> "standard", min |-> StandardMinPayloadSize, l4 |-> "UDP", l7 |-> "none",
   duration |-> duration, packets |-> 0, kbytes |-> 0, delay |-> 0, adjust |-> TRUE, nagle |-> TRUE,
   ttl |-> 0, ds |-> 0, bursty |-> FALSE, polling |-> FALSE, iface |-> FALSE, srcAddr |-> FALSE,
   dstAddr |-> FALSE, srcPort |-> FALSE, dstPort |-> FALSE, dest |-> local, sigDest |-> local,
   ownSig |-> FALSE, sigPort |-> 0, sizeFile |-> FALSE, timeFile |-> FALSE, payload |-> "none",
   law |-> [s \in Slots |-> Law("Constant", <<>>, <<1>>)]]
-----------------------------------------------------------------------------
\* Mutant: -m does not look at the size of the header.
AnyMeter(f, o) == o.opt \in {"-p", "-m", "-poll"}

\* -p, -poll and -m: a round-trip-time meter needs a standard header.  Which header -m
\* finds it tells from the least size of a packet.
HeaderAccepted(f, o) ==
  \/ o.opt = "-poll"
  \/ o.opt = "-p" /\ ~(o.log \in {"short", "none"} /\ f.meter = "rttm")
  \/ o.opt = "-m" /\ o.meter \in {"owdm", "rttm"} /\ ~(o.meter = "rttm" /\ f.min < StandardMinPayloadSize)
SetHeader(f, o) ==
  CASE o.opt = "-poll" -> [f EXCEPT !.polling = TRUE]
    [] o.opt = "-m"    -> [f EXCEPT !.meter = o.meter]
    [] o.opt = "-p"    ->
         [f EXCEPT !.log = IF o.log \in {"short", "none"} THEN o.log ELSE "standard",
                   !.min = IF o.log \in {"short", "none"} THEN Header(o.log) ELSE @]

\* -T: every packet may carry one field more.  DCCP and SCTP have to be compiled in.
ProtocolAccepted(f, o) == o.opt = "-T" /\ o.l4 \in {"UDP", "TCP", "ICMP"}
SetProtocol(f, o) == [f EXCEPT !.l4 = o.l4, !.min = @ + 1]

\* -a, -rp, -rk, -i: the destination is also that of the signalling, if -Sda did not give it.
DestinationAccepted(f, o) ==
  \/ o.opt = "-a" /\ o.resolves
  \/ o.opt \in {"-rp", "-rk"}
  \/ o.opt = "-i" /\ ~f.srcAddr
SetDestination(f, o) ==
  CASE o.opt = "-a"  -> [f EXCEPT !.dest = o.host, !.dstAddr = TRUE,
                                  !.sigDest = IF f.ownSig THEN @ ELSE o.host]
    [] o.opt = "-rp" -> [f EXCEPT !.dstPort = TRUE]
    [] o.opt = "-rk" -> f
    [] o.opt = "-i"  -> [f EXCEPT !.iface = TRUE]

\* -s, -sp, -sk, -sa: the seed, the source port, a serial line, the source address.
SourceAccepted(f, o) ==
  \/ o.opt = "-s" /\ o.percent \in 1 .. 99
  \/ o.opt \in {"-sp", "-sk"}
  \/ o.opt = "-sa" /\ ~f.iface /\ o.resolves
SetSource(f, o) ==
  CASE o.opt = "-sp" -> [f EXCEPT !.srcPort = TRUE]
    [] o.opt = "-sa" -> [f EXCEPT !.srcAddr = TRUE]
    [] o.opt \in {"-s", "-sk"} -> f

\* Mutant: the number is not looked at.
AnyLimit(f, o) == o.opt \in {"-t", "-z", "-k", "-d", "-f", "-b", "-j"}

Octets == 0 .. 255

\* -t, -z, -k, -d, -f, -b, -j: limits of the flow, its delay, fields of the IP header, and
\* whether the mean rate is guaranteed.
LimitAccepted(f, o) ==
  \/ o.opt \in {"-t", "-z", "-k"} /\ o.n > 0
  \/ o.opt = "-d" /\ o.n >= 0
  \/ o.opt \in {"-f", "-b"} /\ o.n \in Octets
  \/ o.opt = "-j" /\ o.n \in {0, 1}
SetLimit(f, o) ==
  CASE o.opt = "-t" -> [f EXCEPT !.duration = o.n]
    [] o.opt = "-z" -> [f EXCEPT !.packets = o.n]
    [] o.opt = "-k" -> [f EXCEPT !.kbytes = o.n]
    [] o.opt = "-d" -> [f EXCEPT !.delay = o.n]
    [] o.opt = "-f" -> [f EXCEPT !.ttl = o.n]
    [] o.opt = "-b" -> [f EXCEPT !.ds = o.n]
    [] o.opt = "-j" -> [f EXCEPT !.adjust = (o.n = 1)]

PortNumbers == 1 .. 65535

\* -Ssa, -Ssp, -Sda, -Sdp, -Si: the ends of the signalling channel.
SignallingAccepted(f, o) ==
  \/ o.opt \in {"-Ssa", "-Sda"} /\ o.resolves
  \/ o.opt \in {"-Ssp", "-Sdp"} /\ o.n \in PortNumbers
  \/ o.opt = "-Si"
SetSignalling(f, o) ==
  CASE o.opt = "-Sda" -> [f EXCEPT !.sigDest = o.host, !.ownSig = TRUE]
    [] o.opt = "-Sdp" -> [f EXCEPT !.sigPort = o.n]
    [] o.opt \in {"-Ssa", "-Ssp", "-Si"} -> f

\* -D and -H take effect at once (-H: for the whole program).
FlagAccepted(f, o) == o.opt \in {"-D", "-H"}
SetFlag(f, o) == [f EXCEPT !.nagle = @ /\ o.opt # "-D"]

\* -Fs and -Ft: sizes and times read from a file; the first of the times also delays the flow.
FileAccepted(f, o) == o.opt \in {"-Fs", "-Ft"} /\ o.valid
SetFile(f, o) ==
  IF o.opt = "-Fs" THEN [f EXCEPT !.sizeFile = TRUE]
  ELSE [f EXCEPT !.timeFile = TRUE, !.delay = o.first]
-----------------------------------------------------------------------------
(* Random variables: between packets (-C, -U, -E, -V, -Y, -N, -O, -G, -W), sizes  *)
(* (-c, -u, -e, ...), and the ON and OFF periods of -B.  An option is created in   *)
(* two steps: the variable, which every thread finds in the one pointer of its     *)
(* kind, and the flow's own variable, made from what the pointer says then.        *)

Positive(o) ==
  CASE o.kind \in {"Constant", "Exponential", "Poisson"} -> o.a > 0
    [] o.kind = "Uniform" -> o.a > 0 /\ o.b > o.a
    [] o.kind \in {"Pareto", "Gamma", "Weibull"} -> o.a > 0 /\ o.b > 0
    [] o.kind = "Cauchy" -> o.b > 0
    [] o.kind = "Normal" -> TRUE
\* The shapes of a size are not looked at.
PositiveSize(o) ==
  CASE o.kind \in {"Pareto", "Gamma"} -> o.b > 0
    [] o.kind = "Poisson" -> o.a >= 0
    [] OTHER -> Positive(o)
\* An ON period, and the OFF period that has to follow.
PositivePeriods(o) == Positive(o)

LawAccepted(o) ==
  /\ o.opt = "law"
  /\ CASE o.slot = "idt" -> Positive(o)
       [] o.slot = "size" -> PositiveSize(o)
       [] o.slot \in {"on", "off"} -> PositivePeriods(o)

\* The shape of the variable that an option creates, and its scale.
Shape(o) ==
  CASE o.kind \in {"Pareto", "Gamma", "Poisson"} -> <<o.a>>
    [] o.kind = "Weibull" -> <<o.a, o.b>>
    [] OTHER -> <<>>
Scale(o) ==
  CASE o.kind \in {"Constant", "Exponential"} -> <<o.a>>
    [] o.kind \in {"Pareto", "Gamma"} -> <<o.b>>
    [] o.kind \in {"Uniform", "Cauchy", "Normal"} -> <<o.a, o.b>>
    [] OTHER -> <<>>

\* Applications bring their own variables, and most of them their protocol.
ApplicationIdt ==
  [Telnet |-> [kind |-> "Pareto", shape |-> <<95>>], Quake3 |-> [kind |-> "Exponential", shape |-> <<429>>],
   CSa |-> [kind |-> "Student", shape |-> <<>>], CSi |-> [kind |-> "Student", shape |-> <<>>],
   DNS |-> [kind |-> "Constant", shape |-> <<>>], VoIP |-> [kind |-> "Constant", shape |-> <<>>]]
ApplicationSize ==
  [Telnet |-> "Discrete", Quake3 |-> "Normal", CSa |-> "Mixed", CSi |-> "Discrete", DNS |-> "Uniform",
   VoIP |-> "Constant"]

\* Everything that follows VoIP would be taken for an option of it.
ApplicationAccepted(line, i) ==
  line[i].opt = "app" /\ (line[i].app = "VoIP" => line[i].valid /\ i = Len(line))
SetApplication(f, o) ==
  [f EXCEPT !.l7 = o.app, !.law["size"] = Law(ApplicationSize[o.app], <<>>, <<>>),
            !.l4 = CASE o.app = "Telnet" -> "TCP" [] o.app = "DNS" -> @ [] OTHER -> "UDP"]

\* The slot of a random variable, and the variable that is created for it.
SlotOf(o)  == IF o.opt = "app" THEN "idt" ELSE o.slot
Created(o) == IF o.opt = "app" THEN ApplicationIdt[o.app] ELSE [kind |-> o.kind, shape |-> Shape(o)]
LawOf(o, shape) == Law(Created(o).kind, shape, IF o.opt = "app" THEN <<>> ELSE Scale(o))
SetLaw(f, o, shape) ==
  LET g == IF o.opt = "app" THEN SetApplication(f, o) ELSE f
  IN [g EXCEPT !.law[SlotOf(o)] = LawOf(o, shape), !.bursty = @ \/ SlotOf(o) = "off"]
-----------------------------------------------------------------------------
\* -l, -L, -x, -X: logs of the whole program, which a line of a script cannot ask for; and
\* -q, the size of their buffers.
LogAccepted(o, multiFlows) ==
  \/ o.opt = "-q"
  \/ o.opt \in {"-l", "-L", "-x", "-X"} /\ ~multiFlows /\ o.resolves
NoLogs == [sender |-> FALSE, remote |-> FALSE, receiver |-> FALSE]
SetLogs(logs, o) ==
  [sender   |-> logs.sender \/ o.opt \in {"-l", "-L"},
   remote   |-> logs.remote \/ o.opt = "-L",
   receiver |-> logs.receiver \/ o.opt \in {"-x", "-X"}]

\* Options that are read in one step.
Accepted(f, o) ==
  \/ HeaderAccepted(f, o) \/ ProtocolAccepted(f, o) \/ DestinationAccepted(f, o)
  \/ SourceAccepted(f, o) \/ LimitAccepted(f, o) \/ SignallingAccepted(f, o)
  \/ FlagAccepted(f, o) \/ FileAccepted(f, o)
Applied(f, o) ==
  CASE HeaderAccepted(f, o)      -> SetHeader(f, o)
    [] ProtocolAccepted(f, o)    -> SetProtocol(f, o)
    [] DestinationAccepted(f, o) -> SetDestination(f, o)
    [] SourceAccepted(f, o)      -> SetSource(f, o)
    [] LimitAccepted(f, o)       -> SetLimit(f, o)
    [] SignallingAccepted(f, o)  -> SetSignalling(f, o)
    [] FlagAccepted(f, o)        -> SetFlag(f, o)
    [] FileAccepted(f, o)        -> SetFile(f, o)

\* -Si is taken with its argument for two options: the next one is skipped.
Skipped(o) == IF o.opt = "-Si" THEN 2 ELSE 1

\* The checks at the end of a line.
Startable(f, passive, multiFlows, multiport) ==
  /\ passive /\ multiFlows => ~f.dstAddr /\ f.srcPort /\ f.dstPort
  /\ passive => f.l4 \in {"TCP", "UDP"} /\ f.l7 = "none"
  /\ ~passive /\ multiFlows /\ ~multiport => f.dstPort
=============================================================================
