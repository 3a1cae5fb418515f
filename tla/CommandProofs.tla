--------------------------- MODULE CommandProofs ---------------------------
(***************************************************************************)
(* What holds however ITGSend is told what to do: for any lines, options,  *)
(* scripts and commands of a manager.  Packets are as long as their        *)
(* header, the random variables of a flow are its own, and the payload of  *)
(* a flow of a script stays allocated while the flow runs.                 *)
(***************************************************************************)
EXTENDS Commands, FiniteSetTheorems, WellFoundedInduction, TLAPS

FlowFields ==
  {"meter", "log", "min", "l4", "l7", "duration", "packets", "kbytes", "delay", "adjust", "nagle",
   "ttl", "ds", "bursty", "polling", "iface", "srcAddr", "dstAddr", "srcPort", "dstPort", "dest",
   "sigDest", "ownSig", "sigPort", "sizeFile", "timeFile", "payload", "law"}

\* The description of a flow, as far as the types matter.
FlowOK(f) ==
  /\ DOMAIN f = FlowFields
  /\ f.packets \in Nat /\ f.kbytes \in Nat /\ f.duration \in Nat \ {0} /\ f.delay \in Nat
  /\ f.min \in Nat \ {0}
  /\ f.law = [s \in Slots |-> f.law[s]]
  /\ \A s \in Slots : f.law[s].kind \in LawKinds \cup {"Discrete", "Mixed"}

CommandTypes ==
  /\ asked \in Cases
  /\ process \in {"run", "exited", "aborted"}
  /\ main \in {"start", "taking", "counting", "freeing"}
  /\ flowCount \in 0 .. Len(asked.lines)
  /\ parser \in [Ids -> [pc : ParserPCs, next : Nat \ {0}]]
  /\ flow = [i \in Ids |-> flow[i]] /\ \A i \in Ids : FlowOK(flow[i])
  /\ variable = [k \in LawKinds |-> variable[k]]
  /\ buffer \in [Ids -> [dim : BOOLEAN, ptr : Blocks \cup {0}]]
  /\ used \subseteq Blocks

\* The lines whose parser main has created: flowCount lags behind by one while it counts.
Started == flowCount + (IF main = "counting" THEN 1 ELSE 0)

\* There is a line for each command on its way, and nothing has been done for a later line.
LinesKept ==
  /\ Started <= Len(asked.lines)
  /\ wire \in Seq(Nat) /\ manager = [next |-> manager.next, socket |-> manager.socket, seen |-> manager.seen]
  /\ manager.next \in 1 .. Len(asked.lines) + 1
  /\ managerMode => Started + Len(wire) = manager.next - 1
  /\ \A i \in Ids : i > Started =>
       /\ parser[i] = [pc |-> "none", next |-> 1]
       /\ flow[i] = Default(Local, DefaultDuration)
       /\ buffer[i] = NoBuffer

\* A line is read to its end before its flow starts.  While it is read, at option n, the least
\* size of a packet is at least the header; -m lets no other header than the standard one pass,
\* because a short one with -T is still shorter.
Before(i, n, opt) == \E j \in DOMAIN Line(i) : j < n /\ Line(i)[j].opt = opt
Fits(f, p, t) ==
  /\ f.log \in {"standard", "short", "none"}
  /\ ~p => f.log = "standard"
  /\ f.log = "standard" => f.min >= StandardMinPayloadSize
  /\ f.log # "standard" => f.min = Header(f.log) \/ (t /\ f.min = Header(f.log) + 1)
  /\ f.meter = "rttm" => f.log = "standard"
HeaderKept(i, n, f) ==
  Count(i, "-p") <= 1 /\ Count(i, "-T") <= 1 => Fits(f, Before(i, n, "-p"), Before(i, n, "-T"))

\* The random variables of the flow are those of the last options read, and the pointer of the
\* kind that is being read is what this option has created.
LawsBefore(i, n, s) == {j \in LawOptions(i, s) : j < n}
LawsKept(i, n, f) ==
  \A s \in {"idt", "on", "off"} : Count(i, "-Si") = 0 /\ LawsBefore(i, n, s) # {} =>
    LET c == Created(Line(i)[Max(LawsBefore(i, n, s))])
    IN ~Rival(i, c) => f.law[s].kind = c.kind /\ f.law[s].shape = c.shape
PointerKept(i, o) ==
  /\ o.opt \in {"law", "app"}
  /\ ~Rival(i, Created(o)) => variable[Created(o).kind] = Created(o).shape

LineKept(i, p, f) ==
  /\ p.pc \in {"checked", "running"} => p.next > Len(Line(i))
  /\ p.pc \in {"creating", "sizing", "loading"} => p.next \in DOMAIN Line(i)
  /\ p.pc \in {"sizing", "loading"} => Line(i)[p.next].opt = "-Fp"
  /\ HeaderKept(i, p.next, f) /\ LawsKept(i, p.next, f)
  /\ p.pc = "creating" => PointerKept(i, Line(i)[p.next])

\* A buffer that has a block has a size.
BuffersSized ==
  \A i \in Ids : buffer[i].ptr # 0 \/ parser[i].pc = "loading" => buffer[i].dim

\* In a script nothing is freed before all flows have ended.
BlocksKept ==
  ~managerMode =>
    /\ main = "freeing" => \A i \in Lines : parser[i].pc \in {"ended", "gone"}
    /\ main # "freeing" => \A i \in Ids : buffer[i].ptr # 0 => buffer[i].ptr \in used

\* The inductive invariant.
CommandsInv ==
  /\ CommandTypes /\ LinesKept /\ BuffersSized /\ BlocksKept
  /\ \A i \in Lines : LineKept(i, parser[i], flow[i])
-----------------------------------------------------------------------------
(* What the options of a line do to the description of a flow. *)

\* -p, -poll and -m.
LEMMA HeaderSet ==
  ASSUME NEW f, NEW o, FlowOK(f), HeaderAccepted(f, o), NEW g, g = SetHeader(f, o)
  PROVE  /\ FlowOK(g) /\ g.law = f.law /\ o.opt \in {"-p", "-m", "-poll"}
         /\ o.opt = "-poll" => g.log = f.log /\ g.min = f.min /\ g.meter = f.meter
         /\ o.opt = "-m" => /\ g.log = f.log /\ g.min = f.min
                            /\ g.meter = "rttm" => f.min >= StandardMinPayloadSize
         /\ o.opt = "-p" => /\ g.meter = f.meter
                            /\ \/ g.log = "standard" /\ g.min = f.min
                               \/ /\ g.log \in {"short", "none"} /\ g.min = Header(g.log)
                                  /\ g.meter # "rttm"
<1> USE DEF FlowOK, FlowFields
<1>1. CASE o.opt = "-poll"
  BY <1>1 DEF SetHeader
<1>2. CASE o.opt = "-m"
  <2>1. g = [f EXCEPT !.meter = o.meter]
    BY <1>2 DEF SetHeader
  <2>2. o.meter = "rttm" => f.min >= StandardMinPayloadSize
    BY <1>2 DEF HeaderAccepted, StandardMinPayloadSize
  <2> QED
    BY <1>2, <2>1, <2>2
<1>3. CASE o.opt = "-p"
  <2>1. g = [f EXCEPT !.log = IF o.log \in {"short", "none"} THEN o.log ELSE "standard",
                      !.min = IF o.log \in {"short", "none"} THEN Header(o.log) ELSE @]
    BY <1>3 DEF SetHeader
  <2>2. o.log \in {"short", "none"} => f.meter # "rttm"
    BY <1>3 DEF HeaderAccepted
  <2>3. o.log \in {"short", "none"} => Header(o.log) \in Nat \ {0}
    BY DEF Header, ShortMinPayloadSize, NoneMinPayloadSize
  <2> HIDE DEF Header
  <2> QED
    BY <1>3, <2>1, <2>2, <2>3
<1> QED
  BY <1>1, <1>2, <1>3 DEF HeaderAccepted

\* The options that leave the header and the random variables alone.
LEMMA OthersSet ==
  ASSUME NEW f, NEW o, FlowOK(f), Readable(o), NEW g,
         \/ DestinationAccepted(f, o) /\ g = SetDestination(f, o)
         \/ SourceAccepted(f, o) /\ g = SetSource(f, o)
         \/ LimitAccepted(f, o) /\ g = SetLimit(f, o)
         \/ SignallingAccepted(f, o) /\ g = SetSignalling(f, o)
         \/ FlagAccepted(f, o) /\ g = SetFlag(f, o)
         \/ FileAccepted(f, o) /\ g = SetFile(f, o)
  PROVE  /\ FlowOK(g) /\ g.law = f.law
         /\ g.log = f.log /\ g.min = f.min /\ g.meter = f.meter
         /\ o.opt \notin {"-p", "-m", "-T", "law", "app"}
<1> USE DEF FlowOK, FlowFields
<1>1. CASE DestinationAccepted(f, o) /\ g = SetDestination(f, o)
  BY <1>1 DEF DestinationAccepted, SetDestination
<1>2. CASE SourceAccepted(f, o) /\ g = SetSource(f, o)
  BY <1>2 DEF SourceAccepted, SetSource
<1>3. CASE LimitAccepted(f, o) /\ g = SetLimit(f, o)
  <2>1. o.n \in Int /\ o.opt \in {"-t", "-z", "-k", "-d", "-f", "-b", "-j"}
    BY <1>3 DEF LimitAccepted, Readable
  <2>2. \/ o.n \in Nat \ {0} /\ g = [f EXCEPT !.duration = o.n]
        \/ o.n \in Nat /\ g = [f EXCEPT !.packets = o.n]
        \/ o.n \in Nat /\ g = [f EXCEPT !.kbytes = o.n]
        \/ o.n \in Nat /\ g = [f EXCEPT !.delay = o.n]
        \/ g = [f EXCEPT !.ttl = o.n]
        \/ g = [f EXCEPT !.ds = o.n]
        \/ g = [f EXCEPT !.adjust = (o.n = 1)]
    <3> HIDE DEF FlowOK, FlowFields
    <3> QED
      BY <1>3, <2>1 DEF LimitAccepted, SetLimit
  <2> QED
    BY <2>1, <2>2
<1>4. CASE SignallingAccepted(f, o) /\ g = SetSignalling(f, o)
  BY <1>4 DEF SignallingAccepted, SetSignalling
<1>5. CASE FlagAccepted(f, o) /\ g = SetFlag(f, o)
  BY <1>5 DEF FlagAccepted, SetFlag
<1>6. CASE FileAccepted(f, o) /\ g = SetFile(f, o)
  BY <1>6 DEF FileAccepted, SetFile, Readable
<1> QED
  BY <1>1, <1>2, <1>3, <1>4, <1>5, <1>6

\* -T.
LEMMA ProtocolSet ==
  ASSUME NEW f, NEW o, FlowOK(f), ProtocolAccepted(f, o), NEW g, g = SetProtocol(f, o)
  PROVE  /\ FlowOK(g) /\ g.law = f.law /\ o.opt = "-T"
         /\ g.log = f.log /\ g.min = f.min + 1 /\ g.meter = f.meter
  BY DEF FlowOK, FlowFields, ProtocolAccepted, SetProtocol

\* An option that is read in one step.
LEMMA OptionApplied ==
  ASSUME NEW f, NEW o, FlowOK(f), Readable(o), Accepted(f, o), NEW g, g = Applied(f, o)
  PROVE  /\ FlowOK(g) /\ g.law = f.law /\ o.opt \notin {"law", "app"}
         /\ o.opt \notin {"-p", "-m", "-T"} => g.log = f.log /\ g.min = f.min /\ g.meter = f.meter
         /\ o.opt = "-T" => g.log = f.log /\ g.min = f.min + 1 /\ g.meter = f.meter
         /\ o.opt = "-m" => /\ g.log = f.log /\ g.min = f.min
                            /\ g.meter = "rttm" => f.min >= StandardMinPayloadSize
         /\ o.opt = "-p" => /\ g.meter = f.meter
                            /\ \/ g.log = "standard" /\ g.min = f.min
                               \/ /\ g.log \in {"short", "none"} /\ g.min = Header(g.log)
                                  /\ g.meter # "rttm"
<1>1. \/ HeaderAccepted(f, o) /\ g = SetHeader(f, o)
      \/ ProtocolAccepted(f, o) /\ g = SetProtocol(f, o)
      \/ DestinationAccepted(f, o) /\ g = SetDestination(f, o)
      \/ SourceAccepted(f, o) /\ g = SetSource(f, o)
      \/ LimitAccepted(f, o) /\ g = SetLimit(f, o)
      \/ SignallingAccepted(f, o) /\ g = SetSignalling(f, o)
      \/ FlagAccepted(f, o) /\ g = SetFlag(f, o)
      \/ FileAccepted(f, o) /\ g = SetFile(f, o)
  BY DEF Accepted, Applied
<1>2. CASE HeaderAccepted(f, o) /\ g = SetHeader(f, o)
  BY <1>2, HeaderSet
<1>3. CASE ProtocolAccepted(f, o) /\ g = SetProtocol(f, o)
  BY <1>3, ProtocolSet
<1>4. CASE ~(HeaderAccepted(f, o) /\ g = SetHeader(f, o)) /\ ~(ProtocolAccepted(f, o) /\ g = SetProtocol(f, o))
  BY <1>1, <1>4, OthersSet
<1> QED
  BY <1>2, <1>3, <1>4

\* The option keeps the least size above the header, if it is not the second of its name.
LEMMA FitsNext ==
  ASSUME NEW f, NEW o, FlowOK(f), Readable(o), Accepted(f, o), NEW g, g = Applied(f, o),
         NEW p \in BOOLEAN, NEW t \in BOOLEAN, NEW pp \in BOOLEAN, NEW tt \in BOOLEAN,
         p => pp, t => tt, o.opt = "-p" => ~p /\ pp, o.opt = "-T" => ~t /\ tt, Fits(f, p, t)
  PROVE  Fits(g, pp, tt)
<1>1. f.min \in Nat
  BY DEF FlowOK
<1>2. Header("short") = 2 /\ Header("none") = 1
  BY DEF Header, ShortMinPayloadSize, NoneMinPayloadSize
<1>3. CASE o.opt \notin {"-p", "-m", "-T"}
  BY <1>3, OptionApplied DEF Fits
<1>4. CASE o.opt = "-T"
  BY <1>1, <1>2, <1>4, OptionApplied DEF Fits, StandardMinPayloadSize
<1>5. CASE o.opt = "-m"
  BY <1>1, <1>2, <1>5, OptionApplied DEF Fits, StandardMinPayloadSize
<1>6. CASE o.opt = "-p"
  BY <1>1, <1>2, <1>6, OptionApplied DEF Fits, StandardMinPayloadSize
<1> QED
  BY <1>3, <1>4, <1>5, <1>6

\* A random variable, alone or with an application.
LEMMA LawSet ==
  ASSUME NEW f, NEW o, FlowOK(f), Readable(o), o.opt \in {"law", "app"}, NEW shape,
         NEW g, g = SetLaw(f, o, shape)
  PROVE  /\ FlowOK(g) /\ g.log = f.log /\ g.min = f.min /\ g.meter = f.meter
         /\ g.law[SlotOf(o)].kind = Created(o).kind /\ g.law[SlotOf(o)].shape = shape
         /\ \A s \in {"idt", "on", "off"} \ {SlotOf(o)} : g.law[s] = f.law[s]
<1>1. SlotOf(o) \in Slots /\ Created(o).kind \in LawKinds
  BY DEF SlotOf, Created, Readable, Slots, LawKinds, ApplicationIdt
<1>2. /\ LawOf(o, shape).kind = Created(o).kind /\ LawOf(o, shape).shape = shape
  BY DEF LawOf, Law
<1> DEFINE h == IF o.opt = "app" THEN SetApplication(f, o) ELSE f
<1>3. /\ FlowOK(h) /\ h.log = f.log /\ h.min = f.min /\ h.meter = f.meter
      /\ \A s \in {"idt", "on", "off"} : h.law[s] = f.law[s]
  <2>1. CASE o.opt = "app"
    <3>1. /\ o.app \in DOMAIN ApplicationIdt
          /\ ApplicationSize[o.app] \in LawKinds \cup {"Discrete", "Mixed"}
      BY <2>1 DEF Readable, ApplicationIdt, ApplicationSize, LawKinds
    <3>2. Law(ApplicationSize[o.app], <<>>, <<>>).kind = ApplicationSize[o.app]
      BY DEF Law
    <3> QED
      BY <2>1, <3>1, <3>2 DEF SetApplication, FlowOK, FlowFields, Slots
  <2> QED
    BY <2>1
<1>4. g = [h EXCEPT !.law[SlotOf(o)] = LawOf(o, shape), !.bursty = @ \/ SlotOf(o) = "off"]
  BY DEF SetLaw
<1> HIDE DEF h
<1> QED
  BY <1>1, <1>2, <1>3, <1>4 DEF FlowOK, FlowFields, Slots
-----------------------------------------------------------------------------
(* Lines and their parsers. *)

\* The lines of a case, and their options.
LEMMA LineTypes ==
  ASSUME asked \in Cases
  PROVE  /\ MaxLines \in Nat /\ Len(asked.lines) \in 0 .. MaxLines /\ Lines = 1 .. Len(asked.lines)
         /\ Lines \subseteq Ids
         /\ asked.mode = "line" => Len(asked.lines) = 1
         /\ \A i \in Lines : /\ Len(Line(i)) \in Nat /\ DOMAIN Line(i) = 1 .. Len(Line(i))
                             /\ \A j \in DOMAIN Line(i) : Readable(Line(i)[j])
  BY CommandsAssumption DEF Lines, Line, Ids

\* Nothing that LineKept says depends on the other parsers but through the pointers.
LEMMA SameQuestions ==
  ASSUME UNCHANGED asked, NEW k
  PROVE  /\ Lines' = Lines /\ Line(k)' = Line(k)
         /\ \A n, opt : Before(k, n, opt)' <=> Before(k, n, opt)
         /\ \A opt : Count(k, opt)' = Count(k, opt)
         /\ \A s : LawOptions(k, s)' = LawOptions(k, s)
         /\ \A n, s : LawsBefore(k, n, s)' = LawsBefore(k, n, s)
         /\ \A c : Rival(k, c)' <=> Rival(k, c)
<1>1. Lines' = Lines /\ \A l : Line(l)' = Line(l)
  BY DEF Lines, Line
<1>2. \A n, opt : Before(k, n, opt)' <=> Before(k, n, opt)
  BY <1>1 DEF Before
<1>3. \A opt : Count(k, opt)' = Count(k, opt)
  BY <1>1 DEF Count
<1>4. \A l, s : LawOptions(l, s)' = LawOptions(l, s)
  BY <1>1 DEF LawOptions
<1>5. \A n, s : LawsBefore(k, n, s)' = LawsBefore(k, n, s)
  BY <1>4 DEF LawsBefore
<1>6. \A c : Rival(k, c)' <=> Rival(k, c)
  BY <1>1, <1>4 DEF Rival
<1> QED
  BY <1>1, <1>2, <1>3, <1>4, <1>5, <1>6

LEMMA SameLine ==
  ASSUME UNCHANGED asked, NEW k, NEW p, NEW f, LineKept(k, p, f),
         p.pc = "creating" => PointerKept(k, Line(k)[p.next])'
  PROVE  LineKept(k, p, f)'
<1>1. HeaderKept(k, p.next, f)' <=> HeaderKept(k, p.next, f)
  <2>1. \A opt : Before(k, p.next, opt)' <=> Before(k, p.next, opt)
    BY SameQuestions
  <2>2. \A opt : Count(k, opt)' = Count(k, opt)
    BY SameQuestions
  <2> QED
    BY <2>1, <2>2 DEF HeaderKept, Fits
<1>2. LawsKept(k, p.next, f)' <=> LawsKept(k, p.next, f)
  <2>1. \A s : LawsBefore(k, p.next, s)' = LawsBefore(k, p.next, s)
    BY SameQuestions
  <2>2. Line(k)' = Line(k) /\ Count(k, "-Si")' = Count(k, "-Si") /\ \A c : Rival(k, c)' <=> Rival(k, c)
    BY SameQuestions
  <2> QED
    BY <2>1, <2>2 DEF LawsKept
<1>3. Line(k)' = Line(k)
  BY SameQuestions
<1> QED
  BY <1>1, <1>2, <1>3 DEF LineKept

LEMMA SamePointer ==
  ASSUME UNCHANGED <<asked, variable>>, NEW k, NEW o, PointerKept(k, o)
  PROVE  PointerKept(k, o)'
  BY SameQuestions DEF PointerKept

\* A parser that does something has been created for a line.
LEMMA ParserHasLine ==
  ASSUME CommandsInv, NEW i \in Ids, parser[i].pc # "none"
  PROVE  i \in Lines /\ i <= Started
<1>1. Started \in Nat /\ Started <= Len(asked.lines)
  BY LineTypes DEF CommandsInv, CommandTypes, LinesKept, Started
<1>2. i <= Started
  BY <1>1 DEF CommandsInv, LinesKept, Ids
<1> QED
  BY <1>1, <1>2, LineTypes DEF CommandsInv, CommandTypes, Ids

\* A parser moves on, and changes its own flow and buffer only.
Moves(i, p, f, b) ==
  /\ UNCHANGED <<asked, main, flowCount, wire, manager>>
  /\ parser' = [parser EXCEPT ![i] = p]
  /\ flow' = [flow EXCEPT ![i] = f]
  /\ buffer' = [buffer EXCEPT ![i] = b]

LEMMA ParserMoves ==
  ASSUME CommandsInv, NEW i \in Ids, parser[i].pc \notin {"none", "ended", "gone"},
         NEW p, NEW f, NEW b, Moves(i, p, f, b),
         process' \in {"run", "exited", "aborted"}, used' \subseteq Blocks,
         variable' = [k \in LawKinds |-> variable'[k]],
         p \in [pc : ParserPCs, next : Nat \ {0}], FlowOK(f),
         b \in [dim : BOOLEAN, ptr : Blocks \cup {0}],
         b.ptr # 0 \/ p.pc = "loading" => b.dim,
         LineKept(i, p, f)',
         \A k \in Lines \ {i} : parser[k].pc = "creating" => PointerKept(k, Line(k)[parser[k].next])',
         ~managerMode /\ (\A k \in Ids : buffer[k].ptr # 0 => buffer[k].ptr \in used)
           => \A k \in Ids : buffer'[k].ptr # 0 => buffer'[k].ptr \in used'
  PROVE  CommandsInv'
<1>1. i \in Lines /\ i <= Started
  BY ParserHasLine
<1>2. CommandTypes'
  <2>1. /\ parser' \in [Ids -> [pc : ParserPCs, next : Nat \ {0}]]
        /\ buffer' \in [Ids -> [dim : BOOLEAN, ptr : Blocks \cup {0}]]
    BY DEF CommandsInv, CommandTypes, Moves
  <2>2. flow' = [k \in Ids |-> flow'[k]] /\ \A k \in Ids : FlowOK(flow'[k])
    BY DEF CommandsInv, CommandTypes, Moves
  <2> QED
    BY <2>1, <2>2 DEF CommandsInv, CommandTypes, Moves, FlowOK
<1>3. LinesKept'
  <2>1. Started' = Started
    BY DEF Moves, Started
  <2>2. \A k \in Ids : k > Started => k # i
    BY <1>1, LineTypes DEF CommandsInv, CommandTypes, Started, Ids
  <2>3. \A k \in Ids : k # i => parser'[k] = parser[k] /\ flow'[k] = flow[k] /\ buffer'[k] = buffer[k]
    BY DEF CommandsInv, CommandTypes, Moves
  <2> QED
    BY <2>1, <2>2, <2>3 DEF CommandsInv, LinesKept, Moves, managerMode
<1>4. BuffersSized'
  BY DEF CommandsInv, CommandTypes, BuffersSized, Moves
<1>5. \A k \in Lines : LineKept(k, parser[k], flow[k])'
  <2> SUFFICES ASSUME NEW k \in Lines PROVE LineKept(k, parser[k], flow[k])'
    BY SameQuestions DEF Moves
  <2>1. k \in Ids
    BY LineTypes DEF CommandsInv, CommandTypes
  <2>2. CASE k = i
    BY <1>1, <2>1, <2>2 DEF CommandsInv, CommandTypes, Moves
  <2>3. CASE k # i
    <3>1. parser'[k] = parser[k] /\ flow'[k] = flow[k]
      BY <2>1, <2>3 DEF CommandsInv, CommandTypes, Moves
    <3>2. PICK q, g : q = parser[k] /\ g = flow[k]
      OBVIOUS
    <3>3. LineKept(k, q, g)
      BY <3>2 DEF CommandsInv
    <3>4. q.pc = "creating" => PointerKept(k, Line(k)[q.next])'
      BY <2>3, <3>1, <3>2
    <3>5. LineKept(k, q, g)'
      BY <3>3, <3>4, SameLine DEF Moves
    <3> QED
      BY <3>1, <3>2, <3>5
  <2> QED
    BY <2>2, <2>3
<1>6. Lines' = Lines
  BY SameQuestions DEF Moves
<1>7. BlocksKept'
  <2>1. ~managerMode => main # "freeing"
    BY <1>1 DEF CommandsInv, BlocksKept
  <2> QED
    BY <2>1 DEF CommandsInv, BlocksKept, Moves, managerMode
<1> QED
  BY <1>2, <1>3, <1>4, <1>5, <1>6, <1>7 DEF CommandsInv
-----------------------------------------------------------------------------
(* The next option of a line. *)

\* The second option of a name makes two of them.
LEMMA OnlyOnce ==
  ASSUME asked \in Cases, NEW i \in Lines, NEW opt, Count(i, opt) <= 1,
         NEW n \in DOMAIN Line(i), Line(i)[n].opt = opt
  PROVE  ~Before(i, n, opt)
<1> DEFINE S == {j \in DOMAIN Line(i) : Line(i)[j].opt = opt}
<1>1. Len(Line(i)) \in Nat /\ DOMAIN Line(i) = 1 .. Len(Line(i))
  BY LineTypes
<1>2. IsFiniteSet(S) /\ Cardinality(S) \in Nat /\ Cardinality(S) <= 1
  <2>1. S \subseteq 1 .. Len(Line(i)) /\ IsFiniteSet(1 .. Len(Line(i)))
    BY <1>1, FS_Interval
  <2>2. Cardinality(S) = Count(i, opt)
    BY DEF Count
  <2> HIDE DEF S
  <2> QED
    BY <2>1, <2>2, FS_Subset, FS_CardinalityType
<1>3. SUFFICES ASSUME NEW j \in DOMAIN Line(i), j < n, Line(i)[j].opt = opt PROVE FALSE
  BY DEF Before
<1>4. {j} \cup {n} \subseteq S /\ n \notin {j}
  BY <1>1, <1>3
<1>5. IsFiniteSet({j}) /\ Cardinality({j}) = 1
  BY FS_Singleton
<1>6. Cardinality({j} \cup {n}) = 2
  <2>1. PICK T : T = {j}
    OBVIOUS
  <2>2. Cardinality(T \cup {n}) = Cardinality(T) + 1
    BY <1>4, <1>5, <2>1, FS_AddElement
  <2> QED
    BY <1>5, <2>1, <2>2
<1>7. Cardinality({j} \cup {n}) <= Cardinality(S)
  BY <1>2, <1>4, FS_Subset
<1> QED
  BY <1>2, <1>6, <1>7

LEMMA NoneOf ==
  ASSUME asked \in Cases, NEW i \in Lines, NEW opt, Count(i, opt) = 0, NEW n \in DOMAIN Line(i)
  PROVE  Line(i)[n].opt # opt
<1> DEFINE S == {j \in DOMAIN Line(i) : Line(i)[j].opt = opt}
<1>1. Len(Line(i)) \in Nat /\ DOMAIN Line(i) = 1 .. Len(Line(i))
  BY LineTypes
<1>2. IsFiniteSet(S) /\ Cardinality(S) = 0
  <2>1. S \subseteq 1 .. Len(Line(i)) /\ IsFiniteSet(1 .. Len(Line(i)))
    BY <1>1, FS_Interval
  <2>2. Cardinality(S) = Count(i, opt)
    BY DEF Count
  <2> HIDE DEF S
  <2> QED
    BY <2>1, <2>2, FS_Subset
<1>3. S = {}
  BY <1>2, FS_EmptySet
<1> QED
  BY <1>3

\* An option that says nothing of headers and random variables.
LEMMA FitsStays ==
  ASSUME NEW f, NEW g, g.log = f.log, g.min = f.min, g.meter = f.meter,
         NEW p, NEW t, NEW pp, NEW tt, p => pp, t => tt, Fits(f, p, t)
  PROVE  Fits(g, pp, tt)
  BY DEF Fits

\* What the options before the next one say.
LEMMA BeforeNext ==
  ASSUME asked \in Cases, NEW i \in Lines, NEW n \in DOMAIN Line(i), NEW m \in Nat, n < m, NEW opt
  PROVE  /\ Before(i, n, opt) => Before(i, m, opt)
         /\ Line(i)[n].opt = opt => Before(i, m, opt)
<1>1. DOMAIN Line(i) \subseteq Nat
  BY LineTypes
<1> QED
  BY <1>1 DEF Before

LEMMA LawsStay ==
  ASSUME asked \in Cases, NEW i \in Lines, NEW n \in DOMAIN Line(i), NEW f, NEW g, g.law = f.law,
         Line(i)[n].opt \notin {"law", "app"}, LawsKept(i, n, f)
  PROVE  LawsKept(i, n + Skipped(Line(i)[n]), g)
<1> DEFINE m == n + Skipped(Line(i)[n])
<1>1. DOMAIN Line(i) \subseteq Nat
  BY LineTypes
<1>2. SUFFICES ASSUME Count(i, "-Si") = 0 PROVE LawsKept(i, m, g)
  BY DEF LawsKept
<1>3. m = n + 1
  BY <1>2, NoneOf DEF Skipped
<1>4. \A s : LawsBefore(i, m, s) = LawsBefore(i, n, s)
  BY <1>1, <1>3 DEF LawsBefore, LawOptions
<1> HIDE DEF m
<1> QED
  BY <1>4 DEF LawsKept
-----------------------------------------------------------------------------
(* Each operation keeps the invariant. *)

\* What is known of a parser that reads an option.
LEMMA Reading ==
  ASSUME CommandsInv, NEW i \in Ids, parser[i].pc # "none", parser[i].next \in DOMAIN Line(i)
  PROVE  /\ asked \in Cases /\ i \in Lines
         /\ parser[i].next \in Nat \ {0} /\ Readable(Option(i)) /\ Option(i) = Line(i)[parser[i].next]
         /\ FlowOK(flow[i]) /\ LineKept(i, parser[i], flow[i])
         /\ buffer[i] \in [dim : BOOLEAN, ptr : Blocks \cup {0}]
         /\ used \subseteq Blocks /\ variable = [k \in LawKinds |-> variable[k]]
         /\ process \in {"run", "exited", "aborted"}
         /\ buffer[i].ptr # 0 => buffer[i].dim
  BY ParserHasLine, LineTypes DEF CommandsInv, CommandTypes, Option, BuffersSized

LEMMA NextInLine ==
  ASSUME CommandsInv, NEW i \in Ids, HasOption(i)
  PROVE  parser[i].pc = "parsing" /\ parser[i].next \in DOMAIN Line(i)
  BY ParserHasLine, LineTypes DEF CommandsInv, CommandTypes, HasOption, At

\* The other parsers, when the pointers to random variables stay.
LEMMA PointersStay ==
  ASSUME CommandsInv, UNCHANGED <<asked, variable>>, NEW i \in Ids,
         \A k \in Ids \ {i} : parser'[k] = parser[k]
  PROVE  \A k \in Lines \ {i} :
           parser[k].pc = "creating" => PointerKept(k, Line(k)[parser[k].next])'
<1> SUFFICES ASSUME NEW k \in Lines \ {i}, parser[k].pc = "creating"
             PROVE  PointerKept(k, Line(k)[parser[k].next])'
  OBVIOUS
<1>1. parser'[k] = parser[k] /\ Line(k)' = Line(k)
  BY LineTypes, SameQuestions DEF CommandsInv, CommandTypes
<1>2. PICK o : o = Line(k)[parser[k].next]
  OBVIOUS
<1>3. PointerKept(k, o)
  BY <1>2 DEF CommandsInv, LineKept
<1>4. PointerKept(k, o)'
  BY <1>3, SamePointer
<1> QED
  BY <1>1, <1>2, <1>4

\* Parser i is at an option, and the pointers stay.
LEMMA OptionMoves ==
  ASSUME CommandsInv, NEW i \in Ids, parser[i].pc \in {"parsing", "creating", "sizing", "loading"},
         parser[i].next \in DOMAIN Line(i), UNCHANGED variable,
         NEW p \in [pc : {"parsing", "sizing", "loading"}, next : Nat \ {0}],
         NEW f, FlowOK(f), NEW b \in [dim : BOOLEAN, ptr : Blocks \cup {0}], Moves(i, p, f, b),
         process' = process, used' \subseteq Blocks,
         b.ptr # 0 \/ p.pc = "loading" => b.dim,
         p.pc # "parsing" => p.next \in DOMAIN Line(i) /\ Line(i)[p.next].opt = "-Fp",
         HeaderKept(i, p.next, f), LawsKept(i, p.next, f),
         ~managerMode /\ (\A k \in Ids : buffer[k].ptr # 0 => buffer[k].ptr \in used)
           => \A k \in Ids : buffer'[k].ptr # 0 => buffer'[k].ptr \in used'
  PROVE  CommandsInv'
<1>1. /\ process \in {"run", "exited", "aborted"} /\ variable = [k \in LawKinds |-> variable[k]]
  BY DEF CommandsInv, CommandTypes
<1>2. LineKept(i, p, f)
  BY DEF LineKept
<1>3. LineKept(i, p, f)'
  BY <1>2, SameLine DEF Moves
<1>4. \A k \in Ids \ {i} : parser'[k] = parser[k]
  BY DEF Moves, CommandsInv, CommandTypes
<1>5. \A k \in Lines \ {i} :
        parser[k].pc = "creating" => PointerKept(k, Line(k)[parser[k].next])'
  BY <1>4, PointersStay DEF Moves
<1>6. p \in [pc : ParserPCs, next : Nat \ {0}]
  BY DEF ParserPCs
<1> QED
  BY <1>1, <1>3, <1>5, <1>6, ParserMoves

LEMMA OptionRead ==
  ASSUME CommandsInv, NEW i \in Ids, ReadOption(i) PROVE CommandsInv'
<1> DEFINE n == parser[i].next
           o == Option(i)
           m == n + Skipped(o)
           f == flow[i]
           g == Applied(f, o)
           p == [pc |-> "parsing", next |-> m]
<1>1. /\ parser[i].pc = "parsing" /\ n \in DOMAIN Line(i)
  BY NextInLine DEF ReadOption
<1>2. /\ asked \in Cases /\ i \in Lines /\ n \in Nat \ {0} /\ Readable(o) /\ o = Line(i)[n]
      /\ FlowOK(f) /\ LineKept(i, parser[i], f)
  BY <1>1, Reading
<1>3. Accepted(f, o) /\ m \in Nat \ {0} /\ n < m
  BY <1>2 DEF ReadOption, Skipped
<1>4. FlowOK(g) /\ g.law = f.law /\ o.opt \notin {"law", "app"}
  BY <1>2, <1>3, OptionApplied
<1>5. HeaderKept(i, m, g)
  <2> SUFFICES ASSUME Count(i, "-p") <= 1, Count(i, "-T") <= 1
               PROVE  Fits(g, Before(i, m, "-p"), Before(i, m, "-T"))
    BY DEF HeaderKept
  <2>1. Fits(f, Before(i, n, "-p"), Before(i, n, "-T"))
    BY <1>2 DEF LineKept, HeaderKept
  <2>2. /\ \A opt \in {"-p", "-T"} : Before(i, n, opt) => Before(i, m, opt)
        /\ \A opt \in {"-p", "-T"} : o.opt = opt => Before(i, m, opt)
    BY <1>1, <1>2, <1>3, BeforeNext
  <2>3. \A opt \in {"-p", "-T"} : o.opt = opt => ~Before(i, n, opt)
    BY <1>1, <1>2, OnlyOnce
  <2>4. \A opt : Before(i, n, opt) \in BOOLEAN /\ Before(i, m, opt) \in BOOLEAN
    BY DEF Before
  <2> HIDE DEF m, g, f, o
  <2> QED
    BY <1>2, <1>3, <2>1, <2>2, <2>3, <2>4, FitsNext DEF g
<1>6. LawsKept(i, m, g)
  BY <1>1, <1>2, <1>4, LawsStay DEF LineKept
<1>7. Moves(i, p, g, buffer[i])
  BY DEF ReadOption, OptionDone, Moves, programVars, bufferVars, managerVars, CommandsInv, CommandTypes
<1>8. UNCHANGED <<variable, process, used>>
  BY DEF ReadOption, programVars, bufferVars
<1>9. /\ buffer[i] \in [dim : BOOLEAN, ptr : Blocks \cup {0}]
      /\ buffer[i].ptr # 0 => buffer[i].dim
      /\ used \subseteq Blocks
  BY <1>1, Reading
<1>10. p \in [pc : {"parsing", "sizing", "loading"}, next : Nat \ {0}] /\ p.pc = "parsing" /\ p.next = m
  BY <1>3
<1>11. (\A k \in Ids : buffer[k].ptr # 0 => buffer[k].ptr \in used)
         => \A k \in Ids : buffer'[k].ptr # 0 => buffer'[k].ptr \in used'
  BY DEF ReadOption, bufferVars
<1>12. buffer[i].ptr # 0 \/ p.pc = "loading" => buffer[i].dim
  BY <1>9, <1>10
<1>13. used' \subseteq Blocks /\ process' = process /\ UNCHANGED variable
  BY <1>8, <1>9
<1> HIDE DEF m, g, f, o, p
<1> QED
  BY <1>1, <1>4, <1>5, <1>6, <1>7, <1>9, <1>10, <1>11, <1>12, <1>13, OptionMoves DEF n

\* The next option is taken, and the last one said nothing of headers and random variables.
LEMMA NextOption ==
  ASSUME CommandsInv, NEW i \in Ids, parser[i].pc \in {"parsing", "sizing", "loading"},
         parser[i].next \in DOMAIN Line(i), Option(i).opt \notin {"-Si", "law", "app"},
         UNCHANGED variable,
         NEW f, FlowOK(f), f.log = flow[i].log, f.min = flow[i].min, f.meter = flow[i].meter,
         f.law = flow[i].law, NEW b \in [dim : BOOLEAN, ptr : Blocks \cup {0}],
         Moves(i, [pc |-> "parsing", next |-> parser[i].next + 1], f, b),
         process' = process, used' \subseteq Blocks, b.ptr # 0 => b.dim,
         ~managerMode /\ (\A k \in Ids : buffer[k].ptr # 0 => buffer[k].ptr \in used)
           => \A k \in Ids : buffer'[k].ptr # 0 => buffer'[k].ptr \in used'
  PROVE  CommandsInv'
<1> DEFINE n == parser[i].next
           p == [pc |-> "parsing", next |-> n + 1]
<1>1. /\ asked \in Cases /\ i \in Lines /\ n \in Nat \ {0} /\ Option(i) = Line(i)[n]
      /\ LineKept(i, parser[i], flow[i])
  BY Reading
<1>2. HeaderKept(i, n + 1, f)
  <2>1. \A opt : Before(i, n, opt) => Before(i, n + 1, opt)
    BY <1>1, BeforeNext
  <2> HIDE DEF n
  <2> QED
    BY <1>1, <2>1, FitsStays DEF LineKept, HeaderKept, n
<1>3. LawsKept(i, n + 1, f)
  <2>1. Skipped(Line(i)[n]) = 1
    BY <1>1 DEF Skipped
  <2> QED
    BY <1>1, <2>1, LawsStay DEF LineKept
<1>4. /\ p \in [pc : {"parsing", "sizing", "loading"}, next : Nat \ {0}]
      /\ p.pc = "parsing" /\ p.next = n + 1
  BY <1>1
<1>5. Moves(i, p, f, b)
  OBVIOUS
<1> HIDE DEF p
<1> QED
  BY <1>2, <1>3, <1>4, <1>5, OptionMoves

LEMMA LogOptionRead ==
  ASSUME CommandsInv, NEW i \in Ids, ReadLogOption(i) PROVE CommandsInv'
<1>1. parser[i].pc = "parsing" /\ parser[i].next \in DOMAIN Line(i)
  BY NextInLine DEF ReadLogOption
<1>2. Option(i).opt \notin {"-Si", "law", "app"}
  BY DEF ReadLogOption, LogAccepted
<1>3. Moves(i, [pc |-> "parsing", next |-> parser[i].next + 1], flow[i], buffer[i])
  BY DEF ReadLogOption, OptionDone, Moves, programVars, bufferVars, managerVars, CommandsInv,
     CommandTypes
<1>4. UNCHANGED <<variable, process, used, buffer>>
  BY DEF ReadLogOption, programVars, bufferVars
<1> QED
  BY <1>1, <1>2, <1>3, <1>4, Reading, NextOption

\* The greatest element of a set of numbers of flows.
LEMMA MaxExists ==
  ASSUME NEW n \in Nat, NEW S \in SUBSET (1 .. n), S # {}
  PROVE  Max(S) \in S
<1> DEFINE T == {n - x : x \in S}
           R == {p \in Nat \X Nat : p[1] < p[2]}
<1>1. T \in SUBSET Nat /\ T # {}
  <2>1. \A x \in S : n - x \in Nat
    OBVIOUS
  <2> QED
    BY <2>1
<1>2. PICK t \in T : \A u \in T : ~(<<u, t>> \in R)
  <2>1. IsWellFoundedOn(R, Nat)
    BY NatLessThanWellFounded DEF OpToRel
  <2> HIDE DEF R, T
  <2> QED
    BY <1>1, <2>1, WFMin, Zenon
<1>3. \A u \in T : t <= u
  <2> SUFFICES ASSUME NEW u \in T PROVE t <= u
    OBVIOUS
  <2>1. t \in Nat /\ u \in Nat
    BY <1>1
  <2>2. ~(u < t)
    BY <1>2, <2>1
  <2> HIDE DEF T, R
  <2> QED
    BY <2>1, <2>2
<1>4. PICK x \in S : t = n - x
  OBVIOUS
<1>5. \A y \in S : x >= y
  <2> SUFFICES ASSUME NEW y \in S PROVE x >= y
    OBVIOUS
  <2>1. n - y \in T /\ t <= n - y
    BY <1>3
  <2> QED
    BY <1>4, <2>1
<1> QED
  BY <1>5 DEF Max

\* -Fp finds the payload of another flow, or none.
LEMMA PayloadFound ==
  ASSUME CommandsInv, NEW i \in Ids, FindPayload(i) PROVE CommandsInv'
<1> DEFINE f == [flow[i] EXCEPT !.payload = Option(i).file]
           b == IF Sharable(i) # {} THEN buffer[Max(Sharable(i))] ELSE buffer[i]
<1>1. parser[i].pc = "parsing" /\ parser[i].next \in DOMAIN Line(i) /\ Option(i).opt = "-Fp"
  BY NextInLine DEF FindPayload, IsPayload
<1>2. /\ asked \in Cases /\ i \in Lines /\ parser[i].next \in Nat \ {0}
      /\ Option(i) = Line(i)[parser[i].next]
      /\ FlowOK(flow[i]) /\ LineKept(i, parser[i], flow[i])
      /\ buffer[i] \in [dim : BOOLEAN, ptr : Blocks \cup {0}] /\ used \subseteq Blocks
  BY <1>1, Reading
<1>3. /\ FlowOK(f) /\ f.log = flow[i].log /\ f.min = flow[i].min /\ f.meter = flow[i].meter
      /\ f.law = flow[i].law
  BY <1>2 DEF FlowOK, FlowFields
<1>4. \E j \in Ids : b = buffer[j]
  <2>1. CASE Sharable(i) = {}
    BY <2>1
  <2>2. CASE Sharable(i) # {}
    <3>1. flowCount \in Nat /\ flowCount <= MaxLines /\ MaxLines \in Nat
      BY <1>2, LineTypes DEF CommandsInv, CommandTypes
    <3>2. Sharable(i) \in SUBSET (1 .. flowCount)
      BY <3>1 DEF Sharable
    <3>3. Max(Sharable(i)) \in 1 .. flowCount
      BY <2>2, <3>1, <3>2, MaxExists
    <3>4. Max(Sharable(i)) \in Ids
      BY <3>1, <3>3 DEF Ids
    <3> QED
      BY <2>2, <3>4
  <2> QED
    BY <2>1, <2>2
<1>5. /\ b \in [dim : BOOLEAN, ptr : Blocks \cup {0}] /\ used \subseteq Blocks
      /\ b.ptr # 0 => b.dim
  BY <1>2, <1>4 DEF CommandsInv, CommandTypes, BuffersSized
<1>6. buffer' = [buffer EXCEPT ![i] = b]
  BY DEF FindPayload, CommandsInv, CommandTypes
<1>7. buffer'[i] = b
  BY <1>6 DEF CommandsInv, CommandTypes
<1>8. /\ flow' = [flow EXCEPT ![i] = f]
      /\ UNCHANGED <<asked, main, flowCount, wire, manager, variable, process, used>>
      /\ parser' = [parser EXCEPT ![i] = IF b.dim THEN [pc |-> "parsing", next |-> parser[i].next + 1]
                                         ELSE [parser[i] EXCEPT !.pc = "sizing"]]
  BY <1>7 DEF FindPayload, OptionDone, Go, programVars, managerVars, CommandsInv, CommandTypes
<1>9. ~managerMode /\ (\A k \in Ids : buffer[k].ptr # 0 => buffer[k].ptr \in used)
        => \A k \in Ids : buffer'[k].ptr # 0 => buffer'[k].ptr \in used'
  BY <1>4, <1>6, <1>8 DEF CommandsInv, CommandTypes
<1> HIDE DEF f, b
<1>10. CASE b.dim
  <2>1. Moves(i, [pc |-> "parsing", next |-> parser[i].next + 1], f, b)
    BY <1>6, <1>8, <1>10 DEF Moves
  <2> QED
    BY <1>1, <1>3, <1>5, <1>8, <1>9, <2>1, NextOption
<1>11. CASE ~b.dim
  <2>1. PICK p : p = [parser[i] EXCEPT !.pc = "sizing"]
    OBVIOUS
  <2>2. /\ p \in [pc : {"parsing", "sizing", "loading"}, next : Nat \ {0}]
        /\ p.pc = "sizing" /\ p.next = parser[i].next
    BY <2>1 DEF CommandsInv, CommandTypes
  <2>3. Moves(i, p, f, b)
    BY <1>6, <1>8, <1>11, <2>1 DEF Moves
  <2>4. HeaderKept(i, p.next, f) /\ LawsKept(i, p.next, f)
    BY <1>2, <1>3, <2>2 DEF LineKept, HeaderKept, LawsKept, Fits
  <2> QED
    BY <1>1, <1>2, <1>3, <1>5, <1>8, <1>9, <2>2, <2>3, <2>4, OptionMoves
<1> QED
  BY <1>10, <1>11

LEMMA PayloadSized ==
  ASSUME CommandsInv, NEW i \in Ids, SizePayload(i), process' = process PROVE CommandsInv'
<1>1. parser[i].pc = "sizing" /\ i \in Lines
  BY ParserHasLine DEF SizePayload, At
<1>2. parser[i].next \in DOMAIN Line(i) /\ Line(i)[parser[i].next].opt = "-Fp"
  BY <1>1 DEF CommandsInv, LineKept
<1>3. /\ FlowOK(flow[i]) /\ LineKept(i, parser[i], flow[i])
      /\ buffer[i] \in [dim : BOOLEAN, ptr : Blocks \cup {0}] /\ used \subseteq Blocks
  BY <1>1, <1>2, Reading
<1>4. Option(i).valid
  BY <1>1 DEF SizePayload, Abort, At
<1>5. PICK p, b : p = [parser[i] EXCEPT !.pc = "loading"] /\ b = [buffer[i] EXCEPT !.dim = TRUE]
  OBVIOUS
<1>6. /\ p \in [pc : {"parsing", "sizing", "loading"}, next : Nat \ {0}]
      /\ p.pc = "loading" /\ p.next = parser[i].next
      /\ b \in [dim : BOOLEAN, ptr : Blocks \cup {0}] /\ b.dim /\ b.ptr = buffer[i].ptr
  BY <1>3, <1>5 DEF CommandsInv, CommandTypes
<1>7. Moves(i, p, flow[i], b) /\ UNCHANGED <<variable, used>>
  BY <1>4, <1>5 DEF SizePayload, Go, Moves, programVars, managerVars, CommandsInv, CommandTypes
<1>8. HeaderKept(i, p.next, flow[i]) /\ LawsKept(i, p.next, flow[i])
  BY <1>3, <1>6 DEF LineKept
<1>9. \A k \in Ids : buffer'[k].ptr = buffer[k].ptr
  BY <1>6, <1>7 DEF Moves, CommandsInv, CommandTypes
<1> QED
  BY <1>1, <1>2, <1>3, <1>6, <1>7, <1>8, <1>9, OptionMoves

LEMMA PayloadLoaded ==
  ASSUME CommandsInv, NEW i \in Ids, LoadPayload(i) PROVE CommandsInv'
<1>1. parser[i].pc = "loading" /\ i \in Lines
  BY ParserHasLine DEF LoadPayload, At
<1>2. parser[i].next \in DOMAIN Line(i) /\ Line(i)[parser[i].next].opt = "-Fp"
  BY <1>1 DEF CommandsInv, LineKept
<1>3. /\ FlowOK(flow[i]) /\ Option(i) = Line(i)[parser[i].next]
      /\ buffer[i] \in [dim : BOOLEAN, ptr : Blocks \cup {0}] /\ used \subseteq Blocks
  BY <1>1, <1>2, Reading
<1>4. PICK c \in Blocks \ used : buffer' = [buffer EXCEPT ![i].ptr = c] /\ used' = used \cup {c}
  BY DEF LoadPayload
<1>5. PICK b : b = [buffer[i] EXCEPT !.ptr = c]
  OBVIOUS
<1>6. b \in [dim : BOOLEAN, ptr : Blocks \cup {0}] /\ b.dim /\ b.ptr = c
  BY <1>1, <1>3, <1>5 DEF CommandsInv, BuffersSized
<1>7. buffer' = [buffer EXCEPT ![i] = b]
  BY <1>4, <1>5 DEF CommandsInv, CommandTypes
<1>8. /\ Moves(i, [pc |-> "parsing", next |-> parser[i].next + 1], flow[i], b)
      /\ UNCHANGED <<variable, process>>
  BY <1>7 DEF LoadPayload, OptionDone, Moves, programVars, managerVars, CommandsInv, CommandTypes
<1>9. (\A k \in Ids : buffer[k].ptr # 0 => buffer[k].ptr \in used)
        => \A k \in Ids : buffer'[k].ptr # 0 => buffer'[k].ptr \in used'
  BY <1>4, <1>6, <1>7 DEF CommandsInv, CommandTypes
<1>10. used' \subseteq Blocks
  BY <1>3, <1>4
<1> QED
  BY <1>1, <1>2, <1>3, <1>6, <1>8, <1>9, <1>10, NextOption

\* Once a line is read its options matter no more.
LEMMA LineLeft ==
  ASSUME CommandsInv, NEW i \in Ids, parser[i].pc \notin {"none", "ended", "gone"},
         UNCHANGED variable, NEW p, p \in [pc : {"checked", "running", "reporting", "ended", "gone"}, next : {parser[i].next}],
         p.pc \in {"checked", "running"} => parser[i].next > Len(Line(i)),
         NEW f, FlowOK(f), f.log = flow[i].log, f.min = flow[i].min, f.meter = flow[i].meter,
         f.law = flow[i].law, NEW b, b \in {buffer[i], NoBuffer}, Moves(i, p, f, b),
         process' = process, used' \subseteq Blocks,
         ~managerMode /\ (\A k \in Ids : buffer[k].ptr # 0 => buffer[k].ptr \in used)
           => \A k \in Ids : buffer'[k].ptr # 0 => buffer'[k].ptr \in used'
  PROVE  CommandsInv'
<1>1. /\ i \in Lines /\ parser[i].next \in Nat \ {0} /\ LineKept(i, parser[i], flow[i])
      /\ buffer[i] \in [dim : BOOLEAN, ptr : Blocks \cup {0}]
      /\ buffer[i].ptr # 0 => buffer[i].dim
      /\ process \in {"run", "exited", "aborted"} /\ variable = [k \in LawKinds |-> variable[k]]
  BY ParserHasLine DEF CommandsInv, CommandTypes, BuffersSized
<1>2. HeaderKept(i, p.next, f) /\ LawsKept(i, p.next, f)
  BY <1>1 DEF LineKept, HeaderKept, LawsKept, Fits
<1>3. LineKept(i, p, f)
  BY <1>1, <1>2 DEF LineKept
<1>4. LineKept(i, p, f)'
  BY <1>3, SameLine DEF Moves
<1>5. \A k \in Ids \ {i} : parser'[k] = parser[k]
  BY DEF Moves, CommandsInv, CommandTypes
<1>6. \A k \in Lines \ {i} :
        parser[k].pc = "creating" => PointerKept(k, Line(k)[parser[k].next])'
  BY <1>5, PointersStay DEF Moves
<1>7. p \in [pc : ParserPCs, next : Nat \ {0}] /\ p.pc # "loading"
  BY <1>1 DEF ParserPCs
<1>8. /\ b \in [dim : BOOLEAN, ptr : Blocks \cup {0}]
      /\ b.ptr # 0 => b.dim
  <2>1. NoBuffer \in [dim : BOOLEAN, ptr : Blocks \cup {0}] /\ NoBuffer.ptr = 0
    BY DEF NoBuffer
  <2> QED
    BY <1>1, <2>1
<1> QED
  BY <1>1, <1>4, <1>6, <1>7, <1>8, ParserMoves

LEMMA LineFinished ==
  ASSUME CommandsInv, NEW i \in Ids, FinishLine(i), process' = process PROVE CommandsInv'
<1>1. /\ process = "run" /\ parser[i].pc = "parsing" /\ parser[i].next > Len(Line(i)) /\ i \in Lines
      /\ FlowOK(flow[i]) /\ used \subseteq Blocks
  BY ParserHasLine DEF FinishLine, At, CommandsInv, CommandTypes
<1>2. Startable(flow[i], passive, multiFlows, Multiport)
  BY <1>1 DEF FinishLine, Abort
<1>3. PICK p, f : /\ p = [parser[i] EXCEPT !.pc = "checked"]
                  /\ f = [flow[i] EXCEPT !.srcPort = @ \/ passive, !.dstPort = @ \/ passive]
  OBVIOUS
<1>4. /\ FlowOK(f) /\ f.log = flow[i].log /\ f.min = flow[i].min /\ f.meter = flow[i].meter
      /\ f.law = flow[i].law
  BY <1>1, <1>3 DEF FlowOK, FlowFields
<1>5. p \in [pc : {"checked", "running", "reporting", "ended", "gone"}, next : {parser[i].next}]
  BY <1>3 DEF CommandsInv, CommandTypes
<1>6. Moves(i, p, f, buffer[i]) /\ UNCHANGED <<variable, used, buffer>>
  BY <1>2, <1>3 DEF FinishLine, Go, Moves, programVars, managerVars, bufferVars, CommandsInv,
     CommandTypes
<1> QED
  BY <1>1, <1>4, <1>5, <1>6, LineLeft

LEMMA FlowHandedOver ==
  ASSUME CommandsInv, NEW i \in Ids, HandOver(i) PROVE CommandsInv'
<1>1. parser[i].pc = "checked" /\ i \in Lines /\ FlowOK(flow[i]) /\ used \subseteq Blocks
  BY ParserHasLine DEF HandOver, At, CommandsInv, CommandTypes
<1>2. parser[i].next > Len(Line(i))
  BY <1>1 DEF CommandsInv, LineKept
<1>3. PICK f : f = Attached(flow[i])
  OBVIOUS
<1>4. /\ FlowOK(f) /\ f.log = flow[i].log /\ f.min = flow[i].min /\ f.meter = flow[i].meter
      /\ f.law = flow[i].law
  BY <1>1, <1>3 DEF FlowOK, FlowFields, Attached
<1>5. PICK pc \in {"running", "gone"} : Go(i, pc)
  BY DEF HandOver
<1>6. PICK p : p = [parser[i] EXCEPT !.pc = pc]
  OBVIOUS
<1>7. p \in [pc : {"checked", "running", "reporting", "ended", "gone"}, next : {parser[i].next}]
  BY <1>6 DEF CommandsInv, CommandTypes
<1>8. Moves(i, p, f, buffer[i]) /\ UNCHANGED <<variable, process, used, buffer>>
  BY <1>3, <1>5, <1>6 DEF HandOver, Go, Moves, programVars, managerVars, bufferVars, CommandsInv,
     CommandTypes
<1> QED
  BY <1>1, <1>2, <1>4, <1>7, <1>8, LineLeft

\* Outside of scripts and managers there is one flow.
LEMMA Alone ==
  ASSUME CommandsInv, NEW i \in Lines, ~multiFlows, NEW k \in Ids, k # i
  PROVE  buffer[k].ptr = 0
<1>1. Lines = {1} /\ Started <= 1
  <2>1. Len(asked.lines) = 1
    BY LineTypes DEF CommandsInv, CommandTypes, multiFlows
  <2> QED
    BY <2>1, LineTypes DEF CommandsInv, CommandTypes, LinesKept
<1>2. k > Started
  BY <1>1 DEF Ids, CommandsInv, CommandTypes, Started
<1> QED
  BY <1>2 DEF CommandsInv, LinesKept, NoBuffer

LEMMA FlowEnded ==
  ASSUME CommandsInv, NEW i \in Ids, FlowEnds(i) PROVE CommandsInv'
<1>1. parser[i].pc = "running" /\ i \in Lines /\ FlowOK(flow[i]) /\ used \subseteq Blocks
  BY ParserHasLine DEF FlowEnds, At, CommandsInv, CommandTypes
<1>2. PICK p : p = [parser[i] EXCEPT !.pc = IF managerMode THEN "reporting" ELSE "ended"]
  OBVIOUS
<1>3. /\ p \in [pc : {"checked", "running", "reporting", "ended", "gone"}, next : {parser[i].next}]
      /\ p.pc \notin {"checked", "running"}
  BY <1>2 DEF CommandsInv, CommandTypes
<1>4. PICK b \in {buffer[i], NoBuffer} :
        /\ buffer' = [buffer EXCEPT ![i] = b]
        /\ \/ b = buffer[i] /\ used' = used
           \/ b = NoBuffer /\ used' = IF multiFlows THEN used ELSE used \ {buffer[i].ptr}
  BY DEF FlowEnds, ForgetPayload, bufferVars, CommandsInv, CommandTypes
<1>5. Moves(i, p, flow[i], b) /\ UNCHANGED <<variable, process>>
  BY <1>2, <1>4 DEF FlowEnds, Go, Moves, programVars, managerVars, CommandsInv, CommandTypes
<1>6. used' \subseteq Blocks
  BY <1>1, <1>4
<1>7. ASSUME \A k \in Ids : buffer[k].ptr # 0 => buffer[k].ptr \in used
      PROVE  \A k \in Ids : buffer'[k].ptr # 0 => buffer'[k].ptr \in used'
  <2> SUFFICES ASSUME NEW k \in Ids, buffer'[k].ptr # 0 PROVE buffer'[k].ptr \in used'
    OBVIOUS
  <2>1. buffer'[k] = IF k = i THEN b ELSE buffer[k]
    BY <1>4 DEF CommandsInv, CommandTypes
  <2>2. CASE multiFlows \/ (b = buffer[i] /\ used' = used)
    BY <1>4, <1>7, <2>1, <2>2 DEF NoBuffer
  <2>3. CASE ~multiFlows /\ b = NoBuffer
    <3>1. k # i => buffer[k].ptr = 0
      BY <1>1, <2>3, Alone
    <3> QED
      BY <2>1, <2>3, <3>1 DEF NoBuffer
  <2> QED
    BY <1>4, <2>2, <2>3
<1> QED
  BY <1>1, <1>3, <1>5, <1>6, <1>7, LineLeft

LEMMA EndReported ==
  ASSUME CommandsInv, NEW i \in Ids, ReportEnd(i) PROVE CommandsInv'
<1>1. parser[i].pc = "reporting" /\ i \in Lines /\ FlowOK(flow[i]) /\ used \subseteq Blocks
  BY ParserHasLine DEF ReportEnd, At, CommandsInv, CommandTypes
<1>2. PICK p : p = [parser[i] EXCEPT !.pc = "ended"]
  OBVIOUS
<1>3. /\ p \in [pc : {"checked", "running", "reporting", "ended", "gone"}, next : {parser[i].next}]
      /\ p.pc \notin {"checked", "running"}
  BY <1>2 DEF CommandsInv, CommandTypes
<1>4. Moves(i, p, flow[i], buffer[i]) /\ UNCHANGED <<variable, process, used, buffer>>
  BY <1>2 DEF ReportEnd, Go, Moves, programVars, bufferVars, CommandsInv, CommandTypes
<1> QED
  BY <1>1, <1>3, <1>4, LineLeft

\* A pointer to random variables is overwritten, perhaps while another parser uses it.
LEMMA VariableCreated ==
  ASSUME CommandsInv, NEW i \in Ids, CreateVariable(i) PROVE CommandsInv'
<1> DEFINE o == Option(i)
           c == Created(o)
<1>1. parser[i].pc = "parsing" /\ parser[i].next \in DOMAIN Line(i)
  BY NextInLine DEF CreateVariable
<1>2. /\ asked \in Cases /\ i \in Lines /\ Readable(o) /\ o = Line(i)[parser[i].next]
      /\ FlowOK(flow[i]) /\ LineKept(i, parser[i], flow[i])
      /\ buffer[i] \in [dim : BOOLEAN, ptr : Blocks \cup {0}] /\ used \subseteq Blocks
      /\ variable = [k \in LawKinds |-> variable[k]] /\ process \in {"run", "exited", "aborted"}
  BY <1>1, Reading
<1>3. o.opt \in {"law", "app"}
  BY <1>2 DEF CreateVariable, IsLaw, LawAccepted, ApplicationAccepted
<1>4. c.kind \in LawKinds /\ SlotOf(o) \in Slots
  BY <1>2, <1>3 DEF Created, SlotOf, Readable, Slots, LawKinds, ApplicationIdt
<1>5. PICK p, f : p = [parser[i] EXCEPT !.pc = "creating"] /\ f = flow[i]
  OBVIOUS
<1>6. /\ p \in [pc : ParserPCs, next : Nat \ {0}] /\ p.pc = "creating" /\ p.next = parser[i].next
  BY <1>5 DEF CommandsInv, CommandTypes, ParserPCs
<1>7. Moves(i, p, f, buffer[i]) /\ UNCHANGED <<process, used, buffer>>
  BY <1>5 DEF CreateVariable, Go, Moves, programVars, bufferVars, managerVars, CommandsInv,
     CommandTypes
<1>8. variable' = [variable EXCEPT ![c.kind] = c.shape]
  BY DEF CreateVariable
<1> HIDE DEF o, c
<1>9. variable' = [k \in LawKinds |-> variable'[k]] /\ variable'[c.kind] = c.shape
      /\ \A k \in LawKinds \ {c.kind} : variable'[k] = variable[k]
  BY <1>2, <1>4, <1>8
<1>10. LineKept(i, p, f)'
  <2>1. PICK e : e = Line(i)[p.next]
    OBVIOUS
  <2>2. PointerKept(i, e)'
    BY <1>2, <1>3, <1>6, <1>9, <2>1 DEF PointerKept, c
  <2>3. PICK q : q = [p EXCEPT !.pc = "parsing"]
    OBVIOUS
  <2>4. q.pc = "parsing" /\ q.next = p.next
    BY <1>6, <2>3
  <2>5. LineKept(i, q, f)
    BY <1>2, <1>5, <1>6, <2>4 DEF LineKept
  <2>6. LineKept(i, q, f)'
    BY <1>7, <2>4, <2>5, SameLine DEF Moves
  <2>7. Line(i)' = Line(i)
    BY <1>7, SameQuestions DEF Moves
  <2> QED
    BY <1>1, <1>6, <2>1, <2>2, <2>4, <2>6, <2>7 DEF LineKept
<1>11. ASSUME NEW k \in Lines \ {i}, parser[k].pc = "creating"
       PROVE  PointerKept(k, Line(k)[parser[k].next])'
  <2>1. k \in Ids /\ parser'[k] = parser[k] /\ Line(k)' = Line(k)
    BY <1>2, <1>7, LineTypes, SameQuestions DEF Moves, CommandsInv, CommandTypes
  <2>2. PICK r : r = Line(k)[parser[k].next]
    OBVIOUS
  <2>3. PointerKept(k, r) /\ parser[k].next \in DOMAIN Line(k) /\ Readable(r)
    BY <1>2, <1>11, <2>2, LineTypes DEF CommandsInv, LineKept
  <2>4. Created(r).kind \in LawKinds
    BY <2>3 DEF PointerKept, Created, Readable, LawKinds, ApplicationIdt
  <2>5. ASSUME Created(r).kind = c.kind, ~Rival(k, Created(r))
        PROVE  c.shape = Created(r).shape
    <3>1. parser[i].next \in LawOptions(i, SlotOf(o))
      BY <1>1, <1>2, <1>3 DEF LawOptions
    <3>2. i \in Lines \ {k}
      BY <1>2
    <3> QED
      BY <1>2, <1>4, <2>5, <3>1, <3>2 DEF Rival, c
  <2>6. PointerKept(k, r)'
    <3>1. Rival(k, Created(r))' <=> Rival(k, Created(r))
      BY <1>7, SameQuestions DEF Moves
    <3> QED
      BY <1>9, <2>3, <2>4, <2>5, <3>1 DEF PointerKept
  <2> QED
    BY <2>1, <2>2, <2>6
<1>12. buffer[i].ptr # 0 => buffer[i].dim
  BY DEF CommandsInv, BuffersSized
<1> QED
  BY <1>1, <1>2, <1>5, <1>6, <1>7, <1>9, <1>10, <1>11, <1>12, ParserMoves

LEMMA MaxOfNew ==
  ASSUME NEW S, S \subseteq Int, NEW n \in Int, \A x \in S : x < n
  PROVE  Max(S \cup {n}) = n
<1>1. \A y \in S \cup {n} : n >= y
  OBVIOUS
<1>2. ASSUME NEW x \in S \cup {n}, \A y \in S \cup {n} : x >= y
      PROVE  x = n
  BY <1>2
<1> QED
  BY <1>1, <1>2 DEF Max

\* The variable is made from what the pointer says now.
LEMMA VariableUsed ==
  ASSUME CommandsInv, NEW i \in Ids, UseVariable(i) PROVE CommandsInv'
<1> DEFINE n == parser[i].next
           o == Option(i)
           c == Created(o)
           f == flow[i]
           g == SetLaw(f, o, variable[c.kind])
           p == [pc |-> "parsing", next |-> n + 1]
<1>1. parser[i].pc = "creating" /\ i \in Lines
  BY ParserHasLine DEF UseVariable, At
<1>2. n \in DOMAIN Line(i) /\ PointerKept(i, Line(i)[n])
  BY <1>1 DEF CommandsInv, LineKept
<1>3. /\ asked \in Cases /\ n \in Nat \ {0} /\ Readable(o) /\ o = Line(i)[n]
      /\ FlowOK(f) /\ LineKept(i, parser[i], f)
      /\ buffer[i] \in [dim : BOOLEAN, ptr : Blocks \cup {0}] /\ used \subseteq Blocks
  BY <1>1, <1>2, Reading
<1>4. buffer[i].ptr # 0 => buffer[i].dim
  BY DEF CommandsInv, BuffersSized
<1>5. o.opt \in {"law", "app"} /\ (~Rival(i, c) => variable[c.kind] = c.shape)
  BY <1>2, <1>3 DEF PointerKept
<1>6. /\ FlowOK(g) /\ g.log = f.log /\ g.min = f.min /\ g.meter = f.meter
      /\ g.law[SlotOf(o)].kind = c.kind /\ g.law[SlotOf(o)].shape = variable[c.kind]
      /\ \A s \in {"idt", "on", "off"} \ {SlotOf(o)} : g.law[s] = f.law[s]
  <2>1. PICK e, v, h : e = o /\ v = variable[c.kind] /\ h = f
    OBVIOUS
  <2>2. FlowOK(h) /\ Readable(e) /\ e.opt \in {"law", "app"} /\ c = Created(e) /\ g = SetLaw(h, e, v)
    BY <1>3, <1>5, <2>1
  <2> HIDE DEF o, c, f, g
  <2> QED
    BY <2>1, <2>2, LawSet
<1>7. Moves(i, p, g, buffer[i]) /\ UNCHANGED <<variable, process, used, buffer>>
  BY DEF UseVariable, Pointer, OptionDone, Moves, programVars, bufferVars, managerVars, CommandsInv,
     CommandTypes
<1>8. /\ p \in [pc : {"parsing", "sizing", "loading"}, next : Nat \ {0}]
      /\ p.pc = "parsing" /\ p.next = n + 1
  BY <1>3
<1> HIDE DEF o, c, g, p, f
<1>9. HeaderKept(i, n + 1, g)
  <2>1. \A opt : Before(i, n, opt) => Before(i, n + 1, opt)
    BY <1>1, <1>2, <1>3, BeforeNext
  <2>2. HeaderKept(i, n, f)
    BY <1>3 DEF LineKept
  <2> HIDE DEF n
  <2> QED
    BY <1>6, <2>1, <2>2, FitsStays DEF HeaderKept
<1>10. LawsKept(i, n + 1, g)
  <2> SUFFICES ASSUME NEW s \in {"idt", "on", "off"}, Count(i, "-Si") = 0,
                      LawsBefore(i, n + 1, s) # {},
                      NEW d, d = Created(Line(i)[Max(LawsBefore(i, n + 1, s))]), ~Rival(i, d)
               PROVE  g.law[s].kind = d.kind /\ g.law[s].shape = d.shape
    BY DEF LawsKept
  <2>1. DOMAIN Line(i) \subseteq Nat
    BY <1>1, <1>3, LineTypes
  <2>2. CASE s = SlotOf(o)
    <3>1. LawsBefore(i, n + 1, s) = LawsBefore(i, n, s) \cup {n}
      BY <1>2, <1>3, <1>5, <2>1, <2>2 DEF LawsBefore, LawOptions
    <3>2. Max(LawsBefore(i, n, s) \cup {n}) = n
      <4>1. PICK S : S = LawsBefore(i, n, s)
        OBVIOUS
      <4>2. S \subseteq Int /\ \A x \in S : x < n
        BY <2>1, <4>1 DEF LawsBefore, LawOptions
      <4>3. n \in Int
        BY <1>3
      <4>4. Max(S \cup {n}) = n
        BY <4>2, <4>3, MaxOfNew
      <4> QED
        BY <4>1, <4>4
    <3>3. d = c
      BY <1>3, <3>1, <3>2 DEF c
    <3> QED
      BY <1>5, <1>6, <2>2, <3>3
  <2>3. CASE s # SlotOf(o)
    <3>1. LawsBefore(i, n + 1, s) = LawsBefore(i, n, s)
      BY <1>2, <1>3, <1>5, <2>1, <2>3 DEF LawsBefore, LawOptions
    <3>2. g.law[s] = f.law[s]
      BY <1>6, <2>3
    <3>3. LawsKept(i, n, f)
      BY <1>3 DEF LineKept
    <3> HIDE DEF n
    <3> QED
      BY <3>1, <3>2, <3>3 DEF LawsKept
  <2> QED
    BY <2>2, <2>3
<1> QED
  BY <1>1, <1>2, <1>3, <1>4, <1>6, <1>7, <1>8, <1>9, <1>10, OptionMoves

\* main or the manager moves, and no parser.
LEMMA MainMoves ==
  ASSUME CommandsInv, UNCHANGED <<asked, parser, flow, variable, buffer>>,
         process' \in {"run", "exited", "aborted"},
         main' \in {"start", "taking", "counting", "freeing"},
         flowCount' \in 0 .. Len(asked.lines), used' \subseteq Blocks, Started' = Started,
         wire' \in Seq(Nat),
         manager' = [next |-> manager'.next, socket |-> manager'.socket, seen |-> manager'.seen],
         manager'.next \in 1 .. Len(asked.lines) + 1,
         managerMode => Started + Len(wire') = manager'.next - 1,
         BlocksKept'
  PROVE  CommandsInv'
<1>1. CommandTypes'
  BY DEF CommandsInv, CommandTypes, FlowOK
<1>2. LinesKept'
  BY DEF CommandsInv, LinesKept, managerMode
<1>3. BuffersSized'
  BY DEF CommandsInv, BuffersSized
<1>4. \A k \in Lines : LineKept(k, parser[k], flow[k])'
  <2> SUFFICES ASSUME NEW k \in Lines PROVE LineKept(k, parser[k], flow[k])'
    BY SameQuestions
  <2>1. PICK q, g : q = parser[k] /\ g = flow[k]
    OBVIOUS
  <2>2. LineKept(k, q, g)
    BY <2>1 DEF CommandsInv
  <2>3. q.pc = "creating" => PointerKept(k, Line(k)[q.next])'
    <3>1. PICK o : o = Line(k)[q.next]
      OBVIOUS
    <3>2. Line(k)' = Line(k)
      BY SameQuestions
    <3> QED
      BY <2>2, <3>1, <3>2, SamePointer DEF LineKept
  <2>4. LineKept(k, q, g)'
    BY <2>2, <2>3, SameLine
  <2> QED
    BY <2>1, <2>4
<1>5. Lines' = Lines
  BY SameQuestions
<1> QED
  BY <1>1, <1>2, <1>3, <1>4, <1>5 DEF CommandsInv

LEMMA MainTypes ==
  ASSUME CommandsInv
  PROVE  /\ asked \in Cases /\ MaxLines \in Nat /\ Len(asked.lines) \in 0 .. MaxLines
         /\ flowCount \in 0 .. Len(asked.lines) /\ Started \in Nat /\ Started <= Len(asked.lines)
         /\ used \subseteq Blocks /\ process \in {"run", "exited", "aborted"}
         /\ wire \in Seq(Nat) /\ Len(wire) \in Nat
         /\ manager = [next |-> manager.next, socket |-> manager.socket, seen |-> manager.seen]
         /\ manager.next \in 1 .. Len(asked.lines) + 1
         /\ managerMode => Started + Len(wire) = manager.next - 1
         /\ main \in {"start", "taking", "counting", "freeing"}
  BY LineTypes DEF CommandsInv, CommandTypes, LinesKept, Started

\* ReportErrorAndExit.
LEMMA Aborted ==
  ASSUME CommandsInv, Abort PROVE CommandsInv'
<1>1. /\ UNCHANGED <<asked, main, flowCount, parser, flow, variable, buffer, used, wire, manager>>
      /\ process' = "aborted"
  BY DEF Abort, parserVars, bufferVars, managerVars
<1>2. Started' = Started /\ BlocksKept'
  BY <1>1 DEF Started, CommandsInv, BlocksKept, managerMode, Lines
<1> QED
  BY <1>1, <1>2, MainTypes, MainMoves

LEMMA GlobalOptionsRead ==
  ASSUME CommandsInv, GlobalOptions PROVE CommandsInv'
<1>1. CASE Abort
  BY <1>1, Aborted
<1>2. CASE ~Abort
  <2>1. /\ UNCHANGED <<asked, process, flowCount, parser, flow, variable, buffer, used, wire, manager>>
        /\ main = "start" /\ main' = "taking"
    BY <1>2 DEF GlobalOptions, bufferVars, managerVars
  <2>2. Started' = Started /\ BlocksKept'
    BY <2>1 DEF Started, CommandsInv, BlocksKept, managerMode, Lines
  <2> QED
    BY <2>1, <2>2, MainTypes, MainMoves
<1> QED
  BY <1>1, <1>2

LEMMA FlowCounted ==
  ASSUME CommandsInv, CountFlow PROVE CommandsInv'
<1>1. /\ UNCHANGED <<asked, process, parser, flow, variable, buffer, used, wire, manager>>
      /\ main = "counting" /\ main' = (IF managerMode THEN "freeing" ELSE "taking")
      /\ flowCount' = flowCount + 1
  BY DEF CountFlow, parserVars, bufferVars, managerVars
<1>2. Started = flowCount + 1 /\ Started' = Started
  BY <1>1, MainTypes DEF Started
<1>3. BlocksKept'
  BY <1>1 DEF CommandsInv, BlocksKept, managerMode, Lines
<1> QED
  BY <1>1, <1>2, <1>3, MainTypes, MainMoves

LEMMA FlowsJoined ==
  ASSUME CommandsInv, JoinFlows PROVE CommandsInv'
<1>1. /\ UNCHANGED <<asked, process, flowCount, parser, flow, variable, buffer, used, wire, manager>>
      /\ main = "taking" /\ main' = "freeing" /\ \A i \in Lines : parser[i].pc \in {"ended", "gone"}
  BY DEF JoinFlows, parserVars, bufferVars, managerVars
<1>2. Started' = Started /\ BlocksKept'
  BY <1>1 DEF Started, BlocksKept, managerMode, Lines
<1> QED
  BY <1>1, <1>2, MainTypes, MainMoves

\* free() of payloads, in a script after the flows have ended.
LEMMA PayloadsFreed ==
  ASSUME CommandsInv, FreeAll \/ FreeUnshared PROVE CommandsInv'
<1>1. /\ UNCHANGED <<asked, flowCount, parser, flow, variable, buffer, wire, manager>>
      /\ used' \subseteq used /\ main = "freeing" /\ process' \in {"run", "exited", "aborted"}
      /\ \/ main' = main
         \/ managerMode /\ main' = "taking"
  BY DEF FreeAll, FreeUnshared, Free, parserVars, managerVars
<1>2. Started' = Started
  BY <1>1 DEF Started
<1>3. BlocksKept'
  BY <1>1 DEF CommandsInv, BlocksKept, managerMode, Lines
<1>4. used' \subseteq Blocks /\ main' \in {"start", "taking", "counting", "freeing"}
  BY <1>1, MainTypes
<1> QED
  BY <1>1, <1>2, <1>3, <1>4, MainTypes, MainMoves

LEMMA CommandSent ==
  ASSUME CommandsInv, SendCommand PROVE CommandsInv'
<1>1. /\ UNCHANGED <<asked, process, main, flowCount, parser, flow, variable, buffer, used>>
      /\ managerMode /\ manager.next <= Len(asked.lines) /\ wire' = Append(wire, manager.next)
      /\ manager' = [manager EXCEPT !.next = @ + 1, !.socket = manager.next]
  BY DEF SendCommand, programVars, parserVars, bufferVars
<1>2. Started' = Started /\ BlocksKept'
  BY <1>1 DEF Started, CommandsInv, BlocksKept, managerMode, Lines
<1>3. wire' \in Seq(Nat) /\ Len(wire') = Len(wire) + 1
  <2>1. manager.next \in Nat /\ wire \in Seq(Nat)
    BY MainTypes
  <2>2. PICK n \in Nat : n = manager.next
    BY <2>1
  <2> QED
    BY <1>1, <2>1, <2>2
<1>5. /\ manager' = [next |-> manager'.next, socket |-> manager'.socket, seen |-> manager'.seen]
      /\ manager'.next = manager.next + 1
  <2>1. PICK m : m = manager
    OBVIOUS
  <2>2. m = [next |-> m.next, socket |-> m.socket, seen |-> m.seen]
    BY <2>1, MainTypes
  <2>3. manager' = [next |-> m.next + 1, socket |-> m.next, seen |-> m.seen]
    BY <1>1, <2>1, <2>2
  <2> QED
    BY <2>1, <2>3
<1>4. /\ manager'.next \in 1 .. Len(asked.lines) + 1
      /\ Started + Len(wire') = manager'.next - 1
  <2>1. PICK n \in Nat, w \in Nat, l \in Nat, k \in Nat :
          n = manager.next /\ w = Len(wire) /\ l = Len(asked.lines) /\ k = Started
    <3>1. /\ manager.next \in Nat /\ Len(wire) \in Nat
          /\ Len(asked.lines) \in Nat /\ Started \in Nat
      BY MainTypes
    <3> QED
      BY <3>1
  <2>2. n \in 1 .. l + 1 /\ n <= l /\ k + w = n - 1
    BY <1>1, <2>1, MainTypes
  <2>3. n + 1 \in 1 .. l + 1 /\ k + (w + 1) = (n + 1) - 1
    BY <2>2
  <2> QED
    BY <1>3, <1>5, <2>1, <2>3
<1> QED
  BY <1>1, <1>2, <1>3, <1>4, <1>5, MainTypes, MainMoves

LEMMA ReportRead ==
  ASSUME CommandsInv, ReadReport PROVE CommandsInv'
<1>1. /\ UNCHANGED <<asked, process, main, flowCount, parser, flow, variable, buffer, used, wire>>
      /\ manager' = [manager EXCEPT !.seen = @ \cup {Head(reports[manager.socket])}]
  BY DEF ReadReport, programVars, parserVars, bufferVars
<1>2. Started' = Started /\ BlocksKept'
  BY <1>1 DEF Started, CommandsInv, BlocksKept, managerMode, Lines
<1>3. /\ manager' = [next |-> manager'.next, socket |-> manager'.socket, seen |-> manager'.seen]
      /\ manager'.next = manager.next
  BY <1>1, MainTypes
<1> QED
  BY <1>1, <1>2, <1>3, MainTypes, MainMoves

\* Before its first option a line asks for nothing.
LEMMA LineBegun ==
  ASSUME asked \in Cases, NEW j \in Lines, NEW p, p.pc = "parsing", p.next = 1,
         NEW f, f = Default(Local, DefaultDuration)
  PROVE  LineKept(j, p, f) /\ FlowOK(f)
<1>1. DOMAIN Line(j) = 1 .. Len(Line(j)) /\ Len(Line(j)) \in Nat
  BY LineTypes
<1>2. \A opt : ~Before(j, 1, opt)
  BY <1>1 DEF Before
<1>3. \A s : LawsBefore(j, 1, s) = {}
  BY <1>1 DEF LawsBefore, LawOptions
<1>4. /\ f.log = "standard" /\ f.min = StandardMinPayloadSize /\ f.meter = "owdm"
      /\ FlowOK(f)
  <2>1. Law("Constant", <<>>, <<1>>).kind = "Constant"
    BY DEF Law
  <2>2. DefaultDuration \in Nat \ {0} /\ StandardMinPayloadSize \in Nat \ {0} /\ "Constant" \in LawKinds
    BY CommandsAssumption DEF StandardMinPayloadSize, LawKinds
  <2> QED
    BY <2>1, <2>2 DEF Default, FlowOK, FlowFields
<1>5. HeaderKept(j, 1, f)
  <2>1. Fits(f, Before(j, 1, "-p"), Before(j, 1, "-T"))
    BY <1>2, <1>4 DEF Fits, StandardMinPayloadSize
  <2> QED
    BY <2>1 DEF HeaderKept
<1>6. LawsKept(j, 1, f)
  BY <1>3 DEF LawsKept
<1> QED
  BY <1>4, <1>5, <1>6 DEF LineKept

\* The next line, or the next command, gets a parser.
LEMMA ParserCreated ==
  ASSUME CommandsInv, UNCHANGED <<asked, process, flowCount, flow, variable, buffer, used, manager>>,
         main = "taking", main' = "counting", flowCount + 1 <= Len(asked.lines),
         parser' = [parser EXCEPT ![flowCount + 1] = [pc |-> "parsing", next |-> 1]],
         wire' \in Seq(Nat), managerMode => Len(wire') + 1 = Len(wire)
  PROVE  CommandsInv'
<1>1. PICK j \in Nat : j = flowCount + 1
  BY MainTypes
<1>2. j \in Lines /\ j \in Ids /\ j > Started /\ Started' = j /\ Started = flowCount
  BY <1>1, MainTypes, LineTypes DEF Started
<1>3. /\ parser[j] = [pc |-> "none", next |-> 1] /\ flow[j] = Default(Local, DefaultDuration)
      /\ buffer[j] = NoBuffer
  BY <1>2 DEF CommandsInv, LinesKept
<1>4. PICK p : p = [pc |-> "parsing", next |-> 1]
  OBVIOUS
<1>5. /\ p \in [pc : ParserPCs, next : Nat \ {0}] /\ p.pc = "parsing" /\ p.next = 1
  BY <1>4 DEF ParserPCs
<1>6. \A k \in Ids : parser'[k] = IF k = j THEN p ELSE parser[k]
  BY <1>1, <1>2, <1>4 DEF CommandsInv, CommandTypes
<1>7. CommandTypes'
  <2>1. parser' \in [Ids -> [pc : ParserPCs, next : Nat \ {0}]]
    BY <1>1, <1>2, <1>4, <1>5 DEF CommandsInv, CommandTypes
  <2> QED
    BY <2>1 DEF CommandsInv, CommandTypes, FlowOK
<1>8. LinesKept'
  <2>1. \A k \in Ids : k > j => k # j /\ k > Started
    BY <1>1, <1>2, MainTypes DEF Ids
  <2>2. managerMode => Started' + Len(wire') = manager'.next - 1
    <3> SUFFICES ASSUME managerMode PROVE Started' + Len(wire') = manager'.next - 1
      OBVIOUS
    <3>1. PICK m \in Nat, w \in Nat, v \in Nat : m = manager.next /\ w = Len(wire) /\ v = Len(wire')
      <4>1. manager.next \in Nat /\ Len(wire) \in Nat
        BY MainTypes
      <4>2. Len(wire') \in Nat
        OBVIOUS
      <4> QED
        BY <4>1, <4>2
    <3>2. manager'.next = m
      BY <3>1
    <3>3. flowCount + w = m - 1 /\ v + 1 = w /\ flowCount \in Nat
      BY <1>2, <3>1, MainTypes
    <3>4. j + v = m - 1
      BY <1>1, <3>3
    <3> QED
      BY <1>2, <3>1, <3>2, <3>4
  <2>3. managerMode' = managerMode
    BY DEF managerMode
  <2> QED
    BY <1>1, <1>2, <1>6, <2>1, <2>2, <2>3 DEF CommandsInv, LinesKept
<1>9. BuffersSized'
  BY <1>3, <1>5, <1>6 DEF CommandsInv, BuffersSized
<1>10. BlocksKept'
  BY DEF CommandsInv, BlocksKept, managerMode
<1>11. \A k \in Lines : LineKept(k, parser[k], flow[k])'
  <2> SUFFICES ASSUME NEW k \in Lines PROVE LineKept(k, parser[k], flow[k])'
    BY SameQuestions
  <2>1. PICK q, g : q = parser'[k] /\ g = flow'[k]
    OBVIOUS
  <2>2. k \in Ids /\ asked \in Cases
    BY MainTypes, LineTypes
  <2>3. LineKept(k, q, g)
    <3>1. CASE k = j
      BY <1>2, <1>3, <1>5, <1>6, <2>1, <2>2, <3>1, LineBegun
    <3>2. CASE k # j
      BY <1>6, <2>1, <2>2, <3>2 DEF CommandsInv
    <3> QED
      BY <3>1, <3>2
  <2>4. ASSUME q.pc = "creating" PROVE PointerKept(k, Line(k)[q.next])'
    <3>1. q = parser[k]
      BY <1>5, <1>6, <2>1, <2>2, <2>4
    <3>2. PICK o : o = Line(k)[q.next]
      OBVIOUS
    <3>3. Line(k)' = Line(k)
      BY SameQuestions
    <3> QED
      BY <2>3, <2>4, <3>2, <3>3, SamePointer DEF LineKept
  <2>5. LineKept(k, q, g)'
    BY <2>3, <2>4, SameLine
  <2> QED
    BY <2>1, <2>5
<1>12. Lines' = Lines
  BY SameQuestions
<1> QED
  BY <1>7, <1>8, <1>9, <1>10, <1>11, <1>12 DEF CommandsInv

LEMMA LineTaken ==
  ASSUME CommandsInv, TakeLine PROVE CommandsInv'
<1>1. /\ UNCHANGED <<asked, process, flowCount, flow, variable, buffer, used, wire, manager>>
      /\ main = "taking" /\ main' = "counting" /\ ~managerMode /\ flowCount < Len(asked.lines)
      /\ parser' = [parser EXCEPT ![flowCount + 1] = [pc |-> "parsing", next |-> 1]]
  BY DEF TakeLine, CreateParser, bufferVars, managerVars
<1>2. flowCount + 1 <= Len(asked.lines) /\ wire' \in Seq(Nat)
  BY <1>1, MainTypes
<1> QED
  BY <1>1, <1>2, ParserCreated

LEMMA CommandTaken ==
  ASSUME CommandsInv, TakeCommand PROVE CommandsInv'
<1>1. /\ UNCHANGED <<asked, process, flowCount, flow, variable, buffer, used, manager>>
      /\ main = "taking" /\ main' = "counting" /\ managerMode
      /\ wire # <<>> /\ wire' = Tail(wire)
      /\ parser' = [parser EXCEPT ![flowCount + 1] = [pc |-> "parsing", next |-> 1]]
  BY DEF TakeCommand, CreateParser, bufferVars
<1>2. wire' \in Seq(Nat) /\ Len(wire') + 1 = Len(wire) /\ Len(wire) > 0
  BY <1>1, MainTypes
<1>3. flowCount + 1 <= Len(asked.lines)
  BY <1>1, <1>2, MainTypes DEF Started
<1> QED
  BY <1>1, <1>2, <1>3, ParserCreated

\* No thread does anything.
LEMMA NobodyMoves ==
  ASSUME CommandsInv, UNCHANGED vars PROVE CommandsInv'
<1>1. UNCHANGED <<asked, process, main, flowCount, parser, flow, variable, buffer, used, wire, manager>>
  BY DEF vars, programVars, parserVars, bufferVars, managerVars
<1>2. Started' = Started /\ BlocksKept'
  BY <1>1 DEF Started, CommandsInv, BlocksKept, managerMode, Lines
<1> QED
  BY <1>1, <1>2, MainTypes, MainMoves
-----------------------------------------------------------------------------
(* The invariant. *)

LEMMA InitCommandsInv == Init => CommandsInv
<1> SUFFICES ASSUME Init PROVE CommandsInv
  OBVIOUS
<1>1. asked \in Cases
  BY DEF Init
<1>2. /\ MaxLines \in Nat /\ Len(asked.lines) \in 0 .. MaxLines /\ Lines = 1 .. Len(asked.lines)
      /\ Lines \subseteq Ids
  BY <1>1, LineTypes
<1>3. Started = 0
  BY DEF Init, Started
<1>4. FlowOK(Default(Local, DefaultDuration))
  <2>1. Law("Constant", <<>>, <<1>>).kind = "Constant"
    BY DEF Law
  <2>2. DefaultDuration \in Nat \ {0} /\ StandardMinPayloadSize \in Nat \ {0} /\ "Constant" \in LawKinds
    BY CommandsAssumption DEF StandardMinPayloadSize, LawKinds
  <2> QED
    BY <2>1, <2>2 DEF Default, FlowOK, FlowFields
<1>5. CommandTypes
  <2>1. parser \in [Ids -> [pc : ParserPCs, next : Nat \ {0}]]
    BY DEF Init, ParserPCs
  <2>2. buffer \in [Ids -> [dim : BOOLEAN, ptr : Blocks \cup {0}]]
    BY DEF Init, NoBuffer
  <2>3. flow = [i \in Ids |-> flow[i]] /\ \A i \in Ids : FlowOK(flow[i])
    BY <1>4 DEF Init
  <2> QED
    BY <1>2, <2>1, <2>2, <2>3 DEF Init, CommandTypes
<1>6. LinesKept
  BY <1>2, <1>3 DEF Init, LinesKept
<1>7. BuffersSized /\ BlocksKept
  BY DEF Init, BuffersSized, BlocksKept, NoBuffer
<1>8. \A k \in Lines : LineKept(k, parser[k], flow[k])
  <2> SUFFICES ASSUME NEW k \in Lines PROVE LineKept(k, parser[k], flow[k])
    OBVIOUS
  <2>1. PICK p : p = [pc |-> "parsing", next |-> 1]
    OBVIOUS
  <2>2. LineKept(k, p, flow[k])
    BY <1>1, <1>2, <2>1, LineBegun DEF Init
  <2>3. parser[k].pc = "none" /\ parser[k].next = 1
    BY <1>2 DEF Init
  <2> QED
    BY <2>1, <2>2, <2>3 DEF LineKept
<1> QED
  BY <1>5, <1>6, <1>7, <1>8 DEF CommandsInv

LEMMA NextKeepsCommandsInv ==
  ASSUME CommandsInv, [Next]_vars PROVE CommandsInv'
<1>1. CASE Main
  BY <1>1, GlobalOptionsRead, LineTaken, FlowCounted, FlowsJoined, PayloadsFreed, CommandTaken
  DEF Main
<1>2. CASE Manager
  BY <1>2, CommandSent, ReportRead DEF Manager
<1>3. ASSUME NEW i \in Ids, Parser(i) PROVE CommandsInv'
  <2>1. CASE NoNewline(i) \/ BadOption(i)
    BY <2>1, Aborted DEF NoNewline, BadOption
  <2>2. CASE ReadOption(i)
    BY <2>2, OptionRead
  <2>3. CASE ReadLogOption(i)
    BY <2>3, LogOptionRead
  <2>4. CASE CreateVariable(i)
    BY <2>4, VariableCreated
  <2>5. CASE UseVariable(i)
    BY <2>5, VariableUsed
  <2>6. CASE FindPayload(i)
    BY <2>6, PayloadFound
  <2>7. CASE SizePayload(i)
    <3>1. Abort \/ process' = process
      BY <2>7 DEF SizePayload, programVars
    <3> QED
      BY <2>7, <3>1, Aborted, PayloadSized
  <2>8. CASE LoadPayload(i)
    BY <2>8, PayloadLoaded
  <2>9. CASE FinishLine(i)
    <3>1. Abort \/ process' = process
      BY <2>9 DEF FinishLine, programVars
    <3> QED
      BY <2>9, <3>1, Aborted, LineFinished
  <2>10. CASE HandOver(i)
    BY <2>10, FlowHandedOver
  <2>11. CASE FlowEnds(i)
    BY <2>11, FlowEnded
  <2>12. CASE ReportEnd(i)
    BY <2>12, EndReported
  <2> QED
    BY <1>3, <2>1, <2>2, <2>3, <2>4, <2>5, <2>6, <2>7, <2>8, <2>9, <2>10, <2>11, <2>12 DEF Parser
<1>4. CASE UNCHANGED vars
  BY <1>4, NobodyMoves
<1> QED
  BY <1>1, <1>2, <1>3, <1>4 DEF Next
-----------------------------------------------------------------------------
(* The theorems. *)

\* A parser, a flow and a payload buffer are in the states that flowParser, the flow's thread
\* and the clean-up of main give them, and lines are read in their order (modeScript,
\* modeManager, flowParser).
THEOREM CommandsInvariant == Spec => []CommandsInv
<1>1. CommandsInv /\ [Next]_vars => CommandsInv'
  BY NextKeepsCommandsInv
<1> QED
  BY <1>1, InitCommandsInv, PTL DEF Spec

\* The state of a run has its types: no flow has a negative limit or a duration of 0 after
\* flowParser, and a payload never has a block without a size.
THEOREM CommandsTypes == Spec => []CommandsTypeOK
<1>1. CommandsInv => CommandsTypeOK
  <2> SUFFICES ASSUME CommandsInv PROVE CommandsTypeOK
    OBVIOUS
  <2>1. ASSUME NEW i \in Ids
        PROVE  /\ parser[i].pc \in ParserPCs
               /\ buffer[i].ptr \in Blocks \cup {0}
               /\ buffer[i].ptr # 0 => buffer[i].dim
    BY DEF CommandsInv, CommandTypes, BuffersSized
  <2> QED
    BY <2>1 DEF CommandsInv, CommandTypes, CommandsTypeOK, FlowOK
<1> QED
  BY <1>1, CommandsInvariant, PTL

\* Whatever the order of -p, -m and -T, once a line is accepted no packet of its flow is
\* shorter than the header, and a round-trip-time meter has the standard header (flowParser).
THEOREM HeadersAlwaysFit == Spec => []HeadersFit
<1>1. CommandsInv => HeadersFit
  <2> SUFFICES ASSUME CommandsInv,
                      NEW i \in Lines, parser[i].pc \in {"checked", "running"},
                      Count(i, "-p") <= 1, Count(i, "-T") <= 1
               PROVE  /\ flow[i].min >= Header(flow[i].log)
                      /\ flow[i].meter = "rttm" => flow[i].log = "standard"
    BY DEF HeadersFit
  <2>1. HeaderKept(i, parser[i].next, flow[i])
    BY DEF CommandsInv, LineKept
  <2>2. PICK p, t : Fits(flow[i], p, t)
    BY <2>1 DEF HeaderKept
  <2>3. /\ Header("standard") = 4 /\ StandardMinPayloadSize = 4
        /\ Header("short") = 2 /\ Header("none") = 1
    BY DEF Header, StandardMinPayloadSize, ShortMinPayloadSize, NoneMinPayloadSize
  <2> QED
    BY <2>2, <2>3 DEF Fits
<1> QED
  BY <1>1, CommandsInvariant, PTL

\* The random variables of an accepted flow are those its line asks for last, whatever other
\* parsers have done to the pointers meanwhile, unless one asks for the same kind with another
\* shape (the *RV pointers of flowParser).
THEOREM ShapesAlwaysOwn == Spec => []ShapesOwn
<1>1. CommandsInv => ShapesOwn
  <2> SUFFICES ASSUME CommandsInv,
                      NEW i \in Lines, NEW s \in {"idt", "on", "off"},
                      parser[i].pc \in {"checked", "running"}, LawOptions(i, s) # {},
                      Count(i, "-Si") = 0,
                      NEW c, c = Created(Line(i)[Max(LawOptions(i, s))]), ~Rival(i, c)
               PROVE  flow[i].law[s].kind = c.kind /\ flow[i].law[s].shape = c.shape
    BY DEF ShapesOwn
  <2>1. LineKept(i, parser[i], flow[i])
    BY DEF CommandsInv
  <2>2. parser[i].next > Len(Line(i)) /\ parser[i].next \in Nat
    <3>1. i \in Ids
      BY LineTypes, MainTypes
    <3> QED
      BY <2>1, <3>1 DEF LineKept, CommandsInv, CommandTypes
  <2>3. DOMAIN Line(i) = 1 .. Len(Line(i)) /\ Len(Line(i)) \in Nat
    BY LineTypes, MainTypes
  <2>4. LawsBefore(i, parser[i].next, s) = LawOptions(i, s)
    BY <2>2, <2>3 DEF LawsBefore, LawOptions
  <2> QED
    BY <2>1, <2>4 DEF LineKept, LawsKept
<1> QED
  BY <1>1, CommandsInvariant, PTL

\* In a script no running flow has had its payload freed, be it its own or that of an earlier
\* flow (modeScript frees after joinThread).
THEOREM PayloadsAlwaysKept == Spec => []PayloadKept
<1>1. CommandsInv => PayloadKept
  <2> SUFFICES ASSUME CommandsInv, ~managerMode,
                      NEW i \in Lines, parser[i].pc = "running", buffer[i].ptr # 0
               PROVE  buffer[i].ptr \in used
    BY DEF PayloadKept
  <2>1. i \in Ids
    BY LineTypes, MainTypes
  <2> QED
    BY <2>1 DEF CommandsInv, BlocksKept
<1> QED
  BY <1>1, CommandsInvariant, PTL
=============================================================================
