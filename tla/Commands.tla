------------------------------ MODULE Commands ------------------------------
(***************************************************************************)
(* How ITGSend is told what to do: one flow on its command line, a script  *)
(* with a flow per line, or commands sent by ITGManager (libITG).  A       *)
(* thread per flow reads the options of its line and hands the flow over   *)
(* to the signalling.  The threads share the pointers to random variables, *)
(* passive mode and the payloads read from files, and an error in a line   *)
(* ends the whole program.                                                 *)
(***************************************************************************)
EXTENDS Options, SequencesExt, FiniteSetsExt

CONSTANTS
  Cases,      \* the mode, the options and the lines that ITGSend is started with, the hosts
              \* that cannot be reached, and whether the manager waits for its flows to end
  MaxLines,   \* bound of the number of lines
  Local,      \* DefaultDestIP
  DefaultDuration,
  Multiport   \* compiled with "multiport=on"

\* What the arguments of an option are read as: numbers (strtol), the floor of a time greater
\* than 0 from a file, a known law or application.
Readable(o) ==
  /\ o.opt \in {"-t", "-z", "-k", "-d", "-f", "-b", "-j"} => o.n \in Int
  /\ o.opt = "-Ft" /\ o.valid => o.first \in Nat
  /\ o.opt = "law" => o.slot \in Slots /\ o.kind \in LawKinds
  /\ o.opt = "app" => o.app \in DOMAIN ApplicationIdt

\* A command line is one line, and lines and options are sequences.
ASSUME CommandsAssumption ==
  /\ MaxLines \in Nat /\ Multiport \in BOOLEAN /\ DefaultDuration \in Nat \ {0}
  /\ \A c \in Cases :
       /\ Len(c.lines) \in 0 .. MaxLines /\ DOMAIN c.lines = 1 .. Len(c.lines)
       /\ c.mode = "line" => Len(c.lines) = 1
       /\ \A i \in DOMAIN c.lines :
            LET opts == c.lines[i].opts
            IN /\ Len(opts) \in Nat /\ DOMAIN opts = 1 .. Len(opts)
               /\ \A j \in DOMAIN opts : Readable(opts[j])

VARIABLES
  asked,      \* the case at hand
  process,    \* "run", "exited", "aborted"
  main,       \* where main is
  flowCount,
  parser,     \* parser[i]: where flowParser of line i is, and its next option
  flow,       \* flow[i]: flows[i]
  variable,   \* variable[k]: the shape of what the pointer to random variables of kind k points to
  passive,    \* passiveMode
  logs,       \* logging, logremoto, namelogReceiver, logServer
  buffer,     \* buffer[i]: dimPayloadBuffer # 0, and ptrPayloadBuffer (0: NULL)
  used,       \* blocks of memory allocated for payloads
  wire,       \* commands on their way to ITGSend, by the sockets they were sent from
  manager,    \* ITGManager: its next command, socket_r, what it has read
  managerIP,  \* ManagerIP: the socket that the last command came from
  reports     \* reports[s]: reports waiting at socket s of the manager

programVars == <<process, main, flowCount>>
parserVars  == <<parser, flow, variable, passive, logs>>
bufferVars  == <<buffer, used>>
managerVars == <<wire, manager, managerIP, reports>>
vars        == <<asked, programVars, parserVars, bufferVars, managerVars>>

Ids        == 1 .. MaxLines
Blocks     == 1 .. MaxLines
Lines      == DOMAIN asked.lines
Line(i)    == asked.lines[i].opts
managerMode == asked.mode = "manager"
multiFlows  == asked.mode # "line"

ParserPCs == {"none", "parsing", "creating", "sizing", "loading", "checked", "running", "reporting",
              "ended", "gone"}
NoBuffer == [dim |-> FALSE, ptr |-> 0]

CommandsTypeOK ==
  /\ asked \in Cases
  /\ process \in {"run", "exited", "aborted"}
  /\ main \in {"start", "taking", "counting", "freeing"}
  /\ flowCount \in 0 .. Len(asked.lines)
  /\ \A i \in Ids :
       /\ parser[i].pc \in ParserPCs
       /\ flow[i].packets \in Nat /\ flow[i].kbytes \in Nat /\ flow[i].duration \in Nat \ {0}
       /\ flow[i].delay \in Nat /\ flow[i].min \in Nat \ {0}
       /\ \A s \in Slots : flow[i].law[s].kind \in LawKinds \cup {"Discrete", "Mixed"}
       /\ buffer[i].ptr \in Blocks \cup {0}
       /\ buffer[i].ptr # 0 => buffer[i].dim
  /\ used \subseteq Blocks

Init ==
  /\ asked \in Cases
  /\ process = "run" /\ main = "start" /\ flowCount = 0
  /\ parser = [i \in Ids |-> [pc |-> "none", next |-> 1]]
  /\ flow = [i \in Ids |-> Default(Local, DefaultDuration)]
  /\ variable = [k \in LawKinds |-> <<>>]
  /\ passive = FALSE /\ logs = NoLogs
  /\ buffer = [i \in Ids |-> NoBuffer] /\ used = {}
  /\ wire = <<>> /\ managerIP = 0
  /\ manager = [next |-> 1, socket |-> 0, seen |-> {}]
  /\ reports = [s \in Ids |-> <<>>]
-----------------------------------------------------------------------------
(* main *)

\* ReportErrorAndExit, and exit(1) elsewhere: all the flows end.
Abort == process' = "aborted" /\ UNCHANGED <<asked, main, flowCount, parserVars, bufferVars, managerVars>>

\* The options for all flows: logs only.
GlobalOptions ==
  /\ process = "run" /\ main = "start"
  /\ IF \A i \in DOMAIN asked.options : LogAccepted(asked.options[i], FALSE)
     THEN /\ logs' = FoldLeft(SetLogs, logs, asked.options)
          /\ main' = "taking"
          /\ UNCHANGED <<asked, process, flowCount, parser, flow, variable, passive, bufferVars, managerVars>>
     ELSE Abort

CreateParser(i) ==
  /\ parser' = [parser EXCEPT ![i] = [pc |-> "parsing", next |-> 1]]
  /\ UNCHANGED <<flow, variable, passive, logs>>

\* The next line of the script, or the command line, which is a script of one line.
TakeLine ==
  /\ process = "run" /\ main = "taking" /\ ~managerMode /\ flowCount < Len(asked.lines)
  /\ CreateParser(flowCount + 1)
  /\ main' = "counting"
  /\ UNCHANGED <<asked, process, flowCount, bufferVars, managerVars>>

CountFlow ==
  /\ process = "run" /\ main = "counting"
  /\ flowCount' = flowCount + 1
  /\ main' = IF managerMode THEN "freeing" ELSE "taking"
  /\ UNCHANGED <<asked, process, parserVars, bufferVars, managerVars>>

\* Mutant: the flows are not waited for.
JoinNobody ==
  /\ process = "run" /\ main = "taking" /\ ~managerMode /\ flowCount = Len(asked.lines)
  /\ main' = "freeing"
  /\ UNCHANGED <<asked, process, flowCount, parserVars, bufferVars, managerVars>>

\* joinThread, when the script has no more lines.
JoinFlows ==
  /\ process = "run" /\ main = "taking" /\ ~managerMode /\ flowCount = Len(asked.lines)
  /\ \A i \in Lines : parser[i].pc \in {"ended", "gone"}
  /\ main' = "freeing"
  /\ UNCHANGED <<asked, process, flowCount, parserVars, bufferVars, managerVars>>

\* free() of the payload of each flow of S; a block that is freed twice may end the program.
Free(S, next) ==
  /\ used' = used \ {buffer[i].ptr : i \in S}
  /\ \/ process' = next
     \/ /\ \E i \in S : buffer[i].ptr \notin used \/ \E j \in S \ {i} : buffer[j].ptr = buffer[i].ptr
        /\ process' = "aborted"
  /\ UNCHANGED <<asked, flowCount, parserVars, buffer, managerVars>>
Loaded == {i \in 1 .. flowCount : multiFlows /\ buffer[i].ptr # 0}

\* At the end of a script the payloads that no sender has forgotten are freed, and ITGSend
\* exits.
FreeAll ==
  /\ process = "run" /\ main = "freeing" /\ ~managerMode
  /\ Free(Loaded, "exited")
  /\ UNCHANGED main

\* After each command of a manager, those that only one flow has - though it may be sending,
\* and may have had its payload freed before.
Unshared == {i \in Loaded : \A j \in Loaded \ {i} : buffer[j].ptr # buffer[i].ptr}
FreeUnshared ==
  /\ process = "run" /\ main = "freeing" /\ managerMode
  /\ Free(Unshared, "run")
  /\ main' = "taking"
-----------------------------------------------------------------------------
(* flowParser *)

At(i, pc) == process = "run" /\ parser[i].pc = pc
Go(i, pc) == parser' = [parser EXCEPT ![i].pc = pc]
Option(i) == Line(i)[parser[i].next]
HasOption(i) == At(i, "parsing") /\ asked.lines[i].newline /\ parser[i].next <= Len(Line(i))
OptionDone(i, n) == parser' = [parser EXCEPT ![i] = [pc |-> "parsing", next |-> @.next + n]]

\* A line has to end with a newline.
NoNewline(i) == At(i, "parsing") /\ ~asked.lines[i].newline /\ Abort

ReadOption(i) ==
  /\ HasOption(i)
  /\ Accepted(flow[i], Option(i))
  /\ flow' = [flow EXCEPT ![i] = Applied(@, Option(i))]
  /\ passive' = (passive \/ Option(i).opt = "-H")
  /\ OptionDone(i, Skipped(Option(i)))
  /\ UNCHANGED <<asked, programVars, variable, logs, bufferVars, managerVars>>

ReadLogOption(i) ==
  /\ HasOption(i) /\ LogAccepted(Option(i), multiFlows)
  /\ logs' = SetLogs(logs, Option(i))
  /\ OptionDone(i, 1)
  /\ UNCHANGED <<asked, programVars, flow, variable, passive, bufferVars, managerVars>>

\* A random variable is created, and then used.
IsLaw(i) == LawAccepted(Option(i)) \/ ApplicationAccepted(Line(i), parser[i].next)
CreateVariable(i) ==
  /\ HasOption(i) /\ IsLaw(i)
  /\ variable' = [variable EXCEPT ![Created(Option(i)).kind] = Created(Option(i)).shape]
  /\ Go(i, "creating")
  /\ UNCHANGED <<asked, programVars, flow, passive, logs, bufferVars, managerVars>>

\* Mutant: a pointer of another kind, as after a copy of the code for it.
PointerCopied(kind) == IF kind = "Gamma" THEN "Pareto" ELSE kind

\* The pointer to variables of a kind.
Pointer(kind) == kind
UseVariable(i) ==
  /\ At(i, "creating")
  /\ flow' = [flow EXCEPT ![i] = SetLaw(@, Option(i), variable[Pointer(Created(Option(i)).kind)])]
  /\ OptionDone(i, 1)
  /\ UNCHANGED <<asked, programVars, variable, passive, logs, bufferVars, managerVars>>

\* -Fp: the payload of the last flow that has one, if it is from another file; or, in two
\* steps, one of its own.
IsPayload(i) == HasOption(i) /\ Option(i).opt = "-Fp"
Sharable(i) ==
  {j \in 1 .. flowCount - 1 : multiFlows /\ buffer[j].dim /\ flow[j].payload # Option(i).file /\ j # i}
FindPayload(i) ==
  /\ IsPayload(i)
  /\ flow' = [flow EXCEPT ![i].payload = Option(i).file]
  /\ IF Sharable(i) # {} THEN buffer' = [buffer EXCEPT ![i] = buffer[Max(Sharable(i))]] ELSE UNCHANGED buffer
  /\ IF buffer'[i].dim THEN OptionDone(i, 1) ELSE Go(i, "sizing")
  /\ UNCHANGED <<asked, programVars, variable, passive, logs, used, managerVars>>
SizePayload(i) ==
  /\ At(i, "sizing")
  /\ IF Option(i).valid
     THEN /\ buffer' = [buffer EXCEPT ![i].dim = TRUE]
          /\ Go(i, "loading")
          /\ UNCHANGED <<asked, programVars, flow, variable, passive, logs, used, managerVars>>
     ELSE Abort
LoadPayload(i) ==
  /\ At(i, "loading")
  /\ \E b \in Blocks \ used : buffer' = [buffer EXCEPT ![i].ptr = b] /\ used' = used \cup {b}
  /\ OptionDone(i, 1)
  /\ UNCHANGED <<asked, programVars, flow, variable, passive, logs, managerVars>>

BadOption(i) ==
  /\ HasOption(i) /\ Option(i).opt # "-Fp"
  /\ ~Accepted(flow[i], Option(i)) /\ ~LogAccepted(Option(i), multiFlows) /\ ~IsLaw(i)
  /\ Abort

\* The end of the line: in passive mode the ports that are missing get their defaults.
FinishLine(i) ==
  /\ At(i, "parsing") /\ asked.lines[i].newline /\ parser[i].next > Len(Line(i))
  /\ IF Startable(flow[i], passive, multiFlows, Multiport)
     THEN /\ flow' = [flow EXCEPT ![i].srcPort = @ \/ passive, ![i].dstPort = @ \/ passive]
          /\ Go(i, "checked")
          /\ UNCHANGED <<asked, programVars, variable, passive, logs, bufferVars, managerVars>>
     ELSE Abort

\* A channel is found, in passive mode one that the receiver opens, and the manager of the
\* channel takes the flow over.  Or there is none, or it has refused the log.
Attached(f) == IF passive /\ ~f.dstAddr THEN [f EXCEPT !.dest = f.sigDest, !.dstAddr = TRUE] ELSE f
HandOver(i) ==
  /\ At(i, "checked")
  /\ flow' = [flow EXCEPT ![i] = Attached(@)]
  /\ \/ flow[i].sigDest \notin asked.unreachable /\ Go(i, "running")
     \/ (flow[i].sigDest \in asked.unreachable \/ logs.receiver) /\ Go(i, "gone")
  /\ UNCHANGED <<asked, programVars, variable, passive, logs, bufferVars, managerVars>>

\* The sender of a flow forgets the payload at its end; only a flow alone in the program
\* frees it.  A flow that the receiver has refused had no sender.
ForgetPayload(i) ==
  /\ buffer' = [buffer EXCEPT ![i] = NoBuffer]
  /\ used' = IF multiFlows THEN used ELSE used \ {buffer[i].ptr}

\* The verdict comes, and a manager is told the end of the flow.
FlowEnds(i) ==
  /\ At(i, "running")
  /\ Go(i, IF managerMode THEN "reporting" ELSE "ended")
  /\ ForgetPayload(i) \/ UNCHANGED bufferVars
  /\ UNCHANGED <<asked, programVars, flow, variable, passive, logs, managerVars>>
Report(kind, i, s) == reports' = [reports EXCEPT ![s] = Append(@, <<kind, i>>)]
ReportEnd(i) ==
  /\ At(i, "reporting")
  /\ Report("end", i, managerIP)
  /\ Go(i, "ended")
  /\ UNCHANGED <<asked, programVars, flow, variable, passive, logs, bufferVars, wire, manager, managerIP>>

Parser(i) ==
  \/ NoNewline(i) \/ ReadOption(i) \/ ReadLogOption(i) \/ CreateVariable(i) \/ UseVariable(i)
  \/ FindPayload(i) \/ SizePayload(i) \/ LoadPayload(i) \/ BadOption(i) \/ FinishLine(i)
  \/ HandOver(i) \/ FlowEnds(i) \/ ReportEnd(i)
-----------------------------------------------------------------------------
(* ITGManager, libITG, and modeManager *)

\* DITGsend: every command from a new socket, which is the only one that is read from then on.
SendCommand ==
  /\ managerMode /\ manager.next <= Len(asked.lines)
  /\ asked.careful => \A i \in 1 .. manager.next - 1 : <<"end", i>> \in manager.seen
  /\ wire' = Append(wire, manager.next)
  /\ manager' = [manager EXCEPT !.next = @ + 1, !.socket = manager.next]
  /\ UNCHANGED <<asked, programVars, parserVars, bufferVars, managerIP, reports>>

\* Mutant: the reports go to the manager that has sent the first command.
FirstManager(s) == IF managerIP = 0 THEN s ELSE managerIP

\* recvfrom: the address of the sender of the command replaces that of the last one.
NewManagerIP(s) == s
TakeCommand ==
  /\ process = "run" /\ main = "taking" /\ managerMode /\ wire # <<>>
  /\ wire' = Tail(wire)
  /\ managerIP' = NewManagerIP(Head(wire))
  /\ Report("start", flowCount + 1, managerIP')
  /\ CreateParser(flowCount + 1)
  /\ main' = "counting"
  /\ UNCHANGED <<asked, process, flowCount, bufferVars, manager>>

\* catchManagerMsg, every second.
ReadReport ==
  /\ manager.socket # 0 /\ reports[manager.socket] # <<>>
  /\ manager' = [manager EXCEPT !.seen = @ \cup {Head(reports[manager.socket])}]
  /\ reports' = [reports EXCEPT ![manager.socket] = Tail(@)]
  /\ UNCHANGED <<asked, programVars, parserVars, bufferVars, wire, managerIP>>

Main == GlobalOptions \/ TakeLine \/ CountFlow \/ JoinFlows \/ FreeAll \/ FreeUnshared \/ TakeCommand
Manager == SendCommand \/ ReadReport

Next == Main \/ Manager \/ \E i \in Ids : Parser(i)

Spec == Init /\ [][Next]_vars

\* As long as a thread can go on some thread does, and flows end.
FairSpec == Spec /\ WF_vars(Next)
-----------------------------------------------------------------------------
Count(i, opt) == Cardinality({j \in DOMAIN Line(i) : Line(i)[j].opt = opt})

(***************************************************************************)
(* However the options of a line are ordered, the packets of the flow are  *)
(* never shorter than the header they carry, and a flow with a round-trip- *)
(* time meter has the standard header that its echoes are read with (-p,   *)
(* -m and -T of flowParser, if -p and -T come at most once).               *)
(***************************************************************************)
HeadersFit ==
  \A i \in Lines :
    parser[i].pc \in {"checked", "running"} /\ Count(i, "-p") <= 1 /\ Count(i, "-T") <= 1 =>
      /\ flow[i].min >= Header(flow[i].log)
      /\ flow[i].meter = "rttm" => flow[i].log = "standard"

(***************************************************************************)
(* The random variables of a flow are those that the last options of its   *)
(* line ask for, although other parsers change the pointers they are       *)
(* created through at the same time, if no other line asks for the same    *)
(* kind with another shape (the global *RV pointers).                      *)
(***************************************************************************)
LawOptions(i, s) == {j \in DOMAIN Line(i) : Line(i)[j].opt \in {"law", "app"} /\ SlotOf(Line(i)[j]) = s}
Rival(i, c) ==
  \E k \in Lines \ {i}, s \in Slots : \E j \in LawOptions(k, s) :
    LET d == Created(Line(k)[j]) IN d.kind = c.kind /\ d.shape # c.shape
ShapesOwn ==
  \A i \in Lines, s \in {"idt", "on", "off"} :
    parser[i].pc \in {"checked", "running"} /\ LawOptions(i, s) # {} /\ Count(i, "-Si") = 0 =>
      LET c == Created(Line(i)[Max(LawOptions(i, s))])
      IN ~Rival(i, c) => flow[i].law[s].kind = c.kind /\ flow[i].law[s].shape = c.shape

(***************************************************************************)
(* In a script, the payload that a flow sends stays allocated for as long  *)
(* as the flow runs, shared or not (modeScript frees after joinThread).    *)
(***************************************************************************)
PayloadKept ==
  ~managerMode => \A i \in Lines : parser[i].pc = "running" /\ buffer[i].ptr # 0 => buffer[i].ptr \in used

(***************************************************************************)
(* A manager that waits for the end of a flow before its next command      *)
(* reads, for each command, that the flow has started and that it has      *)
(* ended, unless ITGSend has exited or could not reach the receiver        *)
(* (MNG_FLOWSTART, MNG_FLOWEND, ManagerIP).                                *)
(***************************************************************************)
CommandsAnswered ==
  managerMode /\ asked.careful =>
    <>(\/ process = "aborted"
       \/ \E i \in Lines : parser[i].pc = "gone"
       \/ \A i \in Lines : {<<"start", i>>, <<"end", i>>} \subseteq manager.seen)
=============================================================================
