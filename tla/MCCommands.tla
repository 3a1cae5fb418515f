----------------------------- MODULE MCCommands -----------------------------
(***************************************************************************)
(* Command lines with every option, and with those that depend on each     *)
(* other in every order; scripts whose parsers meet at the pointers to     *)
(* random variables and at the payloads; and commands of a manager.        *)
(***************************************************************************)
EXTENDS Commands

CONSTANTS here, h1, h2

Opt(name)      == [opt |-> name, resolves |-> TRUE]
Number(name, n) == [opt |-> name, n |-> n]
Log(log)       == [opt |-> "-p", log |-> log]
Meter(meter)   == [opt |-> "-m", meter |-> meter]
Proto(l4)      == [opt |-> "-T", l4 |-> l4]
To(name, host) == [opt |-> name, host |-> host, resolves |-> TRUE]
LawOf3(slot, kind, a, b) == [opt |-> "law", slot |-> slot, kind |-> kind, a |-> a, b |-> b]
App(app)       == [opt |-> "app", app |-> app, valid |-> TRUE]
Payload(file)  == [opt |-> "-Fp", file |-> file, valid |-> TRUE]

Ended(opts)  == [opts |-> opts, newline |-> TRUE]
Run(mode, lines) == [mode |-> mode, options |-> <<>>, lines |-> lines, unreachable |-> {}, careful |-> FALSE]
OneLine(opts) == Run("line", <<Ended(opts)>>)
Script(lines) == Run("script", [i \in DOMAIN lines |-> Ended(Append(lines[i], Opt("-rp")))])

\* Options that depend on each other: lines of three of them.
Mixed == {Log("standard"), Log("short"), Log("none"), Log("unknown"), Meter("rttm"), Meter("unknown"), Proto("TCP"), App("Telnet")}
Orders == {OneLine(<<a, b, c>>) : a, b, c \in Mixed}

\* The others: lines of one of them, after one that others depend on.
Others ==
  {Number("-t", 1), Number("-t", 0), Number("-z", 1), Number("-z", -1), Number("-k", 1), Number("-d", 0), Number("-f", 256),
   Number("-f", 0), Number("-b", 1), Number("-j", 0), Number("-Ssp", 1), Number("-Sdp", 0), To("-Sda", h2), To("-a", h1),
   [opt |-> "-s", percent |-> 50], Opt("-poll"), Opt("-sp"), Opt("-rp"), Opt("-rk"), Opt("-i"), Opt("-sa"), Opt("-Si"),
   Opt("-D"), Opt("-H"), Opt("-l"), Opt("-x"), Opt("-q"), Payload("a"), [Payload("b") EXCEPT !.valid = FALSE],
   [opt |-> "-Fs", valid |-> TRUE], [opt |-> "-Ft", valid |-> TRUE, first |-> 1], Proto("ICMP"), App("VoIP"),
   LawOf3("size", "Cauchy", 0, 1), LawOf3("size", "Gamma", 0, 1), LawOf3("size", "Poisson", 0, 0),
   LawOf3("on", "Weibull", 1, 2), LawOf3("off", "Uniform", 1, 2)}
First == {To("-Sda", h2), Opt("-i"), Opt("-sa"), Opt("-Si"), Opt("-H"), Payload("a")}
Pairs == {OneLine(<<a, b>>) : a \in First, b \in Others}

\* Two lines with random variables of the same kind or not.
Idts == {LawOf3("idt", "Pareto", 1, 2), LawOf3("idt", "Gamma", 1, 2), LawOf3("idt", "Gamma", 2, 2),
         LawOf3("idt", "Exponential", 1, 0), App("Quake3"), App("Telnet")}
Laws == {Script(<<<<a>>, <<b>>>>) : a, b \in Idts} \cup
        {Script(<<<<LawOf3("on", "Weibull", 1, 2), a>>, <<LawOf3("off", "Weibull", 2, 1)>>>>) : a \in Idts}

\* Payloads from the same file or not.
Files == {Script(<<<<Payload("a")>>, <<Payload(x)>>>>) : x \in {"a", "b"}} \cup
         {Script(<<<<Payload("a")>>, <<Payload("b")>>, <<Payload("a")>>>>)}

Scripts ==
  {[Script(<<<<>>, <<To("-a", h1)>>>>) EXCEPT !.options = <<Opt("-l"), Opt("-x")>>],
   [Script(<<<<>>>>) EXCEPT !.options = <<Opt("-t")>>],
   [Script(<<<<To("-a", h2)>>, <<>>>>) EXCEPT !.unreachable = {h2}],
   [Script(<<<<>>>>) EXCEPT !.lines[1].newline = FALSE],
   Script(<<<<Opt("-H"), Opt("-sp")>>, <<Opt("-H")>>>>)}

\* Commands of a manager that waits for each flow or not, and payloads in use.
Managed ==
  {[Run("manager", [i \in 1 .. 2 |-> Ended(<<Opt("-rp")>>)]) EXCEPT !.careful = c] : c \in BOOLEAN} \cup
  {Run("manager", <<Ended(<<Payload("a"), Opt("-rp")>>), Ended(<<Payload("b")>>)>>),
   [Run("manager", <<Ended(<<Opt("-rp")>>), Ended(<<>>)>>) EXCEPT !.careful = TRUE]}

Everything == Orders \cup Pairs \cup Laws \cup Files \cup Scripts \cup Managed
=============================================================================
