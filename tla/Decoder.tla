------------------------------ MODULE Decoder ------------------------------
(***************************************************************************)
(* ITGDec: reads a log record by record, keeps the statistics of each flow *)
(* (setline) and a file with its records (split), makes the series of      *)
(* bitrate, delay, jitter and loss of each of these files (elabsplit), and *)
(* merges the series into one file with the sum over the flows (merge), or *)
(* all of them into one file (mergeCombined).  At the end it sums up.      *)
(*                                                                         *)
(* An average is kept as the sum and the number of what it averages.       *)
(***************************************************************************)
EXTENDS Integers, Sequences, SequencesExt, FiniteSets, FiniteSetsExt

CONSTANT UIntRange    \* 2^32: lossEvents is unsigned
ASSUME DecoderAssumption == UIntRange \in Nat \ {0}

Kinds == {"bit", "jit", "del", "pkt"}
OneFlow == "1"        \* the flow that option -f t takes every packet for

VARIABLE dec   \* the state of ITGDec: where it is, flowinfo[], memFile[] and its output

Late(r) == r.rx - r.tx

\* The records of some flows, in the order of the log.
OfFlows(recs, flows) ==
  LET kept[i \in 0 .. Len(recs)] ==
        IF i = 0 THEN <<>>
        ELSE IF recs[i].flow \in flows THEN Append(kept[i - 1], recs[i]) ELSE kept[i - 1]
  IN  kept[Len(recs)]
Abs(n)  == IF n < 0 THEN -n ELSE n

----------------------------------------------------------------------------
\* Mutant: the first packet is not measured.
NewFlowUnmeasured(r) ==
  [flow |-> r.flow, byterecv |-> 0, pktrecv |-> 1, pktloss |-> 0, pktdup |-> 0,
   maxSeq |-> r.seq, lossEvents |-> 0, delay |-> Late(r), maxdelay |-> Late(r), mindelay |-> Late(r),
   lastdelay |-> Late(r), jitter |-> 0, first |-> r.rx, last |-> r.rx]

\* setline: the statistics of a flow after its first record, and after another one.
NewFlow(r) ==
  [flow |-> r.flow, byterecv |-> r.size, pktrecv |-> 1, pktloss |-> 0, pktdup |-> 0,
   maxSeq |-> r.seq, lossEvents |-> 0, delay |-> Late(r), maxdelay |-> Late(r), mindelay |-> Late(r),
   lastdelay |-> Late(r), jitter |-> 0, first |-> r.rx, last |-> r.rx]

\* Mutant: what makes up for a loss is not taken back.
LossesAlways(s, r) ==
  [s EXCEPT !.maxSeq = IF r.seq > @ THEN r.seq ELSE @,
            !.pktloss = IF r.seq > s.maxSeq + 1 THEN @ + r.seq - s.maxSeq - 1 ELSE @]

\* The loss is what is missing up to the greatest number seen; a flow that has received more
\* than that has duplicates.  A record beyond all those received and lost begins a burst, and
\* one that makes up for a loss takes a burst back.
Losses(s, r) ==
  LET recv   == s.pktrecv + 1
      max    == IF r.seq > s.maxSeq THEN r.seq ELSE s.maxSeq
      events == IF r.seq > s.pktloss + recv THEN s.lossEvents + 1 ELSE s.lossEvents
      loss   == max - recv + s.pktdup
  IN IF max < recv - s.pktdup
     THEN [s EXCEPT !.maxSeq = max, !.pktdup = recv - max, !.pktloss = 0, !.lossEvents = events]
     ELSE [s EXCEPT !.maxSeq = max, !.pktloss = loss,
                    !.lossEvents = (IF loss < s.pktloss THEN events - 1 ELSE events) % UIntRange]
Update(s, r) ==
  [Losses(s, r) EXCEPT
     !.byterecv = @ + r.size, !.pktrecv = @ + 1, !.delay = @ + Late(r),
     !.maxdelay = IF Late(r) > @ THEN Late(r) ELSE @,
     !.mindelay = IF Late(r) < @ THEN Late(r) ELSE @,
     !.jitter = @ + Abs(s.lastdelay - Late(r)), !.lastdelay = Late(r),
     !.first = IF r.rx < @ THEN r.rx ELSE @,
     !.last = IF r.rx > @ THEN r.rx ELSE @]

SetLine(infos, r) ==
  LET known == {z \in DOMAIN infos : infos[z].flow = r.flow}
  IN IF known = {} THEN Append(infos, NewFlow(r))
     ELSE LET z == CHOOSE z \in known : TRUE IN [infos EXCEPT ![z] = Update(@, r)]

\* Mutant: the file found is always the first.
SplitToFirst(files, r) ==
  IF files = <<>> THEN <<[flow |-> r.flow, recs |-> <<r>>]>> ELSE [files EXCEPT ![1].recs = Append(@, r)]

\* split: the record goes to the file of its flow, which is created when it is the first.
Split(files, r) ==
  LET known == {i \in DOMAIN files : files[i].flow = r.flow}
  IN IF known = {} THEN Append(files, [flow |-> r.flow, recs |-> <<r>>])
     ELSE LET i == CHOOSE i \in known : TRUE IN [files EXCEPT ![i].recs = Append(@, r)]
----------------------------------------------------------------------------
\* elabsplit: what the i-th record of a file adds to a series.
\* Packets lost up to a record: its number beyond those received and already lost.
LostUpTo(recs) ==
  LET lost[i \in 0 .. Len(recs)] ==
        IF i = 0 THEN 0
        ELSE LET before == lost[i - 1] IN IF recs[i].seq > i + before THEN recs[i].seq - i ELSE before
  IN lost
Adds(kind, recs, i) ==
  CASE kind = "bit" -> recs[i].size
    [] kind = "del" -> Late(recs[i])
    [] kind = "jit" -> IF i = 1 THEN 0 ELSE Abs(Late(recs[i]) - Late(recs[i - 1]))
    [] kind = "pkt" -> LostUpTo(recs)[i] - LostUpTo(recs)[i - 1]
Counts(kind, i) == IF kind = "jit" /\ i = 1 THEN 0 ELSE 1

Zero == [sum |-> 0, n |-> 0]
Ceil(a, b) == (a + b - 1) \div b

\* Mutant: the rows of the intervals without packets are forgotten.
CloseOneRow(s, rx, ms, begin, loc) ==
  IF rx - (Len(s.rows) * ms + begin) > ms
  THEN [rows |-> Append(s.rows, s.open), open |-> Zero] ELSE s

\* A record past the end of the open interval closes it and those before its own, with
\* zeroes; so do the intervals before the first record of the file.
CloseRows(s, rx, ms, begin, loc) ==
  LET closed == Len(s.rows)
      new    == IF rx - (closed * ms + begin) > ms THEN Ceil(rx - begin, ms) - closed - 1 ELSE 0
      Before(z) == (closed + z) * ms + begin < loc
      opened == {z \in 1 .. new : ~Before(z)}
  IN [rows |-> s.rows \o [z \in 1 .. new |-> IF z \in opened /\ \A y \in opened : z <= y
                                             THEN s.open ELSE Zero],
      open |-> IF opened = {} THEN s.open ELSE Zero]
\* The series of a file: the rows that its records close, and the one that is open at its end.
Series(kind, recs, ms, begin) ==
  LET after[i \in 0 .. Len(recs)] ==
        IF i = 0 THEN [rows |-> <<>>, open |-> Zero]
        ELSE LET before == after[i - 1]
                 c == CloseRows(before, recs[i].rx, ms, begin, recs[1].rx)
             IN [c EXCEPT !.open = [sum |-> @.sum + Adds(kind, recs, i), n |-> @.n + Counts(kind, i)]]
      end == after[Len(recs)]
  IN Append(end.rows, end.open)

Rows(series) == {Len(series[i]) : i \in DOMAIN series}
\* Mutant: the merge ends with the first file that does.
MergeShortest(series) ==
  IF series = <<>> THEN <<>>
  ELSE [z \in 1 .. Min(Rows(series)) |-> SumFunction([i \in DOMAIN series |-> series[i][z].sum])]

\* merge: row by row, the sum over the files that have such a row.
Merge(series) ==
  LET InRow(z, i) == IF z <= Len(series[i]) THEN series[i][z].sum ELSE 0
  IN IF series = <<>> THEN <<>>
     ELSE [z \in 1 .. Max(Rows(series)) |-> SumFunction([i \in DOMAIN series |-> InRow(z, i)])]

\* mergeCombined: the sums of all kinds row by row, for the files whose bitrate has such a
\* row.  A series that is shorter than that counts as -1.
Combined(series) ==
  LET Value(k, i, z) ==
        IF z > Len(series["bit"][i]) THEN 0
        ELSE IF z <= Len(series[k][i]) THEN series[k][i][z].sum ELSE -1
  IN IF series["bit"] = <<>> THEN <<>>
     ELSE [z \in 1 .. Max(Rows(series["bit"])) |->
            [k \in Kinds |-> SumFunction([i \in DOMAIN series["bit"] |-> Value(k, i, z)])]]

\* The total results: of the flows, and of the records one after the other - whatever their
\* flows - for delay and jitter.
NoTotals == [flows |-> 0]
Totals(infos, recs, begin) ==
  LET Sum(field) == SumFunction([z \in DOMAIN infos |-> infos[z][field]])
      Of(field)  == {infos[z][field] : z \in DOMAIN infos}
  IN IF infos = <<>> THEN NoTotals
     ELSE [flows |-> Len(infos), pktrecv |-> Sum("pktrecv"), byterecv |-> Sum("byterecv"),
           pktloss |-> Sum("pktloss"), lossEvents |-> Sum("lossEvents"),
           maxdelay |-> Max(Of("maxdelay")), mindelay |-> Min(Of("mindelay")),
           delay |-> SumFunction([i \in DOMAIN recs |-> Late(recs[i])]),
           jitter |-> SumFunction([i \in DOMAIN recs |->
                          IF i = 1 THEN 0 ELSE Abs(Late(recs[i - 1]) - Late(recs[i]))]),
           time |-> Max(Of("last")) - begin]
----------------------------------------------------------------------------
\* Mutant: the number of the packet is not compared.
CorrespondingFlow(log, r) == {i \in DOMAIN log : log[i].flow = r.flow}

\* found: the record of the sender's log for the same packet, if there is one.
Corresponding(log, r) == {i \in DOMAIN log : log[i].flow = r.flow /\ log[i].seq = r.seq}
Reconstructed(log, r) ==
  [r EXCEPT !.tx = log[CHOOSE i \in Corresponding(log, r) : \A j \in Corresponding(log, r) : i <= j].tx]

DecoderInit ==
  dec = [pc |-> "off", read |-> 0, out |-> <<>>, infos |-> <<>>, files |-> <<>>, begin |-> 0,
         series |-> [k \in Kinds |-> <<>>], merged |-> [k \in Kinds |-> <<>>], combined |-> <<>>,
         total |-> NoTotals]

\* The options of a command: the log, the log of the sender (-r), the flows to consider or
\* all as one (-f), the intervals of the series (-b, -d, -j, -p; 0: no series), and if all
\* of them, with one interval, are to be combined (-c).
Splits(opt) == opt.split \/ \E k \in Kinds : opt.interval[k] > 0

\* One turn of the loop of main.
Filtered(opt, r) == r.flow \notin opt.keep
Valid(opt) == OfFlows(dec.out, opt.keep)
ReadLine(opt, log, sender) ==
  /\ dec.pc = "reading" /\ dec.read < Len(log)
  /\ LET line == log[dec.read + 1]
     IN IF opt.reconstruct /\ Corresponding(sender, line) = {}
        THEN dec' = [dec EXCEPT !.pc = "failed"]
        ELSE LET r == IF opt.reconstruct THEN Reconstructed(sender, line) ELSE line
                 s == IF opt.join THEN [r EXCEPT !.flow = OneFlow] ELSE r
             IN IF Filtered(opt, r)
                THEN dec' = [dec EXCEPT !.read = @ + 1, !.out = Append(@, r)]
                ELSE dec' = [dec EXCEPT !.read = @ + 1, !.out = Append(@, r),
                               !.infos = SetLine(@, s),
                               !.files = IF Splits(opt) THEN Split(@, s) ELSE @,
                               !.begin = IF dec.infos = <<>> \/ r.rx < @ THEN r.rx ELSE @]

\* The end of the log: the series of every file, their sums, and the total results.  Only -s
\* keeps the files.
Elaborate(opt, log) ==
  /\ dec.pc = "reading" /\ dec.read = Len(log)
  /\ LET SeriesOf(k) == IF opt.interval[k] = 0 THEN <<>>
                        ELSE [i \in DOMAIN dec.files |-> Series(k, dec.files[i].recs, opt.interval[k], dec.begin)]
         all == [k \in Kinds |-> SeriesOf(k)]
     IN dec' = [dec EXCEPT !.pc = "done", !.files = IF opt.split THEN @ ELSE <<>>,
                           !.series = all,
                           !.merged = IF opt.combined THEN @ ELSE [k \in Kinds |-> Merge(all[k])],
                           !.combined = IF opt.combined THEN Combined(all) ELSE @,
                           !.total = Totals(dec.infos, Valid(opt), dec.begin)]
=============================================================================
