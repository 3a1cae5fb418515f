--------------------------- MODULE MCMeasurement ---------------------------
(***************************************************************************)
(* Measurements that bring out the hard cases: datagrams out of order, two *)
(* flows on a port, packets as short as their header, bursts, echoes.      *)
(***************************************************************************)
EXTENDS Measurement

CONSTANTS f1, f2

\* A flow of three packets without waiting, and the options that differ from it.
Plain == [proto |-> "UDP", log |-> "standard", meter |-> "owdm", packets |-> 3, bytes |-> 0,
          duration |-> DefaultDuration, min |-> 4, bursty |-> FALSE, adjust |-> TRUE,
          sizes |-> {5}, waits |-> {1}, port |-> f1]
One(opts)       == [f \in Flows |-> opts]
NoSeries        == [k \in Kinds |-> 0]
Summary         == [input |-> "receiver", reconstruct |-> FALSE, join |-> FALSE, keep |-> Flows,
                    split |-> FALSE, interval |-> NoSeries, combined |-> FALSE]
Case(flows, opts, dc) == [flows |-> flows, flow |-> opts, dec |-> dc, copies |-> 0, failures |-> 0]

Datagrams   == [Case({f1}, One([Plain EXCEPT !.sizes = {2, 5}]), [Summary EXCEPT !.interval = [k \in Kinds |-> 1]]) EXCEPT !.copies = 1]
Slow        == Case({f1}, One([Plain EXCEPT !.packets = 2, !.sizes = {2, 5}, !.waits = {0, 3}]),
                    [Summary EXCEPT !.interval = [k \in Kinds |-> 2]])
SharedPort  == Case({f1, f2}, [f \in Flows |-> [Plain EXCEPT !.packets = 2, !.waits = IF f = f1 THEN {0} ELSE {2}]],
                    [Summary EXCEPT !.split = TRUE, !.combined = TRUE, !.interval = [k \in Kinds |-> 1]])
RawSockets  == Case({f1, f2}, [f \in Flows |-> [Plain EXCEPT !.proto = "ICMP", !.packets = IF f = f1 THEN 2 ELSE 1]],
                    [Summary EXCEPT !.interval = [NoSeries EXCEPT !["bit"] = 1, !["pkt"] = 1]])
OnlyOne     == Case({f1, f2}, One([Plain EXCEPT !.packets = 1]), [Summary EXCEPT !.split = TRUE, !.keep = {f2}])
AllAsOne    == Case({f1, f2}, One([Plain EXCEPT !.packets = 1]), [Summary EXCEPT !.split = TRUE, !.join = TRUE])
Framed      == Case({f1}, One([Plain EXCEPT !.proto = "TCP", !.min = 5, !.packets = 2, !.sizes = {5, 8}]), Summary)
\* (application Telnet, after which -c gives packets as short as their header)
FramedShort == Case({f1}, One([Plain EXCEPT !.proto = "TCP", !.log = "short", !.min = 2, !.packets = 2, !.sizes = {3, 5}]), Summary)
Unframed    == Case({f1}, One([Plain EXCEPT !.proto = "TCP", !.log = "none", !.min = 2, !.packets = 2, !.sizes = {2}]), Summary)
Short       == Case({f1}, One([Plain EXCEPT !.log = "short", !.min = 3, !.packets = 2, !.sizes = {2}]),
                    [Summary EXCEPT !.reconstruct = TRUE])
NoHeader    == Case({f1}, One([Plain EXCEPT !.log = "none", !.min = 1, !.packets = 1]), Summary)
Echoed      == Case({f1}, One([Plain EXCEPT !.meter = "rttm", !.packets = 2]), [Summary EXCEPT !.input = "sender"])
Bursty      == Case({f1}, One([Plain EXCEPT !.bursty = TRUE]), Summary)
Timed       == [Case({f1}, One([Plain EXCEPT !.adjust = FALSE, !.duration = 3, !.packets = 0, !.waits = {1, 2}]), Summary)
                EXCEPT !.failures = 1]
Bytes       == [Case({f1}, One([Plain EXCEPT !.packets = 0, !.bytes = 8]), Summary) EXCEPT !.failures = 1]

Everything == {Datagrams, Slow, SharedPort, RawSockets, OnlyOne, AllAsOne, Framed, FramedShort, Unframed, Short, NoHeader,
               Echoed, Bursty, Timed, Bytes}
Reordered  == {Datagrams}
=============================================================================
