---------------------------- MODULE MCTspSession ----------------------------
(* Small instances of TspSession for TLC. *)
EXTENDS TspSession, TLC

CONSTANTS f1, f2, f3, h1, h2, p1

\* Two flows, or three, to one receiver: they share a channel.
TwoTogether   == (f1 :> h1) @@ (f2 :> h1)
ThreeTogether == (f1 :> h1) @@ (f2 :> h1) @@ (f3 :> h1)
\* The third flow has a receiver, and so a channel, of its own.
TwoAndOne     == (f1 :> h1) @@ (f2 :> h1) @@ (f3 :> h2)
\* Two flows to two receivers.
TwoApart      == (f1 :> h1) @@ (f2 :> h2)

\* Each flow has a port of its own, given by -rp; or all have the default one.
OwnPort == [f \in Flows |-> f]
OnePort == [f \in Flows |-> p1]
\* Flows to the first receiver share a port.
PortOfTwo == [f \in Flows |-> IF f = f3 THEN f3 ELSE p1]

AllTcp == [f \in Flows |-> "TCP"]
\* The third flow is an ICMP flow.
UdpAndIcmp == [f \in Flows |-> IF f = f3 THEN "ICMP" ELSE "UDP"]

\* Flows to the same receiver are interchangeable.
SwapTwo   == Permutations({f1, f2})
SwapThree == Permutations({f1, f2, f3})

\* Bounds of the instances with three flows: no receiver times out, and with two
\* receivers at most one flow fails.
NoTimeout  == \A g \in Flows : discovery[g] = 0
OneFailure ==
  Cardinality({f \in Flows : sender[f] = "failed" \/ thread[f] \in {"failed", "reaped"}}) <= 1
=============================================================================
