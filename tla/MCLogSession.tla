---------------------------- MODULE MCLogSession ----------------------------
(* Small instances of LogSession for TLC. *)
EXTENDS LogSession, TLC

CONSTANTS s1, s2, f1, f2, g, a, b

FlowEach == (f1 :> s1) @@ (f2 :> s2)

\* All senders ask for the same file, at the receiver and at ITGLog; option -L for
\* another one.
SameFile == [s \in Sessions |-> a]
TwoLogs  == (s1 :> a) @@ (s2 :> a) @@ (g :> b)
\* ITGSend and ITGRecv choose TCP or UDP for their data channels.
TcpAndUdp == (s1 :> "TCP") @@ (s2 :> "UDP") @@ (g :> "TCP")

Want(x, y) == (s1 :> x) @@ (s2 :> y)
Case(o, x, y) == [started |-> o, wants |-> Want(x, y)]

\* All sessions log the same way, or the receiver does for them.
Alike == {Case("plain", "none", "none"), Case("plain", "local", "local"),
          Case("plain", "remote", "remote"),
          Case("-l", "local", "none"), Case("-L", "remote", "none")}
\* One sender asks for a log at the receiver and the other for none.
OneOnly == {Case("plain", "local", "none")}
=============================================================================
