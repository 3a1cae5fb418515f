--------------------------- MODULE FlowLifecycle ---------------------------
(***************************************************************************)
(* What D-ITG promises for each flow, without threads, channels, messages  *)
(* or counters: the sender's end (source) and the receiver's end (sink) of *)
(* the data connection, and the verdict that ITGSend records for the flow. *)
(* A verdict is final, and it says what happened to the two ends.          *)
(***************************************************************************)
EXTENDS TLAPS

CONSTANT Flows

VARIABLES
  source,   \* "idle", "offered", "sending", "sent", "unsent" (could not connect)
  sink,     \* "none", "open", "connected", "broken", "lost", "closed"
  verdict   \* "none", "END", "ERR1" (the sink), "ERR2" (the source)

flowVars == <<source, sink, verdict>>

Init ==
  /\ source = [f \in Flows |-> "idle"]
  /\ sink = [f \in Flows |-> "none"]
  /\ verdict = [f \in Flows |-> "none"]

Becomes(f, src, snk) ==
  /\ source' = [source EXCEPT ![f] = src]
  /\ sink' = [sink EXCEPT ![f] = snk]
  /\ UNCHANGED verdict

\* The flow is put to the receiver.
Offer(f) == source[f] = "idle" /\ verdict[f] = "none" /\ Becomes(f, "offered", sink[f])

\* The receiver listens for the flow, or cannot.
Open(f)    == source[f] = "offered" /\ sink[f] = "none" /\ Becomes(f, "offered", "open")
Decline(f) == source[f] = "offered" /\ sink[f] = "none" /\ Becomes(f, "offered", "broken")

\* The sender's end connects, or cannot; the sink accepts later, if at all.
Connect(f)    == source[f] = "offered" /\ sink[f] = "open" /\ Becomes(f, "sending", "open")
CannotSend(f) == source[f] = "offered" /\ sink[f] = "open" /\ Becomes(f, "unsent", "open")
Accept(f)     ==
  source[f] \in {"sending", "sent"} /\ sink[f] = "open" /\ Becomes(f, source[f], "connected")

\* The sink breaks at any time; the receiver notices, or has closed it by then.
Break(f)  == sink[f] = "connected" /\ Becomes(f, source[f], "broken")
Lose(f)   == sink[f] = "broken" /\ Becomes(f, source[f], "lost")

\* The source ends by itself; only then does the receiver close the sink.
Complete(f) == source[f] = "sending" /\ Becomes(f, "sent", sink[f])
Close(f)    ==
  /\ source[f] \in {"sent", "unsent"} /\ sink[f] \in {"open", "connected", "broken"}
  /\ Becomes(f, source[f], "closed")

\* One verdict per flow.
Justified(f, v) ==
  \/ v = "END"  /\ source[f] = "sent" /\ sink[f] = "closed"
  \/ v = "ERR1" /\ sink[f] = "lost"
  \/ v = "ERR2" /\ source[f] = "unsent"

Judge(f, v) ==
  /\ source[f] # "idle" /\ verdict[f] = "none"
  /\ Justified(f, v)
  /\ verdict' = [verdict EXCEPT ![f] = v]
  /\ UNCHANGED <<source, sink>>

Next ==
  \E f \in Flows :
    \/ Offer(f) \/ Open(f) \/ Decline(f)
    \/ Connect(f) \/ CannotSend(f) \/ Accept(f) \/ Break(f) \/ Lose(f)
    \/ Complete(f) \/ Close(f)
    \/ \E v \in {"END", "ERR1", "ERR2"} : Judge(f, v)

Spec == Init /\ [][Next]_flowVars

-----------------------------------------------------------------------------
\* Every flow put to a receiver gets its verdict in the end.
EveryOfferJudged == \A f \in Flows : (source[f] = "offered") ~> (verdict[f] # "none")

\* A recorded verdict says what happened to the two ends, then and ever after:
\* "END" only for a flow that was sent to the end and closed in order.
Truthful ==
  \A f \in Flows : verdict[f] # "none" => Justified(f, verdict[f])

\* A recorded verdict is never changed.
VerdictsAreFinal ==
  [][\A f \in Flows : verdict[f] # "none" => verdict'[f] = verdict[f]]_flowVars
-----------------------------------------------------------------------------
(***************************************************************************)
(* Both hold for any set of flows.  Truthful is inductive once the domains *)
(* are known: a step of one end never leaves the states that justify a     *)
(* verdict, because "sent", "unsent", "lost" and "closed" are final for    *)
(* the end concerned.  SessionProofs proves that TspSession implements     *)
(* this life cycle, so ITGSend and ITGRecv inherit both.                   *)
(***************************************************************************)
Domains ==
  /\ source = [f \in Flows |-> source[f]]
  /\ sink = [f \in Flows |-> sink[f]]
  /\ verdict = [f \in Flows |-> verdict[f]]

LifecycleInv == Domains /\ Truthful

\* A flow whose ends do not move keeps the justification of its verdict.
LEMMA StaysJustified ==
  ASSUME NEW f, NEW v, Justified(f, v), source'[f] = source[f], sink'[f] = sink[f]
  PROVE  Justified(f, v)'
  BY DEF Justified

\* The ends of one flow move: the other flows, and every verdict, are as before.
LEMMA BecomesStep ==
  ASSUME LifecycleInv, NEW f \in Flows, NEW src, NEW snk, Becomes(f, src, snk),
         /\ Justified(f, "END")  => src = "sent" /\ snk = "closed"
         /\ Justified(f, "ERR1") => snk = "lost"
         /\ Justified(f, "ERR2") => src = "unsent"
  PROVE  LifecycleInv'
<1>1. source'[f] = src /\ sink'[f] = snk
  BY DEF LifecycleInv, Domains, Becomes
<1>2. \A h \in Flows \ {f} : source'[h] = source[h] /\ sink'[h] = sink[h]
  BY DEF LifecycleInv, Domains, Becomes
<1>3. verdict' = verdict
  BY DEF Becomes
<1>4. Domains'
  BY <1>3 DEF LifecycleInv, Domains, Becomes
<1>5. ASSUME NEW h \in Flows, verdict'[h] # "none"
      PROVE  Justified(h, verdict[h])'
  <2>1. Justified(h, verdict[h])
    BY <1>3, <1>5 DEF LifecycleInv, Truthful
  <2>2. CASE h = f
    BY <1>1, <1>3, <2>1, <2>2 DEF Justified
  <2>3. CASE h # f
    BY <1>2, <1>3, <2>1, <2>3 DEF Justified
  <2> QED
    BY <2>2, <2>3
<1> QED
  BY <1>4, <1>5 DEF LifecycleInv, Truthful

\* A verdict is recorded: it is justified, and the ends stay.
LEMMA JudgeStep ==
  ASSUME LifecycleInv, NEW f \in Flows, NEW v, Justified(f, v),
         verdict' = [verdict EXCEPT ![f] = v], UNCHANGED <<source, sink>>
  PROVE  LifecycleInv'
<1>1. Domains'
  BY DEF LifecycleInv, Domains
<1>2. \A h \in Flows : verdict'[h] = IF h = f THEN v ELSE verdict[h]
  BY DEF LifecycleInv, Domains
<1>3. Truthful'
  BY <1>2 DEF LifecycleInv, Truthful, Justified
<1> QED
  BY <1>1, <1>3 DEF LifecycleInv

LEMMA NextKeepsLifecycleInv ==
  ASSUME LifecycleInv, [Next]_flowVars
  PROVE  LifecycleInv'
<1>1. CASE UNCHANGED flowVars
  BY <1>1 DEF LifecycleInv, Domains, Truthful, Justified, flowVars
<1>2. ASSUME NEW f \in Flows, Offer(f) \/ Open(f) \/ Decline(f) \/ Connect(f) \/ CannotSend(f)
      PROVE  LifecycleInv'
  <2>1. /\ source[f] \in {"idle", "offered"}
        /\ Offer(f) \/ sink[f] # "lost"
        /\ \E src, snk : Becomes(f, src, snk) /\ (Offer(f) => snk = sink[f])
    BY <1>2 DEF Offer, Open, Decline, Connect, CannotSend
  <2> QED
    BY <2>1, BecomesStep DEF Justified
<1>3. ASSUME NEW f \in Flows, Accept(f) \/ Break(f) \/ Lose(f) \/ Complete(f) \/ Close(f)
      PROVE  LifecycleInv'
  <2>1. CASE Accept(f) \/ Break(f) \/ Lose(f)
    BY <2>1, BecomesStep DEF Accept, Break, Lose, Justified
  <2>2. CASE Complete(f) \/ Close(f)
    BY <2>2, BecomesStep DEF Complete, Close, Justified
  <2> QED
    BY <1>3, <2>1, <2>2
<1>4. ASSUME NEW f \in Flows, NEW v \in {"END", "ERR1", "ERR2"}, Judge(f, v)
      PROVE  LifecycleInv'
  BY <1>4, JudgeStep DEF Judge
<1> QED
  BY <1>1, <1>2, <1>3, <1>4 DEF Next

\* A verdict is true of the two ends of its flow, when it is recorded and for
\* ever: ITGSend reports "END" only for a flow that was sent to its end and that
\* the receiver has closed (flowParser's switch on the code from its pipe).
THEOREM VerdictsAreTrue == Spec => []Truthful
<1>1. Init => LifecycleInv
  BY DEF Init, LifecycleInv, Domains, Truthful
<1>2. LifecycleInv /\ [Next]_flowVars => LifecycleInv'
  BY NextKeepsLifecycleInv
<1>3. LifecycleInv => Truthful
  BY DEF LifecycleInv
<1> QED
  BY <1>1, <1>2, <1>3, PTL DEF Spec

\* The verdict of a flow is recorded once: flowParser reads one code and ends.
THEOREM VerdictsStay == Spec => VerdictsAreFinal
<1>1. Init => LifecycleInv
  BY DEF Init, LifecycleInv, Domains, Truthful
<1>2. LifecycleInv /\ [Next]_flowVars => LifecycleInv'
  BY NextKeepsLifecycleInv
<1>3. LifecycleInv /\ [Next]_flowVars
        => [\A f \in Flows : verdict[f] # "none" => verdict'[f] = verdict[f]]_flowVars
  <2> SUFFICES ASSUME LifecycleInv, Next, NEW f \in Flows, verdict[f] # "none"
               PROVE  verdict'[f] = verdict[f]
    BY DEF flowVars
  <2>1. \/ verdict' = verdict
        \/ \E h \in Flows : \E v : verdict[h] = "none" /\ verdict' = [verdict EXCEPT ![h] = v]
    BY DEF Next, Offer, Open, Decline, Connect, CannotSend, Accept, Break, Lose,
           Complete, Close, Judge, Becomes
  <2> QED
    BY <2>1 DEF LifecycleInv, Domains
<1> QED
  BY <1>1, <1>2, <1>3, PTL DEF Spec, VerdictsAreFinal
=============================================================================
