---------------------------- MODULE ReportChannel ----------------------------
(***************************************************************************)
(* What the event loop promises about its reports, whoever sends them and  *)
(* however many threads and mutexes lie in between: one FIFO of events     *)
(* from the entries to WanManager.  A report reaches WanManager or is lost *)
(* when it is its turn; it never overtakes another, and is never made up   *)
(* or delivered twice.                                                     *)
(***************************************************************************)
EXTENDS Naturals, Sequences, SequenceTheorems, TLAPS

CONSTANTS Ifaces,  \* the interfaces
          Keys     \* the parameters WanManager has of each

\* The events (PPPEventQData): a value for a parameter, or the order to start
\* the client of an interface.
Reports == [act : {"BUS_SET"}, iface : Ifaces, key : Keys, val : {"Up", "Down"}]
Orders  == [act : {"EXEC_PPP_CLIENT"}, iface : Ifaces,
            key : {"null"}, val : {"null"}]
Event == Reports \cup Orders

VARIABLES chan,   \* the events on their way, oldest first
          sent,   \* the last value sent for each parameter
          value,  \* the values of WanManager's parameters
          lossy   \* the interfaces of which a report was lost

chanVars == <<chan, sent, value, lossy>>

Values == {"Zero", "Up", "Down"}

ChannelTypeOK == /\ chan \in Seq(Event)
                 /\ sent \in [Ifaces -> [Keys -> Values]]
                 /\ value \in [Ifaces -> [Keys -> Values]]
                 /\ lossy \in SUBSET Ifaces

ChannelInit == /\ chan = << >>
               /\ sent = [i \in Ifaces |-> [k \in Keys |-> "Zero"]]
               /\ value = [i \in Ifaces |-> [k \in Keys |-> "Zero"]]
               /\ lossy = {}

IsReport(e) == e.act = "BUS_SET"

\* The function f with the value of the report e in it.
With(f, e) == [f EXCEPT ![e.iface][e.key] = e.val]

Report(e) == /\ chan' = Append(chan, e)
             /\ sent' = IF IsReport(e) THEN With(sent, e) ELSE sent
             /\ UNCHANGED <<value, lossy>>

\* The oldest event leaves: a report is delivered ...
Deliver == /\ chan # << >> /\ IsReport(Head(chan))
           /\ chan' = Tail(chan)
           /\ value' = With(value, Head(chan))
           /\ UNCHANGED <<sent, lossy>>

\* ... or lost; an order to start a client only leaves.
Lose == /\ chan # << >> /\ IsReport(Head(chan))
        /\ chan' = Tail(chan)
        /\ lossy' = lossy \cup {Head(chan).iface}
        /\ UNCHANGED <<sent, value>>

Take == /\ chan # << >> /\ ~IsReport(Head(chan))
        /\ chan' = Tail(chan)
        /\ UNCHANGED <<sent, value, lossy>>

ChannelNext == (\E e \in Event : Report(e)) \/ Deliver \/ Lose \/ Take

ChannelSpec == ChannelInit /\ [][ChannelNext]_chanVars

-----------------------------------------------------------------------------

About(e, i, k) == IsReport(e) /\ e.iface = i /\ e.key = k

\* Unless a report of the interface was lost, the youngest report on its way
\* for a parameter carries the value sent last; when there is none, WanManager
\* has that value.
LastIsSent ==
  \A i \in Ifaces \ lossy, k \in Keys :
    \/ /\ value[i][k] = sent[i][k]
       /\ \A n \in 1 .. Len(chan) : ~About(chan[n], i, k)
    \/ \E n \in 1 .. Len(chan) :
         /\ About(chan[n], i, k) /\ chan[n].val = sent[i][k]
         /\ \A m \in n + 1 .. Len(chan) : ~About(chan[m], i, k)
-----------------------------------------------------------------------------
(* Proofs.                                                                 *)

\* What a parameter is about and what a report carries.
LEMMA ReportTyping ==
  ASSUME NEW e \in Event, IsReport(e)
  PROVE  e.iface \in Ifaces /\ e.key \in Keys /\ e.val \in Values
  BY DEF Event, Reports, Orders, IsReport, Values

\* A value that is put into a table of parameters.
LEMMA WithTyping ==
  ASSUME NEW f \in [Ifaces -> [Keys -> Values]], NEW e \in Event, IsReport(e)
  PROVE  /\ With(f, e) \in [Ifaces -> [Keys -> Values]]
         /\ \A i \in Ifaces, k \in Keys :
              With(f, e)[i][k] = IF About(e, i, k) THEN e.val ELSE f[i][k]
<1>1. e.iface \in Ifaces /\ e.key \in Keys /\ e.val \in Values
  BY ReportTyping
<1>2. [f[e.iface] EXCEPT ![e.key] = e.val] \in [Keys -> Values]
  BY <1>1
<1>3. With(f, e) = [f EXCEPT ![e.iface] = [f[e.iface] EXCEPT ![e.key] = e.val]]
  BY DEF With
<1>4. QED
  BY <1>1, <1>2, <1>3 DEF About

\* What the oldest event is, and what stays when it leaves.
LEMMA LeavingHead ==
  ASSUME NEW s \in Seq(Event), s # << >>
  PROVE  /\ Head(s) = s[1] /\ Head(s) \in Event /\ Len(s) \in Nat \ {0}
         /\ Tail(s) \in Seq(Event) /\ Len(Tail(s)) = Len(s) - 1
         /\ \A n \in 1 .. Len(Tail(s)) : Tail(s)[n] = s[n + 1]
  BY HeadTailProperties

LEMMA ChannelTyping ==
  ChannelTypeOK /\ [ChannelNext]_chanVars => ChannelTypeOK'
<1> SUFFICES ASSUME ChannelTypeOK, [ChannelNext]_chanVars
             PROVE  ChannelTypeOK'
  OBVIOUS
<1>1. ASSUME NEW e \in Event, Report(e) PROVE ChannelTypeOK'
  <2>1. chan' \in Seq(Event)
    BY <1>1 DEF Report, ChannelTypeOK
  <2>2. sent' \in [Ifaces -> [Keys -> Values]]
    BY <1>1, WithTyping DEF Report, ChannelTypeOK
  <2>3. QED
    BY <1>1, <2>1, <2>2 DEF Report, ChannelTypeOK
<1>2. CASE Deliver
  BY <1>2, LeavingHead, WithTyping DEF Deliver, ChannelTypeOK
<1>3. CASE Lose
  BY <1>3, LeavingHead, ReportTyping DEF Lose, ChannelTypeOK
<1>4. CASE Take
  BY <1>4, LeavingHead DEF Take, ChannelTypeOK
<1>5. CASE UNCHANGED chanVars
  BY <1>5 DEF chanVars, ChannelTypeOK
<1>6. QED
  BY <1>1, <1>2, <1>3, <1>4, <1>5 DEF ChannelNext

\* LastIsSent of one parameter, as a state function of the channel.
Last(c, s, v, i, k) ==
  \/ v = s /\ \A n \in 1 .. Len(c) : ~About(c[n], i, k)
  \/ \E n \in 1 .. Len(c) :
       /\ About(c[n], i, k) /\ c[n].val = s
       /\ \A m \in n + 1 .. Len(c) : ~About(c[m], i, k)

\* A new event is the youngest.
LEMMA LastAppended ==
  ASSUME NEW c \in Seq(Event), NEW e \in Event, NEW s, NEW v,
         NEW i \in Ifaces, NEW k \in Keys, Last(c, s, v, i, k)
  PROVE  Last(Append(c, e), IF About(e, i, k) THEN e.val ELSE s, v, i, k)
<1> DEFINE d == Append(c, e)
<1>1. /\ Len(d) = Len(c) + 1 /\ Len(c) \in Nat
      /\ d[Len(d)] = e
      /\ \A n \in 1 .. Len(c) : d[n] = c[n]
  OBVIOUS
<1> HIDE DEF d
<1>2. CASE About(e, i, k)
  <2>1. Len(d) \in 1 .. Len(d) /\ Len(d) + 1 .. Len(d) = {}
    BY <1>1
  <2>2. QED
    BY <1>1, <1>2, <2>1 DEF Last, d
<1>3. CASE ~About(e, i, k)
  <2>1. CASE v = s /\ \A n \in 1 .. Len(c) : ~About(c[n], i, k)
    <3>1. \A n \in 1 .. Len(d) : ~About(d[n], i, k)
      BY <1>1, <1>3, <2>1
    <3>2. QED
      BY <1>3, <2>1, <3>1 DEF Last, d
  <2>2. ASSUME NEW n \in 1 .. Len(c), About(c[n], i, k), c[n].val = s,
               \A m \in n + 1 .. Len(c) : ~About(c[m], i, k)
        PROVE  Last(d, s, v, i, k)
    <3>1. n \in 1 .. Len(d) /\ d[n] = c[n]
      BY <1>1
    <3>2. \A m \in n + 1 .. Len(d) : ~About(d[m], i, k)
      BY <1>1, <1>3, <2>2
    <3>3. QED
      BY <2>2, <3>1, <3>2 DEF Last
  <2>3. QED
    BY <1>3, <2>1, <2>2 DEF Last, d
<1>4. QED
  BY <1>2, <1>3

\* When the oldest event leaves, a report that is delivered becomes the value.
LEMMA LastLeaves ==
  ASSUME NEW c \in Seq(Event), c # << >>, NEW s, NEW v,
         NEW i \in Ifaces, NEW k \in Keys, Last(c, s, v, i, k)
  PROVE  Last(Tail(c), s, IF About(Head(c), i, k) THEN Head(c).val ELSE v, i, k)
<1> DEFINE d == Tail(c)
           w == IF About(Head(c), i, k) THEN Head(c).val ELSE v
<1>1. /\ Head(c) = c[1] /\ Len(c) \in Nat \ {0} /\ Len(d) = Len(c) - 1
      /\ \A n \in 1 .. Len(d) : d[n] = c[n + 1]
  BY LeavingHead
<1> HIDE DEF d
<1>2. CASE v = s /\ \A n \in 1 .. Len(c) : ~About(c[n], i, k)
  <2>1. ~About(Head(c), i, k)
    BY <1>1, <1>2
  <2>2. \A n \in 1 .. Len(d) : ~About(d[n], i, k)
    BY <1>1, <1>2
  <2>3. QED
    BY <1>2, <2>1, <2>2 DEF Last, d
<1>3. ASSUME NEW n \in 1 .. Len(c), About(c[n], i, k), c[n].val = s,
             \A m \in n + 1 .. Len(c) : ~About(c[m], i, k)
      PROVE  Last(d, s, w, i, k)
  <2>1. \A m \in 1 .. Len(d) : m + 1 > n => ~About(d[m], i, k)
    BY <1>1, <1>3
  <2>2. CASE n = 1
    BY <1>1, <1>3, <2>1, <2>2 DEF Last
  <2>3. CASE n # 1
    <3>1. n - 1 \in 1 .. Len(d) /\ d[n - 1] = c[n]
      BY <1>1, <2>3
    <3>2. \A m \in (n - 1) + 1 .. Len(d) : ~About(d[m], i, k)
      BY <1>1, <2>1, <2>3
    <3>3. QED
      BY <1>3, <3>1, <3>2 DEF Last
  <2>4. QED
    BY <2>2, <2>3
<1>4. QED
  BY <1>2, <1>3 DEF Last, d

\* The promise of the channel: unless a report of an interface was lost, the
\* youngest report on its way, or WanManager, has the value sent last.
THEOREM ChannelKeepsLast == ChannelSpec => [](ChannelTypeOK /\ LastIsSent)
<1>1. LastIsSent <=> \A i \in Ifaces \ lossy, k \in Keys :
                       Last(chan, sent[i][k], value[i][k], i, k)
  BY DEF LastIsSent, Last
<1>2. ChannelInit => ChannelTypeOK /\ LastIsSent
  BY DEF ChannelInit, ChannelTypeOK, LastIsSent, Values
<1>3. ASSUME ChannelTypeOK, LastIsSent, [ChannelNext]_chanVars
      PROVE  LastIsSent'
  <2>0. /\ chan \in Seq(Event)
        /\ sent \in [Ifaces -> [Keys -> Values]]
        /\ value \in [Ifaces -> [Keys -> Values]]
    BY <1>3 DEF ChannelTypeOK
  <2> SUFFICES ASSUME NEW i \in Ifaces \ lossy', NEW k \in Keys
               PROVE  Last(chan', sent'[i][k], value'[i][k], i, k)
    BY DEF LastIsSent, Last
  <2>1. i \in Ifaces \ lossy
    BY <1>3 DEF ChannelNext, Report, Deliver, Lose, Take, chanVars
  <2>2. Last(chan, sent[i][k], value[i][k], i, k)
    BY <1>1, <1>3, <2>1
  <2>3. ASSUME NEW e \in Event, Report(e)
        PROVE  Last(chan', sent'[i][k], value'[i][k], i, k)
    <3>1. sent'[i][k] = IF About(e, i, k) THEN e.val ELSE sent[i][k]
      BY <2>0, <2>1, <2>3, WithTyping DEF Report, About
    <3>2. QED
      BY <2>0, <2>1, <2>2, <2>3, <3>1, LastAppended DEF Report
  <2>4. CASE Deliver
    <3>1. value'[i][k] = IF About(Head(chan), i, k) THEN Head(chan).val
                                                   ELSE value[i][k]
      <4>1. Head(chan) \in Event /\ IsReport(Head(chan))
        BY <2>0, <2>4, LeavingHead DEF Deliver
      <4>2. With(value, Head(chan))[i][k] =
              IF About(Head(chan), i, k) THEN Head(chan).val ELSE value[i][k]
        BY <2>0, <2>1, <4>1, WithTyping
      <4>3. QED
        BY <2>4, <4>2 DEF Deliver
    <3>2. chan # << >> /\ chan' = Tail(chan) /\ sent' = sent
      BY <2>4 DEF Deliver
    <3>3. Last(Tail(chan), sent[i][k],
               IF About(Head(chan), i, k) THEN Head(chan).val ELSE value[i][k],
               i, k)
      BY <2>0, <2>1, <2>2, <3>2, LastLeaves
    <3>4. QED
      BY <3>1, <3>2, <3>3
  <2>5. CASE Lose \/ Take
    <3>1. ~About(Head(chan), i, k)
      BY <2>5 DEF Lose, Take, About
    <3>2. /\ chan # << >> /\ chan' = Tail(chan)
          /\ sent' = sent /\ value' = value
      BY <2>5 DEF Lose, Take
    <3>3. Last(Tail(chan), sent[i][k],
               IF About(Head(chan), i, k) THEN Head(chan).val ELSE value[i][k],
               i, k)
      BY <2>0, <2>1, <2>2, <3>2, LastLeaves
    <3>4. QED
      BY <3>1, <3>2, <3>3
  <2>6. CASE UNCHANGED chanVars
    BY <2>2, <2>6 DEF chanVars
  <2>7. QED
    BY <1>3, <2>3, <2>4, <2>5, <2>6 DEF ChannelNext
<1>4. QED
  BY <1>2, <1>3, ChannelTyping, PTL DEF ChannelSpec
===============================================================================
