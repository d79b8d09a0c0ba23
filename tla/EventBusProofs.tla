---------------------------- MODULE EventBusProofs ----------------------------
(***************************************************************************)
(* Proofs about EventBus, for every set of nodes and clients, every size   *)
(* of the window and of the channels, and every number of events.          *)
(***************************************************************************)
EXTENDS EventBus, TLAPS, FiniteSetTheorems, SequenceTheorems

\* Clients that are caught up or being so are in the list, and a node that
\* has somebody to send to has an event to send.
BusInv ==
    /\ TypeOK
    /\ \A c \in Client : handler[c] = "streaming" => c \in subscribers
    /\ \A c \in Client : handler[c] = "connecting" => c \in subscribers
    /\ \A n \in Node : sending[n].to # {} => sending[n].event \in Event
    /\ NothingMissed

-----------------------------------------------------------------------------
LEMMA AppendElems ==
    ASSUME NEW s \in Seq(Event), NEW e \in Event
    PROVE  /\ Append(s, e) \in Seq(Event) /\ Len(Append(s, e)) = Len(s) + 1
           /\ Elems(Append(s, e)) = Elems(s) \cup {e}
<1> DEFINE t == Append(s, e)
<1>1. /\ t \in Seq(Event) /\ Len(t) = Len(s) + 1 /\ Len(s) \in Nat
      /\ DOMAIN t = 1 .. Len(s) + 1 /\ DOMAIN s = 1 .. Len(s)
      /\ \A k \in 1 .. Len(s) : t[k] = s[k]
      /\ t[Len(s) + 1] = e
  OBVIOUS
<1> HIDE DEF t
<1>2. 1 .. Len(s) + 1 = (1 .. Len(s)) \cup {Len(s) + 1}
  BY <1>1
<1>3. Elems(t) = Elems(s) \cup {e}
  BY <1>1, <1>2 DEF Elems
<1> QED
  BY <1>1, <1>3 DEF t

LEMMA HeadElems ==
    ASSUME NEW s \in Seq(Event), s # <<>>
    PROVE  /\ Head(s) \in Event /\ Tail(s) \in Seq(Event)
           /\ Len(Tail(s)) = Len(s) - 1
           /\ Elems(s) \subseteq {Head(s)} \cup Elems(Tail(s))
<1>1. /\ Head(s) = s[1] /\ Head(s) \in Event /\ Tail(s) \in Seq(Event)
      /\ Len(s) \in Nat \ {0} /\ Len(Tail(s)) = Len(s) - 1
      /\ \A k \in 1 .. Len(s) - 1 : Tail(s)[k] = s[k + 1]
      /\ DOMAIN s = 1 .. Len(s) /\ DOMAIN Tail(s) = 1 .. Len(s) - 1
  OBVIOUS
<1> DEFINE t == Tail(s)
           h == Head(s)
<1> HIDE DEF t, h
<1>2. ASSUME NEW k \in 1 .. Len(s), s[k] # h
      PROVE  s[k] \in Elems(t)
  <2>1. k - 1 \in 1 .. Len(s) - 1 /\ k - 1 + 1 = k
    BY <1>1, <1>2 DEF h
  <2>2. s[k] = t[k - 1] /\ k - 1 \in DOMAIN t
    BY <1>1, <2>1 DEF t
  <2> QED
    BY <2>2 DEF Elems
<1> QED
  BY <1>1, <1>2 DEF Elems, t, h

\* The window of the events up to n ends with n.
LEMMA WindowSlides ==
    ASSUME NEW s \in Seq(Event), NEW n \in Nat, Len(s) <= MaxRecent + 1,
           \A k \in 1 .. Len(s) : s[k] = n - Len(s) + k
    PROVE  /\ Window(s) \in Seq(Event) /\ Len(Window(s)) <= MaxRecent
           /\ \A k \in 1 .. Len(Window(s)) : Window(s)[k] = n - Len(Window(s)) + k
<1>1. Len(s) \in Nat /\ MaxRecent \in Nat
  BY EventBusAssumption
<1>2. CASE Len(s) > MaxRecent
  <2> DEFINE m == Len(s) - MaxRecent + 1
             w == SubSeq(s, m, Len(s))
  <2>1. m \in Nat /\ m >= 1 /\ m <= Len(s) + 1 /\ Len(s) - m + 1 = MaxRecent
    BY <1>1, <1>2
  <2> HIDE DEF m
  <2>2. \A k \in m .. Len(s) : s[k] \in Event
    BY <1>1, <2>1
  <2>3. /\ w \in Seq(Event) /\ Len(w) = Len(s) - m + 1
        /\ \A k \in 1 .. Len(s) - m + 1 : w[k] = s[m + k - 1]
    BY <1>1, <2>1, <2>2, SubSeqProperties
  <2> HIDE DEF w
  <2>4. Len(w) = MaxRecent
    BY <2>1, <2>3
  <2>5. ASSUME NEW k \in 1 .. Len(w)
        PROVE  w[k] = n - Len(w) + k
    <3>1. m + k - 1 \in 1 .. Len(s) /\ k \in 1 .. Len(s) - m + 1
      BY <1>1, <2>1, <2>4
    <3>2. s[m + k - 1] = n - Len(s) + (m + k - 1)
      BY <3>1
    <3>3. w[k] = n - Len(s) + (m + k - 1)
      BY <2>3, <3>1, <3>2
    <3>4. n - Len(s) + (m + k - 1) = n - Len(w) + k
      BY <1>1, <2>1, <2>4
    <3> QED
      BY <3>3, <3>4
  <2>6. Window(s) = w
    BY <1>2 DEF Window, w, m
  <2> QED
    BY <1>1, <2>3, <2>4, <2>5, <2>6
<1>3. CASE ~(Len(s) > MaxRecent)
  <2>1. Window(s) = s
    BY <1>3 DEF Window
  <2>2. Len(s) <= MaxRecent
    BY <1>1, <1>3
  <2> QED
    BY <2>1, <2>2
<1> QED
  BY <1>2, <1>3

-----------------------------------------------------------------------------
(* The invariant.                                                          *)

LEMMA BusInit == Init => BusInv
<1> SUFFICES ASSUME Init PROVE BusInv
  OBVIOUS
<1>1. /\ <<>> \in Seq(Event) /\ Len(<<>>) = 0 /\ DOMAIN <<>> = {}
  OBVIOUS
<1>2. TypeOK
  <2>1. /\ sending \in [Node -> [event : 0 .. MaxEvents, to : SUBSET Client]]
        /\ ch \in [Client -> Seq(Event)] /\ from \in [Client -> 0 .. MaxEvents]
        /\ count \in 0 .. MaxEvents
    BY <1>1, EventBusAssumption DEF Init
  <2>2. (\A c \in Client : Len(ch[c]) <= ChCap) /\ Len(recent) <= MaxRecent
    BY <1>1, EventBusAssumption DEF Init
  <2>3. recent \in Seq(Event) /\ DOMAIN recent = {}
    BY <1>1 DEF Init
  <2>4. /\ handler \in [Client -> {"none", "connecting", "streaming", "left"}]
        /\ sent \in [Client -> SUBSET Event] /\ dropped \in [Client -> SUBSET Event]
    BY DEF Init
  <2> QED
    BY <2>1, <2>2, <2>3, <2>4 DEF Init, TypeOK
<1> QED
  BY <1>2 DEF Init, BusInv, NothingMissed

LEMMA BusPublish ==
    ASSUME BusInv, NEW n \in Node, Publish(n)
    PROVE  BusInv'
<1>1. /\ sending[n].to = {} /\ count < MaxEvents /\ count' = count + 1
      /\ recent' = Window(Append(recent, count + 1))
      /\ sending' = [sending EXCEPT ![n] = [event |-> count + 1, to |-> subscribers]]
      /\ UNCHANGED <<subscribers, ch, handler, sent, dropped, from, panicked>>
      /\ TypeOK
  BY DEF Publish, BusInv, clientVars
<1>2. count \in Nat /\ count + 1 \in Event /\ count + 1 \in 0 .. MaxEvents
  BY <1>1, EventBusAssumption DEF TypeOK, Event
<1>3. /\ recent' \in Seq(Event) /\ Len(recent') <= MaxRecent
      /\ \A k \in DOMAIN recent' : recent'[k] = count' - Len(recent') + k
  <2> DEFINE s == Append(recent, count + 1)
             e == count + 1
  <2>1. /\ recent \in Seq(Event) /\ Len(recent) \in Nat /\ Len(recent) <= MaxRecent
        /\ DOMAIN recent = 1 .. Len(recent)
        /\ \A k \in 1 .. Len(recent) : recent[k] = count - Len(recent) + k
    BY <1>1 DEF TypeOK
  <2>2. /\ s \in Seq(Event) /\ Len(s) = Len(recent) + 1
        /\ \A k \in 1 .. Len(recent) : s[k] = recent[k]
        /\ s[Len(recent) + 1] = count + 1
    BY <1>2, <2>1
  <2>3. recent' = Window(s) /\ count' = e /\ e \in Nat /\ e = count + 1
    BY <1>1, <1>2
  <2> HIDE DEF s, e
  <2>4. Len(s) <= MaxRecent + 1
    BY <2>1, <2>2, EventBusAssumption
  <2>5. ASSUME NEW k \in 1 .. Len(s)
        PROVE  s[k] = e - Len(s) + k
    <3>1. CASE k = Len(recent) + 1
      BY <1>2, <2>1, <2>2, <2>3, <3>1
    <3>2. CASE k # Len(recent) + 1
      <4>1. k \in 1 .. Len(recent)
        BY <2>1, <2>2, <3>2
      <4> QED
        BY <1>2, <2>1, <2>2, <2>3, <4>1
    <3> QED
      BY <3>1, <3>2
  <2>6. /\ Window(s) \in Seq(Event) /\ Len(Window(s)) <= MaxRecent
        /\ \A k \in 1 .. Len(Window(s)) : Window(s)[k] = e - Len(Window(s)) + k
    BY <2>2, <2>3, <2>4, <2>5, WindowSlides
  <2> DEFINE w == Window(s)
  <2> HIDE DEF w
  <2>7. w \in Seq(Event) /\ Len(w) <= MaxRecent /\ DOMAIN w = 1 .. Len(w)
        /\ \A k \in 1 .. Len(w) : w[k] = e - Len(w) + k
    BY <2>6 DEF w
  <2>8. recent' = w
    BY <2>3 DEF w
  <2> QED
    BY <2>3, <2>7, <2>8
<1>4. /\ sending' \in [Node -> [event : 0 .. MaxEvents, to : SUBSET Client]]
      /\ sending'[n] = [event |-> count + 1, to |-> subscribers]
      /\ \A m \in Node : m # n => sending'[m] = sending[m]
  BY <1>1, <1>2 DEF TypeOK
<1>5. TypeOK'
  BY <1>1, <1>2, <1>3, <1>4 DEF TypeOK
<1>6. ASSUME NEW c \in Client, handler'[c] = "streaming"
      PROVE  (from'[c] + 1) .. count' \subseteq sent'[c] \cup dropped'[c] \cup Coming(c)'
  <2>1. Coming(c) \subseteq Coming(c)' /\ count + 1 \in Coming(c)'
    <3>1. c \in subscribers
      BY <1>1, <1>6 DEF BusInv
    <3>2. count + 1 \in Coming(c)'
      BY <1>4, <3>1 DEF Coming
    <3>3. Coming(c) \subseteq Coming(c)'
      BY <1>1, <1>4 DEF Coming, Elems
    <3> QED
      BY <3>2, <3>3
  <2>2. (from[c] + 1) .. count \subseteq sent[c] \cup dropped[c] \cup Coming(c)
    BY <1>1, <1>6 DEF BusInv, NothingMissed
  <2>3. from[c] \in Nat
    BY <1>1, EventBusAssumption DEF TypeOK
  <2>4. (from[c] + 1) .. (count + 1) \subseteq ((from[c] + 1) .. count) \cup {count + 1}
    BY <1>2, <2>3
  <2> HIDE DEF Coming
  <2> QED
    BY <1>1, <2>1, <2>2, <2>4
<1> QED
  BY <1>1, <1>2, <1>4, <1>5, <1>6 DEF BusInv, NothingMissed

LEMMA BusDeliver ==
    ASSUME BusInv, NEW n \in Node, NEW c \in Client, Deliver(n, c)
    PROVE  BusInv'
<1>1. /\ c \in sending[n].to /\ sending' = [sending EXCEPT ![n].to = @ \ {c}]
      /\ UNCHANGED <<count, recent, subscribers, handler, sent, from>>
      /\ TypeOK
  BY DEF Deliver, Offer, BusInv, busVars
<1> DEFINE e == sending[n].event
<1>2. e \in Event
  BY <1>1 DEF BusInv
<1>3. /\ sending' \in [Node -> [event : 0 .. MaxEvents, to : SUBSET Client]]
      /\ \A m \in Node : sending'[m].event = sending[m].event
      /\ sending'[n].to = sending[n].to \ {c}
      /\ \A m \in Node : m # n => sending'[m] = sending[m]
  BY <1>1 DEF TypeOK
<1> HIDE DEF e
\* Of what is on its way to a client only e goes, from n's list of those it
\* has to send to.
<1>4. ASSUME NEW d \in Client, Elems(ch[d]) \subseteq Elems(ch'[d])
      PROVE  /\ d # c => Coming(d) \subseteq Coming(d)'
             /\ Coming(d) \subseteq Coming(d)' \cup {e}
  <2>1. ASSUME NEW m \in Node, d \in sending[m].to
        PROVE  /\ sending[m].event \in Coming(d)' \cup {e}
               /\ d # c => sending[m].event \in Coming(d)'
    <3>1. CASE m = n /\ d = c
      BY <3>1 DEF e
    <3>2. CASE ~(m = n /\ d = c)
      <4>1. d \in sending'[m].to /\ sending'[m].event = sending[m].event
        BY <1>3, <2>1, <3>2
      <4>2. sending[m].event \in Coming(d)'
        BY <4>1 DEF Coming
      <4> QED
        BY <4>2
    <3> QED
      BY <3>1, <3>2
  <2>2. Elems(ch[d]) \subseteq Coming(d)'
    BY <1>4 DEF Coming, Elems
  <2> QED
    BY <2>1, <2>2 DEF Coming
<1>5. CASE handler[c] = "left"
  <2>1. panicked' = TRUE /\ ch' = ch /\ dropped' = dropped
    BY <1>5 DEF Deliver, Offer
  <2>2. TypeOK'
    BY <1>1, <1>3, <2>1 DEF TypeOK
  <2>3. ASSUME NEW d \in Client, handler'[d] = "streaming"
        PROVE  (from'[d] + 1) .. count' \subseteq sent'[d] \cup dropped'[d] \cup Coming(d)'
    <3>1. d # c
      BY <1>1, <1>5, <2>3
    <3>2. Coming(d) \subseteq Coming(d)'
      BY <1>4, <2>1, <3>1
    <3> QED
      BY <1>1, <2>1, <2>3, <3>2 DEF BusInv, NothingMissed
  <2> QED
    BY <1>1, <1>3, <2>2, <2>3 DEF BusInv, NothingMissed
<1>6. CASE handler[c] # "left" /\ Len(ch[c]) < ChCap
  <2>1. panicked' = panicked /\ ch' = [ch EXCEPT ![c] = Append(ch[c], e)] /\ dropped' = dropped
    BY <1>6 DEF Deliver, Offer, e
  <2>2. /\ Append(ch[c], e) \in Seq(Event) /\ Len(Append(ch[c], e)) = Len(ch[c]) + 1
        /\ Elems(Append(ch[c], e)) = Elems(ch[c]) \cup {e}
        /\ Len(ch[c]) \in Nat
    BY <1>1, <1>2, AppendElems DEF TypeOK
  <2>3. /\ ch' \in [Client -> Seq(Event)]
        /\ ch'[c] = Append(ch[c], e)
        /\ \A d \in Client : d # c => ch'[d] = ch[d]
    BY <1>1, <2>1, <2>2 DEF TypeOK
  <2>4. \A d \in Client : Len(ch'[d]) <= ChCap
    <3> SUFFICES ASSUME NEW d \in Client PROVE Len(ch'[d]) <= ChCap
      OBVIOUS
    <3>1. Len(ch[d]) <= ChCap /\ ChCap \in Nat
      BY <1>1, EventBusAssumption DEF TypeOK
    <3>2. CASE d = c
      <4>1. Len(ch'[c]) = Len(ch[c]) + 1
        BY <2>2, <2>3
      <4> QED
        BY <1>6, <2>2, <3>1, <3>2, <4>1
    <3> QED
      BY <2>3, <3>1, <3>2
  <2>5. TypeOK'
    BY <1>1, <1>3, <2>1, <2>3, <2>4 DEF TypeOK
  <2>6. ASSUME NEW d \in Client
        PROVE  Coming(d) \subseteq Coming(d)'
    <3>1. Elems(ch[d]) \subseteq Elems(ch'[d])
      BY <2>2, <2>3
    <3>2. d = c => e \in Coming(d)'
      BY <2>2, <2>3 DEF Coming, Elems
    <3> QED
      BY <1>4, <3>1, <3>2
  <2> QED
    BY <1>1, <1>3, <2>1, <2>5, <2>6 DEF BusInv, NothingMissed
<1>7. CASE handler[c] # "left" /\ ~(Len(ch[c]) < ChCap)
  <2>1. panicked' = panicked /\ ch' = ch /\ dropped' = [dropped EXCEPT ![c] = @ \cup {e}]
    BY <1>7 DEF Deliver, Offer, e
  <2>2. /\ dropped' \in [Client -> SUBSET Event] /\ e \in dropped'[c]
        /\ \A d \in Client : dropped[d] \subseteq dropped'[d]
    BY <1>1, <1>2, <2>1 DEF TypeOK
  <2>3. TypeOK'
    BY <1>1, <1>3, <2>1, <2>2 DEF TypeOK
  <2>4. ASSUME NEW d \in Client
        PROVE  Coming(d) \subseteq Coming(d)' \cup dropped'[d]
    BY <1>4, <2>1, <2>2
  <2> QED
    BY <1>1, <1>3, <2>1, <2>2, <2>3, <2>4 DEF BusInv, NothingMissed
<1> QED
  BY <1>5, <1>6, <1>7

LEMMA BusConnect ==
    ASSUME BusInv, NEW c \in Client, Connect(c), UNCHANGED <<sending, panicked>>
    PROVE  BusInv'
<1>1. /\ UNCHANGED <<count, recent, ch, dropped, sending, panicked>> /\ TypeOK
  BY DEF Connect, Subscribe, CatchUp, busVars, BusInv
<1>2. \A d \in Client : Coming(d)' = Coming(d)
  BY <1>1 DEF Coming, Elems
<1>3. CASE Subscribe(c, "none", "connecting")
  <2>1. /\ subscribers' = subscribers \cup {c} /\ sent' = sent /\ from' = from
        /\ handler' = [handler EXCEPT ![c] = "connecting"]
    BY <1>3 DEF Subscribe
  <2>2. \A d \in Client : handler'[d] = IF d = c THEN "connecting" ELSE handler[d]
    BY <1>1, <2>1 DEF TypeOK
  <2>3. handler' \in [Client -> {"none", "connecting", "streaming", "left"}]
    BY <1>1, <2>1 DEF TypeOK
  <2>4. TypeOK'
    BY <1>1, <2>1, <2>2, <2>3 DEF TypeOK
  <2> QED
    BY <1>1, <1>2, <2>1, <2>2, <2>4 DEF BusInv, NothingMissed
<1>4. CASE CatchUp(c, "connecting", "streaming")
  <2>1. /\ handler[c] = "connecting" /\ subscribers' = subscribers
        /\ sent' = [sent EXCEPT ![c] = @ \cup Elems(recent)]
        /\ from' = [from EXCEPT ![c] = count - Len(recent)]
        /\ handler' = [handler EXCEPT ![c] = "streaming"]
    BY <1>4 DEF CatchUp, busVars
  <2>2. /\ \A d \in Client : handler'[d] = IF d = c THEN "streaming" ELSE handler[d]
        /\ handler' \in [Client -> {"none", "connecting", "streaming", "left"}]
    BY <1>1, <2>1 DEF TypeOK
  <2>3. /\ recent \in Seq(Event) /\ Len(recent) \in Nat /\ count \in 0 .. MaxEvents
        /\ DOMAIN recent = 1 .. Len(recent) /\ MaxEvents \in Nat
        /\ \A k \in 1 .. Len(recent) : recent[k] = count - Len(recent) + k
    BY <1>1, EventBusAssumption DEF TypeOK
  <2>4. count - Len(recent) \in 0 .. MaxEvents
    <3>1. CASE Len(recent) = 0
      BY <2>3, <3>1
    <3>2. CASE Len(recent) # 0
      <4>1. 1 \in DOMAIN recent
        BY <2>3, <3>2
      <4>2. recent[1] \in Event /\ recent[1] = count - Len(recent) + 1
        BY <2>3, <4>1
      <4> QED
        BY <2>3, <4>2 DEF Event
    <3> QED
      BY <3>1, <3>2
  <2>5. Elems(recent) \subseteq Event
    BY <2>3 DEF Elems
  <2>6. /\ sent' \in [Client -> SUBSET Event] /\ from' \in [Client -> 0 .. MaxEvents]
        /\ sent'[c] = sent[c] \cup Elems(recent) /\ from'[c] = count - Len(recent)
        /\ \A d \in Client : d # c => sent'[d] = sent[d] /\ from'[d] = from[d]
    BY <1>1, <2>1, <2>4, <2>5 DEF TypeOK
  <2>7. TypeOK'
    BY <1>1, <2>1, <2>2, <2>6 DEF TypeOK
  <2>8. (count - Len(recent) + 1) .. count \subseteq Elems(recent)
    <3> SUFFICES ASSUME NEW e \in (count - Len(recent) + 1) .. count
                 PROVE  e \in Elems(recent)
      OBVIOUS
    <3> DEFINE k == e - (count - Len(recent))
    <3>1. k \in 1 .. Len(recent) /\ count - Len(recent) + k = e
      BY <2>3
    <3>2. k \in DOMAIN recent /\ recent[k] = e
      BY <2>3, <3>1
    <3> QED
      BY <3>2 DEF Elems
  <2> QED
    BY <1>1, <1>2, <2>1, <2>2, <2>6, <2>7, <2>8 DEF BusInv, NothingMissed
<1> QED
  BY <1>3, <1>4 DEF Connect

LEMMA BusStream ==
    ASSUME BusInv, NEW c \in Client, Stream(c)
    PROVE  BusInv'
<1>1. /\ ch[c] # <<>>
      /\ sent' = [sent EXCEPT ![c] = @ \cup {Head(ch[c])}]
      /\ ch' = [ch EXCEPT ![c] = Tail(ch[c])]
      /\ UNCHANGED <<count, recent, subscribers, sending, handler, dropped, from, panicked>>
      /\ TypeOK
  BY DEF Stream, BusInv, busVars
<1>2. /\ Head(ch[c]) \in Event /\ Tail(ch[c]) \in Seq(Event)
      /\ Len(Tail(ch[c])) = Len(ch[c]) - 1 /\ Len(ch[c]) \in Nat
      /\ Elems(ch[c]) \subseteq {Head(ch[c])} \cup Elems(Tail(ch[c]))
  BY <1>1, HeadElems DEF TypeOK
<1>3. /\ ch' \in [Client -> Seq(Event)] /\ ch'[c] = Tail(ch[c])
      /\ \A d \in Client : d # c => ch'[d] = ch[d]
      /\ sent' \in [Client -> SUBSET Event] /\ sent'[c] = sent[c] \cup {Head(ch[c])}
      /\ \A d \in Client : d # c => sent'[d] = sent[d]
  BY <1>1, <1>2 DEF TypeOK
<1>4. \A d \in Client : Len(ch'[d]) <= ChCap
  BY <1>1, <1>2, <1>3, EventBusAssumption DEF TypeOK
<1>5. TypeOK'
  BY <1>1, <1>3, <1>4 DEF TypeOK
<1>6. ASSUME NEW d \in Client
      PROVE  sent[d] \cup Coming(d) \subseteq sent'[d] \cup Coming(d)'
  <2>1. {sending'[n].event : n \in {m \in Node : d \in sending'[m].to}}
          = {sending[n].event : n \in {m \in Node : d \in sending[m].to}}
    BY <1>1
  <2>2. sent[d] \cup Elems(ch[d]) \subseteq sent'[d] \cup Elems(ch'[d])
    BY <1>2, <1>3
  <2> QED
    BY <2>1, <2>2 DEF Coming, Elems
<1> QED
  BY <1>1, <1>5, <1>6 DEF BusInv, NothingMissed

LEMMA BusUnsubscribe ==
    ASSUME BusInv, NEW c \in Client, Unsubscribe(c)
    PROVE  BusInv'
<1>1. /\ subscribers' = subscribers \ {c} /\ handler' = [handler EXCEPT ![c] = "left"]
      /\ UNCHANGED <<count, recent, sending, ch, sent, dropped, from, panicked>>
      /\ TypeOK
  BY DEF Unsubscribe, BusInv
<1>2. /\ \A d \in Client : handler'[d] = IF d = c THEN "left" ELSE handler[d]
      /\ handler' \in [Client -> {"none", "connecting", "streaming", "left"}]
  BY <1>1 DEF TypeOK
<1>3. TypeOK'
  BY <1>1, <1>2 DEF TypeOK
<1>4. \A d \in Client : Coming(d)' = Coming(d)
  BY <1>1 DEF Coming, Elems
<1> QED
  BY <1>1, <1>2, <1>3, <1>4 DEF BusInv, NothingMissed

LEMMA BusInvariant == Spec => []BusInv
<1>1. BusInv /\ [Next]_vars => BusInv'
  <2> SUFFICES ASSUME BusInv, [Next]_vars PROVE BusInv'
    OBVIOUS
  <2>1. CASE UNCHANGED vars
    <3>1. /\ UNCHANGED <<count, recent, subscribers, sending>>
          /\ UNCHANGED <<ch, handler, sent, dropped, from, panicked>>
      BY <2>1 DEF vars, busVars, clientVars
    <3>2. TypeOK'
      BY <3>1 DEF BusInv, TypeOK
    <3>3. \A c \in Client : Coming(c)' = Coming(c)
      BY <3>1 DEF Coming, Elems
    <3> QED
      BY <3>1, <3>2, <3>3 DEF BusInv, NothingMissed
  <2> QED
    BY <2>1, BusPublish, BusDeliver, BusConnect, BusStream, BusUnsubscribe DEF Next
<1> QED
  BY <1>1, BusInit, PTL DEF Spec

\* The window and every channel stay within their bounds, and the window
\* always holds the last events published.
THEOREM TypeCorrect == Spec => []TypeOK
BY BusInvariant, PTL DEF BusInv

\* However many nodes publish and clients come and go, a client that streams
\* misses nothing since it was caught up but what its full channel dropped.
THEOREM NothingMissedCorrect == Spec => []NothingMissed
BY BusInvariant, PTL DEF BusInv
=============================================================================
