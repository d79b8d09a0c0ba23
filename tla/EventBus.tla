------------------------------- MODULE EventBus -------------------------------
(***************************************************************************)
(* The event bus (internal/events) and its clients, the SSE handlers of    *)
(* the HTTP API.  A node publishes while it holds its own mutex, so it has *)
(* one Publish under way at most; it copies the list of subscribers under  *)
(* b.mu and sends to them after it has released it.                        *)
(*                                                                         *)
(* Events are numbered in the order in which they enter the recent window. *)
(* The filters of a client are left out: it is shown all it receives.      *)
(***************************************************************************)
EXTENDS Integers, Sequences, FiniteSets

CONSTANTS
    Node,       \* publishers
    Client,     \* SSE connections
    MaxRecent,  \* size of the recent window (1000 in NewBus)
    ChCap,      \* capacity of a subscriber's channel (256 in Subscribe)
    MayLeave,   \* whether a client may disconnect
    MaxEvents   \* bound: events published

ASSUME EventBusAssumption ==
    /\ IsFiniteSet(Client)
    /\ MaxRecent \in Nat
    /\ ChCap \in Nat \ {0}
    /\ MayLeave \in BOOLEAN
    /\ MaxEvents \in Nat

VARIABLES
    count,        \* events published so far
    recent,       \* the window, oldest first
    subscribers,  \* the list, as a set: the order of the sends is any
    sending,      \* what a node's Publish has still to do
    ch,           \* the channels of the subscribers
    handler,      \* where the SSE handler of a client is
    sent,         \* history: the events written to the client
    dropped,      \* history: the events dropped because its channel was full
    from,         \* history: events the window had lost when it was caught up
    panicked      \* a send on a closed channel has ended the process

busVars    == <<count, recent, subscribers>>
clientVars == <<ch, handler, sent, dropped, from>>
vars == <<busVars, sending, clientVars, panicked>>

Event == 1..MaxEvents

-----------------------------------------------------------------------------
Init ==
    /\ count = 0 /\ recent = <<>> /\ subscribers = {}
    /\ sending = [n \in Node |-> [event |-> 0, to |-> {}]]
    /\ ch      = [c \in Client |-> <<>>]
    /\ handler = [c \in Client |-> "none"]
    /\ sent    = [c \in Client |-> {}]
    /\ dropped = [c \in Client |-> {}]
    /\ from    = [c \in Client |-> 0]
    /\ panicked = FALSE

\* Mutant of Window: one element too many is kept.
WindowAndOne(s) ==
    IF Len(s) > MaxRecent THEN SubSeq(s, Len(s) - MaxRecent, Len(s)) ELSE s

\* The last MaxRecent elements of s.
Window(s) ==
    IF Len(s) > MaxRecent THEN SubSeq(s, Len(s) - MaxRecent + 1, Len(s)) ELSE s

\* The locked part of Publish; the list is copied with the event's entry
\* into the window, in one critical section.
Publish(n) ==
    /\ ~panicked /\ sending[n].to = {} /\ count < MaxEvents
    /\ count' = count + 1
    /\ recent' = Window(Append(recent, count + 1))
    /\ sending' = [sending EXCEPT ![n] = [event |-> count + 1, to |-> subscribers]]
    /\ UNCHANGED <<subscribers, clientVars, panicked>>

\* Mutant of Offer: the send waits for room.
OfferOrWait(n, c) ==
    /\ c \in sending[n].to /\ handler[c] # "left" /\ Len(ch[c]) < ChCap
    /\ ch' = [ch EXCEPT ![c] = Append(@, sending[n].event)]
    /\ UNCHANGED <<dropped, panicked>>

\* The select of Publish for one subscriber: its channel takes the event, or
\* is full, or was closed after the list was copied, which panics.
Offer(n, c) ==
    /\ c \in sending[n].to
    /\ IF handler[c] = "left"
       THEN panicked' = TRUE /\ UNCHANGED <<ch, dropped>>
       ELSE IF Len(ch[c]) < ChCap
       THEN /\ ch' = [ch EXCEPT ![c] = Append(@, sending[n].event)]
            /\ UNCHANGED <<dropped, panicked>>
       ELSE /\ dropped' = [dropped EXCEPT ![c] = @ \cup {sending[n].event}]
            /\ UNCHANGED <<ch, panicked>>

Deliver(n, c) ==
    /\ ~panicked /\ Offer(n, c)
    /\ sending' = [sending EXCEPT ![n].to = @ \ {c}]
    /\ UNCHANGED <<busVars, handler, sent, from>>

-----------------------------------------------------------------------------
(* The SSE handler of a client.                                            *)

Elems(s) == {s[k] : k \in DOMAIN s}

Subscribe(c, at, next) ==
    /\ handler[c] = at
    /\ subscribers' = subscribers \cup {c}
    /\ handler' = [handler EXCEPT ![c] = next]
    /\ UNCHANGED <<count, recent, ch, sent, dropped, from>>

CatchUp(c, at, next) ==
    /\ handler[c] = at
    /\ sent' = [sent EXCEPT ![c] = @ \cup Elems(recent)]
    /\ from' = [from EXCEPT ![c] = count - Len(recent)]
    /\ handler' = [handler EXCEPT ![c] = next]
    /\ UNCHANGED <<busVars, ch, dropped>>

\* Mutant of Connect: the recent events are read before the subscription.
CatchUpThenSubscribe(c) ==
    \/ CatchUp(c, "none", "connecting")
    \/ Subscribe(c, "connecting", "streaming")

\* The client is subscribed first and then sent what is recent, so that an
\* event published in between is sent twice rather than never.
Connect(c) ==
    \/ Subscribe(c, "none", "connecting")
    \/ CatchUp(c, "connecting", "streaming")

Stream(c) ==
    /\ ~panicked /\ handler[c] = "streaming" /\ ch[c] # <<>>
    /\ sent' = [sent EXCEPT ![c] = @ \cup {Head(ch[c])}]
    /\ ch' = [ch EXCEPT ![c] = Tail(@)]
    /\ UNCHANGED <<busVars, sending, handler, dropped, from, panicked>>

\* The request's context is done: Unsubscribe closes the channel.  A client
\* that comes back is another one.
Unsubscribe(c) ==
    /\ ~panicked /\ MayLeave /\ handler[c] = "streaming"
    /\ subscribers' = subscribers \ {c}
    /\ handler' = [handler EXCEPT ![c] = "left"]
    /\ UNCHANGED <<count, recent, sending, ch, sent, dropped, from, panicked>>

-----------------------------------------------------------------------------
Next ==
    \/ \E n \in Node : Publish(n) \/ \E c \in Client : Deliver(n, c)
    \/ \E c \in Client :
          \/ ~panicked /\ Connect(c) /\ UNCHANGED <<sending, panicked>>
          \/ Stream(c) \/ Unsubscribe(c)

Spec == Init /\ [][Next]_vars

\* A node that publishes runs on; a client may be as slow as it likes.
LiveSpec ==
    Spec /\ \A n \in Node : WF_vars(\E c \in Client : Deliver(n, c))

-----------------------------------------------------------------------------
(* Properties.                                                             *)

\* Type correctness: the window and the channels are bounded, the window
\* holds the last events, and nobody unsubscribed is in the list.
TypeOK ==
    /\ count \in 0..MaxEvents
    /\ recent \in Seq(Event) /\ Len(recent) <= MaxRecent
    /\ \A k \in DOMAIN recent : recent[k] = count - Len(recent) + k
    /\ subscribers \subseteq Client
    /\ \A c \in subscribers : handler[c] \in {"connecting", "streaming"}
    /\ sending \in [Node -> [event : 0..MaxEvents, to : SUBSET Client]]
    /\ ch \in [Client -> Seq(Event)] /\ \A c \in Client : Len(ch[c]) <= ChCap
    /\ handler \in [Client -> {"none", "connecting", "streaming", "left"}]
    /\ sent \in [Client -> SUBSET Event]
    /\ dropped \in [Client -> SUBSET Event]
    /\ from \in [Client -> 0..MaxEvents]
    /\ panicked \in BOOLEAN

\* On its way to c.
Coming(c) ==
    Elems(ch[c])
      \cup {sending[n].event : n \in {m \in Node : c \in sending[m].to}}

\* A client that streams misses no event between the oldest that was recent
\* when it was caught up and the newest, but those its full channel made
\* Publish drop (handler.go:266-279, events.go:102-118).
NothingMissed ==
    \A c \in Client : handler[c] = "streaming" =>
        (from[c] + 1)..count \subseteq sent[c] \cup dropped[c] \cup Coming(c)

\* A node that publishes goes on, however slow the clients are: Publish is
\* called with r.mu held (events.go:95-118: "never block Raft").  The panic is
\* that of a client that leaves between the copy of the list and the send.
PublishReturns ==
    \A n \in Node : sending[n].to # {} ~> sending[n].to = {} \/ panicked
===============================================================================
