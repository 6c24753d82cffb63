------------------------------- MODULE PubSub -------------------------------
(***************************************************************************)
(* SUBSCRIBE, UNSUBSCRIBE and PUBLISH.  A subscription is a TimedEmitter:  *)
(* its constructor hangs a listener on the server context, which relays    *)
(* every message of the channel to the callback attached to the emitter.   *)
(* UNSUBSCRIBE detaches the callback; the listener on the context is never *)
(* removed, neither then nor when the client goes away.                    *)
(***************************************************************************)
EXTENDS Integers, Sequences, FiniteSets, SequencesExt

CONSTANTS
  Sessions, Channels,
  MaxNamed,      \* bound on the channels one SUBSCRIBE names
  MaxEmitters,   \* bound on the TimedEmitters that are ever made
  MaxMessages    \* bound on the messages that are ever published

ASSUME BoundsAssumption == MaxNamed \in Nat /\ MaxEmitters \in Nat /\ MaxMessages \in Nat

VARIABLES
  emitters,       \* the listeners of the context, in order: [session, channel]
  attached,       \* the positions of those whose callback is attached
  subscriptions,  \* [Sessions -> [Channels -> position of an emitter, or 0]]
  inbox,          \* [Sessions -> what was written to the socket]
  connected,      \* the sessions whose socket is open
  published,      \* how many messages were published
  counted,        \* the reply to the last PUBLISH
  crashed,        \* an exception that nobody catches ended the process
  doubled         \* history: the sessions that named a channel twice at once

vars == <<emitters, attached, subscriptions, inbox, connected, published, counted,
          crashed, doubled>>

Subscribed(s) == {c \in Channels : subscriptions[s][c] # 0}

(* listenerCount(channel) of the context.                                  *)
Listeners(c) == {i \in 1..Len(emitters) : emitters[i].channel = c}

(* The callbacks that a message on channel c reaches for session s.        *)
Callbacks(s, c) == {i \in Listeners(c) \cap attached : emitters[i].session = s}

(* SUBSCRIBE to the channels of new: an emitter, an entry of the session   *)
(* and a reply for each, one after the other.                              *)
Attach(s, new) ==
  LET Newest(c) == CHOOSE i \in 1..Len(new) : new[i] = c /\ \A j \in i + 1..Len(new) : new[j] # c
      CountAfter(i) == Cardinality(Subscribed(s) \cup {new[j] : j \in 1..i})
  IN
  /\ Len(emitters) + Len(new) <= MaxEmitters
  /\ emitters' = emitters \o [i \in 1..Len(new) |-> [session |-> s, channel |-> new[i]]]
  /\ attached' = attached \cup (Len(emitters) + 1..Len(emitters) + Len(new))
  /\ subscriptions' = [subscriptions EXCEPT ![s] = [c \in Channels |->
       IF \E i \in 1..Len(new) : new[i] = c THEN Len(emitters) + Newest(c) ELSE @[c]]]
  /\ inbox' = [inbox EXCEPT ![s] = @ \o [i \in 1..Len(new) |->
       [kind |-> "subscribe", channel |-> new[i], number |-> CountAfter(i)]]]
  /\ doubled' = IF \E i, j \in 1..Len(new) : i # j /\ new[i] = new[j]
                THEN doubled \cup {s} ELSE doubled
  /\ UNCHANGED <<connected, published, counted, crashed>>

(* The channels of the request that are not in C, in their order.          *)
Without(channels, C) ==
  LET rest[i \in 0..Len(channels)] ==
        IF i = 0 THEN <<>>
        ELSE IF channels[i] \in C THEN rest[i - 1] ELSE Append(rest[i - 1], channels[i])
  IN rest[Len(channels)]

(* Mutant: a channel is subscribed to again.                               *)
SubscribeAgain(s, channels) == Attach(s, channels)

(* The channels are filtered before the first emitter is made, so that one *)
(* that is named twice gets two emitters, of which the session keeps one.  *)
(* With no channel left nothing happens and the promise stays open.        *)
SubscribeCommand(s, channels) ==
  Attach(s, Without(channels, Subscribed(s)))

(* Mutant: the callback is not detached.                                   *)
UnsubscribeAttached(s, C) ==
  /\ subscriptions' = [subscriptions EXCEPT ![s] = [c \in Channels |-> IF c \in C THEN 0 ELSE @[c]]]
  /\ UNCHANGED <<emitters, attached, inbox, connected, published, counted, crashed, doubled>>

(* Session.unSubscribe of each channel.  Without a channel the wrapper     *)
(* refuses the request, because minParams is 1.                            *)
UnsubscribeCommand(s, C) ==
  /\ attached' = attached \ {subscriptions[s][c] : c \in C}
  /\ subscriptions' = [subscriptions EXCEPT ![s] = [c \in Channels |-> IF c \in C THEN 0 ELSE @[c]]]
  /\ UNCHANGED <<emitters, inbox, connected, published, counted, crashed, doubled>>

(* What a message adds to the inbox of session s: one copy for every       *)
(* callback.  A write to a socket that is closed goes nowhere.             *)
Copies(s, c) ==
  IF s \notin connected THEN <<>>
  ELSE [i \in 1..Cardinality(Callbacks(s, c)) |->
          [kind |-> "message", channel |-> c, number |-> published + 1]]

(* Mutant: the reply counts the subscribed sessions.                       *)
PublishCountingSessions(c) ==
  /\ published < MaxMessages
  /\ published' = published + 1
  /\ inbox' = [s \in Sessions |-> inbox[s] \o Copies(s, c)]
  /\ counted' = Cardinality({s \in Sessions : c \in Subscribed(s)})
  /\ UNCHANGED <<emitters, attached, subscriptions, connected, crashed, doubled>>

(* The context emits the message, then counts the listeners.               *)
PublishCommand(c) ==
  /\ published < MaxMessages
  /\ published' = published + 1
  /\ inbox' = [s \in Sessions |-> inbox[s] \o Copies(s, c)]
  /\ counted' = Cardinality(Listeners(c))
  /\ UNCHANGED <<emitters, attached, subscriptions, connected, crashed, doubled>>

(* The "close" handler forgets the client and nothing else.                *)
Disconnect(s) ==
  /\ connected' = connected \ {s}
  /\ UNCHANGED <<emitters, attached, subscriptions, inbox, published, counted, crashed, doubled>>

(* After 2147483647 ms the timer of an emitter fires.  Its handler passes  *)
(* an emitter, or undefined, to off() where a function is due: off throws. *)
EmitterTimeout ==
  /\ emitters # <<>>
  /\ crashed' = TRUE
  /\ UNCHANGED <<emitters, attached, subscriptions, inbox, connected, published, counted, doubled>>

Init ==
  /\ emitters = <<>>
  /\ attached = {}
  /\ subscriptions = [s \in Sessions |-> [c \in Channels |-> 0]]
  /\ inbox = [s \in Sessions |-> <<>>]
  /\ connected = Sessions
  /\ published = 0
  /\ counted = 0
  /\ crashed = FALSE
  /\ doubled = {}

Next ==
  /\ ~crashed
  /\ \/ \E s \in connected :
          \/ \E channels \in SeqOf(Channels, MaxNamed) \ {<<>>} : SubscribeCommand(s, channels)
          \/ \E C \in SUBSET Channels \ {{}} : UnsubscribeCommand(s, C)
          \/ Disconnect(s)
     \/ \E c \in Channels : PublishCommand(c)
     \/ EmitterTimeout

Spec == Init /\ [][Next]_vars
-----------------------------------------------------------------------------
Written == [kind : {"subscribe", "message"}, channel : Channels, number : Nat]

(* Every variable is of its type.                                          *)
TypeOK ==
  /\ emitters \in Seq([session : Sessions, channel : Channels])
  /\ attached \subseteq 1..Len(emitters)
  /\ subscriptions \in [Sessions -> [Channels -> 0..Len(emitters)]]
  /\ inbox \in [Sessions -> Seq(Written)]
  /\ connected \subseteq Sessions /\ doubled \subseteq Sessions
  /\ published \in 0..MaxMessages
  /\ counted \in 0..MaxEmitters
  /\ crashed \in BOOLEAN

(* What a session holds for a channel is an emitter of its own, on that    *)
(* channel, with its callback attached; and every other emitter of the     *)
(* session is detached, unless the session named a channel twice           *)
(* (Session.subscribe, Session.unSubscribe, SubscribeCommand).             *)
SubscriptionsAreAttached ==
  /\ TypeOK
  /\ \A s \in Sessions, c \in Channels :
       /\ subscriptions[s][c] # 0 => subscriptions[s][c] \in Callbacks(s, c)
       /\ s \notin doubled => Callbacks(s, c) \subseteq {subscriptions[s][c]}

(* A message reaches every connected subscriber once and nobody else: not  *)
(* one that has unsubscribed, not twice one that has subscribed again.     *)
(* Sessions that named a channel twice in one request are excepted         *)
(* (SubscribeCommand, Session.unSubscribe, RespServerContext.publish).     *)
SubscribersHearOnce ==
  [][published' # published =>
       \A c \in Channels : \A s \in Sessions \ doubled :
         LET heard == Cardinality({i \in 1..Len(inbox'[s]) :
                        inbox'[s][i] = [kind |-> "message", channel |-> c, number |-> published']})
             sent == Len(inbox'[s]) - Len(inbox[s])
         IN /\ heard <= 1
            /\ heard = 1 => s \in connected /\ c \in Subscribed(s)
            /\ s \in connected /\ Subscribed(s) = Channels => sent = 1]_vars

(* The reply to PUBLISH counts at least every copy that was written: a     *)
(* client that hears a message twice is counted twice, and no delivery     *)
(* goes uncounted (PublishCommand, RespServerContext.publish).             *)
PublishCountsEveryCopy ==
  [][published' # published =>
       counted' >= Cardinality(UNION {{s} \X (Len(inbox[s]) + 1..Len(inbox'[s])) : s \in Sessions})]_vars
=============================================================================
