--------------------------- MODULE BlockingLists ----------------------------
(***************************************************************************)
(* LPUSH, RPUSH, LPOP, RPOP, RPOPLPUSH, BRPOPLPUSH and BRPOP over the      *)
(* lists of one database, and the waiters that BRPOPLPUSH leaves behind on *)
(* the server context, which is an EventEmitter.                           *)
(*                                                                         *)
(* A push stores its elements and then, still inside its handler, emits    *)
(* one event per element.  Emitting calls every listener in the order of   *)
(* registration, so that waiters take elements in the middle of whatever   *)
(* command pushed them, an EXEC included.  A waiter answers through a      *)
(* promise: only the first result counts, but the listener stays until the *)
(* timer of the waiter fires.                                              *)
(*                                                                         *)
(* A key may hold a string instead: the handlers notice when they ask for  *)
(* the list of it, and throw.  A listener that throws ends the emit, and   *)
(* the push that called it: it has no reply, and what it would have done   *)
(* next does not happen.                                                   *)
(*                                                                         *)
(* A command is a function from one state of the lists and the waiters,    *)
(* [lists, waiters, answers, moves, threw], to the next.  Within EXEC the  *)
(* same handlers run one after the other.                                  *)
(***************************************************************************)
EXTENDS Integers, Sequences, FiniteSets, SequencesExt

CONSTANTS
  Keys,         \* list keys
  Sessions,     \* clients
  MaxElements,  \* bound on the elements that are ever pushed
  MaxBlocking,  \* bound on the blocking requests
  BatchSizes,   \* how many elements one push may carry
  None,         \* no answer yet, and the key of BRPOP, which waits for none
  Nil,          \* the null reply
  Refused,      \* an error reply of the wrapper
  Rejected      \* no reply ever: the promise was rejected

Elements == 1..MaxElements
Requests == 1..MaxBlocking

ASSUME BoundsAssumption == MaxElements \in Nat /\ MaxBlocking \in Nat
ASSUME BatchAssumption == BatchSizes \subseteq Nat \ {0}
ASSUME AnswerAssumption == /\ {None, Nil, Refused, Rejected} \cap Elements = {}
                           /\ None \notin {Nil, Refused, Rejected}

VARIABLES
  lists,      \* [Keys -> Seq(Elements)], empty when the key has no list
  strings,    \* the keys that hold a string
  waiters,    \* the waiters whose timer runs, in the order of registration
  answers,    \* [Requests -> what the promise of the request resolved to]
  moves,      \* [Requests -> how many elements the request moved]
  connected,  \* the sessions in the context's dictionary of clients
  pushed,     \* how many elements were pushed
  asked,      \* how many blocking requests were made
  gone,       \* the elements that LPOP and RPOP returned, or SET and DEL removed
  fired,      \* the requests whose timer has fired
  unheard     \* the keys with elements that no event has told of to the end

vars == <<lists, strings, waiters, answers, moves, connected, pushed, asked, gone, fired, unheard>>

(* The bounds, and the clients, as the other actions leave them.           *)
counters == <<connected, pushed, asked, gone, fired>>

State == [lists |-> lists, waiters |-> waiters, answers |-> answers, moves |-> moves,
          threw |-> FALSE]

Become(st) ==
  /\ lists' = st.lists
  /\ waiters' = st.waiters
  /\ answers' = st.answers
  /\ moves' = st.moves

(* Keys keep the elements that came without an event until they are empty. *)
Unheard(st, keys) == unheard' = {k \in unheard \cup keys : st.lists[k] # <<>>}

(* The keys that have elements in st that they do not have now.            *)
MovedTo(st) == {k \in Keys : ToSet(st.lists[k]) \ ToSet(lists[k]) # {}}

(***************************************************************************)
(* The commands on lists.                                                  *)
(***************************************************************************)
Last1(seq) == seq[Len(seq)]

(* Mutant: the destination is read before the source is popped.            *)
RPopLPushStale(ls, src, dst) ==
  [ls EXCEPT ![src] = Front(@), ![dst] = <<Last1(ls[src])>> \o ls[dst]]

(* RPopLPushCommand.process on a source with elements: the list of the     *)
(* destination is the same object as that of the source when they are one. *)
RPopLPush(ls, src, dst) ==
  LET popped == [ls EXCEPT ![src] = Front(@)]
  IN [popped EXCEPT ![dst] = <<Last1(ls[src])>> \o @]

(* A promise resolves once.                                                *)
Settle(st, id, reply) ==
  IF st.answers[id] = None THEN [st EXCEPT !.answers[id] = reply] ELSE st

(* RPopLPushCommand.process looks at dst before it pops src.               *)
Throws(st, src, dst) ==
  \/ src \in strings
  \/ src \in Keys /\ st.lists[src] # <<>> /\ dst \in strings

(* What BRPOPLPUSH does first and what its event callback does.            *)
Process(st, id, src, dst) ==
  IF Throws(st, src, dst) THEN [st EXCEPT !.threw = TRUE]
  ELSE IF st.lists[src] = <<>> THEN Settle(st, id, Nil)
  ELSE Settle([st EXCEPT !.lists = RPopLPush(@, src, dst), !.moves[id] = @ + 1],
              id, Last1(st.lists[src]))

(* The listener of waiter w is called, unless one before it has thrown.    *)
Call(st, w, key) ==
  IF w.src = key /\ ~st.threw THEN Process(st, w.id, w.src, w.dst) ELSE st

(* Mutant: the listeners are called last to first.                         *)
EmitBackwards(st, key) == FoldRight(LAMBDA w, acc : Call(acc, w, key), st.waiters, st)

(* An lpush or rpush event on key: every listener on it, in order, up to   *)
(* one that throws.                                                        *)
Emit(st, key) ==
  LET called[i \in 0..Len(st.waiters)] ==
        IF i = 0 THEN st ELSE Call(called[i - 1], st.waiters[i], key)
  IN called[Len(st.waiters)]

(* LPUSH unshifts, RPUSH appends each element.                             *)
Stored(st, key, elements, side) ==
  [st EXCEPT !.lists[key] = IF side = "left" THEN Reverse(elements) \o @ ELSE @ \o elements]

(* Mutant: RPUSH has no event.                                             *)
PushSilent(st, key, elements, side) ==
  IF side = "right" THEN Stored(st, key, elements, side)
  ELSE FoldLeft(LAMBDA acc, e : Emit(acc, key), Stored(st, key, elements, side), elements)

(* All elements are stored, and then there is one event for each.          *)
Push(st, key, elements, side) ==
  LET told[i \in 0..Len(elements)] ==
        IF i = 0 THEN Stored(st, key, elements, side) ELSE Emit(told[i - 1], key)
  IN told[Len(elements)]

(* BRPOPLPUSH: a move if there is an element, and a waiter otherwise.  An  *)
(* exception in the executor rejects its promise.                          *)
Block(st, id, s, src, dst) ==
  IF Throws(st, src, dst) THEN Settle(st, id, Rejected)
  ELSE IF st.lists[src] # <<>> THEN Process(st, id, src, dst)
  ELSE [st EXCEPT !.waiters = Append(@, [id |-> id, session |-> s, src |-> src, dst |-> dst])]

(***************************************************************************)
(* The actions.                                                            *)
(***************************************************************************)
NextElements(n) == [i \in 1..n |-> pushed + i]

PushCommand(key, n, side) ==
  /\ pushed + n <= MaxElements
  /\ key \notin strings
  /\ LET st == Push(State, key, NextElements(n), side) IN
       /\ Become(st)
       /\ unheard' = {k \in (IF st.threw THEN unheard \cup {key} ELSE unheard \ {key}) \cup
                             (MovedTo(st) \ {key}) : st.lists[k] # <<>>}
  /\ pushed' = pushed + n
  /\ UNCHANGED <<strings, connected, asked, gone, fired>>

(* SET and DEL, on a key that nothing waits for or one that is waited for. *)
SetCommand(key) ==
  /\ key \notin strings
  /\ strings' = strings \cup {key}
  /\ lists' = [lists EXCEPT ![key] = <<>>]
  /\ gone' = gone \cup ToSet(lists[key])
  /\ unheard' = unheard \ {key}
  /\ UNCHANGED <<waiters, answers, moves, connected, pushed, asked, fired>>

DelCommand(key) ==
  /\ key \in strings \/ lists[key] # <<>>
  /\ strings' = strings \ {key}
  /\ lists' = [lists EXCEPT ![key] = <<>>]
  /\ gone' = gone \cup ToSet(lists[key])
  /\ unheard' = unheard \ {key}
  /\ UNCHANGED <<waiters, answers, moves, connected, pushed, asked, fired>>

(* LPOP and RPOP.  Nobody listens to the events of RPOP.  On a key that is *)
(* not there they answer nil, as RPOPLPUSH does, and change nothing.       *)
PopCommand(key, side) ==
  /\ lists[key] # <<>>
  /\ LET list == lists[key]
         e == IF side = "left" THEN Head(list) ELSE Last1(list)
     IN /\ lists' = [lists EXCEPT ![key] = IF side = "left" THEN Tail(list) ELSE Front(list)]
        /\ gone' = gone \cup {e}
        /\ unheard' = IF Len(list) = 1 THEN unheard \ {key} ELSE unheard
  /\ UNCHANGED <<strings, waiters, answers, moves, connected, pushed, asked, fired>>

(* RPOPLPUSH emits no event: nobody learns of the element in dst.          *)
RPopLPushCommand(src, dst) ==
  /\ lists[src] # <<>> /\ dst \notin strings
  /\ LET st == [State EXCEPT !.lists = RPopLPush(lists, src, dst)] IN
       Become(st) /\ Unheard(st, {dst} \ {src})
  /\ UNCHANGED <<strings, counters>>

BRPopLPushCommand(s, src, dst) ==
  /\ s \in connected /\ asked < MaxBlocking
  /\ LET st == Block(State, asked + 1, s, src, dst) IN
       Become(st) /\ Unheard(st, MovedTo(st))
  /\ asked' = asked + 1
  /\ UNCHANGED <<strings, connected, pushed, gone, fired>>

(* BRPOP and BLPOP with n parameters.  The wrapper was told by the field   *)
(* initializers of RPOP that there must be one, so that a key and a        *)
(* timeout are refused, and a timeout alone waits for no event at all.     *)
BRPopCommand(s, n) ==
  /\ s \in connected /\ asked < MaxBlocking
  /\ IF n = 1
     THEN Become([State EXCEPT !.waiters =
                    Append(@, [id |-> asked + 1, session |-> s, src |-> None, dst |-> None])])
     ELSE Become(Settle(State, asked + 1, Refused))
  /\ asked' = asked + 1
  /\ UNCHANGED <<strings, connected, pushed, gone, fired, unheard>>

(* Mutant: the timer answers but leaves the listeners.                     *)
TimeoutListening(i) ==
  /\ waiters[i].id \notin fired
  /\ Become(Settle(State, waiters[i].id, Nil))
  /\ fired' = fired \cup {waiters[i].id}
  /\ UNCHANGED <<strings, connected, pushed, asked, gone, unheard>>

(* Mutant: the timer does not resolve the promise.                         *)
TimeoutSilent(i) ==
  /\ waiters' = RemoveAt(waiters, i)
  /\ fired' = fired \cup {waiters[i].id}
  /\ UNCHANGED <<lists, strings, answers, moves, connected, pushed, asked, gone, unheard>>

(* The timer removes the listeners and resolves to nil.                    *)
Timeout(i) ==
  /\ Become(Settle([State EXCEPT !.waiters = RemoveAt(@, i)], waiters[i].id, Nil))
  /\ fired' = fired \cup {waiters[i].id}
  /\ UNCHANGED <<strings, connected, pushed, asked, gone, unheard>>

(* A closed socket takes the client out of the dictionary, and no more.    *)
Disconnect(s) ==
  /\ connected' = connected \ {s}
  /\ UNCHANGED <<lists, strings, waiters, answers, moves, pushed, asked, gone, fired, unheard>>

Init ==
  /\ lists = [k \in Keys |-> <<>>]
  /\ waiters = <<>>
  /\ answers = [r \in Requests |-> None]
  /\ moves = [r \in Requests |-> 0]
  /\ connected = Sessions
  /\ strings = {}
  /\ pushed = 0 /\ asked = 0 /\ gone = {} /\ fired = {} /\ unheard = {}

Fire == \E i \in 1..Len(waiters) : Timeout(i)

Next ==
  \/ \E key \in Keys, side \in {"left", "right"} :
       \/ \E n \in BatchSizes : PushCommand(key, n, side)
       \/ PopCommand(key, side)
  \/ \E src, dst \in Keys :
       \/ RPopLPushCommand(src, dst)
       \/ \E s \in Sessions : BRPopLPushCommand(s, src, dst)
  \/ \E s \in Sessions : Disconnect(s) \/ \E n \in 1..2 : BRPopCommand(s, n)
  \/ \E key \in Keys : SetCommand(key) \/ DelCommand(key)
  \/ Fire

(* Timers fire: Node's loop reaches its timer phase again and again, and a *)
(* timeout of zero is one of 24.8 days.                                    *)
Spec == Init /\ [][Next]_vars /\ WF_vars(Fire)
-----------------------------------------------------------------------------
Waiters ==
  [id : Requests, session : Sessions, src : Keys, dst : Keys] \cup
  [id : Requests, session : Sessions, src : {None}, dst : {None}]

(* Every variable is of its type.                                          *)
TypeOK ==
  /\ lists \in [Keys -> Seq(Elements)]
  /\ waiters \in Seq(Waiters)
  /\ answers \in [Requests -> Elements \cup {None, Nil, Refused, Rejected}]
  /\ moves \in [Requests -> 0..MaxElements]
  /\ connected \subseteq Sessions
  /\ pushed \in 0..MaxElements /\ asked \in 0..MaxBlocking
  /\ gone \subseteq Elements /\ fired \subseteq Requests
  /\ strings \subseteq Keys /\ unheard \subseteq Keys

Places(e) == {p \in UNION {{k} \X (1..Len(lists[k])) : k \in Keys} : lists[p[1]][p[2]] = e}

(* Whatever waiters, pops and moves do, every element that was pushed is   *)
(* in exactly one place of one list, or has been taken out by a pop or a   *)
(* command on the key, and never both                                      *)
(* (RPopLPushCommand.process, BRPoplPushCommand, LPopCommand, RPopCommand).*)
ElementsConserved ==
  /\ TypeOK
  /\ \A e \in Elements :
       Cardinality(Places(e)) = IF e <= pushed /\ e \notin gone THEN 1 ELSE 0

(* Once the timer of a request has fired, no push moves an element on its  *)
(* behalf (BRPoplPushCommand.removeListeners).                             *)
TimedOutMovesNothing ==
  [][\A r \in fired : moves'[r] = moves[r]]_vars

(* A push does not answer a waiter with an element past one that has       *)
(* waited longer for the same list (EventEmitter.emit, BRPoplPushCommand). *)
FirstComeFirstServed ==
  [][\A i, j \in 1..Len(waiters) :
       /\ i < j /\ waiters[i].src = waiters[j].src
       /\ answers[waiters[i].id] = None /\ answers[waiters[j].id] = None
       /\ answers'[waiters[j].id] \in Elements
       => answers'[waiters[i].id] \in Elements]_vars

(* Nobody waits beside a list with elements, but where they came without   *)
(* an event, from RPOPLPUSH or another waiter, or with a push that ended   *)
(* in the exception of a waiter before it (LPushCommand, RPushCommand,     *)
(* BRPoplPushCommand).                                                     *)
WaitersHearOfElements ==
  \A w \in ToSet(waiters) :
    (w.src # None /\ answers[w.id] = None /\ lists[w.src] # <<>>) => w.src \in unheard

(* Every blocking request is answered, by a push or by its timer, or its   *)
(* handler has thrown (TimedEmitter, BRPoplPushCommand, BRPopCommand).     *)
BlockedAreAnswered ==
  \A r \in Requests : (asked >= r) ~> (answers[r] # None)

(***************************************************************************)
(* What the repository says and the code does not do.                      *)
(***************************************************************************)

(* brpoplpush-command.ts: the reply is the element being popped from       *)
(* source and pushed to destination.  Listeners that outlive the answer    *)
(* move an element for every later push.                                   *)
OneMovePerRequest == \A r \in Requests : moves[r] <= 1
=============================================================================
