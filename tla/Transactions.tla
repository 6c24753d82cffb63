---------------------------- MODULE Transactions ----------------------------
(***************************************************************************)
(* How requests become replies: RespServer.receive, the CommandWrapper     *)
(* around every command, and MULTI, EXEC and DISCARD.                      *)
(*                                                                         *)
(* One socket read is a chunk of pipelined requests.  The parser calls the *)
(* handler of each in turn without yielding; every handler runs up to its  *)
(* await, and what follows the await (publishing the reply) is a microtask.*)
(* Microtasks run in the order they were queued, after the whole chunk,    *)
(* and before any other socket is read.                                    *)
(*                                                                         *)
(* What commands do to the data matters only as far as transactions can    *)
(* tell: a database is one register, a write stores the id of its request. *)
(* A handler may also throw (a key of the wrong type), or return a promise *)
(* that is resolved later (BRPOPLPUSH) or never (SUBSCRIBE).               *)
(*                                                                         *)
(* Two handlers act on others before they return.  A push calls those who  *)
(* wait for its event, of any session: which, how often and in what order  *)
(* is left open here, and BlockingLists says it.  SUBSCRIBE writes its     *)
(* confirmation to the socket itself; the messages that follow, PubSub's,  *)
(* are not on the wire of this module.                                     *)
(***************************************************************************)
EXTENDS Integers, Sequences, FiniteSets

CONSTANTS
  Sessions,     \* the connected clients
  Dbs,          \* the database indices
  Ops,          \* the kinds of request clients send in this instance
  MaxRequests,  \* bound on the requests of a behaviour
  MaxChunk,     \* bound on the requests in one socket read
  MaxCalls,     \* bound on the calls of waiters by one push
  NoQueue       \* Session.commands when it is undefined

AllOps == {"write", "push", "read", "throw", "wait", "subscribe", "select",
           "arity", "unknown", "multi", "exec", "discard"}

ASSUME OpsAssumption == Ops \subseteq AllOps
ASSUME DbsAssumption == Dbs \subseteq Nat /\ 0 \in Dbs
ASSUME BoundsAssumption == MaxRequests \in Nat /\ MaxChunk \in Nat \ {0} /\ MaxCalls \in Nat

Ids == 1..MaxRequests

Requests == [id : Ids, session : Sessions, op : AllOps, db : Dbs]

ASSUME NoQueueAssumption == NoQueue \notin Seq(Requests)

VARIABLES
  store,      \* [Dbs -> id of the last write, or 0]
  currentDb,  \* [Sessions -> Dbs]
  commands,   \* [Sessions -> the queue of a transaction, or NoQueue]
  errored,    \* [Sessions -> BOOLEAN]
  reader,     \* the session whose chunk is being parsed
  unread,     \* how many requests of that chunk are not handled yet
  exec,       \* the EXEC that runs its queue: its id, the db and what is left
  emit,       \* the push that calls waiters: its id, its EXEC and the event
  microtasks, \* FIFO queue of what follows an await
  pending,    \* requests whose promise is not resolved, with the EXEC or 0
  waiters,    \* the BRPOPLPUSHs whose timer runs: the event and the database
  tokens,     \* [Ids -> the reply array of that EXEC]
  wire,       \* [Sessions -> the replies written to the socket]
  requests,   \* the requests handled so far, in order
  log         \* what the properties look back at, see Log

server == <<store, currentDb, commands, errored, tokens, wire>>
loop == <<reader, unread, exec, microtasks, pending>>
calls == <<emit, waiters>>
vars == <<server, loop, calls, requests, log>>

(* History.  runs: the executions of handlers that change or read the      *)
(* data, with the database they ran on and the push that called them, 0    *)
(* for a request's own turn.  tx: for each request, the MULTI it belongs   *)
(* to, or 0; the requests that a transaction refused; those whose handler  *)
(* threw.                                                                  *)
Log == [runs : Seq([id : Ids, db : Dbs, by : 0..MaxRequests]),
        tx : [Ids -> 0..MaxRequests], opened : [Sessions -> 0..MaxRequests],
        refused : SUBSET Ids, thrown : SUBSET Ids]

Waiters == [id : Ids, db : Dbs, on : Dbs]
Emissions == [id : 0..MaxRequests, exec : 0..MaxRequests, on : Dbs, left : 0..MaxCalls]

Idle == [id |-> 0, db |-> 0, todo |-> <<>>]
Quiet == [id |-> 0, exec |-> 0, on |-> 0, left |-> 0]

Ok == <<"ok">>
Queued == <<"queued">>
Error == <<"error">>
Subscribed == <<"subscribed">>
Value(v) == <<"value", v>>
Array(ts) == <<"array", ts>>

InTransaction(s) == commands[s] # NoQueue

(* The microtask that publishes a reply, or, within EXEC, pushes a token.  *)
(* The reply of an EXEC is a reference to its array of tokens.             *)
PushToken(r, reply, e) == [id |-> r.id, session |-> r.session, exec |-> e, reply |-> reply]
Publish(r, reply) == PushToken(r, reply, 0)
Later(task) == microtasks' = Append(microtasks, task)

(* Mutant: an error is published at once.                                  *)
ReplyErrorNow(r, reply) ==
  IF reply = Error
  THEN /\ wire' = [wire EXCEPT ![r.session] = Append(@, [id |-> r.id, reply |-> reply])]
       /\ UNCHANGED <<pending, microtasks>>
  ELSE Later(Publish(r, reply)) /\ UNCHANGED <<pending, wire>>

Reply(r, reply) == Later(Publish(r, reply)) /\ UNCHANGED <<pending, wire>>

(***************************************************************************)
(* Executing a command's own handler on database d.  Its result goes to    *)
(* the tokens of the EXEC e, or to the client when e is 0.                 *)
(***************************************************************************)
Run(i, d, by) == Append(log.runs, [id |-> i, db |-> d, by |-> by])

(* The events that waiters listen for are named after the database their   *)
(* session had selected, a push's after that of its own session.           *)
Listening(on) == {w \in waiters : w.on = on}

DataCommand(r, d, e) ==
  /\ \/ /\ r.op = "write"
        /\ store' = [store EXCEPT ![d] = r.id]
        /\ Later(PushToken(r, Ok, e))
        /\ log' = [log EXCEPT !.runs = Run(r.id, d, 0)]
        /\ UNCHANGED currentDb
     \/ /\ r.op = "read"
        /\ Later(PushToken(r, Value(store[d]), e))
        /\ log' = [log EXCEPT !.runs = Run(r.id, d, 0)]
        /\ UNCHANGED <<store, currentDb>>
     \/ /\ r.op = "select"
        /\ currentDb' = [currentDb EXCEPT ![r.session] = r.db]
        /\ Later(PushToken(r, Ok, e))
        /\ UNCHANGED <<store, log>>
     \/ /\ r.op = "throw"
        /\ log' = [log EXCEPT !.runs = Run(r.id, d, 0), !.thrown = @ \cup {r.id}]
        /\ UNCHANGED <<store, currentDb, microtasks>>
  /\ UNCHANGED <<pending, wire, calls>>

(* LPUSH and RPUSH store all of their elements before they emit events.    *)
Push(r, d, e) ==
  /\ r.op = "push"
  /\ store' = [store EXCEPT ![d] = r.id]
  /\ log' = [log EXCEPT !.runs = Run(r.id, d, 0)]
  /\ emit' = [id |-> r.id, exec |-> e, on |-> currentDb[r.session], left |-> MaxCalls]
  /\ UNCHANGED <<currentDb, pending, waiters, microtasks, wire>>

(* BRPOPLPUSH finds an element to move, or registers its listeners.        *)
Wait(r, d, e) ==
  /\ r.op = "wait"
  /\ \/ /\ store' = [store EXCEPT ![d] = r.id]
        /\ Later(PushToken(r, Ok, e))
        /\ UNCHANGED <<pending, waiters>>
     \/ /\ pending' = pending \cup {PushToken(r, Ok, e)}
        /\ waiters' = waiters \cup {[id |-> r.id, db |-> d, on |-> currentDb[r.session]]}
        /\ UNCHANGED <<store, microtasks>>
  /\ log' = [log EXCEPT !.runs = Run(r.id, d, 0)]
  /\ UNCHANGED <<currentDb, emit, wire>>

(* SUBSCRIBE confirms a channel at once, unless it is one of the session's *)
(* already, and its promise stays open.                                    *)
Subscribe(r) ==
  /\ r.op = "subscribe"
  /\ \/ wire' = [wire EXCEPT ![r.session] = Append(@, [id |-> r.id, reply |-> Subscribed])]
     \/ /\ \E n \in 1..Len(wire[r.session]) : wire[r.session][n].reply = Subscribed
        /\ UNCHANGED wire
  /\ UNCHANGED <<store, currentDb, microtasks, pending, calls, log>>

Execute(r, d, e) == DataCommand(r, d, e) \/ Push(r, d, e) \/ Wait(r, d, e) \/ Subscribe(r)

(***************************************************************************)
(* The session's transaction state.                                        *)
(***************************************************************************)

(* Mutant: an earlier error survives MULTI.                                *)
StartTransactionKeepingError(s) ==
  commands' = [commands EXCEPT ![s] = <<>>] /\ UNCHANGED errored

StartTransaction(s) ==
  /\ commands' = [commands EXCEPT ![s] = <<>>]
  /\ errored' = [errored EXCEPT ![s] = FALSE]

AbortTransaction(s) ==
  /\ commands' = [commands EXCEPT ![s] = NoQueue]
  /\ errored' = [errored EXCEPT ![s] = FALSE]

QueueRequest(s, r) ==
  /\ commands' = [commands EXCEPT ![s] = Append(@, r)]
  /\ UNCHANGED errored

(***************************************************************************)
(* The requests that the wrapper, or the lack of one, answers itself.      *)
(***************************************************************************)
Untouched == UNCHANGED <<store, currentDb, tokens, exec, calls>>

LogRefusal(r) ==
  log' = [log EXCEPT !.tx[r.id] = log.opened[r.session],
                     !.refused = IF InTransaction(r.session) THEN @ \cup {r.id} ELSE @]

(* Mutant: the transaction does not hear of it.                            *)
ArityErrorForgotten(r) ==
  /\ r.op = "arity"
  /\ Reply(r, Error)
  /\ LogRefusal(r)
  /\ UNCHANGED <<commands, errored>> /\ Untouched

(* What the wrapper refuses, a wrong number of arguments or the wrong type *)
(* for a command that declares one, is an error of the transaction, if any.*)
ArityError(r) ==
  /\ r.op = "arity"
  /\ errored' = IF InTransaction(r.session) THEN [errored EXCEPT ![r.session] = TRUE]
                ELSE errored
  /\ Reply(r, Error)
  /\ LogRefusal(r)
  /\ UNCHANGED commands /\ Untouched

(* NullCommand is not wrapped and sets the error with or without MULTI.    *)
NullCommand(r) ==
  /\ r.op = "unknown"
  /\ errored' = [errored EXCEPT ![r.session] = TRUE]
  /\ Reply(r, Error)
  /\ LogRefusal(r)
  /\ UNCHANGED commands /\ Untouched

(* Mutant: pushes are among the commands that are never queued.            *)
DeferredReads(op) == op \notin {"exec", "discard", "multi", "push"}

(* "exec discard multi" are never queued.                                  *)
Deferred(op) == op \notin {"exec", "discard", "multi"}

Defer(r) ==
  /\ r.op \notin {"arity", "unknown"}
  /\ InTransaction(r.session) /\ Deferred(r.op)
  /\ QueueRequest(r.session, r)
  /\ Reply(r, Queued)
  /\ log' = [log EXCEPT !.tx[r.id] = log.opened[r.session]]
  /\ Untouched

Immediate(r) ==
  /\ ~(InTransaction(r.session) /\ Deferred(r.op))
  /\ Execute(r, currentDb[r.session], 0)
  /\ UNCHANGED <<commands, errored, tokens, exec>>

(* Mutant: a nested MULTI is ignored in silence.                           *)
MultiSilent(r) ==
  /\ r.op = "multi"
  /\ IF InTransaction(r.session)
     THEN UNCHANGED <<commands, errored, log, pending, wire, microtasks>>
     ELSE /\ StartTransaction(r.session)
          /\ Reply(r, Ok)
          /\ log' = [log EXCEPT !.opened[r.session] = r.id]
  /\ Untouched

MultiCommand(r) ==
  /\ r.op = "multi"
  /\ IF InTransaction(r.session)
     THEN Reply(r, Error) /\ UNCHANGED <<commands, errored, log>>
     ELSE /\ StartTransaction(r.session)
          /\ Reply(r, Ok)
          /\ log' = [log EXCEPT !.opened[r.session] = r.id]
  /\ Untouched

DiscardCommand(r) ==
  /\ r.op = "discard"
  /\ IF InTransaction(r.session)
     THEN /\ AbortTransaction(r.session)
          /\ Reply(r, Ok)
          /\ log' = [log EXCEPT !.opened[r.session] = 0]
     ELSE Reply(r, Error) /\ UNCHANGED <<commands, errored, log>>
  /\ Untouched

(* EXEC hands its queue to the loop of ExecStep, with the database that is *)
(* the session's now.                                                      *)
ExecCommand(r) ==
  /\ r.op = "exec"
  /\ IF ~InTransaction(r.session)
     THEN Reply(r, Error) /\ UNCHANGED <<commands, errored, exec, log>>
     ELSE /\ log' = [log EXCEPT !.tx[r.id] = log.opened[r.session],
                                !.opened[r.session] = 0]
          /\ IF errored[r.session]
             THEN AbortTransaction(r.session) /\ Reply(r, Error) /\ UNCHANGED exec
             ELSE /\ commands' = [commands EXCEPT ![r.session] = NoQueue]
                  /\ exec' = [id |-> r.id, db |-> currentDb[r.session],
                              todo |-> commands[r.session]]
                  /\ UNCHANGED <<errored, microtasks, pending, wire>>
  /\ UNCHANGED <<store, currentDb, tokens, calls>>

(***************************************************************************)
(* The event loop.                                                         *)
(***************************************************************************)

(* Nothing is left to do for the engine.                                   *)
AtRest == unread = 0 /\ exec = Idle /\ emit = Quiet /\ microtasks = <<>>

(* A socket is read then.                                                  *)
Receive(s, n) ==
  /\ AtRest
  /\ Len(requests) + n <= MaxRequests
  /\ reader' = s
  /\ unread' = n
  /\ UNCHANGED <<server, exec, microtasks, pending, calls, requests, log>>

(* The parser hands the next request of the chunk to its handler.          *)
Handle ==
  /\ unread > 0 /\ exec = Idle /\ emit = Quiet
  /\ \E op \in Ops, d \in Dbs :
       LET r == [id |-> Len(requests) + 1, session |-> reader, op |-> op, db |-> d] IN
       /\ op # "select" => d = 0
       /\ \/ ArityError(r) \/ NullCommand(r) \/ Defer(r) \/ Immediate(r)
          \/ MultiCommand(r) \/ DiscardCommand(r) \/ ExecCommand(r)
       /\ requests' = Append(requests, r)
  /\ unread' = unread - 1
  /\ UNCHANGED reader

(* Mutant: the queue is emptied from its end.                              *)
ExecStepBackwards ==
  /\ exec.todo # <<>> /\ emit = Quiet
  /\ Execute(exec.todo[Len(exec.todo)], exec.db, exec.id)
  /\ exec' = [exec EXCEPT !.todo = SubSeq(@, 1, Len(@) - 1)]
  /\ UNCHANGED <<commands, errored, tokens, reader, unread, requests>>

(* One turn of the map in EXEC: the bare command, not its wrapper.         *)
ExecStep ==
  /\ exec.todo # <<>> /\ emit = Quiet
  /\ Execute(Head(exec.todo), exec.db, exec.id)
  /\ exec' = [exec EXCEPT !.todo = Tail(@)]
  /\ UNCHANGED <<commands, errored, tokens, reader, unread, requests>>

(* Mutant: EXEC holds the loop until every promise of its queue is open no *)
(* more.                                                                   *)
ExecReturnLast ==
  /\ exec # Idle /\ exec.todo = <<>> /\ emit = Quiet
  /\ \A task \in pending : task.exec # exec.id
  /\ Later(Publish(requests[exec.id], Array(<<>>)))
  /\ exec' = Idle
  /\ UNCHANGED <<server, reader, unread, pending, calls, requests, log>>

(* Mutant: a waiter answers every time it is called.                       *)
SettleAgain(i) ==
  IF \E task \in pending : task.id = i
  THEN \E task \in {t \in pending : t.id = i} : Later(task) /\ UNCHANGED pending
  ELSE UNCHANGED <<pending, microtasks>>

(* The promise of request i, if it is still open.                          *)
Settle(i) ==
  IF \E task \in pending : task.id = i
  THEN \E task \in {t \in pending : t.id = i} :
         pending' = pending \ {task} /\ Later(task)
  ELSE UNCHANGED <<pending, microtasks>>

(* A waiter is called: it moves an element to the database it was asked    *)
(* on, or finds none, and resolves its promise, unless that was done by an *)
(* earlier call.  Or it throws, which ends the push and not the waiter.    *)
EmitStep ==
  /\ emit.left > 0
  /\ \E w \in Listening(emit.on) :
       \/ /\ store' \in {store, [store EXCEPT ![w.db] = w.id]}
          /\ Settle(w.id)
          /\ emit' = [emit EXCEPT !.left = @ - 1]
          /\ log' = [log EXCEPT !.runs = Run(w.id, w.db, emit.id)]
       \/ /\ emit' = Quiet
          /\ log' = [log EXCEPT !.runs = Run(w.id, w.db, emit.id),
                                !.thrown = @ \cup {emit.id}]
          /\ UNCHANGED <<store, pending, microtasks>>
  /\ UNCHANGED <<currentDb, commands, errored, tokens, wire, reader, unread, exec,
                 waiters, requests>>

(* The push returns the length of its list.                                *)
EmitReturn ==
  /\ emit # Quiet
  /\ Later(PushToken(requests[emit.id], Ok, emit.exec))
  /\ emit' = Quiet
  /\ UNCHANGED <<server, reader, unread, exec, pending, waiters, requests, log>>

(* EXEC returns the array, which the tokens are pushed into later on.      *)
ExecReturn ==
  /\ exec # Idle /\ exec.todo = <<>> /\ emit = Quiet
  /\ Later(Publish(requests[exec.id], Array(<<>>)))
  /\ exec' = Idle
  /\ UNCHANGED <<server, reader, unread, pending, calls, requests, log>>

(* A microtask: push a token, or serialize a reply and write it out.       *)
Microtask ==
  /\ unread = 0 /\ exec = Idle /\ emit = Quiet /\ microtasks # <<>>
  /\ LET task == Head(microtasks) IN
       IF task.exec # 0
       THEN /\ tokens' = [tokens EXCEPT ![task.exec] = Append(@, task.reply)]
            /\ UNCHANGED wire
       ELSE /\ wire' = [wire EXCEPT ![task.session] = Append(@,
                 [id |-> task.id,
                  reply |-> IF task.reply[1] = "array" THEN Array(tokens[task.id])
                            ELSE task.reply])]
            /\ UNCHANGED tokens
  /\ microtasks' = Tail(microtasks)
  /\ UNCHANGED <<store, currentDb, commands, errored, reader, unread, exec,
                 pending, calls, requests, log>>

(* The timer of a waiter removes its listeners and resolves its promise.   *)
Timeout ==
  /\ AtRest
  /\ \E w \in waiters :
       /\ waiters' = waiters \ {w}
       /\ Settle(w.id)
  /\ UNCHANGED <<server, reader, unread, exec, emit, requests, log>>

Init ==
  /\ store = [d \in Dbs |-> 0]
  /\ currentDb = [s \in Sessions |-> 0]
  /\ commands = [s \in Sessions |-> NoQueue]
  /\ errored = [s \in Sessions |-> FALSE]
  /\ reader \in Sessions
  /\ unread = 0
  /\ exec = Idle
  /\ microtasks = <<>>
  /\ pending = {}
  /\ emit = Quiet
  /\ waiters = {}
  /\ tokens = [i \in Ids |-> <<>>]
  /\ wire = [s \in Sessions |-> <<>>]
  /\ requests = <<>>
  /\ log = [runs |-> <<>>, tx |-> [i \in Ids |-> 0], opened |-> [s \in Sessions |-> 0],
            refused |-> {}, thrown |-> {}]

Work == Handle \/ ExecStep \/ ExecReturn \/ EmitStep \/ EmitReturn \/ Microtask

Next ==
  \/ \E s \in Sessions, n \in 1..MaxChunk : Receive(s, n)
  \/ Work
  \/ Timeout

(* The JavaScript engine runs what it has started to the end.              *)
Spec == Init /\ [][Next]_vars /\ WF_vars(Work)
-----------------------------------------------------------------------------
Replies == {Ok, Queued, Error, Array(<<>>)} \cup {Value(v) : v \in 0..MaxRequests}
Tasks == [id : Ids, session : Sessions, exec : 0..MaxRequests, reply : Replies]
Written == [id : Ids, reply : Replies \cup {Subscribed} \cup ({"array"} \X Seq(Replies))]

(* Every variable is of its type.                                          *)
TypeOK ==
  /\ store \in [Dbs -> 0..MaxRequests]
  /\ currentDb \in [Sessions -> Dbs]
  /\ commands \in [Sessions -> Seq(Requests) \cup {NoQueue}]
  /\ errored \in [Sessions -> BOOLEAN]
  /\ reader \in Sessions /\ unread \in 0..MaxChunk
  /\ exec \in [id : 0..MaxRequests, db : Dbs, todo : Seq(Requests)]
  /\ microtasks \in Seq(Tasks) /\ pending \subseteq Tasks
  /\ emit \in Emissions /\ waiters \subseteq Waiters
  /\ tokens \in [Ids -> Seq(Replies)]
  /\ wire \in [Sessions -> Seq(Written)]
  /\ requests \in Seq(Requests) /\ Len(requests) + unread <= MaxRequests
  /\ log \in Log

(* A transaction is marked as errored exactly when one of its own requests *)
(* was refused: an error left over from before MULTI, or from the previous *)
(* transaction, does not doom it, and none of its own is forgotten         *)
(* (Session.startTransaction and abortTransaction, CommandWrapper,         *)
(* NullCommand).                                                           *)
ErroredIffRefused ==
  /\ TypeOK
  /\ \A s \in Sessions :
       InTransaction(s) =>
         (errored[s] <=> \E i \in log.refused : log.tx[i] = log.opened[s])

(* The turns of request i, and the requests of transaction t.              *)
RunsOf(i) == {n \in 1..Len(log.runs) : log.runs[n].id = i /\ log.runs[n].by = 0}

Members(t) ==
  {i \in 1..Len(requests) :
     log.tx[i] = t /\ requests[i].op \notin {"exec", "select", "subscribe"}}

(* A transaction runs all of its requests, each once, or none of them, and *)
(* none when one of its requests was refused (ExecCommand, DiscardCommand).*)
AllOrNothing ==
  exec = Idle =>
    \A t \in 1..Len(requests) :
      \/ \A i \in Members(t) : RunsOf(i) = {}
      \/ \A i \in Members(t) : Cardinality(RunsOf(i)) = 1 /\ i \notin log.refused

(* Whose doing a run is: the request's, or the push's that called it.      *)
Cause(n) == IF log.runs[n].by = 0 THEN log.runs[n].id ELSE log.runs[n].by

(* Between the first and the last thing that happens by a transaction all  *)
(* that happens is its doing: its requests, in the order in which they     *)
(* were sent, and the waiters of other requests that its pushes call.  All *)
(* of its requests run on one database, that of the first, although a      *)
(* SELECT among them changes the one the session has selected              *)
(* (ExecCommand, LPushCommand, BRPoplPushCommand).                         *)
RunsAreContiguous ==
  \A a, c \in 1..Len(log.runs) :
    LET t == log.tx[Cause(a)] IN
    a < c /\ t # 0 /\ log.tx[Cause(c)] = t =>
      /\ \A b \in a..c : log.tx[Cause(b)] = t
      /\ log.runs[a].by = 0 /\ log.runs[c].by = 0 =>
           log.runs[a].id < log.runs[c].id /\ log.runs[a].db = log.runs[c].db

(* A request between MULTI and EXEC does not touch the data when it is     *)
(* received (CommandWrapper.execSync).                                     *)
QueuedRequestsWait ==
  [][store' # store => exec # Idle \/ ~InTransaction(reader)]_vars

(* A session reads its replies in the order of its requests.  The reply of *)
(* a request that waited may come later.  The confirmation of a SUBSCRIBE  *)
(* may come before the replies to earlier requests of its chunk, or after  *)
(* those to later requests when a transaction has queued it: it is written *)
(* by the handler itself (RespServer.receive, with pipelined requests;     *)
(* SubscribeCommand).                                                      *)
RepliesInOrder ==
  \A s \in Sessions : \A j, k \in 1..Len(wire[s]) :
    j < k =>
      \/ wire[s][j].id < wire[s][k].id
      \/ requests[wire[s][k].id].op = "wait"
      \/ wire[s][j].reply = Subscribed
      \/ wire[s][k].reply = Subscribed /\ log.tx[wire[s][k].id] # 0

(* Where the replies to request i are; a confirmation is not its reply.    *)
RepliesTo(i) ==
  UNION {{<<s, j>> : j \in {n \in 1..Len(wire[s]) :
            wire[s][n].id = i /\ wire[s][n].reply # Subscribed}} : s \in Sessions}

Waits(i) == \E task \in pending : task.id = i /\ task.exec = 0

(* SUBSCRIBE never resolves its promise.                                   *)
NeverAnswers(i) == i \in log.thrown \/ requests[i].op = "subscribe"

(* When the loop is at rest every request has had exactly one reply, on    *)
(* its own socket, but for those whose promise is open and those whose     *)
(* handler threw when they were received (RespServer.receive, ExecCommand).*)
OneReplyEach ==
  AtRest =>
    \A i \in 1..Len(requests) :
      IF Waits(i) \/ (NeverAnswers(i) /\ log.tx[i] = 0)
      THEN RepliesTo(i) = {}
      ELSE \E j \in 1..Len(wire[requests[i].session]) :
             RepliesTo(i) = {<<requests[i].session, j>>}

(* Every request that is handled comes to be answered, or to wait for a    *)
(* promise, or to throw, or is a SUBSCRIBE (RespServer.receive).           *)
RequestsSettle ==
  \A i \in Ids :
    (Len(requests) >= i) ~>
      (RepliesTo(i) # {} \/ Waits(i) \/ (i <= Len(requests) /\ NeverAnswers(i)))
=============================================================================
