------------------------- MODULE TransactionsProofs -------------------------
(***************************************************************************)
(* Theorems about Transactions, for any sessions, databases, commands and  *)
(* bounds.                                                                 *)
(***************************************************************************)
EXTENDS Transactions, FiniteSetTheorems, TLAPS

Count == Len(requests)

(* Requests are numbered in the order of their arrival, and the EXEC that  *)
(* runs is the request that came last.                                     *)
Numbered ==
  /\ \A i \in 1..Count : requests[i].id = i
  /\ exec.id = 0 => exec = Idle
  /\ exec # Idle =>
       /\ exec.id = Count /\ Count # 0 /\ requests[exec.id].op = "exec"
       /\ log.tx[exec.id] # 0

(* A transaction is named by its MULTI, which belongs to the session; what *)
(* is logged as a part of it came later, from the same session.            *)
Opened ==
  \A s \in Sessions :
    /\ log.opened[s] \in 0..Count
    /\ InTransaction(s) <=> log.opened[s] # 0
    /\ InTransaction(s) => requests[log.opened[s]].session = s

Parts ==
  /\ \A i \in Ids : i > Count => log.tx[i] = 0
  /\ \A i \in 1..Count : log.tx[i] # 0 =>
       log.tx[i] < i /\ requests[log.tx[i]].session = requests[i].session
  /\ \A i \in log.refused : i \in 1..Count /\ log.tx[i] # 0 /\ RunsOf(i) = {}
  /\ \A n \in 1..Len(log.runs) :
       /\ Cause(n) \in 1..Count /\ RunsOf(Cause(n)) # {}
       /\ requests[Cause(n)].op \notin {"exec", "select", "subscribe"}

Marked ==
  \A s \in Sessions :
    InTransaction(s) => (errored[s] <=> \E i \in log.refused : log.tx[i] = log.opened[s])

(* The requests in q are some of transaction t's, in their order, none of  *)
(* which has run.                                                          *)
Queues(q, t) ==
  /\ \A n \in 1..Len(q) :
       /\ q[n].id \in 1..Count /\ q[n] = requests[q[n].id]
       /\ log.tx[q[n].id] = t
       /\ RunsOf(q[n].id) = {}
  /\ \A m, n \in 1..Len(q) : m < n => q[m].id < q[n].id

In(i, q) == \E n \in 1..Len(q) : q[n].id = i

(* An open transaction has every request that was not refused in its queue.*)
OpenQueues ==
  \A s \in Sessions : InTransaction(s) =>
    /\ Queues(commands[s], log.opened[s])
    /\ \A i \in Members(log.opened[s]) : i \in log.refused \/ In(i, commands[s])

RanOnce(i) == i \notin log.refused /\ \E n \in RunsOf(i) : RunsOf(i) = {n}

(* The transaction whose doing a run is.                                   *)
Tx(n) == log.tx[Cause(n)]

(* The transaction that runs is not open any more.  What is left is in the *)
(* queue, and what has run, or was called, is at the end of the runs, on   *)
(* one database as far as it is the requests' own.                         *)
Running ==
  LET t == log.tx[exec.id] IN
  exec # Idle =>
    /\ \A s \in Sessions : log.opened[s] # t
    /\ Queues(exec.todo, t)
    /\ \A i \in Members(t) : (i \notin log.refused /\ In(i, exec.todo)) \/ RanOnce(i)
    /\ \A a \in 1..Len(log.runs) : Tx(a) = t =>
         /\ \A b \in a..Len(log.runs) : Tx(b) = t
         /\ log.runs[a].by = 0 =>
              /\ log.runs[a].db = exec.db
              /\ \A n \in 1..Len(exec.todo) : log.runs[a].id < exec.todo[n].id

(* The push that calls waiters is one of the transaction that runs, or the *)
(* request that came last, from a session without a transaction.           *)
Emits ==
  emit # Quiet =>
    /\ emit.id \in 1..Count /\ requests[emit.id].op = "push" /\ RunsOf(emit.id) # {}
    /\ emit.exec = exec.id
    /\ exec # Idle => log.tx[emit.id] = log.tx[exec.id]
    /\ exec = Idle => emit.id = Count /\ log.tx[emit.id] = 0 /\ ~InTransaction(reader)

(* A transaction that is neither open nor running has run or never will.   *)
Over(t) == (\A s \in Sessions : log.opened[s] # t) /\ (exec = Idle \/ log.tx[exec.id] # t)

Closed ==
  \A t \in 1..Count : Over(t) =>
    \/ \A i \in Members(t) : RunsOf(i) = {}
    \/ \A i \in Members(t) : RanOnce(i)

TxInv ==
  /\ Numbered /\ Opened /\ Parts /\ Marked /\ OpenQueues /\ Running /\ Closed
  /\ Emits /\ RunsAreContiguous

(***************************************************************************)
(* Where the reply of a request is on its way.                             *)
(***************************************************************************)
IsReply(task) == task.exec = 0

(* Replies on their way are for requests that have been handled, go to the *)
(* session that sent them, and are late only when the request waited.      *)
Addressed ==
  /\ log.thrown \subseteq 1..Count
  /\ \A n \in 1..Len(microtasks) : IsReply(microtasks[n]) =>
       microtasks[n].id \in 1..Count /\ microtasks[n].session = requests[microtasks[n].id].session
  /\ \A task \in pending : IsReply(task) =>
       /\ task.id \in 1..Count /\ task.session = requests[task.id].session
       /\ requests[task.id].op = "wait"
  /\ \A s \in Sessions : \A j \in 1..Len(wire[s]) :
       wire[s][j].id \in 1..Count /\ requests[wire[s][j].id].session = s

Late(i) == requests[i].op = "wait"

InOrder ==
  /\ RepliesInOrder
  /\ \A s \in Sessions : \A j \in 1..Len(wire[s]), n \in 1..Len(microtasks) :
       IsReply(microtasks[n]) /\ microtasks[n].session = s =>
         \/ wire[s][j].id < microtasks[n].id \/ Late(microtasks[n].id)
         \/ wire[s][j].reply = Subscribed
  /\ \A m, n \in 1..Len(microtasks) :
       m < n /\ IsReply(microtasks[m]) /\ IsReply(microtasks[n]) =>
         microtasks[m].id < microtasks[n].id \/ Late(microtasks[n].id)

OnWire(i) ==
  \E s \in Sessions : \E j \in 1..Len(wire[s]) : wire[s][j].id = i /\ wire[s][j].reply # Subscribed
OnQueue(i) == \E n \in 1..Len(microtasks) : microtasks[n].id = i /\ IsReply(microtasks[n])
Executing(i) ==
  (exec # Idle /\ exec.id = i) \/ (emit # Quiet /\ emit.exec = 0 /\ emit.id = i)
Failed(i) == NeverAnswers(i) /\ log.tx[i] = 0

(* Every request is in exactly one of these places, and there once.        *)
Placed(i) ==
  /\ OnWire(i) \/ OnQueue(i) \/ Waits(i) \/ Executing(i) \/ Failed(i)
  /\ OnWire(i) => ~OnQueue(i) /\ ~Waits(i) /\ ~Executing(i) /\ ~Failed(i)
  /\ OnQueue(i) => ~Waits(i) /\ ~Executing(i) /\ ~Failed(i)
  /\ Waits(i) => ~Executing(i) /\ ~Failed(i)
  /\ Executing(i) => ~Failed(i)

Accounted == \A i \in 1..Count : Placed(i)

Distinct ==
  /\ \A s \in Sessions : \A j, k \in 1..Len(wire[s]) :
       /\ wire[s][j].id = wire[s][k].id
       /\ wire[s][j].reply # Subscribed /\ wire[s][k].reply # Subscribed
       => j = k
  /\ \A m, n \in 1..Len(microtasks) :
       IsReply(microtasks[m]) /\ IsReply(microtasks[n]) /\ microtasks[m].id = microtasks[n].id => m = n
  /\ \A p, q \in pending : IsReply(p) /\ IsReply(q) /\ p.id = q.id => p = q

(* A step that leaves request i where it is.                               *)
PlaceKept(i) ==
  /\ OnWire(i)' <=> OnWire(i)
  /\ OnQueue(i)' <=> OnQueue(i)
  /\ Waits(i)' <=> Waits(i)
  /\ Executing(i)' <=> Executing(i)
  /\ Failed(i)' <=> Failed(i)

ReplyInv == Addressed /\ InOrder /\ Accounted /\ Distinct

Inv == TypeOK /\ TxInv /\ ReplyInv

(***************************************************************************)
(* Types.                                                                  *)
(***************************************************************************)
LEMMA TxTypes ==
  ASSUME TypeOK
  PROVE  /\ Count \in Nat /\ \A i \in 1..Count : i \in Ids /\ log.tx[i] \in 0..MaxRequests
         /\ log.tx \in [Ids -> 0..MaxRequests] /\ log.opened \in [Sessions -> 0..MaxRequests]
<1>1. log.tx \in [Ids -> 0..MaxRequests] /\ log.opened \in [Sessions -> 0..MaxRequests]
  BY DEF TypeOK, Log
<1>2. Count \in Nat /\ \A i \in 1..Count : i \in Ids
  BY BoundsAssumption DEF TypeOK, Ids, Count
<1>. QED  BY <1>1, <1>2

LEMMA TaskIsTask ==
  ASSUME NEW r \in Requests, NEW reply \in Replies, NEW e \in 0..MaxRequests
  PROVE  /\ PushToken(r, reply, e) \in Tasks
         /\ PushToken(r, reply, e).id = r.id
         /\ PushToken(r, reply, e).session = r.session
         /\ PushToken(r, reply, e).exec = e
BY DEF PushToken, Tasks, Requests

LEMMA RepliesAreReplies ==
  /\ Ok \in Replies /\ Queued \in Replies /\ Error \in Replies /\ Array(<<>>) \in Replies
  /\ \A v \in 0..MaxRequests : Value(v) \in Replies
BY DEF Replies

LogOfRuns == Seq([id : Ids, db : Dbs, by : 0..MaxRequests])

LEMMA RunLogged ==
  ASSUME NEW l \in Log, NEW m, NEW runs \in LogOfRuns, NEW i \in Ids,
         \/ m = [l EXCEPT !.runs = runs]
         \/ m = [l EXCEPT !.runs = runs, !.thrown = @ \cup {i}]
  PROVE  m \in Log
<1>1. CASE m = [l EXCEPT !.runs = runs]
  BY <1>1 DEF Log, LogOfRuns
<1>2. CASE m = [l EXCEPT !.runs = runs, !.thrown = @ \cup {i}]
  BY <1>2 DEF Log, LogOfRuns
<1>. QED  BY <1>1, <1>2

LEMMA RunTypes ==
  ASSUME TypeOK, NEW i \in Ids, NEW d \in Dbs, NEW by \in 0..MaxRequests, NEW j \in Ids,
         \/ log' = [log EXCEPT !.runs = Run(i, d, by)]
         \/ log' = [log EXCEPT !.runs = Run(i, d, by), !.thrown = @ \cup {j}]
  PROVE  log' \in Log
<1>1. log \in Log
  BY DEF TypeOK
<1>2. Run(i, d, by) \in LogOfRuns
  BY <1>1 DEF Run, Log, LogOfRuns
<1>. QED  BY <1>1, <1>2, RunLogged, Zenon

LEMMA ExecuteTypes ==
  ASSUME TypeOK, NEW r \in Requests, NEW d \in Dbs, NEW e \in 0..MaxRequests, Execute(r, d, e)
  PROVE  /\ store' \in [Dbs -> 0..MaxRequests]
         /\ currentDb' \in [Sessions -> Dbs]
         /\ microtasks' \in Seq(Tasks)
         /\ pending' \subseteq Tasks
         /\ wire' \in [Sessions -> Seq(Written)]
         /\ emit' \in Emissions
         /\ waiters' \subseteq Waiters
         /\ log' \in Log
<1>1. r.id \in 0..MaxRequests /\ r.id \in Ids /\ r.db \in Dbs /\ r.session \in Sessions
  BY BoundsAssumption DEF Requests, Ids
<1>2. ASSUME \/ log' = [log EXCEPT !.runs = Run(r.id, d, 0)]
             \/ log' = [log EXCEPT !.runs = Run(r.id, d, 0), !.thrown = @ \cup {r.id}]
      PROVE  log' \in Log
  <2>1. 0 \in 0..MaxRequests
    BY BoundsAssumption
  <2>. QED  BY <1>1, <1>2, <2>1, RunTypes, Zenon
<1>3. ASSUME NEW reply \in Replies, Later(PushToken(r, reply, e))
      PROVE  microtasks' \in Seq(Tasks)
  BY <1>3, TaskIsTask DEF Later, TypeOK
<1>4. store[d] \in 0..MaxRequests /\ currentDb[r.session] \in Dbs
  BY <1>1 DEF TypeOK
<1>5. CASE DataCommand(r, d, e)
  <2>1. /\ pending' \subseteq Tasks /\ wire' \in [Sessions -> Seq(Written)]
        /\ emit' \in Emissions /\ waiters' \subseteq Waiters
    BY <1>5 DEF DataCommand, calls, TypeOK
  <2>2. CASE r.op = "write"
    BY <1>1, <1>2, <1>3, <1>5, <2>1, <2>2, RepliesAreReplies DEF DataCommand, TypeOK
  <2>3. CASE r.op = "read"
    BY <1>2, <1>3, <1>4, <1>5, <2>1, <2>3, RepliesAreReplies DEF DataCommand, TypeOK
  <2>4. CASE r.op = "select"
    BY <1>1, <1>3, <1>5, <2>1, <2>4, RepliesAreReplies DEF DataCommand, TypeOK
  <2>5. CASE r.op = "throw"
    BY <1>2, <1>5, <2>1, <2>5 DEF DataCommand, TypeOK
  <2>. QED  BY <1>5, <2>2, <2>3, <2>4, <2>5 DEF DataCommand
<1>6. CASE Push(r, d, e)
  <2>1. emit' \in Emissions
    BY <1>1, <1>4, <1>6, BoundsAssumption DEF Push, Emissions
  <2>2. store' \in [Dbs -> 0..MaxRequests]
    BY <1>1, <1>6 DEF Push, TypeOK
  <2>. QED  BY <1>2, <1>6, <2>1, <2>2 DEF Push, TypeOK
<1>7. CASE Wait(r, d, e)
  <2>1. PushToken(r, Ok, e) \in Tasks
    BY TaskIsTask, RepliesAreReplies
  <2>2. [id |-> r.id, db |-> d, on |-> currentDb[r.session]] \in Waiters
    BY <1>1, <1>4 DEF Waiters
  <2>3. store' \in [Dbs -> 0..MaxRequests] /\ microtasks' \in Seq(Tasks)
    BY <1>1, <1>3, <1>7, RepliesAreReplies DEF Wait, TypeOK
  <2>4. pending' \subseteq Tasks /\ waiters' \subseteq Waiters
    BY <1>7, <2>1, <2>2 DEF Wait, TypeOK
  <2>. QED  BY <1>2, <1>7, <2>3, <2>4 DEF Wait, TypeOK
<1>8. CASE Subscribe(r)
  <2>1. [id |-> r.id, reply |-> Subscribed] \in Written
    BY <1>1 DEF Written
  <2>2. wire' \in [Sessions -> Seq(Written)]
    <3>1. Append(wire[r.session], [id |-> r.id, reply |-> Subscribed]) \in Seq(Written)
      BY <1>1, <2>1 DEF TypeOK
    <3>. QED  BY <1>1, <1>8, <3>1 DEF Subscribe, TypeOK
  <2>. QED  BY <1>8, <2>2 DEF Subscribe, calls, TypeOK
<1>. QED  BY <1>5, <1>6, <1>7, <1>8 DEF Execute

LEMMA ReplyTypes ==
  ASSUME TypeOK, NEW r \in Requests, NEW reply \in Replies, Reply(r, reply)
  PROVE  microtasks' \in Seq(Tasks) /\ pending' = pending /\ wire' = wire
<1>1. PushToken(r, reply, 0) \in Tasks
  BY TaskIsTask, BoundsAssumption
<1>. QED  BY <1>1 DEF Reply, Later, Publish, TypeOK

(* What every request does besides what its own handler does.              *)
Arrives(r) ==
  /\ unread > 0 /\ exec = Idle /\ emit = Quiet
  /\ r \in Requests /\ r.id = Count + 1 /\ r.session = reader
  /\ requests' = Append(requests, r)
  /\ unread' = unread - 1
  /\ UNCHANGED reader

Answer(r) ==
  \/ ArityError(r) \/ NullCommand(r) \/ Defer(r) \/ Immediate(r)
  \/ MultiCommand(r) \/ DiscardCommand(r) \/ ExecCommand(r)

LEMMA HandleArrives ==
  ASSUME TypeOK, Handle
  PROVE  \E r \in Requests : Arrives(r) /\ Answer(r)
<1>1. PICK op \in Ops, d \in Dbs :
        LET r == [id |-> Count + 1, session |-> reader, op |-> op, db |-> d] IN
          Answer(r) /\ requests' = Append(requests, r)
  BY DEF Handle, Answer, Count
<1>. DEFINE r == [id |-> Count + 1, session |-> reader, op |-> op, db |-> d]
<1>2. Count + 1 \in Ids
  BY BoundsAssumption DEF Handle, TypeOK, Count, Ids
<1>3. r \in Requests
  BY <1>2, OpsAssumption DEF Requests, TypeOK
<1>. QED  BY <1>1, <1>3 DEF Handle, Arrives

LEMMA Arrival ==
  ASSUME TypeOK, NEW r, Arrives(r)
  PROVE  /\ Count \in Nat /\ Count' = Count + 1 /\ Count + 1 \in Ids
         /\ requests' \in Seq(Requests)
         /\ \A i \in 1..Count : requests'[i] = requests[i]
         /\ requests'[Count + 1] = r
         /\ r.id \in Ids /\ r.session \in Sessions /\ r.db \in Dbs /\ r.op \in AllOps
         /\ Count' + unread' <= MaxRequests /\ unread' \in 0..MaxChunk
<1>1. requests \in Seq(Requests) /\ r \in Requests
  BY DEF TypeOK, Arrives
<1>2. Count \in Nat /\ Count' = Count + 1
  BY <1>1 DEF Arrives, Count
<1>3. Count' + unread' <= MaxRequests /\ unread' \in 0..MaxChunk
  BY <1>2, BoundsAssumption DEF Arrives, TypeOK, Count
<1>4. Count + 1 \in Ids
  BY <1>1 DEF Arrives, Requests
<1>. QED  BY <1>1, <1>2, <1>3, <1>4 DEF Arrives, Requests, Count

LEMMA OpenedUpdate ==
  ASSUME TypeOK, NEW s \in Sessions, NEW v \in 0..MaxRequests
  PROVE  [log EXCEPT !.opened[s] = v] \in Log
<1>1. [log.opened EXCEPT ![s] = v] \in [Sessions -> 0..MaxRequests]
  BY DEF Log, TypeOK
<1>. QED  BY <1>1 DEF Log, TypeOK

LEMMA LogUpdates ==
  ASSUME TypeOK, NEW i \in Ids, NEW s \in Sessions, NEW v \in 0..MaxRequests,
         \/ log' = [log EXCEPT !.tx[i] = v]
         \/ log' = [log EXCEPT !.tx[i] = v, !.opened[s] = 0]
  PROVE  log' \in Log
<1>1. log \in Log /\ 0 \in 0..MaxRequests
  BY BoundsAssumption DEF TypeOK
<1>2. /\ [log.opened EXCEPT ![s] = 0] \in [Sessions -> 0..MaxRequests]
      /\ [log.tx EXCEPT ![i] = v] \in [Ids -> 0..MaxRequests]
  BY <1>1 DEF Log
<1>. QED  BY <1>1, <1>2 DEF Log

LEMMA QueueUpdates ==
  ASSUME TypeOK, NEW s \in Sessions, NEW q \in Seq(Requests) \cup {NoQueue}
  PROVE  /\ [commands EXCEPT ![s] = q] \in [Sessions -> Seq(Requests) \cup {NoQueue}]
         /\ [errored EXCEPT ![s] = FALSE] \in [Sessions -> BOOLEAN]
BY DEF TypeOK

LEMMA RefusalTypes ==
  ASSUME TypeOK, NEW r \in Requests, LogRefusal(r)
  PROVE  log' \in Log
<1>1. r.id \in Ids /\ r.session \in Sessions
  BY DEF Requests
<1>. QED  BY <1>1 DEF LogRefusal, TypeOK, Log

LEMMA HandleType ==
  ASSUME TypeOK, Handle
  PROVE  TypeOK'
<1>1. PICK r \in Requests : Arrives(r) /\ Answer(r)
  BY HandleArrives
<1>. USE RepliesAreReplies
<1>2. /\ requests' \in Seq(Requests) /\ Len(requests') + unread' <= MaxRequests
      /\ reader' \in Sessions /\ unread' \in 0..MaxChunk
      /\ r.id \in Ids /\ r.session \in Sessions
  BY <1>1, Arrival DEF Arrives, Count, TypeOK
<1>3. ASSUME Untouched PROVE
        /\ store' \in [Dbs -> 0..MaxRequests] /\ currentDb' \in [Sessions -> Dbs]
        /\ tokens' \in [Ids -> Seq(Replies)]
        /\ exec' \in [id : 0..MaxRequests, db : Dbs, todo : Seq(Requests)]
        /\ emit' \in Emissions /\ waiters' \subseteq Waiters
  BY <1>3 DEF Untouched, calls, TypeOK, Emissions
<1>4. ASSUME NEW reply \in Replies, Reply(r, reply) PROVE
        microtasks' \in Seq(Tasks) /\ pending' \subseteq Tasks /\ wire' \in [Sessions -> Seq(Written)]
  BY <1>4, ReplyTypes DEF TypeOK
<1>5. CASE ArityError(r)
  BY <1>2, <1>3, <1>4, <1>5, RefusalTypes DEF ArityError, TypeOK
<1>6. CASE NullCommand(r)
  BY <1>2, <1>3, <1>4, <1>6, RefusalTypes DEF NullCommand, TypeOK
<1>7. CASE Defer(r)
  <2>1. commands' \in [Sessions -> Seq(Requests) \cup {NoQueue}] /\ errored' = errored
    <3>1. Append(commands[r.session], r) \in Seq(Requests)
      BY <1>2, <1>7 DEF Defer, InTransaction, TypeOK
    <3>. QED  BY <1>2, <1>7, <3>1, QueueUpdates DEF Defer, QueueRequest
  <2>2. log' \in Log
    BY <1>2, <1>7 DEF Defer, TypeOK, Log
  <2>. QED  BY <1>2, <1>3, <1>4, <1>7, <2>1, <2>2 DEF Defer, TypeOK
<1>8. CASE Immediate(r)
  <2>1. currentDb[r.session] \in Dbs /\ 0 \in 0..MaxRequests
    BY <1>2, BoundsAssumption DEF TypeOK
  <2>2. Execute(r, currentDb[r.session], 0)
    BY <1>8 DEF Immediate
  <2>. HIDE <1>4
  <2>3. /\ store' \in [Dbs -> 0..MaxRequests] /\ currentDb' \in [Sessions -> Dbs]
        /\ microtasks' \in Seq(Tasks) /\ pending' \subseteq Tasks /\ log' \in Log
        /\ wire' \in [Sessions -> Seq(Written)]
        /\ emit' \in Emissions /\ waiters' \subseteq Waiters
    BY <2>1, <2>2, ExecuteTypes
  <2>. QED  BY <1>2, <1>8, <2>3 DEF Immediate, TypeOK, Emissions
<1>9. CASE MultiCommand(r)
  <2>1. CASE InTransaction(r.session)
    BY <1>2, <1>3, <1>4, <1>9, <2>1 DEF MultiCommand, TypeOK
  <2>2. CASE ~InTransaction(r.session)
    <3>1. /\ commands' \in [Sessions -> Seq(Requests) \cup {NoQueue}]
          /\ errored' \in [Sessions -> BOOLEAN]
      <4>1. <<>> \in Seq(Requests) \cup {NoQueue}
        OBVIOUS
      <4>2. /\ commands' = [commands EXCEPT ![r.session] = <<>>]
            /\ errored' = [errored EXCEPT ![r.session] = FALSE]
        BY <1>9, <2>2 DEF MultiCommand, StartTransaction
      <4>. QED  BY ONLY TypeOK, <1>2, <4>1, <4>2, QueueUpdates
    <3>2. log' \in Log
      <4>1. log' = [log EXCEPT !.opened[r.session] = r.id]
        BY <1>9, <2>2 DEF MultiCommand
      <4>. QED  BY ONLY TypeOK, <1>2, <4>1, BoundsAssumption, OpenedUpdate DEF Ids
    <3>3. Untouched /\ Reply(r, Ok)
      BY <1>9, <2>2 DEF MultiCommand
    <3>4. microtasks' \in Seq(Tasks) /\ pending' \subseteq Tasks /\ wire' \in [Sessions -> Seq(Written)]
      BY <1>4, <3>3
    <3>. QED  BY ONLY <1>2, <1>3, <3>1, <3>2, <3>3, <3>4 DEF TypeOK
  <2>. QED  BY <2>1, <2>2
<1>10. CASE DiscardCommand(r)
  <2>1. CASE ~InTransaction(r.session)
    BY <1>2, <1>3, <1>4, <1>10, <2>1 DEF DiscardCommand, TypeOK
  <2>2. CASE InTransaction(r.session)
    <3>1. /\ commands' \in [Sessions -> Seq(Requests) \cup {NoQueue}]
          /\ errored' \in [Sessions -> BOOLEAN]
      <4>1. /\ commands' = [commands EXCEPT ![r.session] = NoQueue]
            /\ errored' = [errored EXCEPT ![r.session] = FALSE]
        BY <1>10, <2>2 DEF DiscardCommand, AbortTransaction
      <4>. QED  BY ONLY TypeOK, <1>2, <4>1, QueueUpdates
    <3>2. log' \in Log
      <4>1. log' = [log EXCEPT !.opened[r.session] = 0]
        BY <1>10, <2>2 DEF DiscardCommand
      <4>. QED  BY ONLY TypeOK, <1>2, <4>1, BoundsAssumption, OpenedUpdate DEF Ids
    <3>. QED  BY <1>2, <1>3, <1>4, <1>10, <2>2, <3>1, <3>2 DEF DiscardCommand, TypeOK
  <2>. QED  BY <2>1, <2>2
<1>11. CASE ExecCommand(r)
  <2>1. CASE ~InTransaction(r.session)
    <3>1. /\ Reply(r, Error)
          /\ UNCHANGED <<commands, errored, exec, log, store, currentDb, tokens, emit, waiters>>
      BY <1>11, <2>1 DEF ExecCommand, calls
    <3>2. microtasks' \in Seq(Tasks) /\ pending' \subseteq Tasks /\ wire' \in [Sessions -> Seq(Written)]
      BY <1>4, <3>1
    <3>. QED  BY ONLY TypeOK, <1>2, <3>1, <3>2 DEF TypeOK
  <2>2. CASE InTransaction(r.session)
    <3>1. log' \in Log
      <4>1. log.opened[r.session] \in 0..MaxRequests
        BY <1>2 DEF TypeOK, Log
      <4>2. log' = [log EXCEPT !.tx[r.id] = log.opened[r.session], !.opened[r.session] = 0]
        BY <1>11, <2>2 DEF ExecCommand
      <4>. QED  BY ONLY TypeOK, <1>2, <4>1, <4>2, LogUpdates, Zenon
    <3>2. commands' \in [Sessions -> Seq(Requests) \cup {NoQueue}]
      BY <1>2, <1>11, <2>2 DEF ExecCommand, AbortTransaction, TypeOK
    <3>5. UNCHANGED <<store, currentDb, tokens, emit, waiters>>
      BY <1>11 DEF ExecCommand, calls
    <3>3. CASE errored[r.session]
      <4>1. errored' \in [Sessions -> BOOLEAN]
        BY <1>2, <1>11, <2>2, <3>3 DEF ExecCommand, AbortTransaction, TypeOK
      <4>2. Reply(r, Error) /\ exec' = exec
        BY <1>11, <2>2, <3>3 DEF ExecCommand
      <4>3. microtasks' \in Seq(Tasks) /\ pending' \subseteq Tasks /\ wire' \in [Sessions -> Seq(Written)]
        BY <1>4, <4>2
      <4>. QED  BY ONLY TypeOK, <1>2, <3>1, <3>2, <3>5, <4>1, <4>2, <4>3 DEF TypeOK
    <3>4. CASE ~errored[r.session]
      <4>1. exec' \in [id : 0..MaxRequests, db : Dbs, todo : Seq(Requests)]
        <5>1. commands[r.session] \in Seq(Requests) /\ currentDb[r.session] \in Dbs
          BY <1>2, <2>2 DEF InTransaction, TypeOK
        <5>. QED  BY <1>2, <1>11, <2>2, <3>4, <5>1 DEF ExecCommand, Ids
      <4>2. UNCHANGED <<errored, microtasks, pending, wire>>
        BY <1>11, <2>2, <3>4 DEF ExecCommand
      <4>. QED  BY ONLY TypeOK, <1>2, <3>1, <3>2, <3>5, <4>1, <4>2 DEF TypeOK
    <3>. QED  BY <3>3, <3>4
  <2>. QED  BY <2>1, <2>2
<1>. QED  BY <1>1, <1>5, <1>6, <1>7, <1>8, <1>9, <1>10, <1>11 DEF Answer

LEMMA ReceiveType ==
  ASSUME TypeOK, NEW s \in Sessions, NEW n \in 1..MaxChunk, Receive(s, n)
  PROVE  TypeOK'
BY BoundsAssumption DEF Receive, AtRest, TypeOK, server, calls

LEMMA ExecStepType ==
  ASSUME TypeOK, ExecStep
  PROVE  TypeOK'
<1>1. Head(exec.todo) \in Requests /\ exec.db \in Dbs /\ exec.id \in 0..MaxRequests
  BY DEF ExecStep, TypeOK
<1>2. /\ store' \in [Dbs -> 0..MaxRequests] /\ currentDb' \in [Sessions -> Dbs]
      /\ microtasks' \in Seq(Tasks) /\ pending' \subseteq Tasks /\ log' \in Log
      /\ wire' \in [Sessions -> Seq(Written)]
      /\ emit' \in Emissions /\ waiters' \subseteq Waiters
  BY <1>1, ExecuteTypes DEF ExecStep
<1>3. exec' \in [id : 0..MaxRequests, db : Dbs, todo : Seq(Requests)]
  <2>1. Tail(exec.todo) \in Seq(Requests)
    BY DEF ExecStep, TypeOK
  <2>. QED  BY <2>1 DEF ExecStep, TypeOK
<1>. QED  BY <1>2, <1>3 DEF ExecStep, TypeOK, Emissions

LEMMA ExecReturnType ==
  ASSUME TypeOK, Numbered, ExecReturn
  PROVE  TypeOK'
<1>1. requests[exec.id] \in Requests
  BY DEF ExecReturn, Numbered, Count, TypeOK
<1>2. Publish(requests[exec.id], Array(<<>>)) \in Tasks
  BY <1>1, TaskIsTask, RepliesAreReplies, BoundsAssumption DEF Publish
<1>3. microtasks' \in Seq(Tasks)
  BY <1>2 DEF ExecReturn, Later, TypeOK
<1>4. exec' \in [id : 0..MaxRequests, db : Dbs, todo : Seq(Requests)]
  BY DbsAssumption, BoundsAssumption DEF ExecReturn, Idle
<1>. QED  BY <1>3, <1>4 DEF ExecReturn, TypeOK, server, calls

LEMMA MicrotaskType ==
  ASSUME TypeOK, Microtask
  PROVE  TypeOK'
<1>. DEFINE task == Head(microtasks)
<1>1. task \in Tasks /\ microtasks' \in Seq(Tasks)
  BY DEF Microtask, TypeOK
<1>2. /\ task.id \in Ids /\ task.session \in Sessions /\ task.reply \in Replies
      /\ task.exec # 0 => task.exec \in Ids
  BY <1>1, BoundsAssumption DEF Tasks, Ids
<1>3. tokens' \in [Ids -> Seq(Replies)]
  <2>1. CASE task.exec # 0
    <3>1. Append(tokens[task.exec], task.reply) \in Seq(Replies)
      BY <1>2, <2>1 DEF TypeOK
    <3>2. tokens' = [tokens EXCEPT ![task.exec] = Append(@, task.reply)]
      BY <2>1 DEF Microtask
    <3>. QED  BY <1>2, <2>1, <3>1, <3>2 DEF TypeOK
  <2>. QED  BY <2>1 DEF Microtask, TypeOK
<1>4. wire' \in [Sessions -> Seq(Written)]
  <2>1. Array(tokens[task.id]) \in {"array"} \X Seq(Replies)
    BY <1>2 DEF Array, TypeOK
  <2>. DEFINE written == [id |-> task.id,
                          reply |-> IF task.reply[1] = "array" THEN Array(tokens[task.id])
                                    ELSE task.reply]
  <2>2. written \in Written
    BY <1>2, <2>1 DEF Written
  <2>3. Append(wire[task.session], written) \in Seq(Written)
    BY <1>2, <2>2 DEF TypeOK
  <2>4. wire' = wire \/ wire' = [wire EXCEPT ![task.session] = Append(@, written)]
    BY DEF Microtask
  <2>. HIDE DEF written
  <2>. QED  BY <1>2, <2>3, <2>4 DEF TypeOK
<1>. QED  BY <1>1, <1>3, <1>4 DEF Microtask, TypeOK, calls

(* A promise is kept for later, or becomes a microtask.                    *)
LEMMA SettleCases ==
  ASSUME NEW i, Settle(i)
  PROVE  \/ pending' = pending /\ microtasks' = microtasks
         \/ \E task \in pending :
              /\ task.id = i
              /\ pending' = pending \ {task} /\ microtasks' = Append(microtasks, task)
BY DEF Settle, Later

LEMMA SettleTypes ==
  ASSUME TypeOK, NEW i, Settle(i)
  PROVE  pending' \subseteq Tasks /\ microtasks' \in Seq(Tasks)
<1>1. microtasks \in Seq(Tasks) /\ pending \subseteq Tasks
  BY DEF TypeOK
<1>2. CASE pending' = pending /\ microtasks' = microtasks
  BY <1>1, <1>2
<1>3. ASSUME NEW task \in pending, pending' = pending \ {task},
             microtasks' = Append(microtasks, task)
      PROVE  pending' \subseteq Tasks /\ microtasks' \in Seq(Tasks)
  <2>1. task \in Tasks
    BY <1>1
  <2>. QED  BY <1>1, <1>3, <2>1
<1>. QED  BY <1>2, <1>3, SettleCases

(* A call of waiter w.                                                     *)
Calls(w) ==
  \/ /\ store' \in {store, [store EXCEPT ![w.db] = w.id]}
     /\ Settle(w.id)
     /\ emit' = [emit EXCEPT !.left = @ - 1]
     /\ log' = [log EXCEPT !.runs = Run(w.id, w.db, emit.id)]
  \/ /\ emit' = Quiet
     /\ log' = [log EXCEPT !.runs = Run(w.id, w.db, emit.id), !.thrown = @ \cup {emit.id}]
     /\ UNCHANGED <<store, pending, microtasks>>

LEMMA EmitStepCalls ==
  ASSUME TypeOK, Emits, EmitStep
  PROVE  /\ \E w \in waiters : Calls(w)
         /\ \A w \in waiters : w.id \in Ids /\ w.db \in Dbs /\ w.id \in 0..MaxRequests
         /\ emit # Quiet /\ emit.id \in Ids /\ emit.id \in 0..MaxRequests
         /\ UNCHANGED <<currentDb, commands, errored, tokens, wire, reader, unread, exec,
                        waiters, requests>>
<1>1. \E w \in waiters : Calls(w)
  BY Zenon DEF EmitStep, Listening, Calls
<1>2. waiters \subseteq Waiters
  BY DEF TypeOK
<1>3. \A w \in waiters : w.id \in Ids /\ w.db \in Dbs /\ w.id \in 0..MaxRequests
  BY <1>2, BoundsAssumption DEF Waiters, Ids
<1>4. emit.left > 0
  BY DEF EmitStep
<1>5. emit # Quiet
  BY <1>4 DEF Quiet
<1>6. emit.id \in Ids /\ emit.id \in 0..MaxRequests
  BY <1>5, TxTypes, BoundsAssumption DEF Emits, Ids
<1>. QED  BY <1>1, <1>3, <1>5, <1>6 DEF EmitStep

LEMMA EmitStepType ==
  ASSUME TypeOK, Emits, EmitStep
  PROVE  TypeOK'
<1>1. PICK w \in waiters : Calls(w)
  BY EmitStepCalls
<1>2. w.id \in Ids /\ w.db \in Dbs /\ w.id \in 0..MaxRequests
      /\ emit.id \in Ids /\ emit.id \in 0..MaxRequests
  BY EmitStepCalls
<1>3. pending' \subseteq Tasks /\ microtasks' \in Seq(Tasks)
  <2>1. CASE Settle(w.id)
    BY <2>1, SettleTypes
  <2>. QED  BY <1>1, <2>1 DEF Calls, TypeOK
<1>4. store' \in [Dbs -> 0..MaxRequests]
  <2>1. store' = store \/ store' = [store EXCEPT ![w.db] = w.id]
    BY <1>1 DEF Calls
  <2>2. store \in [Dbs -> 0..MaxRequests]
    BY DEF TypeOK
  <2>. QED  BY <1>2, <2>1, <2>2
<1>5. emit' \in Emissions
  <2>1. emit \in Emissions /\ emit.left > 0
    BY DEF TypeOK, EmitStep
  <2>2. emit' = Quiet \/ emit' = [emit EXCEPT !.left = @ - 1]
    BY <1>1 DEF Calls
  <2>3. CASE emit' = Quiet
    BY <2>3, BoundsAssumption, DbsAssumption DEF Emissions, Quiet
  <2>4. CASE emit' = [emit EXCEPT !.left = @ - 1]
    BY <2>1, <2>4, BoundsAssumption DEF Emissions
  <2>. QED  BY <2>2, <2>3, <2>4
<1>6. log' \in Log
  <2>1. \/ log' = [log EXCEPT !.runs = Run(w.id, w.db, emit.id)]
        \/ log' = [log EXCEPT !.runs = Run(w.id, w.db, emit.id), !.thrown = @ \cup {emit.id}]
    BY <1>1, Zenon DEF Calls
  <2>. QED  BY <1>2, <2>1, RunTypes, Zenon
<1>. QED  BY <1>3, <1>4, <1>5, <1>6, EmitStepCalls DEF TypeOK

LEMMA EmitReturnType ==
  ASSUME TypeOK, Emits, EmitReturn
  PROVE  TypeOK'
<1>1. requests[emit.id] \in Requests /\ emit.exec \in 0..MaxRequests
  BY DEF EmitReturn, Emits, Count, TypeOK
<1>2. PushToken(requests[emit.id], Ok, emit.exec) \in Tasks
  BY <1>1, TaskIsTask, RepliesAreReplies
<1>3. microtasks' \in Seq(Tasks)
  BY <1>2 DEF EmitReturn, Later, TypeOK
<1>4. emit' \in Emissions
  BY DbsAssumption, BoundsAssumption DEF EmitReturn, Quiet, Emissions
<1>. QED  BY <1>3, <1>4 DEF EmitReturn, TypeOK, server, Emissions

LEMMA TimeoutType ==
  ASSUME TypeOK, Timeout
  PROVE  TypeOK'
<1>1. pending' \subseteq Tasks /\ microtasks' \in Seq(Tasks) /\ waiters' \subseteq Waiters
  BY SettleTypes DEF Timeout, TypeOK
<1>. QED  BY <1>1 DEF Timeout, TypeOK, server

(***************************************************************************)
(* What a request does to the transactions is one of six things.           *)
(***************************************************************************)
Same(s) == log'.opened[s] = log.opened[s] /\ commands'[s] = commands[s] /\ errored'[s] = errored[s]

(* All sessions but that of r keep their transaction.                      *)
Others(r) == \A s \in Sessions : s # r.session => Same(s)

Joins(r) == log'.tx = [log.tx EXCEPT ![r.id] = log.opened[r.session]]

Refuses(r) ==
  /\ Joins(r) /\ Others(r)
  /\ log'.runs = log.runs /\ log'.opened = log.opened
  /\ log'.refused = IF InTransaction(r.session) THEN log.refused \cup {r.id} ELSE log.refused
  /\ InTransaction(r.session) => errored'[r.session] = TRUE
  /\ commands' = commands /\ exec' = exec

Defers(r) ==
  /\ Joins(r)
  /\ log'.runs = log.runs /\ log'.opened = log.opened /\ log'.refused = log.refused
  /\ InTransaction(r.session)
  /\ commands' = [commands EXCEPT ![r.session] = Append(@, r)]
  /\ errored' = errored /\ exec' = exec

Stays(r) ==
  /\ \/ log'.runs = log.runs
     \/ /\ r.op \notin {"exec", "select", "subscribe"}
        /\ \E d \in Dbs : log'.runs = Append(log.runs, [id |-> r.id, db |-> d, by |-> 0])
  /\ log'.tx = log.tx /\ log'.opened = log.opened /\ log'.refused = log.refused
  /\ commands' = commands /\ errored' = errored /\ exec' = exec

Opens(r) ==
  /\ ~InTransaction(r.session) /\ Others(r)
  /\ log'.tx = log.tx /\ log'.runs = log.runs /\ log'.refused = log.refused
  /\ log'.opened[r.session] = r.id
  /\ commands'[r.session] = <<>> /\ errored'[r.session] = FALSE
  /\ exec' = exec

Drops(r) ==
  /\ InTransaction(r.session) /\ Others(r)
  /\ log'.tx = log.tx \/ (r.op = "exec" /\ Joins(r))
  /\ log'.runs = log.runs /\ log'.refused = log.refused
  /\ log'.opened[r.session] = 0 /\ commands'[r.session] = NoQueue
  /\ exec' = exec

Starts(r) ==
  /\ r.op = "exec" /\ Joins(r) /\ Others(r)
  /\ InTransaction(r.session) /\ ~errored[r.session]
  /\ log'.runs = log.runs /\ log'.refused = log.refused
  /\ log'.opened[r.session] = 0 /\ commands'[r.session] = NoQueue
  /\ exec' = [id |-> r.id, db |-> currentDb[r.session], todo |-> commands[r.session]]

Handled(r) == Refuses(r) \/ Defers(r) \/ Stays(r) \/ Opens(r) \/ Drops(r) \/ Starts(r)

LEMMA RunsOfExecute ==
  ASSUME TypeOK, NEW r \in Requests, NEW d \in Dbs, NEW e, Execute(r, d, e)
  PROVE  /\ log'.tx = log.tx /\ log'.opened = log.opened /\ log'.refused = log.refused
         /\ \/ r.op \in {"select", "subscribe"} /\ log' = log
            \/ /\ r.op \notin {"exec", "select", "subscribe"}
               /\ log'.runs = Append(log.runs, [id |-> r.id, db |-> d, by |-> 0])
<1>1. /\ \/ r.op \in {"select", "subscribe"} /\ log' = log
         \/ /\ r.op \notin {"exec", "select", "subscribe"}
            /\ \/ log' = [log EXCEPT !.runs = Run(r.id, d, 0)]
               \/ log' = [log EXCEPT !.runs = Run(r.id, d, 0), !.thrown = @ \cup {r.id}]
  BY DEF Execute, DataCommand, Push, Wait, Subscribe
<1>. QED  BY <1>1 DEF TypeOK, Log, Run

(* What executing a handler does to the emit.                              *)
LEMMA EmitOfExecute ==
  ASSUME NEW r, NEW d, NEW e, Execute(r, d, e)
  PROVE  emit' = emit \/ (r.op = "push" /\ emit'.id = r.id /\ emit'.exec = e)
BY DEF Execute, DataCommand, Push, Wait, Subscribe, calls

LEMMA EmitOfAnswer ==
  ASSUME NEW r, Answer(r)
  PROVE  \/ emit' = emit
         \/ /\ emit'.id = r.id /\ emit'.exec = 0
            /\ exec' = exec /\ UNCHANGED <<commands, errored>>
            /\ Immediate(r) /\ ~InTransaction(r.session)
<1>1. CASE Immediate(r)
  <2>1. CASE emit' # emit
    <3>1. r.op = "push"
      BY <1>1, <2>1 DEF Immediate, Execute, DataCommand, Push, Wait, Subscribe, calls
    <3>. QED  BY <1>1, <2>1, <3>1, EmitOfExecute DEF Immediate, Deferred
  <2>. QED  BY <2>1
<1>2. CASE ~Immediate(r)
  BY <1>2 DEF Answer, ArityError, NullCommand, Defer, MultiCommand, DiscardCommand,
              ExecCommand, Untouched, calls
<1>. QED  BY <1>1, <1>2

LEMMA AnswerCases ==
  ASSUME TypeOK, NEW r \in Requests, Arrives(r), Answer(r)
  PROVE  Handled(r)
<1>. USE DEF Handled
<1>1. log \in Log /\ r.session \in Sessions /\ r.id \in Ids
  BY DEF TypeOK, Requests
<1>2. ASSUME LogRefusal(r)
      PROVE  /\ Joins(r) /\ log'.runs = log.runs /\ log'.opened = log.opened
             /\ log'.refused = IF InTransaction(r.session) THEN log.refused \cup {r.id}
                               ELSE log.refused
  BY <1>1, <1>2 DEF LogRefusal, Log, Joins
<1>3. ASSUME NEW v \in {0, r.id}, log' = [log EXCEPT !.opened[r.session] = v]
      PROVE  /\ log'.tx = log.tx /\ log'.runs = log.runs /\ log'.refused = log.refused
             /\ log'.opened[r.session] = v
             /\ \A s \in Sessions : s # r.session => log'.opened[s] = log.opened[s]
  BY <1>1, <1>3 DEF Log
<1>4. CASE ArityError(r) \/ NullCommand(r)
  <2>1. errored' \in {errored, [errored EXCEPT ![r.session] = TRUE]}
    BY <1>4 DEF ArityError, NullCommand
  <2>2. InTransaction(r.session) => errored'[r.session] = TRUE
    BY <1>1, <1>4 DEF ArityError, NullCommand, TypeOK
  <2>3. LogRefusal(r) /\ commands' = commands /\ exec' = exec
    BY <1>4 DEF ArityError, NullCommand, Untouched
  <2>4. \A s \in Sessions : s # r.session => Same(s)
    BY <1>1, <1>2, <2>1, <2>3 DEF Same, TypeOK
  <2>. QED  BY <1>2, <2>2, <2>3, <2>4 DEF Refuses, Others
<1>5. CASE Defer(r)
  <2>1. log' = [log EXCEPT !.tx[r.id] = log.opened[r.session]]
    BY <1>5 DEF Defer
  <2>2. /\ Joins(r)
        /\ log'.runs = log.runs /\ log'.opened = log.opened /\ log'.refused = log.refused
    BY <1>1, <2>1 DEF Log, Joins
  <2>. QED  BY <1>5, <2>2 DEF Defers, Defer, QueueRequest, Untouched
<1>6. CASE Immediate(r)
  <2>1. currentDb[r.session] \in Dbs
    BY <1>1 DEF TypeOK
  <2>2. Execute(r, currentDb[r.session], 0)
    BY <1>6 DEF Immediate
  <2>. QED  BY <1>6, <2>1, <2>2, RunsOfExecute DEF Immediate, Stays
<1>7. CASE MultiCommand(r)
  <2>1. CASE InTransaction(r.session)
    BY <1>7, <2>1 DEF MultiCommand, Untouched, Stays
  <2>2. CASE ~InTransaction(r.session)
    <3>1. StartTransaction(r.session) /\ log' = [log EXCEPT !.opened[r.session] = r.id]
          /\ exec' = exec
      BY <1>7, <2>2 DEF MultiCommand, Untouched
    <3>2. /\ commands'[r.session] = <<>> /\ errored'[r.session] = FALSE
          /\ \A s \in Sessions : s # r.session =>
               commands'[s] = commands[s] /\ errored'[s] = errored[s]
      BY <1>1, <3>1 DEF StartTransaction, TypeOK
    <3>. QED  BY <1>3, <2>2, <3>1, <3>2 DEF Opens, Others, Same
  <2>. QED  BY <2>1, <2>2
<1>. DEFINE Gone == /\ commands'[r.session] = NoQueue
                    /\ \A s \in Sessions : s # r.session =>
                         commands'[s] = commands[s] /\ errored'[s] = errored[s]
<1>8. ASSUME AbortTransaction(r.session) PROVE Gone
  BY <1>1, <1>8 DEF AbortTransaction, TypeOK
<1>9. CASE DiscardCommand(r)
  <2>1. CASE ~InTransaction(r.session)
    BY <1>9, <2>1 DEF DiscardCommand, Untouched, Stays
  <2>2. CASE InTransaction(r.session)
    <3>1. AbortTransaction(r.session) /\ log' = [log EXCEPT !.opened[r.session] = 0]
          /\ exec' = exec
      BY <1>9, <2>2 DEF DiscardCommand, Untouched
    <3>. QED  BY <1>3, <1>8, <2>2, <3>1 DEF Drops, Others, Same
  <2>. QED  BY <2>1, <2>2
<1>10. CASE ExecCommand(r)
  <2>1. CASE ~InTransaction(r.session)
    BY <1>10, <2>1 DEF ExecCommand, Stays
  <2>2. CASE InTransaction(r.session)
    <3>1. log' = [log EXCEPT !.tx[r.id] = log.opened[r.session], !.opened[r.session] = 0]
      BY <1>10, <2>2 DEF ExecCommand
    <3>2. /\ Joins(r) /\ log'.runs = log.runs /\ log'.refused = log.refused
          /\ log'.opened[r.session] = 0
          /\ \A s \in Sessions : s # r.session => log'.opened[s] = log.opened[s]
      BY <1>1, <3>1 DEF Log, Joins
    <3>3. CASE errored[r.session]
      <4>1. Gone /\ exec' = exec
        BY <1>8, <1>10, <2>2, <3>3 DEF ExecCommand
      <4>. QED  BY <1>10, <2>2, <3>2, <4>1 DEF Drops, Others, Same, ExecCommand
    <3>4. CASE ~errored[r.session]
      <4>1. /\ commands' = [commands EXCEPT ![r.session] = NoQueue] /\ errored' = errored
            /\ exec' = [id |-> r.id, db |-> currentDb[r.session],
                        todo |-> commands[r.session]]
        BY <1>10, <2>2, <3>4 DEF ExecCommand
      <4>2. Gone
        BY <1>1, <4>1 DEF TypeOK
      <4>. QED  BY <1>10, <2>2, <3>2, <3>4, <4>1, <4>2 DEF Starts, Others, Same, ExecCommand
    <3>. QED  BY <3>3, <3>4
  <2>. QED  BY <2>1, <2>2
<1>. QED  BY <1>4, <1>5, <1>6, <1>7, <1>9, <1>10 DEF Answer

(***************************************************************************)
(* What was known of the requests before the one that arrives stays true.  *)
(***************************************************************************)
RunsBy(runs, i) == {n \in 1..Len(runs) : runs[n].id = i /\ runs[n].by = 0}

LEMMA RunsGrow ==
  ASSUME NEW runs \in LogOfRuns, NEW x, NEW grown, grown = Append(runs, x)
  PROVE  /\ Len(runs) \in Nat /\ Len(grown) = Len(runs) + 1
         /\ \A n \in 1..Len(runs) : n \in 1..Len(grown) /\ grown[n] = runs[n]
         /\ \A n \in 1..Len(grown) : n \in 1..Len(runs) \/ n = Len(runs) + 1
         /\ Len(runs) + 1 \in 1..Len(grown) /\ grown[Len(runs) + 1] = x
BY DEF LogOfRuns

LEMMA RunOfAnother ==
  ASSUME NEW runs \in LogOfRuns, NEW x, NEW i, x.id # i \/ x.by # 0,
         NEW grown, grown = Append(runs, x)
  PROVE  RunsBy(grown, i) = RunsBy(runs, i)
BY RunsGrow DEF RunsBy

LEMMA RunOfItself ==
  ASSUME NEW runs \in LogOfRuns, NEW x, NEW i, x.id = i /\ x.by = 0,
         NEW grown, grown = Append(runs, x)
  PROVE  RunsBy(grown, i) = RunsBy(runs, i) \cup {Len(runs) + 1}
BY RunsGrow DEF RunsBy

LEMMA RunsAreBy ==
  \A i : RunsOf(i) = RunsBy(log.runs, i) /\ RunsOf(i)' = RunsBy(log'.runs, i)
BY DEF RunsOf, RunsBy

(* A run that is not its own does not count for a request.                 *)
LEMMA OthersRun ==
  ASSUME TypeOK, NEW x, log'.runs = Append(log.runs, x), NEW i, x.id # i \/ x.by # 0
  PROVE  RunsOf(i)' = RunsOf(i)
<1>. PICK runs, grown : runs = log.runs /\ grown = log'.runs
  OBVIOUS
<1>1. runs \in LogOfRuns /\ grown = Append(runs, x)
  BY DEF TypeOK, Log, LogOfRuns
<1>2. RunsBy(grown, i) = RunsBy(runs, i)
  BY ONLY <1>1, x.id # i \/ x.by # 0, RunOfAnother, Zenon
<1>. QED  BY <1>2, RunsAreBy

LEMMA ItRuns ==
  ASSUME TypeOK, NEW x, log'.runs = Append(log.runs, x), NEW i, x.id = i, x.by = 0
  PROVE  RunsOf(i)' = RunsOf(i) \cup {Len(log.runs) + 1}
<1>. PICK runs, grown : runs = log.runs /\ grown = log'.runs
  OBVIOUS
<1>1. runs \in LogOfRuns /\ grown = Append(runs, x)
  BY DEF TypeOK, Log, LogOfRuns
<1>2. RunsBy(grown, i) = RunsBy(runs, i) \cup {Len(runs) + 1}
  BY ONLY <1>1, x.id = i, x.by = 0, RunOfItself, Zenon
<1>. QED  BY <1>2, RunsAreBy

LEMMA RunsKept ==
  ASSUME TypeOK, Parts, NEW r \in Requests, Arrives(r), Handled(r)
  PROVE  /\ \A n \in 1..Len(log.runs) : n \in 1..Len(log'.runs) /\ log'.runs[n] = log.runs[n]
         /\ \A n \in 1..Len(log'.runs) :
              n \in 1..Len(log.runs) \/ (n = Len(log.runs) + 1 /\ log'.runs[n].id = r.id
                                         /\ log'.runs[n].by = 0
                                         /\ r.op \notin {"exec", "select", "subscribe"} /\ Stays(r))
         /\ \A i \in 1..Count : RunsOf(i)' = RunsOf(i)
<1>1. r.id = Count + 1 /\ Count \in Nat
  BY Arrival DEF Arrives
<1>2. CASE log'.runs = log.runs
  BY <1>2 DEF RunsOf
<1>3. CASE log'.runs # log.runs
  <2>1. Stays(r) /\ r.op \notin {"exec", "select", "subscribe"}
    BY <1>3 DEF Handled, Refuses, Defers, Stays, Opens, Drops, Starts
  <2>2. PICK d \in Dbs : log'.runs = Append(log.runs, [id |-> r.id, db |-> d, by |-> 0])
    BY <1>3, <2>1 DEF Stays
  <2>3. log.runs \in Seq([id : Ids, db : Dbs, by : 0..MaxRequests])
    BY DEF TypeOK, Log
  <2>4. /\ Len(log'.runs) = Len(log.runs) + 1 /\ Len(log.runs) \in Nat
        /\ \A n \in 1..Len(log.runs) : log'.runs[n] = log.runs[n]
        /\ log'.runs[Len(log.runs) + 1].id = r.id /\ log'.runs[Len(log.runs) + 1].by = 0
    BY <2>2, <2>3
  <2>5. ASSUME NEW i \in 1..Count PROVE RunsOf(i)' = RunsOf(i)
    <3>1. \A n \in 1..Len(log.runs) : n \in 1..Len(log'.runs) /\ log'.runs[n] = log.runs[n]
      BY ONLY <2>4
    <3>2. \A n \in 1..Len(log'.runs) : log'.runs[n].id = i => n \in 1..Len(log.runs)
      BY ONLY <1>1, <2>4
    <3>. QED  BY ONLY <3>1, <3>2 DEF RunsOf
  <2>. QED  BY <2>1, <2>4, <2>5
<1>. QED  BY <1>2, <1>3

LEMMA HistoryKept ==
  ASSUME TypeOK, Parts, NEW r \in Requests, Arrives(r), Handled(r)
  PROVE  /\ r.id = Count + 1 /\ Count' = Count + 1 /\ Count \in Nat /\ r.session \in Sessions
         /\ \A i \in 1..Count : requests'[i] = requests[i] /\ log'.tx[i] = log.tx[i]
         /\ requests'[r.id] = r
         /\ \A i \in Ids : i > Count + 1 => log'.tx[i] = 0
         /\ log'.tx[r.id] = log.opened[r.session] \/ log'.tx[r.id] = 0
         /\ log.refused \subseteq log'.refused
         /\ log'.refused \subseteq log.refused \cup {r.id}
         /\ r.id \notin log.refused
         /\ RunsOf(r.id) = {}
<1>1. /\ r.id = Count + 1 /\ Count' = Count + 1 /\ Count \in Nat /\ r.session \in Sessions
      /\ requests'[r.id] = r /\ r.id \in Ids
      /\ \A i \in 1..Count : requests'[i] = requests[i]
  BY Arrival DEF Arrives
<1>2. log.tx \in [Ids -> 0..MaxRequests]
  BY DEF TypeOK, Log
<1>3. log'.tx = log.tx \/ log'.tx = [log.tx EXCEPT ![r.id] = log.opened[r.session]]
  BY DEF Handled, Refuses, Defers, Stays, Opens, Drops, Starts, Joins
<1>4. /\ \A i \in Ids : i # r.id => log'.tx[i] = log.tx[i]
      /\ log'.tx[r.id] = log.opened[r.session] \/ log'.tx[r.id] = 0
  BY <1>1, <1>2, <1>3 DEF Parts
<1>5. \A i \in 1..Count : log'.tx[i] = log.tx[i]
  BY <1>1, <1>4, BoundsAssumption DEF Ids
<1>6. \A i \in Ids : i > Count + 1 => log'.tx[i] = 0
  BY <1>1, <1>4, BoundsAssumption DEF Parts, Ids
<1>7. log.refused \subseteq log'.refused /\ log'.refused \subseteq log.refused \cup {r.id}
  BY DEF Handled, Refuses, Defers, Stays, Opens, Drops, Starts
<1>8. r.id \notin log.refused /\ RunsOf(r.id) = {}
  BY <1>1 DEF Parts, RunsOf, Cause
<1>. QED  BY <1>1, <1>4, <1>5, <1>6, <1>7, <1>8

LEMMA MembersKept ==
  ASSUME TypeOK, Parts, NEW r \in Requests, Arrives(r), Handled(r), NEW t
  PROVE  /\ Members(t)' \subseteq Members(t) \cup {r.id}
         /\ Members(t) \subseteq Members(t)'
         /\ Members(t) \subseteq 1..Count
         /\ r.id \in Members(t)' <=> log'.tx[r.id] = t /\ r.op \notin {"exec", "select", "subscribe"}
BY HistoryKept DEF Members, Count

LEMMA QueuesKept ==
  ASSUME TypeOK, Parts, NEW r \in Requests, Arrives(r), Handled(r), NEW q, NEW t, Queues(q, t)
  PROVE  Queues(q, t)'
<1>1. ASSUME NEW n \in 1..Len(q)
      PROVE  /\ q[n].id \in 1..Count' /\ q[n] = requests'[q[n].id]
             /\ log'.tx[q[n].id] = t
  BY <1>1, HistoryKept DEF Queues
<1>2. ASSUME NEW n \in 1..Len(q)
      PROVE  RunsOf(q[n].id)' = {}
  BY <1>2, RunsKept DEF Queues, RunsOf
<1>. QED  BY <1>1, <1>2 DEF Queues

LEMMA OthersKept ==
  ASSUME TypeOK, NEW r \in Requests, Handled(r)
  PROVE  Others(r)
<1>1. CASE Defers(r)
  BY <1>1 DEF Defers, Others, Same, TypeOK
<1>. QED  BY <1>1 DEF Handled, Refuses, Stays, Opens, Drops, Starts, Others, Same

LEMMA NumberedKept ==
  ASSUME TypeOK, TxInv, NEW r \in Requests, Arrives(r), Handled(r)
  PROVE  Numbered'
<1>1. \A i \in 1..Count' : requests'[i].id = i
  BY HistoryKept DEF TxInv, Numbered
<1>2. CASE exec' = exec
  BY <1>1, <1>2 DEF Arrives, Numbered
<1>3. CASE exec' # exec
  <2>1. Starts(r)
    BY <1>3 DEF Handled, Refuses, Defers, Stays, Opens, Drops
  <2>2. exec'.id = r.id /\ r.op = "exec"
    BY <2>1 DEF Starts
  <2>3. log'.tx[r.id] = log.opened[r.session] /\ log.opened[r.session] # 0
    BY <2>1, HistoryKept DEF Starts, Joins, TxInv, Opened, TypeOK, Log, Requests
  <2>. QED  BY <1>1, <2>2, <2>3, HistoryKept DEF Numbered, TxInv
<1>. QED  BY <1>2, <1>3

LEMMA OpenedKept ==
  ASSUME TypeOK, TxInv, NEW r \in Requests, Arrives(r), Handled(r)
  PROVE  Opened'
<1>. SUFFICES ASSUME NEW s \in Sessions
              PROVE  /\ log'.opened[s] \in 0..Count'
                     /\ commands'[s] # NoQueue <=> log'.opened[s] # 0
                     /\ commands'[s] # NoQueue => requests'[log'.opened[s]].session = s
  BY DEF Opened, InTransaction
<1>1. /\ log.opened[s] \in 0..Count /\ commands[s] # NoQueue <=> log.opened[s] # 0
      /\ commands[s] # NoQueue => requests[log.opened[s]].session = s
  BY DEF TxInv, Opened, InTransaction
<1>. USE HistoryKept DEF TxInv
<1>2. CASE Same(s)
  BY <1>1, <1>2 DEF Same
<1>3. CASE s = r.session /\ Opens(r)
  <2>1. log'.opened[s] = Count + 1 /\ commands'[s] = <<>>
    BY <1>3 DEF Opens
  <2>2. <<>> # NoQueue
    <3>1. <<>> \in Seq(Requests)
      OBVIOUS
    <3>. QED  BY <3>1, NoQueueAssumption
  <2>. QED  BY <1>3, <2>1, <2>2
<1>4. CASE s = r.session /\ (Drops(r) \/ Starts(r))
  BY <1>4 DEF Drops, Starts
<1>5. CASE s = r.session /\ (Refuses(r) \/ Stays(r))
  BY <1>1, <1>5 DEF Refuses, Stays
<1>6. CASE s = r.session /\ Defers(r)
  <2>1. commands[s] \in Seq(Requests) /\ commands[s] # NoQueue
    BY <1>6 DEF Defers, InTransaction, TypeOK
  <2>2. commands'[s] = Append(commands[s], r) /\ log'.opened = log.opened
    BY <1>6 DEF Defers, TypeOK
  <2>3. commands'[s] # NoQueue
    <3>1. Append(commands[s], r) \in Seq(Requests)
      BY <2>1
    <3>. QED  BY <2>2, <3>1, NoQueueAssumption
  <2>. QED  BY <1>1, <2>1, <2>2, <2>3
<1>. QED  BY <1>2, <1>3, <1>4, <1>5, <1>6, OthersKept DEF Others, Handled

LEMMA PartsKept ==
  ASSUME TypeOK, TxInv, NEW r \in Requests, Arrives(r), Handled(r)
  PROVE  Parts'
<1>1. \A i \in Ids : i > Count' => log'.tx[i] = 0
  BY HistoryKept DEF TxInv
<1>2. ASSUME NEW i \in 1..Count', log'.tx[i] # 0
      PROVE  log'.tx[i] < i /\ requests'[log'.tx[i]].session = requests'[i].session
  <2>1. CASE i \in 1..Count
    <3>1. log.tx[i] \in 1..Count /\ log.tx[i] < i
      BY <1>2, <2>1, HistoryKept, TxTypes DEF TxInv, Parts
    <3>. QED  BY <1>2, <2>1, <3>1, HistoryKept DEF TxInv, Parts
  <2>2. CASE i = r.id
    <3>1. log'.tx[i] = log.opened[r.session] /\ log.opened[r.session] \in 1..Count
      BY <1>2, <2>2, HistoryKept DEF TxInv, Opened
    <3>. QED  BY <2>2, <3>1, HistoryKept DEF TxInv, Opened
  <2>. QED  BY <2>1, <2>2, HistoryKept DEF TxInv
<1>3. ASSUME NEW i \in log'.refused
      PROVE  i \in 1..Count' /\ log'.tx[i] # 0 /\ RunsOf(i)' = {}
  <2>1. CASE i \in log.refused
    <3>1. i \in 1..Count /\ log.tx[i] # 0 /\ RunsOf(i) = {}
      BY <2>1 DEF TxInv, Parts
    <3>2. Parts
      BY DEF TxInv
    <3>3. RunsOf(i)' = {}
      BY <3>1, <3>2, RunsKept
    <3>4. log'.tx[i] = log.tx[i] /\ Count' = Count + 1 /\ Count \in Nat
      BY <3>1, <3>2, HistoryKept
    <3>. QED  BY ONLY <3>1, <3>3, <3>4
  <2>2. CASE i \notin log.refused
    <3>1. i = r.id /\ Refuses(r) /\ InTransaction(r.session)
      BY <1>3, <2>2 DEF Handled, Refuses, Defers, Stays, Opens, Drops, Starts
    <3>2. log'.tx[i] = log.opened[r.session] /\ log.opened[r.session] # 0
      BY <3>1, HistoryKept DEF Refuses, Joins, TxInv, Opened, TypeOK, Log, Requests
    <3>3. RunsOf(i)' = {}
      BY <3>1, HistoryKept DEF Refuses, RunsOf, TxInv
    <3>. QED  BY <3>1, <3>2, <3>3, HistoryKept DEF TxInv
  <2>. QED  BY <2>1, <2>2
<1>4. ASSUME NEW n \in 1..Len(log'.runs)
      PROVE  /\ Cause(n)' \in 1..Count' /\ RunsOf(Cause(n))' # {}
             /\ requests'[Cause(n)'].op \notin {"exec", "select", "subscribe"}
  <2>1. CASE n \in 1..Len(log.runs)
    <3>1. /\ Cause(n) \in 1..Count /\ RunsOf(Cause(n)) # {}
          /\ requests[Cause(n)].op \notin {"exec", "select", "subscribe"}
      BY <2>1 DEF TxInv, Parts
    <3>2. Cause(n)' = Cause(n)
      BY <2>1, RunsKept DEF TxInv, Cause
    <3>3. RunsOf(Cause(n))' = RunsOf(Cause(n))
      BY <3>1, <3>2, RunsKept DEF TxInv, RunsOf
    <3>. QED  BY <3>1, <3>2, <3>3, HistoryKept DEF TxInv
  <2>2. CASE /\ log'.runs[n].id = r.id /\ log'.runs[n].by = 0
             /\ r.op \notin {"exec", "select", "subscribe"}
    <3>1. Cause(n)' = r.id
      BY <2>2 DEF Cause
    <3>2. n \in RunsOf(Cause(n))'
      BY <2>2, <3>1 DEF RunsOf
    <3>. QED  BY <2>2, <3>1, <3>2, HistoryKept DEF TxInv
  <2>. QED  BY <2>1, <2>2, RunsKept DEF TxInv
<1>. QED  BY <1>1, <1>2, <1>3, <1>4 DEF Parts

LEMMA MarkedKept ==
  ASSUME TypeOK, TxInv, NEW r \in Requests, Arrives(r), Handled(r)
  PROVE  Marked'
<1>. SUFFICES ASSUME NEW s \in Sessions, commands'[s] # NoQueue
              PROVE  errored'[s] <=> \E i \in log'.refused : log'.tx[i] = log'.opened[s]
  BY DEF Marked, InTransaction
<1>. USE HistoryKept DEF TxInv
<1>1. \A i \in log.refused : log'.tx[i] = log.tx[i] /\ log.tx[i] < Count
  BY TxTypes DEF Parts
<1>2. CASE s # r.session
  <2>1. Same(s) /\ commands[s] # NoQueue
    BY <1>2, OthersKept DEF Others, Same
  <2>2. log.opened[s] # log.opened[r.session] /\ log.opened[s] # 0
    BY <1>2, <2>1 DEF Opened, InTransaction
  <2>3. errored[s] <=> \E i \in log.refused : log.tx[i] = log.opened[s]
    BY <2>1 DEF Marked, InTransaction
  <2>. QED  BY <1>1, <2>1, <2>2, <2>3 DEF Same
<1>3. CASE s = r.session /\ Opens(r)
  BY <1>1, <1>3 DEF Opens
<1>4. CASE s = r.session /\ (Drops(r) \/ Starts(r))
  BY <1>4 DEF Drops, Starts
<1>5. CASE s = r.session /\ Refuses(r)
  <2>1. log'.tx[r.id] = log.opened[s]
    BY <1>5 DEF Refuses, Joins, TypeOK, Log, Requests
  <2>. QED  BY <1>5, <2>1 DEF Refuses, InTransaction
<1>6. CASE s = r.session /\ (Defers(r) \/ Stays(r))
  <2>1. /\ log'.refused = log.refused /\ log'.opened = log.opened /\ errored' = errored
        /\ commands[s] # NoQueue
    BY <1>6 DEF Defers, Stays, InTransaction
  <2>2. errored[s] <=> \E i \in log.refused : log.tx[i] = log.opened[s]
    BY <2>1 DEF Marked, InTransaction
  <2>. QED  BY <1>1, <2>1, <2>2
<1>. QED  BY <1>2, <1>3, <1>4, <1>5, <1>6 DEF Handled

LEMMA OpenQueuesKept ==
  ASSUME TypeOK, TxInv, NEW r \in Requests, Arrives(r), Handled(r)
  PROVE  OpenQueues'
<1>. SUFFICES ASSUME NEW s \in Sessions, NEW q, NEW t, commands'[s] # NoQueue,
                     q = commands'[s], t = log'.opened[s]
              PROVE  /\ Queues(q, t)'
                     /\ \A i \in Members(t)' : i \in log'.refused \/ In(i, q)
  BY DEF OpenQueues, InTransaction, Queues, Members, In, RunsOf
<1>. USE HistoryKept DEF TxInv
<1>1. ASSUME q = commands[s], t = log.opened[s], commands[s] # NoQueue
      PROVE  /\ Queues(q, t)' /\ t # 0
             /\ \A i \in Members(t) : i \in log'.refused \/ In(i, q)
  <2>1. Queues(q, t) /\ \A i \in Members(t) : i \in log.refused \/ In(i, q)
    BY <1>1 DEF OpenQueues, InTransaction
  <2>. QED  BY <1>1, <2>1, QueuesKept DEF Opened, InTransaction
<1>2. CASE s # r.session
  <2>1. q = commands[s] /\ t = log.opened[s]
    BY <1>2, OthersKept DEF Others, Same
  <2>2. t # log.opened[r.session] /\ t # 0
    BY <1>2, <2>1 DEF Opened, InTransaction
  <2>3. Members(t)' \subseteq Members(t)
    BY <2>2, MembersKept
  <2>. QED  BY <1>1, <2>1, <2>3
<1>3. CASE s = r.session /\ (Refuses(r) \/ Stays(r))
  <2>1. q = commands[s] /\ t = log.opened[s]
    BY <1>3 DEF Refuses, Stays
  <2>2. ASSUME r.id \in Members(t)' PROVE r.id \in log'.refused
    <3>1. log'.tx[r.id] = t /\ t # 0
      BY <1>1, <2>1, <2>2, MembersKept
    <3>2. ~Stays(r)
      BY <3>1 DEF Stays, Parts, Requests
    <3>. QED  BY <1>3, <2>1, <3>2 DEF Refuses, InTransaction
  <2>. QED  BY <1>1, <2>1, <2>2, MembersKept
<1>4. CASE s = r.session /\ Defers(r)
  <2>. PICK p : p = commands[s]
    OBVIOUS
  <2>1. p \in Seq(Requests) /\ p # NoQueue
    BY <1>4 DEF Defers, InTransaction, TypeOK
  <2>2. q = Append(p, r) /\ t = log.opened[s]
    BY <1>4 DEF Defers, TypeOK
  <2>3. /\ Queues(p, t) /\ t # 0
        /\ \A i \in Members(t) : i \in log.refused \/ In(i, p)
    BY <2>1, <2>2 DEF OpenQueues, InTransaction, Opened
  <2>4. /\ Len(q) = Len(p) + 1 /\ Len(p) \in Nat
        /\ \A n \in 1..Len(p) : q[n] = p[n]
        /\ q[Len(p) + 1] = r
    BY <2>1, <2>2
  <2>5. Queues(p, t)'
    BY <2>3, QueuesKept
  <2>6. log'.tx[r.id] = t
    BY <1>4, <2>2 DEF Defers, Joins, TypeOK, Log, Requests
  <2>7. RunsOf(r.id)' = {}
    BY <1>4 DEF Defers, RunsOf
  <2>8. \A n \in 1..Len(p) : p[n].id \in 1..Count
    BY <2>3 DEF Queues
  <2>9. Queues(q, t)'
    <3>1. ASSUME NEW n \in 1..Len(q)
          PROVE  /\ q[n].id \in 1..Count' /\ q[n] = requests'[q[n].id]
                 /\ log'.tx[q[n].id] = t /\ RunsOf(q[n].id)' = {}
      <4>1. CASE n \in 1..Len(p)
        <5>1. q[n] = p[n]
          BY ONLY <2>4, <4>1
        <5>2. /\ p[n].id \in 1..Count' /\ p[n] = requests'[p[n].id]
              /\ log'.tx[p[n].id] = t /\ RunsOf(p[n].id)' = {}
          BY ONLY <2>5, <4>1 DEF Queues
        <5>. QED  BY ONLY <5>1, <5>2 DEF RunsOf
      <4>2. CASE n = Len(p) + 1
        <5>1. q[n] = r
          BY ONLY <2>4, <4>2
        <5>. QED  BY <2>6, <2>7, <5>1 DEF RunsOf
      <4>. QED  BY <2>4, <4>1, <4>2
    <3>2. ASSUME NEW m \in 1..Len(q), NEW n \in 1..Len(q), m < n
          PROVE  q[m].id < q[n].id
      <4>1. CASE n \in 1..Len(p)
        <5>1. m \in 1..Len(p) /\ q[m] = p[m] /\ q[n] = p[n]
          BY ONLY <2>4, <3>2, <4>1
        <5>. QED  BY ONLY <2>5, <3>2, <4>1, <5>1 DEF Queues
      <4>2. CASE n = Len(p) + 1
        <5>1. m \in 1..Len(p) /\ q[m] = p[m] /\ q[n] = r
          BY ONLY <2>4, <3>2, <4>2
        <5>. QED  BY <2>8, <5>1
      <4>. QED  BY <2>4, <4>1, <4>2
    <3>. QED  BY <3>1, <3>2 DEF Queues
  <2>10. \A i \in Members(t)' : i \in log'.refused \/ In(i, q)
    <3>1. \A i : In(i, p) => In(i, q)
      BY ONLY <2>4 DEF In
    <3>2. In(r.id, q)
      BY ONLY <2>4 DEF In
    <3>3. Members(t)' \subseteq Members(t) \cup {r.id}
      BY MembersKept
    <3>. QED  BY <2>3, <3>1, <3>2, <3>3
  <2>. QED  BY <2>9, <2>10
<1>5. CASE s = r.session /\ Opens(r)
  <2>1. q = <<>> /\ t = r.id
    BY <1>5 DEF Opens
  <2>2. Members(t)' = {}
    <3>1. \A i \in 1..Count : log.tx[i] < r.id
      BY TxTypes DEF Parts
    <3>2. log'.tx[r.id] # r.id
      BY <1>5 DEF Opens, Parts, Requests
    <3>. QED  BY <2>1, <3>1, <3>2 DEF Members, Count
  <2>3. Queues(q, t)'
    BY <2>1 DEF Queues
  <2>. QED  BY <2>2, <2>3
<1>6. CASE s = r.session /\ (Drops(r) \/ Starts(r))
  BY <1>6 DEF Drops, Starts
<1>. QED  BY <1>2, <1>3, <1>4, <1>5, <1>6 DEF Handled

(* Nothing has happened yet by a transaction that is open.                 *)
LEMMA NoneRan ==
  ASSUME TypeOK, TxInv, NEW s \in Sessions, InTransaction(s), NEW a \in 1..Len(log.runs)
  PROVE  Tx(a) # log.opened[s]
<1>. SUFFICES ASSUME Tx(a) = log.opened[s] PROVE FALSE
  OBVIOUS
<1>1. /\ Cause(a) \in 1..Count /\ RunsOf(Cause(a)) # {}
      /\ requests[Cause(a)].op \notin {"exec", "select", "subscribe"}
  BY DEF TxInv, Parts
<1>2. Cause(a) \in Members(log.opened[s])
  BY <1>1 DEF Members, Count, Tx
<1>3. Cause(a) \in log.refused \/ In(Cause(a), commands[s])
  BY <1>2 DEF TxInv, OpenQueues
<1>4. Queues(commands[s], log.opened[s])
  BY DEF TxInv, OpenQueues
<1>. QED  BY <1>1, <1>3, <1>4 DEF TxInv, Parts, Queues, In

LEMMA RunningKept ==
  ASSUME TypeOK, TxInv, NEW r \in Requests, Arrives(r), Handled(r)
  PROVE  Running'
<1>. USE HistoryKept DEF TxInv
<1>1. CASE exec' = exec
  BY <1>1 DEF Arrives, Running, Idle
<1>2. CASE Starts(r)
  <2>. DEFINE s == r.session
  <2>. PICK t, q : t = log.opened[s] /\ q = commands[s]
    OBVIOUS
  <2>1. /\ exec'.id = r.id /\ exec'.todo = q /\ log'.tx[r.id] = t /\ t \in 1..Count
        /\ requests[t].session = s /\ q # NoQueue /\ ~errored[s]
    BY <1>2, TxTypes DEF Starts, Joins, Opened, InTransaction, Requests
  <2>2. Queues(q, t) /\ \A i \in Members(t) : i \in log.refused \/ In(i, q)
    BY <1>2 DEF Starts, OpenQueues
  <2>3. \A i \in log.refused : log.tx[i] # t
    BY <1>2, <2>1 DEF Starts, Marked
  <2>4. ASSUME NEW u \in Sessions PROVE log'.opened[u] # t
    <3>1. CASE u = s
      BY <1>2, <2>1, <3>1 DEF Starts
    <3>2. CASE u # s
      BY <1>2, <2>1, <3>2 DEF Starts, Others, Same, Opened, InTransaction
    <3>. QED  BY <3>1, <3>2
  <2>5. Queues(q, t)'
    BY <2>2, QueuesKept
  <2>6. \A i \in Members(t)' : i \notin log'.refused /\ In(i, q)
    <3>1. Members(t)' \subseteq Members(t) /\ log'.refused = log.refused
      BY <1>2, MembersKept DEF Starts
    <3>. QED  BY <2>2, <2>3, <3>1 DEF Members
  <2>7. ASSUME NEW a \in 1..Len(log'.runs) PROVE Tx(a)' # t
    <3>1. log'.runs = log.runs
      BY <1>2 DEF Starts
    <3>2. Tx(a)' = Tx(a)
      BY <3>1 DEF Tx, Cause, Parts
    <3>. QED  BY <1>2, <2>1, <3>1, <3>2, NoneRan DEF Starts
  <2>8. log'.tx[exec'.id] = t
    BY <2>1
  <2>9. /\ Queues(exec.todo, log.tx[exec.id])'
        /\ \A i \in Members(log.tx[exec.id])' : (i \notin log.refused /\ In(i, exec.todo))'
    BY ONLY <2>1, <2>5, <2>6, <2>8 DEF Queues, Members, In, RunsOf
  <2>. QED  BY ONLY <2>4, <2>7, <2>8, <2>9 DEF Running
<1>. QED  BY <1>1, <1>2 DEF Handled, Refuses, Defers, Stays, Opens, Drops

LEMMA ClosedKept ==
  ASSUME TypeOK, TxInv, NEW r \in Requests, Arrives(r), Handled(r)
  PROVE  Closed'
<1>. SUFFICES ASSUME NEW t \in 1..Count', Over(t)'
              PROVE  \/ \A i \in Members(t)' : RunsOf(i)' = {}
                     \/ \A i \in Members(t)' : RanOnce(i)'
  BY DEF Closed
<1>. USE HistoryKept DEF TxInv
<1>1. CASE t = r.id
  <2>1. \A i \in 1..Count : log.tx[i] < r.id
    BY TxTypes DEF Parts
  <2>2. log'.tx[r.id] # r.id
    BY DEF Opened
  <2>3. Members(t)' = {}
    BY <1>1, <2>1, <2>2 DEF Members, Count
  <2>. QED  BY <2>3
<1>2. CASE t \in 1..Count
  <2>1. Members(t)' = Members(t)
    <3>1. ASSUME log'.tx[r.id] = t PROVE r.op = "exec"
      <4>1. log.opened[r.session] = t /\ InTransaction(r.session)
        BY <1>2, <3>1 DEF Opened
      <4>2. ~(Refuses(r) \/ Defers(r))
        BY <4>1 DEF Over, Refuses, Defers
      <4>3. log'.tx # log.tx
        BY <1>2, <3>1 DEF Parts, Requests
      <4>. QED  BY <4>1, <4>2, <4>3 DEF Handled, Stays, Opens, Drops, Starts
    <3>2. r.id \notin Members(t)'
      BY <3>1, MembersKept
    <3>3. Members(t)' \subseteq Members(t) \cup {r.id} /\ Members(t) \subseteq Members(t)'
      BY MembersKept
    <3>. QED  BY ONLY <3>2, <3>3
  <2>2. \A i \in Members(t) : i \in 1..Count /\ RunsOf(i)' = RunsOf(i)
                              /\ (i \notin log.refused => i \notin log'.refused)
    BY RunsKept, MembersKept
  <2>3. CASE Over(t)
    <3>1. \/ \A i \in Members(t) : RunsOf(i) = {}
          \/ \A i \in Members(t) : RanOnce(i)
      BY <1>2, <2>3 DEF Closed
    <3>2. ASSUME NEW i \in Members(t), RanOnce(i) PROVE RanOnce(i)'
      BY <2>2, <3>2, RunsKept DEF RanOnce
    <3>. QED  BY <2>1, <2>2, <3>1, <3>2
  <2>4. CASE ~Over(t)
    <3>1. PICK s \in Sessions : log.opened[s] = t
      BY <2>4 DEF Over, Arrives
    <3>2. Queues(commands[s], t) /\ \A i \in Members(t) : i \in log.refused \/ In(i, commands[s])
      BY <1>2, <3>1 DEF OpenQueues, Opened
    <3>3. \A i \in Members(t) : RunsOf(i) = {}
      <4>1. ASSUME NEW i \in Members(t) PROVE RunsOf(i) = {}
        <5>1. CASE i \in log.refused
          BY <5>1 DEF Parts
        <5>2. CASE In(i, commands[s])
          BY <3>2, <5>2 DEF Queues, In
        <5>. QED  BY <3>2, <5>1, <5>2
      <4>. QED  BY <4>1
    <3>. QED  BY <2>1, <2>2, <3>3
  <2>. QED  BY <2>3, <2>4
<1>. QED  BY <1>1, <1>2

(* It is enough to look at a run that is new.                              *)
LEMMA ContiguousGrows ==
  ASSUME RunsAreContiguous, Len(log.runs) \in Nat,
         \A n \in 1..Len(log.runs) : log'.runs[n] = log.runs[n] /\ Tx(n)' = Tx(n),
         \A c \in 1..Len(log'.runs) : c \notin 1..Len(log.runs) =>
           /\ c = Len(log.runs) + 1
           /\ \A a \in 1..Len(log.runs) : Tx(a) # 0 /\ Tx(c)' = Tx(a) =>
                /\ \A b \in a..Len(log.runs) : Tx(b) = Tx(a)
                /\ log.runs[a].by = 0 /\ log'.runs[c].by = 0 =>
                     log.runs[a].id < log'.runs[c].id /\ log.runs[a].db = log'.runs[c].db
  PROVE  RunsAreContiguous'
<1>. SUFFICES ASSUME NEW a \in 1..Len(log'.runs), NEW c \in 1..Len(log'.runs), a < c,
                     Tx(a)' # 0, Tx(c)' = Tx(a)'
              PROVE  /\ \A b \in a..c : Tx(b)' = Tx(a)'
                     /\ log'.runs[a].by = 0 /\ log'.runs[c].by = 0 =>
                          log'.runs[a].id < log'.runs[c].id /\ log'.runs[a].db = log'.runs[c].db
  BY DEF RunsAreContiguous, Tx
<1>1. a \in 1..Len(log.runs) /\ log'.runs[a] = log.runs[a] /\ Tx(a)' = Tx(a)
  OBVIOUS
<1>2. CASE c \in 1..Len(log.runs)
  <2>1. log'.runs[c] = log.runs[c] /\ Tx(c)' = Tx(c)
    BY <1>2
  <2>2. /\ \A b \in a..c : Tx(b) = Tx(a)
        /\ log.runs[a].by = 0 /\ log.runs[c].by = 0 =>
             log.runs[a].id < log.runs[c].id /\ log.runs[a].db = log.runs[c].db
    BY <1>1, <1>2, <2>1 DEF RunsAreContiguous, Tx
  <2>3. \A b \in a..c : Tx(b)' = Tx(b)
    BY <1>1, <1>2
  <2>. QED  BY <1>1, <2>1, <2>2, <2>3
<1>3. CASE c \notin 1..Len(log.runs)
  <2>1. /\ c = Len(log.runs) + 1
        /\ \A b \in a..Len(log.runs) : Tx(b) = Tx(a)
        /\ log.runs[a].by = 0 /\ log'.runs[c].by = 0 =>
             log.runs[a].id < log'.runs[c].id /\ log.runs[a].db = log'.runs[c].db
    BY <1>1, <1>3
  <2>2. ASSUME NEW b \in a..c PROVE Tx(b)' = Tx(a)
    <3>1. CASE b \in a..Len(log.runs)
      <4>1. b \in 1..Len(log.runs)
        BY <1>1, <3>1
      <4>. QED  BY <2>1, <3>1, <4>1
    <3>2. CASE b = c
      BY <1>1, <3>2
    <3>. QED  BY <1>1, <2>1, <3>1, <3>2
  <2>. QED  BY <1>1, <2>1, <2>2
<1>. QED  BY <1>2, <1>3

LEMMA ContiguousKept ==
  ASSUME TypeOK, TxInv, NEW r \in Requests, Arrives(r), Handled(r)
  PROVE  RunsAreContiguous'
<1>1. ASSUME NEW n \in 1..Len(log.runs)
      PROVE  log'.runs[n] = log.runs[n] /\ Tx(n)' = Tx(n)
  <2>1. Cause(n) \in 1..Count
    BY DEF TxInv, Parts
  <2>2. log'.runs[n] = log.runs[n]
    BY RunsKept DEF TxInv
  <2>3. Cause(n)' = Cause(n)
    BY ONLY <2>2 DEF Cause
  <2>4. log'.tx[Cause(n)] = log.tx[Cause(n)]
    BY <2>1, HistoryKept DEF TxInv
  <2>. QED  BY ONLY <2>2, <2>3, <2>4 DEF Tx
<1>2. ASSUME NEW n \in 1..Len(log'.runs), n \notin 1..Len(log.runs)
      PROVE  n = Len(log.runs) + 1 /\ Tx(n)' = 0
  <2>1. n = Len(log.runs) + 1 /\ log'.runs[n].id = r.id /\ log'.runs[n].by = 0 /\ Stays(r)
    BY <1>2, RunsKept DEF TxInv
  <2>2. log'.tx[r.id] = 0
    <3>1. r.id = Count + 1 /\ r.id \in Ids /\ Count \in Nat
      BY Arrival DEF Arrives
    <3>. QED  BY <2>1, <3>1 DEF Stays, Parts, TxInv
  <2>. QED  BY ONLY <2>1, <2>2 DEF Tx, Cause
<1>3. Len(log.runs) \in Nat
  BY DEF TypeOK, Log
<1>4. RunsAreContiguous
  BY DEF TxInv
<1>. QED  BY ONLY <1>1, <1>2, <1>3, <1>4, ContiguousGrows

LEMMA EmitsKept ==
  ASSUME TypeOK, TxInv, NEW r \in Requests, Arrives(r), Answer(r), Handled(r)
  PROVE  Emits'
<1>. SUFFICES ASSUME emit' # Quiet PROVE Emits'
  BY DEF Emits
<1>1. /\ emit'.id = r.id /\ emit'.exec = 0 /\ exec' = Idle /\ commands' = commands
      /\ Immediate(r) /\ ~InTransaction(r.session)
  BY EmitOfAnswer DEF Arrives
<1>2. currentDb[r.session] \in Dbs /\ Execute(r, currentDb[r.session], 0)
  BY <1>1 DEF Immediate, TypeOK, Requests
<1>3. r.op = "push"
  BY <1>1, <1>2 DEF Arrives, Execute, DataCommand, Push, Wait, Subscribe, calls
<1>4. /\ log'.tx = log.tx
      /\ log'.runs = Append(log.runs, [id |-> r.id, db |-> currentDb[r.session], by |-> 0])
  BY <1>2, <1>3, RunsOfExecute
<1>5. Len(log.runs) + 1 \in RunsOf(r.id)'
  <2>1. log.runs \in Seq([id : Ids, db : Dbs, by : 0..MaxRequests])
    BY DEF TypeOK, Log
  <2>. QED  BY <1>4, <2>1 DEF RunsOf
<1>6. r.id = Count + 1 /\ Count' = Count + 1 /\ Count \in Nat /\ requests'[r.id] = r /\ r.id \in Ids
  BY Arrival DEF Arrives
<1>7. log'.tx[r.id] = 0
  BY <1>4, <1>6 DEF TxInv, Parts
<1>8. ~InTransaction(reader)'
  BY <1>1 DEF InTransaction, Arrives
<1>9. exec'.id = 0
  BY <1>1 DEF Idle
<1>. QED  BY <1>1, <1>3, <1>5, <1>6, <1>7, <1>8, <1>9 DEF Emits, RunsOf

LEMMA HandleKeepsTx ==
  ASSUME TypeOK, TxInv, Handle
  PROVE  TxInv'
<1>1. PICK r \in Requests : Arrives(r) /\ Answer(r)
  BY HandleArrives
<1>2. Handled(r)
  BY <1>1, AnswerCases
<1>. QED  BY <1>1, <1>2, NumberedKept, OpenedKept, PartsKept, MarkedKept, OpenQueuesKept,
             RunningKept, ClosedKept, EmitsKept, ContiguousKept DEF TxInv

(* A step that no transaction notices, but for the runs of waiters.        *)
LEMMA UnnoticedByTx ==
  ASSUME TxInv, UNCHANGED <<requests, commands, errored, exec>>,
         log'.tx = log.tx, log'.opened = log.opened, log'.refused = log.refused,
         \A i : RunsOf(i)' = RunsOf(i)
  PROVE  /\ Numbered' /\ Opened' /\ Marked' /\ OpenQueues' /\ Closed'
         /\ \A q, t : Queues(q, t)' = Queues(q, t) /\ Members(t)' = Members(t)
         /\ \A i : RanOnce(i)' = RanOnce(i)
<1>. USE DEF TxInv
<1>1. Numbered' /\ Opened' /\ Marked'
  BY DEF Numbered, Opened, Marked, Count, InTransaction
<1>2. \A q, t : Queues(q, t)' = Queues(q, t)
  BY DEF Queues, Count
<1>3. \A t : Members(t)' = Members(t)
  BY DEF Members
<1>4. \A i : RanOnce(i)' = RanOnce(i)
  BY DEF RanOnce
<1>5. OpenQueues'
  <2>. SUFFICES ASSUME NEW s \in Sessions, InTransaction(s)
                PROVE  (Queues(commands[s], log.opened[s])
                        /\ \A i \in Members(log.opened[s]) : i \in log.refused \/ In(i, commands[s]))'
    BY DEF OpenQueues, InTransaction
  <2>1. PICK q, t : q = commands[s] /\ t = log.opened[s]
    OBVIOUS
  <2>2. Queues(q, t) /\ \A i \in Members(t) : i \in log.refused \/ In(i, q)
    BY <2>1 DEF OpenQueues
  <2>3. Queues(q, t)' /\ Members(t)' = Members(t) /\ q = commands'[s] /\ t = log'.opened[s]
    BY <1>2, <1>3, <2>1, <2>2
  <2>4. log'.refused = log.refused
    OBVIOUS
  <2>. QED  BY ONLY <2>2, <2>3, <2>4 DEF Queues, Members, In, RunsOf
<1>6. Closed'
  <2>1. \A t : Over(t)' = Over(t)
    BY DEF Over
  <2>2. ASSUME NEW t \in 1..Count, Over(t)'
        PROVE  \/ \A i \in Members(t)' : RunsOf(i)' = {}
               \/ \A i \in Members(t)' : RanOnce(i)'
    BY <1>3, <1>4, <2>1, <2>2 DEF Closed
  <2>. QED  BY <2>2 DEF Closed, Count
<1>. QED  BY <1>1, <1>2, <1>3, <1>4, <1>5, <1>6

LEMMA QuietKeepsTx ==
  ASSUME TypeOK, TxInv, UNCHANGED <<requests, commands, errored, exec>>,
         log'.tx = log.tx, log'.opened = log.opened, log'.refused = log.refused,
         log'.runs = log.runs, emit' = Quiet \/ UNCHANGED <<emit, reader>>
  PROVE  TxInv'
<1>. USE DEF TxInv
<1>1. \A i : RunsOf(i)' = RunsOf(i)
  BY DEF RunsOf
<1>2. /\ Numbered' /\ Opened' /\ Marked' /\ OpenQueues' /\ Closed'
      /\ \A q, t : Queues(q, t)' = Queues(q, t) /\ Members(t)' = Members(t)
      /\ \A i : RanOnce(i)' = RanOnce(i)
  BY <1>1, UnnoticedByTx
<1>3. \A n : Cause(n)' = Cause(n) /\ Tx(n)' = Tx(n)
  BY DEF Cause, Tx
<1>4. Parts'
  BY <1>1, <1>3 DEF Parts, Count, RunsOf, Cause
<1>5. Running'
  <2>1. CASE exec = Idle
    BY <2>1 DEF Running
  <2>2. CASE exec # Idle
    <3>1. PICK t, q : t = log.tx[exec.id] /\ q = exec.todo
      OBVIOUS
    <3>2. /\ \A s \in Sessions : log'.opened[s] # t
          /\ Queues(q, t)'
          /\ \A i \in Members(t)' : (i \notin log'.refused /\ In(i, q)) \/ RanOnce(i)'
      BY <1>2, <2>2, <3>1 DEF Running
    <3>3. \A a \in 1..Len(log'.runs) : Tx(a)' = t =>
            /\ \A b \in a..Len(log'.runs) : Tx(b)' = t
            /\ log'.runs[a].by = 0 =>
                 /\ log'.runs[a].db = exec'.db
                 /\ \A n \in 1..Len(exec'.todo) : log'.runs[a].id < exec'.todo[n].id
      BY <1>3, <2>2, <3>1 DEF Running
    <3>4. t = log'.tx[exec'.id] /\ q = exec'.todo
      BY <3>1
    <3>5. /\ Queues(exec.todo, log.tx[exec.id])'
          /\ \A i \in Members(log.tx[exec.id])' :
               (i \notin log.refused /\ In(i, exec.todo))' \/ RanOnce(i)'
      BY ONLY <3>2, <3>4 DEF Queues, Members, In, RunsOf, RanOnce
    <3>. QED  BY ONLY <3>2, <3>3, <3>4, <3>5 DEF Running
  <2>. QED  BY <2>1, <2>2
<1>6. Emits'
  BY DEF Emits, Count, RunsOf, InTransaction
<1>7. RunsAreContiguous'
  <2>1. Len(log.runs) \in Nat
    BY DEF TypeOK, Log
  <2>. QED  BY <1>3, <2>1, ContiguousGrows
<1>. QED  BY <1>2, <1>4, <1>5, <1>6, <1>7

(* A waiter that is called runs at the end of the runs, on behalf of the   *)
(* push.                                                                   *)
LEMMA EmitStepKeepsTx ==
  ASSUME TypeOK, TxInv, EmitStep
  PROVE  TxInv'
<1>. USE DEF TxInv
<1>1. PICK w \in waiters : Calls(w)
  BY EmitStepCalls
<1>2. /\ log'.tx = log.tx /\ log'.opened = log.opened /\ log'.refused = log.refused
      /\ log'.runs = Append(log.runs, [id |-> w.id, db |-> w.db, by |-> emit.id])
  BY <1>1 DEF Calls, TypeOK, Log, Run
<1>3. UNCHANGED <<requests, commands, errored, exec, reader>>
  BY EmitStepCalls
<1>4. /\ emit' = Quiet \/ (emit'.id = emit.id /\ emit'.exec = emit.exec)
      /\ emit # Quiet
  <2>1. emit \in Emissions /\ emit # Quiet
    BY EmitStepCalls DEF TypeOK
  <2>2. emit' = Quiet \/ emit' = [emit EXCEPT !.left = @ - 1]
    BY <1>1 DEF Calls
  <2>. QED  BY ONLY <2>1, <2>2 DEF Emissions
<1>5. /\ emit.id \in 1..Count /\ emit.id # 0 /\ requests[emit.id].op = "push"
      /\ RunsOf(emit.id) # {}
  BY <1>4, TxTypes DEF Emits
<1>. PICK m : m = Len(log.runs) + 1
  OBVIOUS
<1>6. /\ Len(log.runs) \in Nat /\ Len(log'.runs) = Len(log.runs) + 1
      /\ \A n \in 1..Len(log.runs) : n \in 1..Len(log'.runs) /\ log'.runs[n] = log.runs[n]
      /\ \A n \in 1..Len(log'.runs) : n \in 1..Len(log.runs) \/ n = m
      /\ log'.runs[m].by = emit.id /\ m \in Nat
  <2>1. log.runs \in LogOfRuns
    BY DEF TypeOK, Log, LogOfRuns
  <2>. QED  BY ONLY <1>2, <2>1, m = Len(log.runs) + 1, RunsGrow
<1>7. \A i : RunsOf(i)' = RunsOf(i)
  <2>. DEFINE run == [id |-> w.id, db |-> w.db, by |-> emit.id]
  <2>1. run.by # 0 /\ log'.runs = Append(log.runs, run)
    BY <1>2, <1>5
  <2>. HIDE DEF run
  <2>. QED  BY ONLY TypeOK, <2>1, OthersRun, Zenon
<1>8. /\ Numbered' /\ Opened' /\ Marked' /\ OpenQueues' /\ Closed'
      /\ \A q, t : Queues(q, t)' = Queues(q, t) /\ Members(t)' = Members(t)
      /\ \A i : RanOnce(i)' = RanOnce(i)
  BY <1>2, <1>3, <1>7, UnnoticedByTx
<1>9. /\ \A n \in 1..Len(log.runs) : Cause(n)' = Cause(n) /\ Tx(n)' = Tx(n)
      /\ Cause(m)' = emit.id /\ Tx(m)' = log.tx[emit.id]
  <2>1. Cause(m)' = emit.id
    BY ONLY <1>5, <1>6 DEF Cause
  <2>2. \A n \in 1..Len(log.runs) : Cause(n)' = Cause(n)
    BY ONLY <1>6 DEF Cause
  <2>. QED  BY ONLY <1>2, <2>1, <2>2 DEF Tx
<1>10. Parts'
  <2>1. ASSUME NEW n \in 1..Len(log'.runs)
        PROVE  /\ Cause(n)' \in 1..Count /\ RunsOf(Cause(n))' # {}
               /\ requests[Cause(n)'].op \notin {"exec", "select", "subscribe"}
    <3>1. PICK c \in 1..Count : /\ Cause(n)' = c /\ RunsOf(c) # {}
                                /\ requests[c].op \notin {"exec", "select", "subscribe"}
      BY <1>5, <1>6, <1>9 DEF Parts
    <3>2. RunsOf(c)' # {}
      BY <1>7, <3>1
    <3>3. RunsOf(Cause(n))' # {}
      BY ONLY <3>1, <3>2 DEF RunsOf
    <3>. QED  BY <3>1, <3>3
  <2>2. \A i \in log.refused : RunsOf(i)' = {}
    BY <1>7 DEF Parts
  <2>. QED  BY <1>2, <1>3, <2>1, <2>2 DEF Parts, Count
<1>11. Running'
  <2>1. CASE exec = Idle
    BY <1>3, <2>1 DEF Running
  <2>2. CASE exec # Idle
    <3>. PICK t, q : t = log.tx[exec.id] /\ q = exec.todo
      OBVIOUS
    <3>1. /\ \A s \in Sessions : log'.opened[s] # t
          /\ Queues(q, t)'
          /\ \A i \in Members(t)' : (i \notin log'.refused /\ In(i, q)) \/ RanOnce(i)'
      BY <1>2, <1>8, <2>2 DEF Running
    <3>2. log.tx[emit.id] = t
      BY <1>4, <2>2 DEF Emits
    <3>3. ASSUME NEW a \in 1..Len(log'.runs), Tx(a)' = t
          PROVE  /\ \A b \in a..Len(log'.runs) : Tx(b)' = t
                 /\ log'.runs[a].by = 0 =>
                      /\ log'.runs[a].db = exec.db
                      /\ \A n \in 1..Len(q) : log'.runs[a].id < q[n].id
      <4>1. CASE a \in 1..Len(log.runs)
        <5>1. Tx(a) = t
          BY <1>9, <3>3, <4>1
        <5>2. /\ \A b \in a..Len(log.runs) : Tx(b) = t
              /\ log.runs[a].by = 0 =>
                   /\ log.runs[a].db = exec.db
                   /\ \A n \in 1..Len(q) : log.runs[a].id < q[n].id
          BY <2>2, <4>1, <5>1 DEF Running
        <5>3. ASSUME NEW b \in a..Len(log'.runs) PROVE Tx(b)' = t
          <6>1. b \in 1..Len(log.runs) \/ b = m
            BY ONLY <1>6, <4>1, b \in a..Len(log'.runs)
          <6>2. CASE b \in 1..Len(log.runs)
            <7>1. b \in a..Len(log.runs)
              BY ONLY <1>6, <4>1, <6>2, b \in a..Len(log'.runs)
            <7>. QED  BY <1>9, <5>2, <6>2, <7>1
          <6>3. CASE b = m
            BY <1>9, <3>2, <6>3
          <6>. QED  BY <6>1, <6>2, <6>3
        <5>4. log'.runs[a] = log.runs[a]
          BY <1>6, <4>1
        <5>. QED  BY <5>2, <5>3, <5>4
      <4>2. CASE a = m
        <5>1. log'.runs[a].by # 0
          BY ONLY <1>5, <1>6, <4>2
        <5>2. \A b \in a..Len(log'.runs) : b = m
          BY ONLY <1>6, <4>2, m = Len(log.runs) + 1
        <5>. QED  BY <3>3, <4>2, <5>1, <5>2
      <4>. QED  BY <1>6, <4>1, <4>2
    <3>4. t = log'.tx[exec'.id] /\ q = exec'.todo /\ exec'.db = exec.db
      BY <1>2, <1>3
    <3>5. /\ Queues(exec.todo, log.tx[exec.id])'
          /\ \A i \in Members(log.tx[exec.id])' :
               (i \notin log.refused /\ In(i, exec.todo))' \/ RanOnce(i)'
      BY ONLY <3>1, <3>4 DEF Queues, Members, In, RunsOf, RanOnce
    <3>. QED  BY ONLY <3>1, <3>3, <3>4, <3>5 DEF Running
  <2>. QED  BY <2>1, <2>2
<1>12. Emits'
  <2>1. CASE emit' = Quiet
    BY <2>1 DEF Emits
  <2>2. CASE emit'.id = emit.id /\ emit'.exec = emit.exec
    BY <1>2, <1>3, <1>4, <1>7, <2>2 DEF Emits, Count, InTransaction, RunsOf
  <2>. QED  BY <1>4, <2>1, <2>2
<1>13. RunsAreContiguous'
  <2>1. ASSUME NEW a \in 1..Len(log.runs), Tx(a) # 0, log.tx[emit.id] = Tx(a)
        PROVE  \A b \in a..Len(log.runs) : Tx(b) = Tx(a)
    BY <1>4, <2>1 DEF Emits, Running
  <2>2. ASSUME NEW c \in 1..Len(log'.runs), c \notin 1..Len(log.runs)
        PROVE  c = Len(log.runs) + 1 /\ log'.runs[c].by # 0 /\ Tx(c)' = log.tx[emit.id]
    <3>1. c = m
      BY ONLY <1>6, <2>2
    <3>. QED  BY ONLY <1>5, <1>6, <1>9, <3>1, m = Len(log.runs) + 1
  <2>3. \A n \in 1..Len(log.runs) : log'.runs[n] = log.runs[n] /\ Tx(n)' = Tx(n)
    BY <1>6, <1>9
  <2>4. RunsAreContiguous /\ Len(log.runs) \in Nat
    BY <1>6
  <2>. QED  BY ONLY <2>1, <2>2, <2>3, <2>4, ContiguousGrows
<1>. QED  BY <1>8, <1>10, <1>11, <1>12, <1>13

(***************************************************************************)
(* One step of EXEC takes the request h from its queue.  Unless that is a  *)
(* SELECT or a SUBSCRIBE, it becomes the last of the runs.                 *)
(***************************************************************************)
Takes(h) ==
  /\ h = Head(exec.todo) /\ exec' = [exec EXCEPT !.todo = Tail(@)]
  /\ log'.tx = log.tx /\ log'.opened = log.opened /\ log'.refused = log.refused
  /\ \/ h.op \in {"select", "subscribe"} /\ log'.runs = log.runs
     \/ /\ h.op \notin {"exec", "select", "subscribe"}
        /\ log'.runs = Append(log.runs, [id |-> h.id, db |-> exec.db, by |-> 0])
  /\ \/ emit' = Quiet
     \/ h.op = "push" /\ emit'.id = h.id /\ emit'.exec = exec.id
  /\ UNCHANGED <<commands, errored, requests>>

LEMMA ExecStepTakes ==
  ASSUME TypeOK, TxInv, ExecStep
  PROVE  \E h \in Requests :
           /\ Takes(h)
           /\ exec # Idle /\ exec'.id = exec.id /\ exec'.db = exec.db
           /\ exec.todo \in Seq(Requests) /\ Len(exec.todo) # 0
           /\ exec'.todo = Tail(exec.todo)
           /\ h.id \in 1..Count /\ h = requests[h.id] /\ log.tx[h.id] = log.tx[exec.id]
           /\ log.tx[exec.id] # 0 /\ RunsOf(h.id) = {}
           /\ h.op \notin {"select", "subscribe"} => h.id \notin log.refused
           /\ \A n \in 1..Len(exec.todo) : n > 1 => h.id < exec.todo[n].id
<1>. DEFINE h == Head(exec.todo)
            t == log.tx[exec.id]
<1>1. /\ exec.todo \in Seq(Requests) /\ exec.todo # <<>> /\ exec.db \in Dbs
      /\ exec' = [exec EXCEPT !.todo = Tail(@)]
      /\ exec'.id = exec.id /\ exec'.db = exec.db /\ exec'.todo = Tail(exec.todo)
  BY DEF ExecStep, TypeOK
<1>2. exec # Idle
  BY <1>1 DEF Idle
<1>3. h \in Requests /\ h = exec.todo[1] /\ 1 \in 1..Len(exec.todo) /\ Len(exec.todo) # 0
  BY <1>1
<1>4. t # 0 /\ Queues(exec.todo, t)
  BY <1>2 DEF TxInv, Numbered, Running
<1>5. /\ h.id \in 1..Count /\ h = requests[h.id] /\ log.tx[h.id] = t
      /\ RunsOf(h.id) = {}
      /\ \A n \in 1..Len(exec.todo) : n > 1 => h.id < exec.todo[n].id
  BY <1>3, <1>4 DEF Queues
<1>6. Execute(h, exec.db, exec.id)
  BY DEF ExecStep
<1>7. Takes(h)
  <2>1. emit' = Quiet \/ (h.op = "push" /\ emit'.id = h.id /\ emit'.exec = exec.id)
    <3>1. emit = Quiet
      BY DEF ExecStep
    <3>. QED  BY ONLY <1>6, <3>1, EmitOfExecute
  <2>. QED  BY <1>1, <1>3, <1>6, <2>1, RunsOfExecute DEF ExecStep, Takes
<1>8. ASSUME h.op \notin {"select", "subscribe"} PROVE h.id \notin log.refused
  <2>1. h.id \in Members(t)
    BY <1>5, <1>7, <1>8 DEF Takes, Members, Count
  <2>. QED  BY <1>2, <1>5, <2>1 DEF TxInv, Running, RanOnce
<1>. QED  BY <1>1, <1>2, <1>3, <1>4, <1>5, <1>7, <1>8

LEMMA ExecStepKeepsTx ==
  ASSUME TypeOK, TxInv, ExecStep
  PROVE  TxInv'
<1>1. PICK h \in Requests :
           /\ Takes(h)
           /\ exec # Idle /\ exec'.id = exec.id /\ exec'.db = exec.db
           /\ exec.todo \in Seq(Requests) /\ Len(exec.todo) # 0
           /\ exec'.todo = Tail(exec.todo)
           /\ h.id \in 1..Count /\ h = requests[h.id] /\ log.tx[h.id] = log.tx[exec.id]
           /\ log.tx[exec.id] # 0 /\ RunsOf(h.id) = {}
           /\ h.op \notin {"select", "subscribe"} => h.id \notin log.refused
           /\ \A n \in 1..Len(exec.todo) : n > 1 => h.id < exec.todo[n].id
  BY ExecStepTakes
<1>. PICK t, q, p : t = log.tx[exec.id] /\ q = exec.todo /\ p = Tail(exec.todo)
  OBVIOUS
<1>2. /\ log'.tx = log.tx /\ log'.opened = log.opened /\ log'.refused = log.refused
      /\ commands' = commands /\ errored' = errored /\ requests' = requests
  BY <1>1 DEF Takes
<1>3. exec' # Idle /\ exec'.id # 0 /\ t # 0
  BY <1>1 DEF TxInv, Numbered, Idle
<1>4. log.runs \in Seq([id : Ids, db : Dbs, by : 0..MaxRequests]) /\ Len(log.runs) \in Nat
  BY DEF TypeOK, Log
<1>5. /\ \A n \in 1..Len(log.runs) : n \in 1..Len(log'.runs) /\ log'.runs[n] = log.runs[n]
      /\ \A n \in 1..Len(log'.runs) :
           \/ n \in 1..Len(log.runs)
           \/ /\ n = Len(log.runs) + 1 /\ h.op \notin {"exec", "select", "subscribe"}
              /\ log'.runs[n].id = h.id /\ log'.runs[n].db = exec.db /\ log'.runs[n].by = 0
      /\ \A i : i # h.id => RunsOf(i)' = RunsOf(i)
      /\ h.op \notin {"select", "subscribe"} =>
           Len(log.runs) + 1 \in 1..Len(log'.runs) /\ RunsOf(h.id)' = {Len(log.runs) + 1}
  <2>1. CASE log'.runs = log.runs /\ h.op \in {"select", "subscribe"}
    BY <2>1 DEF RunsOf
  <2>2. CASE h.op \notin {"exec", "select", "subscribe"}
             /\ log'.runs = Append(log.runs, [id |-> h.id, db |-> exec.db, by |-> 0])
    <3>. DEFINE run == [id |-> h.id, db |-> exec.db, by |-> 0]
    <3>1. log.runs \in LogOfRuns /\ log'.runs = Append(log.runs, run)
      BY <1>4, <2>2 DEF LogOfRuns
    <3>2. run.id = h.id /\ run.db = exec.db /\ run.by = 0
      OBVIOUS
    <3>. HIDE DEF run
    <3>3. /\ Len(log'.runs) = Len(log.runs) + 1 /\ Len(log.runs) + 1 \in 1..Len(log'.runs)
          /\ \A n \in 1..Len(log.runs) : n \in 1..Len(log'.runs) /\ log'.runs[n] = log.runs[n]
          /\ \A n \in 1..Len(log'.runs) : n \in 1..Len(log.runs) \/ n = Len(log.runs) + 1
          /\ log'.runs[Len(log.runs) + 1] = run
      BY ONLY <3>1, RunsGrow
    <3>4. ASSUME NEW i, i # h.id PROVE RunsOf(i)' = RunsOf(i)
      <4>1. run.id # i
        BY <3>2, <3>4
      <4>. QED  BY ONLY TypeOK, <3>1, <4>1, OthersRun, Zenon
    <3>5. RunsOf(h.id)' = RunsOf(h.id) \cup {Len(log.runs) + 1}
      BY ONLY TypeOK, <3>1, <3>2, ItRuns, Zenon
    <3>6. RunsOf(h.id)' = {Len(log.runs) + 1}
      BY ONLY <1>1, <3>5
    <3>. QED  BY <2>2, <3>2, <3>3, <3>4, <3>6
  <2>. QED  BY <1>1, <2>1, <2>2 DEF Takes
<1>6. /\ Len(p) = Len(q) - 1 /\ Len(q) \in Nat /\ h = q[1] /\ 1 \in 1..Len(q)
      /\ \A n \in 1..Len(p) : p[n] = q[n + 1] /\ n + 1 \in 1..Len(q)
  BY <1>1 DEF Takes
<1>7. Queues(q, t) /\ h.id \in 1..Count /\ log.tx[h.id] = t
  BY <1>1 DEF TxInv, Running
<1>16. /\ \A n \in 1..Len(log.runs) : Tx(n)' = Tx(n)
       /\ \A n \in 1..Len(log'.runs) : n \notin 1..Len(log.runs) => Tx(n)' = log.tx[h.id]
  BY <1>2, <1>5 DEF Tx, Cause
<1>8. Numbered'
  BY <1>1, <1>2, <1>3 DEF TxInv, Numbered, Count
<1>9. Opened'
  BY <1>2 DEF TxInv, Opened, InTransaction, Count
<1>10. Parts'
  <2>1. ASSUME NEW i \in log.refused PROVE RunsOf(i)' = {}
    <3>1. CASE i # h.id
      BY <1>5, <3>1 DEF TxInv, Parts
    <3>2. CASE i = h.id
      <4>1. log'.runs = log.runs
        BY <1>1, <2>1, <3>2 DEF Takes
      <4>. QED  BY <1>1, <3>2, <4>1 DEF RunsOf
    <3>. QED  BY <3>1, <3>2
  <2>2. ASSUME NEW n \in 1..Len(log'.runs)
        PROVE  /\ Cause(n)' \in 1..Count /\ RunsOf(Cause(n))' # {}
               /\ requests[Cause(n)'].op \notin {"exec", "select", "subscribe"}
    <3>1. CASE n \in 1..Len(log.runs)
      <4>1. /\ Cause(n) \in 1..Count /\ RunsOf(Cause(n)) # {}
            /\ requests[Cause(n)].op \notin {"exec", "select", "subscribe"}
        BY <3>1 DEF TxInv, Parts
      <4>2. Cause(n)' = Cause(n) /\ Cause(n) # h.id
        BY <1>1, <1>5, <3>1, <4>1 DEF Cause
      <4>3. RunsOf(Cause(n))' = RunsOf(Cause(n))
        BY <1>5, <4>2 DEF RunsOf
      <4>. QED  BY <4>1, <4>2, <4>3
    <3>2. CASE /\ log'.runs[n].id = h.id /\ log'.runs[n].by = 0
               /\ h.op \notin {"exec", "select", "subscribe"}
      <4>1. Cause(n)' = h.id /\ n \in RunsOf(Cause(n))'
        BY <3>2 DEF Cause, RunsOf
      <4>. QED  BY <1>1, <3>2, <4>1
    <3>. QED  BY <1>5, <3>1, <3>2
  <2>. QED  BY <1>2, <2>1, <2>2 DEF TxInv, Parts, Count
<1>11. Marked'
  BY <1>2 DEF TxInv, Marked, InTransaction
<1>12. OpenQueues'
  <2>. SUFFICES ASSUME NEW s \in Sessions, commands[s] # NoQueue
                PROVE  (Queues(commands[s], log.opened[s])
                        /\ \A i \in Members(log.opened[s]) : i \in log.refused \/ In(i, commands[s]))'
    BY <1>2 DEF OpenQueues, InTransaction
  <2>. PICK c, u : c = commands[s] /\ u = log.opened[s]
    OBVIOUS
  <2>1. Queues(c, u) /\ \A i \in Members(u) : i \in log.refused \/ In(i, c)
    BY DEF TxInv, OpenQueues, InTransaction
  <2>2. u # t
    BY <1>1 DEF TxInv, Running
  <2>3. \A n \in 1..Len(c) : c[n].id # h.id
    BY <1>7, <2>1, <2>2 DEF Queues
  <2>4. Queues(c, u)'
    BY <1>2, <1>5, <2>1, <2>3 DEF Queues, Count
  <2>5. \A i \in Members(u)' : i \in log'.refused \/ In(i, c)
    BY <1>2, <2>1 DEF Members
  <2>. QED  BY <1>2, <2>4, <2>5 DEF Queues, Members, In, RunsOf
<1>13. Running'
  <2>1. \A s \in Sessions : log'.opened[s] # t
    BY <1>1, <1>2 DEF TxInv, Running
  <2>2. Queues(p, t)'
    <3>1. ASSUME NEW n \in 1..Len(p)
          PROVE  /\ p[n].id \in 1..Count /\ p[n] = requests[p[n].id]
                 /\ log.tx[p[n].id] = t /\ RunsOf(p[n].id)' = {}
      <4>1. p[n].id # h.id
        BY <1>1, <1>6
      <4>2. n + 1 \in 1..Len(q) /\ p[n] = q[n + 1]
        BY <1>6
      <4>3. /\ p[n].id \in 1..Count /\ p[n] = requests[p[n].id]
            /\ log.tx[p[n].id] = t /\ RunsOf(p[n].id) = {}
        BY <1>7, <4>2 DEF Queues
      <4>. QED  BY <1>5, <4>1, <4>3
    <3>2. ASSUME NEW m \in 1..Len(p), NEW n \in 1..Len(p), m < n
          PROVE  p[m].id < p[n].id
      BY <1>6, <1>7, <3>2 DEF Queues
    <3>. QED  BY <1>2, <3>1, <3>2 DEF Queues, Count
  <2>3. ASSUME NEW i \in Members(t)
        PROVE  (i \notin log.refused /\ In(i, p)) \/ RanOnce(i)'
    <3>1. (i \notin log.refused /\ In(i, q)) \/ RanOnce(i)
      BY <1>1 DEF TxInv, Running
    <3>2. CASE RanOnce(i)
      <4>1. i # h.id
        BY <1>1, <3>2 DEF RanOnce
      <4>. QED  BY <1>2, <1>5, <3>2, <4>1 DEF RanOnce
    <3>3. CASE i = h.id
      BY <1>1, <1>2, <1>5, <3>1, <3>3 DEF RanOnce, Members
    <3>4. CASE i # h.id /\ i \notin log.refused /\ In(i, q)
      <4>1. PICK n \in 1..Len(q) : q[n].id = i
        BY <3>4 DEF In
      <4>2. n - 1 \in 1..Len(p) /\ p[n - 1] = q[n]
        BY <1>6, <3>4, <4>1
      <4>. QED  BY <3>4, <4>1, <4>2 DEF In
    <3>. QED  BY <3>1, <3>2, <3>3, <3>4
  <2>4. ASSUME NEW a \in 1..Len(log'.runs), Tx(a)' = t
        PROVE  /\ \A b \in a..Len(log'.runs) : Tx(b)' = t
               /\ log'.runs[a].by = 0 =>
                    /\ log'.runs[a].db = exec.db
                    /\ \A n \in 1..Len(p) : log'.runs[a].id < p[n].id
    <3>1. CASE a \in 1..Len(log.runs)
      <4>1. /\ \A b \in a..Len(log.runs) : Tx(b) = t
            /\ log.runs[a].by = 0 =>
                 /\ log.runs[a].db = exec.db
                 /\ \A n \in 1..Len(q) : log.runs[a].id < q[n].id
        BY <1>1, <2>4, <3>1, <1>16 DEF TxInv, Running
      <4>2. \A b \in a..Len(log'.runs) : b \in 1..Len(log'.runs)
        BY <3>1
      <4>3. ASSUME NEW b \in a..Len(log'.runs) PROVE Tx(b)' = t
        <5>1. CASE b \in 1..Len(log.runs)
          BY <1>16, <3>1, <4>1, <5>1
        <5>2. CASE b \notin 1..Len(log.runs)
          BY <1>7, <1>16, <4>2, <5>2
        <5>. QED  BY <5>1, <5>2
      <4>. QED  BY <1>5, <1>6, <3>1, <4>1, <4>3
    <3>2. CASE a = Len(log.runs) + 1 /\ log'.runs[a].id = h.id /\ log'.runs[a].db = exec.db
      <4>1. \A b \in a..Len(log'.runs) : b = a
        <5>1. \A b \in a..Len(log'.runs) : b \in 1..Len(log'.runs) /\ b \notin 1..Len(log.runs)
          BY <1>4, <3>2
        <5>. QED  BY <1>5, <3>2, <5>1
      <4>2. \A n \in 1..Len(p) : h.id < p[n].id
        BY <1>1, <1>6
      <4>. QED  BY <2>4, <3>2, <4>1, <4>2
    <3>. QED  BY <1>5, <3>1, <3>2
  <2>5. Members(t)' = Members(t) /\ exec'.todo = p /\ exec'.id = exec.id /\ exec'.db = exec.db
    BY <1>1, <1>2 DEF Members
  <2>6. \A i \in Members(t)' : (i \notin log'.refused /\ In(i, p)) \/ RanOnce(i)'
    BY <1>2, <2>3, <2>5
  <2>7. log'.tx[exec'.id] = t
    BY <1>2, <2>5
  <2>8. /\ Queues(exec.todo, log.tx[exec.id])'
        /\ \A i \in Members(log.tx[exec.id])' :
             (i \notin log.refused /\ In(i, exec.todo))' \/ RanOnce(i)'
    BY ONLY <2>2, <2>5, <2>6, <2>7 DEF Queues, Members, In, RunsOf, RanOnce
  <2>. QED  BY ONLY <2>1, <2>4, <2>5, <2>7, <2>8 DEF Running
<1>14. Closed'
  <2>. SUFFICES ASSUME NEW u \in 1..Count, Over(u)'
                PROVE  \/ \A i \in Members(u)' : RunsOf(i)' = {}
                       \/ \A i \in Members(u)' : RanOnce(i)'
    BY <1>2 DEF Closed, Count
  <2>1. Over(u) /\ u # t
    BY <1>1, <1>2, <1>3 DEF Over
  <2>2. Members(u)' = Members(u) /\ \A i \in Members(u) : i # h.id
    BY <1>2, <1>7, <2>1 DEF Members
  <2>3. \A i \in Members(u) : RunsOf(i)' = RunsOf(i) /\ (RanOnce(i) => RanOnce(i)')
    BY <1>2, <1>5, <2>2 DEF RanOnce
  <2>. QED  BY <2>1, <2>2, <2>3 DEF TxInv, Closed
<1>15. RunsAreContiguous'
  <2>1. ASSUME NEW c \in 1..Len(log'.runs), c \notin 1..Len(log.runs)
        PROVE  /\ c = Len(log.runs) + 1 /\ Tx(c)' = t
               /\ log'.runs[c].id = h.id /\ log'.runs[c].db = exec.db
    BY <1>5, <1>7, <1>16, <2>1
  <2>2. ASSUME NEW a \in 1..Len(log.runs), Tx(a) = t
        PROVE  /\ \A b \in a..Len(log.runs) : Tx(b) = t
               /\ log.runs[a].by = 0 => log.runs[a].db = exec.db /\ log.runs[a].id < h.id
    BY <1>1, <1>6, <2>2 DEF TxInv, Running
  <2>3. \A n \in 1..Len(log.runs) : log'.runs[n] = log.runs[n] /\ Tx(n)' = Tx(n)
    BY <1>5, <1>16
  <2>. QED  BY <1>4, <2>1, <2>2, <2>3, ContiguousGrows DEF TxInv
<1>17. Emits'
  <2>1. CASE emit' = Quiet
    BY <2>1 DEF Emits
  <2>2. CASE h.op = "push" /\ emit'.id = h.id /\ emit'.exec = exec.id
    BY <1>1, <1>2, <1>3, <1>5, <1>7, <2>2 DEF Emits, Count, RunsOf
  <2>. QED  BY <1>1, <2>1, <2>2 DEF Takes
<1>. QED  BY <1>8, <1>9, <1>10, <1>11, <1>12, <1>13, <1>14, <1>15, <1>17 DEF TxInv

LEMMA ExecReturnKeepsTx ==
  ASSUME TypeOK, TxInv, ExecReturn
  PROVE  TxInv'
<1>1. /\ UNCHANGED <<requests, log, commands, errored>> /\ exec' = Idle
      /\ exec # Idle /\ exec.todo = <<>> /\ emit' = Quiet
  BY DEF ExecReturn, server, calls
<1>2. Numbered' /\ Opened' /\ Marked' /\ RunsAreContiguous' /\ Emits'
  <2>1. Numbered'
    BY <1>1 DEF TxInv, Numbered, Count, Idle
  <2>2. Opened' /\ Marked'
    BY <1>1 DEF TxInv, Opened, Marked, Count, InTransaction
  <2>3. RunsAreContiguous'
    <3>1. log' = log /\ RunsAreContiguous
      BY <1>1 DEF TxInv
    <3>2. \A n : Cause(n)' = Cause(n) /\ Tx(n)' = Tx(n)
      BY ONLY <3>1 DEF Cause, Tx
    <3>3. Len(log.runs) \in Nat
      BY DEF TypeOK, Log
    <3>. QED  BY <3>1, <3>2, <3>3, ContiguousGrows
  <2>4. Emits'
    BY <1>1 DEF Emits
  <2>. QED  BY <2>1, <2>2, <2>3, <2>4
<1>3. Parts'
  BY <1>1 DEF TxInv, Parts, Count, RunsOf, Cause
<1>4. OpenQueues'
  BY <1>1 DEF TxInv, OpenQueues, Count, InTransaction, Queues, In, Members, RunsOf
<1>5. Running'
  BY <1>1 DEF Running
<1>6. Closed'
  <2>1. \A t : /\ Members(t)' = Members(t)
               /\ \A i : RunsOf(i)' = RunsOf(i) /\ RanOnce(i)' = RanOnce(i)
    BY <1>1 DEF Members, RunsOf, RanOnce
  <2>2. ASSUME NEW t \in 1..Count, Over(t)'
        PROVE  (\A i \in Members(t) : RunsOf(i) = {}) \/ (\A i \in Members(t) : RanOnce(i))
    <3>1. CASE t = log.tx[exec.id]
      BY <1>1, <3>1 DEF TxInv, Running, In
    <3>2. CASE t # log.tx[exec.id]
      BY <1>1, <2>2, <3>2 DEF TxInv, Closed, Over
    <3>. QED  BY <3>1, <3>2
  <2>3. ASSUME NEW t \in 1..Count, Over(t)'
        PROVE  \/ \A i \in Members(t)' : RunsOf(i)' = {}
               \/ \A i \in Members(t)' : RanOnce(i)'
    BY <2>1, <2>2, <2>3
  <2>. QED  BY <1>1, <2>3 DEF Closed, Count
<1>. QED  BY <1>2, <1>3, <1>4, <1>5, <1>6 DEF TxInv

(***************************************************************************)
(* A step is about one request at most: it adds replies, and confirmations *)
(* of SUBSCRIBE, for no other, and takes none other from where it waits.   *)
(***************************************************************************)
About(i) ==
  /\ Count \in Nat /\ Count' \in Nat /\ Count <= Count'
  /\ \A k \in 1..Count : requests'[k] = requests[k] /\ log'.tx[k] = log.tx[k]
  /\ \A k \in 1..Count' : k \in 1..Count \/ k = i
  /\ \A k \in log'.thrown : k \in log.thrown \/ (k = i /\ k \in 1..Count')
  /\ log.thrown \subseteq log'.thrown
  /\ \A k : k # i => (Executing(k)' <=> Executing(k))

WireAbout(i) ==
  \A s \in Sessions :
    /\ \A j \in 1..Len(wire[s]) : j \in 1..Len(wire'[s]) /\ wire'[s][j] = wire[s][j]
    /\ \A j \in 1..Len(wire'[s]) : j \notin 1..Len(wire[s]) =>
         /\ wire'[s][j].id = i /\ wire'[s][j].reply = Subscribed
         /\ i \in 1..Count' /\ requests'[i].session = s
         /\ (\A n \in 1..Len(wire[s]) : wire[s][n].id < i) \/ log'.tx[i] # 0

(* Nothing that is on its way overtakes a reply to i.                      *)
Ahead(i) ==
  /\ \A s \in Sessions : \A j \in 1..Len(wire[s]) :
       wire[s][j].id < i \/ wire[s][j].reply = Subscribed
  /\ \A m \in 1..Len(microtasks) : IsReply(microtasks[m]) => microtasks[m].id < i

QueueAbout(i) ==
  /\ Len(microtasks) \in Nat
  /\ \A n \in 1..Len(microtasks) : n \in 1..Len(microtasks') /\ microtasks'[n] = microtasks[n]
  /\ \A n \in 1..Len(microtasks') : n \notin 1..Len(microtasks) =>
       /\ n = Len(microtasks) + 1
       /\ IsReply(microtasks'[n]) =>
            /\ microtasks'[n].id = i /\ i \in 1..Count'
            /\ microtasks'[n].session = requests'[i].session
            /\ ~OnQueue(i)
            /\ requests'[i].op = "wait" \/ Ahead(i)

PendingAbout(i) ==
  /\ \A p \in pending' : p \notin pending /\ IsReply(p) =>
       /\ p.id = i /\ i \in 1..Count' /\ p.session = requests'[i].session
       /\ requests'[i].op = "wait"
       /\ ~Waits(i)
       /\ \A q \in pending' : q \notin pending => q = p
  /\ \A p \in pending : p \notin pending' /\ IsReply(p) => p.id = i

LEMMA WireKept ==
  ASSUME NEW i, WireAbout(i), NEW k
  PROVE  OnWire(k)' <=> OnWire(k)
<1>1. ASSUME OnWire(k) PROVE OnWire(k)'
  <2>1. PICK s \in Sessions : \E j \in 1..Len(wire[s]) :
          wire[s][j].id = k /\ wire[s][j].reply # Subscribed
    BY <1>1 DEF OnWire
  <2>2. PICK j \in 1..Len(wire[s]) : wire[s][j].id = k /\ wire[s][j].reply # Subscribed
    BY <2>1
  <2>3. j \in 1..Len(wire'[s]) /\ wire'[s][j] = wire[s][j]
    BY <2>2 DEF WireAbout
  <2>. QED  BY <2>2, <2>3 DEF OnWire
<1>2. ASSUME OnWire(k)' PROVE OnWire(k)
  <2>1. PICK s \in Sessions : \E j \in 1..Len(wire'[s]) :
          wire'[s][j].id = k /\ wire'[s][j].reply # Subscribed
    BY <1>2 DEF OnWire
  <2>2. PICK j \in 1..Len(wire'[s]) : wire'[s][j].id = k /\ wire'[s][j].reply # Subscribed
    BY <2>1
  <2>3. j \in 1..Len(wire[s]) /\ wire'[s][j] = wire[s][j]
    BY <2>2 DEF WireAbout
  <2>. QED  BY <2>2, <2>3 DEF OnWire
<1>. QED  BY <1>1, <1>2

LEMMA QueueKept ==
  ASSUME NEW i, QueueAbout(i), NEW k, k # i
  PROVE  OnQueue(k)' <=> OnQueue(k)
<1>1. ASSUME OnQueue(k) PROVE OnQueue(k)'
  BY <1>1 DEF OnQueue, QueueAbout, IsReply
<1>2. ASSUME OnQueue(k)' PROVE OnQueue(k)
  BY <1>2 DEF OnQueue, QueueAbout, IsReply
<1>. QED  BY <1>1, <1>2

LEMMA PendingKept ==
  ASSUME NEW i, PendingAbout(i), NEW k, k # i
  PROVE  Waits(k)' <=> Waits(k)
BY DEF PendingAbout, Waits, IsReply

LEMMA PlacesKept ==
  ASSUME NEW k, Placed(k), PlaceKept(k)
  PROVE  Placed(k)'
BY DEF Placed, PlaceKept

LEMMA AboutKeepsReplies ==
  ASSUME ReplyInv, NEW i, About(i), WireAbout(i), QueueAbout(i), PendingAbout(i),
         i \in 1..Count' => Placed(i)'
  PROVE  ReplyInv'
<1>1. Addressed'
  <2>1. log'.thrown \subseteq 1..Count'
    BY DEF About, ReplyInv, Addressed
  <2>2. ASSUME NEW n \in 1..Len(microtasks'), IsReply(microtasks'[n])
        PROVE  /\ microtasks'[n].id \in 1..Count'
               /\ microtasks'[n].session = requests'[microtasks'[n].id].session
    <3>1. CASE n \in 1..Len(microtasks)
      <4>1. microtasks'[n] = microtasks[n]
        BY <3>1 DEF QueueAbout
      <4>2. microtasks[n].id \in 1..Count /\ microtasks[n].session = requests[microtasks[n].id].session
        BY <2>2, <3>1, <4>1 DEF ReplyInv, Addressed
      <4>. QED  BY <4>1, <4>2 DEF About
    <3>2. CASE n \notin 1..Len(microtasks)
      BY <2>2, <3>2 DEF QueueAbout
    <3>. QED  BY <3>1, <3>2
  <2>3. ASSUME NEW p \in pending', IsReply(p)
        PROVE  /\ p.id \in 1..Count' /\ p.session = requests'[p.id].session
               /\ requests'[p.id].op = "wait"
    <3>1. CASE p \in pending
      <4>1. /\ p.id \in 1..Count /\ p.session = requests[p.id].session
            /\ requests[p.id].op = "wait"
        BY <2>3, <3>1 DEF ReplyInv, Addressed
      <4>. QED  BY <4>1 DEF About
    <3>2. CASE p \notin pending
      BY <2>3, <3>2 DEF PendingAbout
    <3>. QED  BY <3>1, <3>2
  <2>4. ASSUME NEW s \in Sessions, NEW j \in 1..Len(wire'[s])
        PROVE  wire'[s][j].id \in 1..Count' /\ requests'[wire'[s][j].id].session = s
    <3>1. CASE j \in 1..Len(wire[s])
      <4>1. wire'[s][j] = wire[s][j]
        BY <3>1 DEF WireAbout
      <4>2. wire[s][j].id \in 1..Count /\ requests[wire[s][j].id].session = s
        BY <3>1 DEF ReplyInv, Addressed
      <4>. QED  BY <4>1, <4>2 DEF About
    <3>2. CASE j \notin 1..Len(wire[s])
      BY <3>2 DEF WireAbout
    <3>. QED  BY <3>1, <3>2
  <2>. QED  BY ONLY <2>1, <2>2, <2>3, <2>4 DEF Addressed, IsReply
<1>2. InOrder'
  <2>1. ASSUME NEW s \in Sessions, NEW j \in 1..Len(wire'[s]), NEW k \in 1..Len(wire'[s]), j < k
        PROVE  \/ wire'[s][j].id < wire'[s][k].id
               \/ requests'[wire'[s][k].id].op = "wait"
               \/ wire'[s][j].reply = Subscribed
               \/ wire'[s][k].reply = Subscribed /\ log'.tx[wire'[s][k].id] # 0
    <3>1. CASE j \notin 1..Len(wire[s])
      BY <3>1 DEF WireAbout
    <3>2. CASE j \in 1..Len(wire[s]) /\ k \notin 1..Len(wire[s])
      BY <3>2 DEF WireAbout
    <3>3. CASE j \in 1..Len(wire[s]) /\ k \in 1..Len(wire[s])
      <4>1. wire'[s][j] = wire[s][j] /\ wire'[s][k] = wire[s][k]
        BY <3>3 DEF WireAbout
      <4>2. wire[s][k].id \in 1..Count
        BY <3>3 DEF ReplyInv, Addressed
      <4>3. \/ wire[s][j].id < wire[s][k].id
            \/ requests[wire[s][k].id].op = "wait"
            \/ wire[s][j].reply = Subscribed
            \/ wire[s][k].reply = Subscribed /\ log.tx[wire[s][k].id] # 0
        BY <2>1, <3>3 DEF ReplyInv, InOrder, RepliesInOrder
      <4>. QED  BY <4>1, <4>2, <4>3 DEF About
    <3>. QED  BY <3>1, <3>2, <3>3
  <2>2. ASSUME NEW s \in Sessions, NEW j \in 1..Len(wire'[s]), NEW n \in 1..Len(microtasks'),
               IsReply(microtasks'[n]), microtasks'[n].session = s
        PROVE  \/ wire'[s][j].id < microtasks'[n].id
               \/ requests'[microtasks'[n].id].op = "wait"
               \/ wire'[s][j].reply = Subscribed
    <3>1. CASE j \notin 1..Len(wire[s])
      BY <3>1 DEF WireAbout
    <3>2. CASE j \in 1..Len(wire[s]) /\ n \notin 1..Len(microtasks)
      <4>1. microtasks'[n].id = i /\ (requests'[i].op = "wait" \/ Ahead(i))
        BY <2>2, <3>2 DEF QueueAbout
      <4>2. wire'[s][j] = wire[s][j]
        BY <3>2 DEF WireAbout
      <4>. QED  BY <3>2, <4>1, <4>2 DEF Ahead
    <3>3. CASE j \in 1..Len(wire[s]) /\ n \in 1..Len(microtasks)
      <4>1. wire'[s][j] = wire[s][j] /\ microtasks'[n] = microtasks[n]
        BY <3>3 DEF WireAbout, QueueAbout
      <4>2. microtasks[n].id \in 1..Count
        BY <2>2, <3>3, <4>1 DEF ReplyInv, Addressed
      <4>3. \/ wire[s][j].id < microtasks[n].id
            \/ requests[microtasks[n].id].op = "wait"
            \/ wire[s][j].reply = Subscribed
        BY <2>2, <3>3, <4>1 DEF ReplyInv, InOrder, Late
      <4>. QED  BY <4>1, <4>2, <4>3 DEF About
    <3>. QED  BY <3>1, <3>2, <3>3
  <2>3. ASSUME NEW m \in 1..Len(microtasks'), NEW n \in 1..Len(microtasks'), m < n,
               IsReply(microtasks'[m]), IsReply(microtasks'[n])
        PROVE  microtasks'[m].id < microtasks'[n].id \/ requests'[microtasks'[n].id].op = "wait"
    <3>1. m \in 1..Len(microtasks)
      BY <2>3 DEF QueueAbout
    <3>2. microtasks'[m] = microtasks[m]
      BY <3>1 DEF QueueAbout
    <3>3. CASE n \notin 1..Len(microtasks)
      BY <2>3, <3>1, <3>2, <3>3 DEF QueueAbout, Ahead
    <3>4. CASE n \in 1..Len(microtasks)
      <4>1. microtasks'[n] = microtasks[n]
        BY <3>4 DEF QueueAbout
      <4>2. microtasks[n].id \in 1..Count
        BY <2>3, <3>4, <4>1 DEF ReplyInv, Addressed
      <4>3. microtasks[m].id < microtasks[n].id \/ requests[microtasks[n].id].op = "wait"
        BY <2>3, <3>1, <3>2, <3>4, <4>1 DEF ReplyInv, InOrder, Late
      <4>. QED  BY <3>2, <4>1, <4>2, <4>3 DEF About
    <3>. QED  BY <3>3, <3>4
  <2>. QED  BY ONLY <2>1, <2>2, <2>3 DEF InOrder, RepliesInOrder, Late, IsReply
<1>3. Distinct'
  <2>1. ASSUME NEW s \in Sessions, NEW j \in 1..Len(wire'[s]), NEW k \in 1..Len(wire'[s]),
               wire'[s][j].id = wire'[s][k].id,
               wire'[s][j].reply # Subscribed, wire'[s][k].reply # Subscribed
        PROVE  j = k
    <3>1. j \in 1..Len(wire[s]) /\ k \in 1..Len(wire[s])
      BY <2>1 DEF WireAbout
    <3>2. wire'[s][j] = wire[s][j] /\ wire'[s][k] = wire[s][k]
      BY <3>1 DEF WireAbout
    <3>. QED  BY <2>1, <3>1, <3>2 DEF ReplyInv, Distinct
  <2>2. ASSUME NEW m \in 1..Len(microtasks'), NEW n \in 1..Len(microtasks'),
               IsReply(microtasks'[m]), IsReply(microtasks'[n]),
               microtasks'[m].id = microtasks'[n].id
        PROVE  m = n
    <3>1. ASSUME NEW k \in 1..Len(microtasks'), NEW l \in 1..Len(microtasks'),
                 IsReply(microtasks'[k]), IsReply(microtasks'[l]),
                 k \in 1..Len(microtasks), l \notin 1..Len(microtasks)
          PROVE  microtasks'[k].id # microtasks'[l].id
      BY <3>1 DEF QueueAbout, OnQueue
    <3>2. CASE m \in 1..Len(microtasks) /\ n \in 1..Len(microtasks)
      <4>1. microtasks'[m] = microtasks[m] /\ microtasks'[n] = microtasks[n]
        BY <3>2 DEF QueueAbout
      <4>. QED  BY <2>2, <3>2, <4>1 DEF ReplyInv, Distinct
    <3>3. CASE m \notin 1..Len(microtasks) /\ n \notin 1..Len(microtasks)
      BY <3>3 DEF QueueAbout
    <3>. QED  BY <2>2, <3>1, <3>2, <3>3
  <2>3. ASSUME NEW p \in pending', NEW q \in pending', IsReply(p), IsReply(q), p.id = q.id
        PROVE  p = q
    <3>1. CASE p \in pending /\ q \in pending
      BY <2>3, <3>1 DEF ReplyInv, Distinct
    <3>2. CASE p \notin pending
      BY <2>3, <3>2 DEF PendingAbout, Waits, IsReply
    <3>3. CASE q \notin pending
      BY <2>3, <3>3 DEF PendingAbout, Waits, IsReply
    <3>. QED  BY <3>1, <3>2, <3>3
  <2>. QED  BY ONLY <2>1, <2>2, <2>3 DEF Distinct, IsReply
<1>4. Accounted'
  <2>1. ASSUME NEW k \in 1..Count', k # i
        PROVE  Placed(k)'
    <3>1. k \in 1..Count
      BY <2>1 DEF About
    <3>2. Placed(k)
      BY <3>1 DEF ReplyInv, Accounted
    <3>3. (OnWire(k)' <=> OnWire(k)) /\ (OnQueue(k)' <=> OnQueue(k)) /\ (Waits(k)' <=> Waits(k))
      BY <2>1, WireKept, QueueKept, PendingKept
    <3>4. Executing(k)' <=> Executing(k)
      BY <2>1 DEF About
    <3>5. Failed(k)' <=> Failed(k)
      BY <2>1, <3>1 DEF About, Failed, NeverAnswers
    <3>. QED  BY <3>2, <3>3, <3>4, <3>5, PlacesKept DEF PlaceKept
  <2>2. \A k \in 1..Count' : Placed(k)'
    BY <2>1
  <2>. QED  BY ONLY <2>2 DEF Accounted, Count, Placed, OnWire, OnQueue, Waits, Executing, Failed,
                              NeverAnswers
<1>. QED  BY <1>1, <1>2, <1>3, <1>4 DEF ReplyInv

LEMMA Appended ==
  ASSUME NEW S, NEW q \in Seq(S), NEW x
  PROVE  /\ Len(Append(q, x)) = Len(q) + 1 /\ Len(q) \in Nat
         /\ \A n \in 1..Len(q) : n \in 1..Len(Append(q, x)) /\ Append(q, x)[n] = q[n]
         /\ \A n \in 1..Len(Append(q, x)) : n \in 1..Len(q) \/ n = Len(q) + 1
         /\ Append(q, x)[Len(q) + 1] = x /\ Len(q) + 1 \in 1..Len(Append(q, x))
OBVIOUS

(* The queue of microtasks after a task was put at its end.                *)
Enqueued(task) ==
  /\ \A n \in 1..Len(microtasks) : n \in 1..Len(microtasks') /\ microtasks'[n] = microtasks[n]
  /\ \A n \in 1..Len(microtasks') :
       n \in 1..Len(microtasks) \/ (n = Len(microtasks) + 1 /\ microtasks'[n] = task)
  /\ Len(microtasks) \in Nat /\ Len(microtasks) + 1 \in 1..Len(microtasks')
  /\ microtasks'[Len(microtasks) + 1] = task

LEMMA AppendEnqueues ==
  ASSUME TypeOK, NEW task, microtasks' = Append(microtasks, task)
  PROVE  Enqueued(task)
BY Appended DEF TypeOK, Enqueued

LEMMA EnqueuedIsOnQueue ==
  ASSUME NEW task, Enqueued(task), NEW k
  PROVE  OnQueue(k)' <=> OnQueue(k) \/ (IsReply(task) /\ task.id = k)
<1>1. ASSUME OnQueue(k) \/ (IsReply(task) /\ task.id = k) PROVE OnQueue(k)'
  BY <1>1 DEF OnQueue, Enqueued, IsReply
<1>2. ASSUME OnQueue(k)' PROVE OnQueue(k) \/ (IsReply(task) /\ task.id = k)
  BY <1>2 DEF OnQueue, Enqueued, IsReply
<1>. QED  BY <1>1, <1>2

LEMMA NothingQueued ==
  ASSUME TypeOK, microtasks' = microtasks, NEW i
  PROVE  QueueAbout(i) /\ (OnQueue(i)' <=> OnQueue(i))
BY DEF QueueAbout, OnQueue, TypeOK

LEMMA NothingParked ==
  ASSUME pending' = pending, NEW i
  PROVE  PendingAbout(i) /\ (Waits(i)' <=> Waits(i))
BY DEF PendingAbout, Waits

LEMMA NothingWritten ==
  ASSUME wire' = wire, NEW i
  PROVE  WireAbout(i)
BY DEF WireAbout

(* A token for EXEC is no reply.                                           *)
LEMMA TokenQueued ==
  ASSUME NEW task, Enqueued(task), ~IsReply(task), NEW i
  PROVE  QueueAbout(i) /\ (OnQueue(i)' <=> OnQueue(i))
BY EnqueuedIsOnQueue DEF QueueAbout, Enqueued

LEMMA ReplyQueued ==
  ASSUME NEW task, Enqueued(task), IsReply(task), NEW i, i = task.id, i \in 1..Count',
         task.session = requests'[i].session, ~OnQueue(i),
         requests'[i].op = "wait" \/ Ahead(i)
  PROVE  QueueAbout(i) /\ OnQueue(i)'
BY EnqueuedIsOnQueue DEF QueueAbout, Enqueued

LEMMA TokenParked ==
  ASSUME NEW task, pending' = pending \cup {task}, ~IsReply(task), NEW i
  PROVE  PendingAbout(i) /\ (Waits(i)' <=> Waits(i))
BY DEF PendingAbout, Waits, IsReply

LEMMA ReplyParked ==
  ASSUME NEW task, pending' = pending \cup {task}, IsReply(task), NEW i, i = task.id,
         i \in 1..Count', task.session = requests'[i].session, requests'[i].op = "wait",
         ~Waits(i)
  PROVE  PendingAbout(i) /\ Waits(i)'
BY DEF PendingAbout, Waits, IsReply

(* A promise of request i that is resolved.                                *)
LEMMA SettleKeepsReplies ==
  ASSUME TypeOK, ReplyInv, NEW i, Settle(i), UNCHANGED <<requests, wire>>,
         log'.tx = log.tx, log'.thrown = log.thrown,
         \A k : Executing(k)' <=> Executing(k)
  PROVE  ReplyInv'
<1>1. About(i) /\ WireAbout(i)
  BY TxTypes, NothingWritten DEF About, Count
<1>2. (OnWire(i)' <=> OnWire(i)) /\ (Executing(i)' <=> Executing(i))
  BY <1>1, WireKept
<1>3. Failed(i)' <=> Failed(i)
  BY DEF Failed, NeverAnswers
<1>4. i \in 1..Count' => Placed(i)
  BY DEF ReplyInv, Accounted, Count
<1>5. CASE pending' = pending /\ microtasks' = microtasks
  <2>1. QueueAbout(i) /\ PendingAbout(i) /\ PlaceKept(i)
    BY <1>2, <1>3, <1>5, NothingQueued, NothingParked DEF PlaceKept
  <2>. QED  BY <1>1, <1>4, <2>1, PlacesKept, AboutKeepsReplies
<1>6. ASSUME NEW task \in pending, task.id = i, pending' = pending \ {task},
             microtasks' = Append(microtasks, task)
      PROVE  ReplyInv'
  <2>1. Enqueued(task) /\ PendingAbout(i)
    BY <1>6, AppendEnqueues DEF PendingAbout
  <2>2. CASE ~IsReply(task)
    <3>1. Waits(i)' <=> Waits(i)
      BY <1>6, <2>2 DEF Waits, IsReply
    <3>2. PlaceKept(i) /\ QueueAbout(i)
      BY <1>2, <1>3, <2>1, <2>2, <3>1, TokenQueued DEF PlaceKept
    <3>. QED  BY <1>1, <1>4, <2>1, <3>2, PlacesKept, AboutKeepsReplies
  <2>3. CASE IsReply(task)
    <3>1. i \in 1..Count /\ task.session = requests[i].session /\ requests[i].op = "wait"
      BY <1>6, <2>3 DEF ReplyInv, Addressed
    <3>2. Waits(i) /\ Placed(i)
      BY <1>6, <2>3, <3>1 DEF Waits, IsReply, ReplyInv, Accounted
    <3>3. QueueAbout(i) /\ OnQueue(i)'
      BY <1>6, <2>1, <2>3, <3>1, <3>2, ReplyQueued DEF Placed, Count
    <3>4. ~Waits(i)'
      BY <1>6, <2>3 DEF Waits, IsReply, ReplyInv, Distinct
    <3>5. Placed(i)'
      BY <1>2, <1>3, <3>2, <3>3, <3>4 DEF Placed
    <3>. QED  BY <1>1, <2>1, <3>3, <3>5, AboutKeepsReplies
  <2>. QED  BY <2>2, <2>3
<1>. QED  BY <1>5, <1>6, SettleCases

(***************************************************************************)
(* What a request does to the replies is one of four things.               *)
(***************************************************************************)
ReplyTo(r, task) == IsReply(task) /\ task.id = r.id /\ task.session = r.session

(* The sockets have what they had, and perhaps a confirmation for r.       *)
Confirms(r) ==
  \A s \in Sessions :
    /\ Len(wire[s]) \in Nat
    /\ \A j \in 1..Len(wire[s]) : j \in 1..Len(wire'[s]) /\ wire'[s][j] = wire[s][j]
    /\ \A j \in 1..Len(wire'[s]) : j \notin 1..Len(wire[s]) =>
         /\ j = Len(wire[s]) + 1 /\ s = r.session
         /\ wire'[s][j].id = r.id /\ wire'[s][j].reply = Subscribed

Answers(r) ==
  /\ \E task \in Tasks : ReplyTo(r, task) /\ microtasks' = Append(microtasks, task)
  /\ r.op = "subscribe" => log'.tx[r.id] # 0
  /\ pending' = pending /\ log'.thrown = log.thrown
  /\ exec' = exec /\ emit' = emit /\ wire' = wire

Parks(r) ==
  /\ r.op = "wait"
  /\ \E task \in Tasks : ReplyTo(r, task) /\ pending' = pending \cup {task}
  /\ microtasks' = microtasks /\ log'.thrown = log.thrown
  /\ exec' = exec /\ emit' = emit /\ wire' = wire

Ends(r) ==
  /\ log'.tx[r.id] = 0
  /\ \/ r.op = "subscribe" /\ log'.thrown = log.thrown
     \/ log'.thrown = log.thrown \cup {r.id}
  /\ microtasks' = microtasks /\ pending' = pending
  /\ exec' = exec /\ emit' = emit /\ Confirms(r)

Runs(r) ==
  /\ \/ exec'.id = r.id /\ emit' = emit
     \/ exec' = exec /\ emit'.id = r.id /\ emit'.exec = 0
  /\ r.op # "subscribe"
  /\ microtasks' = microtasks /\ pending' = pending /\ log'.thrown = log.thrown
  /\ wire' = wire

LEMMA ReplyAnswers ==
  ASSUME TypeOK, NEW r \in Requests, NEW reply \in Replies, Reply(r, reply)
  PROVE  /\ \E task \in Tasks : ReplyTo(r, task) /\ microtasks' = Append(microtasks, task)
         /\ pending' = pending /\ wire' = wire
<1>1. /\ PushToken(r, reply, 0) \in Tasks
      /\ PushToken(r, reply, 0).id = r.id /\ PushToken(r, reply, 0).session = r.session
      /\ PushToken(r, reply, 0).exec = 0
  BY TaskIsTask, BoundsAssumption
<1>. QED  BY <1>1 DEF Reply, Later, Publish, ReplyTo, IsReply

LEMMA NothingConfirmed ==
  ASSUME TypeOK, NEW r, wire' = wire
  PROVE  Confirms(r)
BY DEF Confirms, TypeOK

LEMMA SubscribeConfirms ==
  ASSUME TypeOK, NEW r \in Requests, Subscribe(r)
  PROVE  Confirms(r)
<1>. DEFINE entry == [id |-> r.id, reply |-> Subscribed]
<1>1. CASE wire' = wire
  BY <1>1, NothingConfirmed
<1>2. CASE wire' = [wire EXCEPT ![r.session] = Append(@, entry)]
  <2>1. \A s \in Sessions : wire[s] \in Seq(Written)
    BY DEF TypeOK
  <2>2. r.session \in Sessions /\ entry.id = r.id /\ entry.reply = Subscribed
    BY DEF Requests
  <2>. HIDE DEF entry
  <2>3. /\ wire'[r.session] = Append(wire[r.session], entry)
        /\ \A s \in Sessions : s # r.session => wire'[s] = wire[s]
    BY <1>2, <2>2 DEF TypeOK
  <2>4. ASSUME NEW s \in Sessions, NEW q, NEW grown, q = wire[s], grown = wire'[s]
        PROVE  /\ Len(q) \in Nat
               /\ \A j \in 1..Len(q) : j \in 1..Len(grown) /\ grown[j] = q[j]
               /\ \A j \in 1..Len(grown) : j \notin 1..Len(q) =>
                    j = Len(q) + 1 /\ s = r.session /\ grown[j] = entry
    <3>1. q \in Seq(Written) /\ (grown = q \/ (s = r.session /\ grown = Append(q, entry)))
      BY <2>1, <2>3, <2>4
    <3>. QED  BY ONLY <3>1, Appended
  <2>. QED  BY <2>2, <2>4 DEF Confirms
<1>. QED  BY <1>1, <1>2 DEF Subscribe

(* Executing a handler sends a token or a reply, keeps it for later, ends  *)
(* without one, or has waiters to call first.                              *)
Sends(r, e, task) ==
  /\ task.id = r.id /\ task.session = r.session /\ task.exec = e
  /\ \/ /\ r.op # "subscribe" /\ microtasks' = Append(microtasks, task)
        /\ pending' = pending /\ log'.thrown = log.thrown
        /\ emit' = emit /\ wire' = wire
     \/ /\ r.op = "wait" /\ pending' = pending \cup {task}
        /\ microtasks' = microtasks /\ log'.thrown = log.thrown
        /\ emit' = emit /\ wire' = wire
     \/ /\ \/ r.op = "subscribe" /\ log'.thrown = log.thrown
           \/ log'.thrown = log.thrown \cup {r.id}
        /\ microtasks' = microtasks /\ pending' = pending
        /\ emit' = emit
     \/ /\ r.op = "push" /\ emit'.id = r.id /\ emit'.exec = e
        /\ microtasks' = microtasks /\ pending' = pending /\ log'.thrown = log.thrown
        /\ wire' = wire

LEMMA ExecuteSends ==
  ASSUME TypeOK, NEW r \in Requests, NEW d \in Dbs, NEW e \in 0..MaxRequests, Execute(r, d, e)
  PROVE  Confirms(r) /\ \E task \in Tasks : Sends(r, e, task)
<1>1. ASSUME NEW reply \in Replies
      PROVE  /\ PushToken(r, reply, e) \in Tasks
             /\ PushToken(r, reply, e).id = r.id /\ PushToken(r, reply, e).session = r.session
             /\ PushToken(r, reply, e).exec = e
  BY TaskIsTask
<1>2. log \in Log /\ store[d] \in 0..MaxRequests
  BY DEF TypeOK
<1>3. [log EXCEPT !.runs = Run(r.id, d, 0)].thrown = log.thrown
  BY <1>2 DEF Log
<1>4. [log EXCEPT !.runs = Run(r.id, d, 0), !.thrown = @ \cup {r.id}].thrown
        = log.thrown \cup {r.id}
  BY <1>2 DEF Log
<1>5. CASE DataCommand(r, d, e)
  <2>1. pending' = pending /\ wire' = wire /\ emit' = emit
    BY <1>5 DEF DataCommand, calls
  <2>2. CASE r.op \in {"write", "select"}
    <3>1. microtasks' = Append(microtasks, PushToken(r, Ok, e)) /\ log'.thrown = log.thrown
      BY <1>3, <1>5, <2>2 DEF DataCommand, Later
    <3>. QED  BY <1>1, <2>1, <2>2, <3>1, RepliesAreReplies, NothingConfirmed DEF Sends
  <2>3. CASE r.op = "read"
    <3>1. microtasks' = Append(microtasks, PushToken(r, Value(store[d]), e))
          /\ log'.thrown = log.thrown
      BY <1>3, <1>5, <2>3 DEF DataCommand, Later
    <3>. QED  BY <1>1, <1>2, <2>1, <2>3, <3>1, RepliesAreReplies, NothingConfirmed DEF Sends
  <2>4. CASE r.op = "throw"
    <3>1. log'.thrown = log.thrown \cup {r.id} /\ microtasks' = microtasks
      BY <1>4, <1>5, <2>4 DEF DataCommand
    <3>. QED  BY <1>1, <2>1, <3>1, RepliesAreReplies, NothingConfirmed DEF Sends
  <2>. QED  BY <1>5, <2>2, <2>3, <2>4 DEF DataCommand
<1>6. CASE Push(r, d, e)
  <2>1. /\ r.op = "push" /\ emit'.id = r.id /\ emit'.exec = e /\ log'.thrown = log.thrown
        /\ microtasks' = microtasks /\ pending' = pending /\ wire' = wire
    BY <1>3, <1>6 DEF Push
  <2>. QED  BY <1>1, <2>1, RepliesAreReplies, NothingConfirmed DEF Sends
<1>7. CASE Wait(r, d, e)
  <2>1. /\ r.op = "wait" /\ emit' = emit /\ log'.thrown = log.thrown /\ wire' = wire
        /\ \/ pending' = pending /\ microtasks' = Append(microtasks, PushToken(r, Ok, e))
           \/ microtasks' = microtasks /\ pending' = pending \cup {PushToken(r, Ok, e)}
    BY <1>3, <1>7 DEF Wait, Later
  <2>. QED  BY <1>1, <2>1, RepliesAreReplies, NothingConfirmed DEF Sends
<1>8. CASE Subscribe(r)
  <2>1. /\ r.op = "subscribe" /\ emit' = emit /\ log'.thrown = log.thrown
        /\ microtasks' = microtasks /\ pending' = pending
    BY <1>8 DEF Subscribe, calls
  <2>. QED  BY <1>1, <1>8, <2>1, RepliesAreReplies, SubscribeConfirms DEF Sends
<1>. QED  BY <1>5, <1>6, <1>7, <1>8 DEF Execute

LEMMA HandleReplies ==
  ASSUME TypeOK, Parts, Opened, NEW r \in Requests, Arrives(r), Answer(r)
  PROVE  Answers(r) \/ Parks(r) \/ Ends(r) \/ Runs(r)
<1>. USE RepliesAreReplies
<1>1. log \in Log /\ r.session \in Sessions /\ r.id \in Ids
  BY DEF TypeOK, Requests
<1>2. ASSUME NEW reply \in Replies, Reply(r, reply), exec' = exec, log'.thrown = log.thrown,
             emit' = emit, r.op = "subscribe" => log'.tx[r.id] # 0
      PROVE  Answers(r)
  BY <1>2, ReplyAnswers DEF Answers
<1>3. CASE ArityError(r) \/ NullCommand(r)
  <2>1. log'.thrown = log.thrown
    BY <1>1, <1>3 DEF ArityError, NullCommand, LogRefusal, Log
  <2>. QED  BY <1>2, <1>3, <2>1 DEF ArityError, NullCommand, Untouched, calls
<1>4. CASE Defer(r)
  <2>1. log'.thrown = log.thrown /\ log'.tx[r.id] = log.opened[r.session]
    BY <1>1, <1>4 DEF Defer, Log
  <2>2. log'.tx[r.id] # 0
    BY <1>1, <1>4, <2>1 DEF Defer, Opened
  <2>. QED  BY <1>2, <1>4, <2>1, <2>2 DEF Defer, Untouched, calls
<1>5. CASE Immediate(r)
  <2>1. currentDb[r.session] \in Dbs /\ 0 \in 0..MaxRequests
    BY <1>1, BoundsAssumption DEF TypeOK
  <2>2. Execute(r, currentDb[r.session], 0) /\ exec' = exec
    BY <1>5 DEF Immediate
  <2>3. PICK task \in Tasks : Sends(r, 0, task)
    BY <2>1, <2>2, ExecuteSends
  <2>4. Confirms(r)
    BY <2>1, <2>2, ExecuteSends
  <2>5. log'.tx[r.id] = 0
    <3>1. log'.tx = log.tx
      BY <2>1, <2>2, RunsOfExecute
    <3>2. r.id > Count
      BY Arrival DEF Arrives
    <3>. QED  BY <1>1, <3>1, <3>2 DEF Parts
  <2>. QED  BY <2>2, <2>3, <2>4, <2>5 DEF Sends, Answers, Parks, Ends, Runs, ReplyTo, IsReply
<1>6. CASE MultiCommand(r)
  <2>1. log'.thrown = log.thrown
    BY <1>1, <1>6 DEF MultiCommand, Log
  <2>. QED  BY <1>2, <1>6, <2>1 DEF MultiCommand, Untouched, calls
<1>7. CASE DiscardCommand(r)
  <2>1. log'.thrown = log.thrown
    BY <1>1, <1>7 DEF DiscardCommand, Log
  <2>. QED  BY <1>2, <1>7, <2>1 DEF DiscardCommand, Untouched, calls
<1>8. CASE ExecCommand(r)
  <2>1. log'.thrown = log.thrown
    BY <1>1, <1>8 DEF ExecCommand, Log
  <2>2. CASE ~InTransaction(r.session) \/ errored[r.session]
    BY <1>2, <1>8, <2>1, <2>2 DEF ExecCommand, calls
  <2>3. CASE InTransaction(r.session) /\ ~errored[r.session]
    BY <1>8, <2>1, <2>3 DEF ExecCommand, Runs, calls
  <2>. QED  BY <2>2, <2>3
<1>. QED  BY <1>3, <1>4, <1>5, <1>6, <1>7, <1>8 DEF Answer

LEMMA RequestIsNew ==
  ASSUME Addressed, Count \in Nat, NEW i, i = Count + 1
  PROVE  /\ \A s \in Sessions : \A j \in 1..Len(wire[s]) : wire[s][j].id < i
         /\ \A n \in 1..Len(microtasks) : IsReply(microtasks[n]) => microtasks[n].id < i
         /\ \A task \in pending : IsReply(task) => task.id < i
         /\ ~OnWire(i) /\ ~OnQueue(i) /\ ~Waits(i) /\ ~(i \in log.thrown)
<1>1. \A k \in 1..Count : k < i
  OBVIOUS
<1>2. \A s \in Sessions : \A j \in 1..Len(wire[s]) : wire[s][j].id < i
  BY <1>1 DEF Addressed
<1>3. \A n \in 1..Len(microtasks) : IsReply(microtasks[n]) => microtasks[n].id < i
  BY <1>1 DEF Addressed
<1>4. \A task \in pending : IsReply(task) => task.id < i
  BY <1>1 DEF Addressed
<1>5. ~(i < i) /\ i \notin 1..Count
  OBVIOUS
<1>6. ~OnWire(i) /\ ~OnQueue(i) /\ ~Waits(i)
  BY ONLY <1>2, <1>3, <1>4, <1>5 DEF OnWire, OnQueue, Waits, IsReply
<1>7. ~(i \in log.thrown)
  BY <1>5 DEF Addressed
<1>. QED  BY <1>2, <1>3, <1>4, <1>6, <1>7

LEMMA ConfirmsIsAbout ==
  ASSUME NEW r, Confirms(r), r.id \in 1..Count', requests'[r.id] = r,
         \/ \A s \in Sessions : \A n \in 1..Len(wire[s]) : wire[s][n].id < r.id
         \/ log'.tx[r.id] # 0
  PROVE  WireAbout(r.id)
BY DEF Confirms, WireAbout

LEMMA HandleKeepsReplies ==
  ASSUME TypeOK, TxInv, ReplyInv, Handle
  PROVE  ReplyInv'
<1>1. PICK r \in Requests : Arrives(r) /\ Answer(r)
  BY HandleArrives
<1>. PICK i : i = r.id
  OBVIOUS
<1>2. Handled(r)
  BY <1>1, AnswerCases
<1>3. Answers(r) \/ Parks(r) \/ Ends(r) \/ Runs(r)
  BY <1>1, HandleReplies DEF TxInv
<1>4. /\ i = Count + 1 /\ Count' = Count + 1 /\ Count \in Nat
      /\ \A k \in 1..Count : requests'[k] = requests[k] /\ log'.tx[k] = log.tx[k]
      /\ requests'[i] = r /\ i # 0 /\ i \in 1..Count'
  BY <1>1, <1>2, HistoryKept DEF TxInv
<1>5. /\ \A s \in Sessions : \A j \in 1..Len(wire[s]) : wire[s][j].id < i
      /\ \A n \in 1..Len(microtasks) : IsReply(microtasks[n]) => microtasks[n].id < i
      /\ ~OnWire(i) /\ ~OnQueue(i) /\ ~Waits(i) /\ ~(i \in log.thrown)
  BY <1>4, RequestIsNew DEF ReplyInv
<1>6. exec = Idle /\ emit = Quiet
  BY <1>1 DEF Arrives
<1>7. Ahead(i)
  BY <1>5 DEF Ahead
<1>8. \A k : ~Executing(k)
  BY <1>6 DEF Executing
<1>9. ASSUME \A k : k # i => ~Executing(k)',
             \A k \in log'.thrown : k \in log.thrown \/ k = i, log.thrown \subseteq log'.thrown
      PROVE  About(i)
  BY <1>4, <1>8, <1>9 DEF About
<1>10. CASE Answers(r)
  <2>1. PICK task \in Tasks : ReplyTo(r, task) /\ microtasks' = Append(microtasks, task)
    BY <1>10 DEF Answers
  <2>2. Enqueued(task)
    BY <2>1, AppendEnqueues
  <2>3. QueueAbout(i) /\ OnQueue(i)'
    BY <1>4, <1>5, <1>7, <2>1, <2>2, ReplyQueued DEF ReplyTo
  <2>4. /\ pending' = pending /\ log'.thrown = log.thrown /\ wire' = wire
        /\ exec' = exec /\ emit' = emit
    BY <1>10 DEF Answers
  <2>5. WireAbout(i) /\ PendingAbout(i) /\ (Waits(i)' <=> Waits(i))
    BY <2>4, NothingWritten, NothingParked
  <2>6. About(i) /\ ~Executing(i)'
    BY <1>6, <1>9, <2>4 DEF Executing
  <2>7. ~Failed(i)'
    BY <1>4, <1>5, <1>10, <2>4 DEF Answers, Failed, NeverAnswers
  <2>8. Placed(i)'
    BY <1>5, <2>3, <2>5, <2>6, <2>7, WireKept DEF Placed
  <2>. QED  BY <2>3, <2>5, <2>6, <2>8, AboutKeepsReplies
<1>11. CASE Parks(r)
  <2>1. PICK task \in Tasks : ReplyTo(r, task) /\ pending' = pending \cup {task}
    BY <1>11 DEF Parks
  <2>2. /\ microtasks' = microtasks /\ log'.thrown = log.thrown /\ wire' = wire
        /\ exec' = exec /\ emit' = emit /\ r.op = "wait"
    BY <1>11 DEF Parks
  <2>3. PendingAbout(i) /\ Waits(i)'
    BY <1>4, <1>5, <2>1, <2>2, ReplyParked DEF ReplyTo
  <2>4. WireAbout(i) /\ QueueAbout(i) /\ (OnQueue(i)' <=> OnQueue(i))
    BY <2>2, NothingWritten, NothingQueued
  <2>5. About(i) /\ ~Executing(i)'
    BY <1>6, <1>9, <2>2 DEF Executing
  <2>6. ~Failed(i)'
    BY <1>4, <1>5, <2>2 DEF Failed, NeverAnswers
  <2>7. Placed(i)'
    BY <1>5, <2>3, <2>4, <2>5, <2>6, WireKept DEF Placed
  <2>. QED  BY <2>3, <2>4, <2>5, <2>7, AboutKeepsReplies
<1>12. CASE Ends(r)
  <2>1. /\ microtasks' = microtasks /\ pending' = pending /\ exec' = exec /\ emit' = emit
        /\ log'.tx[i] = 0 /\ Confirms(r)
        /\ (r.op = "subscribe" /\ log'.thrown = log.thrown) \/ log'.thrown = log.thrown \cup {i}
    BY <1>12 DEF Ends
  <2>2. /\ QueueAbout(i) /\ (OnQueue(i)' <=> OnQueue(i))
        /\ PendingAbout(i) /\ (Waits(i)' <=> Waits(i))
    BY <2>1, NothingQueued, NothingParked
  <2>3. WireAbout(i)
    <3>1. Confirms(r) /\ r.id \in 1..Count' /\ requests'[r.id] = r
      BY <1>4, <2>1
    <3>2. \A s \in Sessions : \A n \in 1..Len(wire[s]) : wire[s][n].id < r.id
      BY <1>5
    <3>. QED  BY <3>1, <3>2, ConfirmsIsAbout
  <2>4. About(i) /\ ~Executing(i)'
    BY <1>6, <1>9, <2>1 DEF Executing
  <2>5. Failed(i)'
    BY <1>4, <2>1 DEF Failed, NeverAnswers
  <2>6. Placed(i)'
    BY <1>5, <2>2, <2>3, <2>4, <2>5, WireKept DEF Placed
  <2>. QED  BY <2>2, <2>3, <2>4, <2>6, AboutKeepsReplies
<1>13. CASE Runs(r)
  <2>1. /\ microtasks' = microtasks /\ pending' = pending /\ wire' = wire
        /\ log'.thrown = log.thrown /\ r.op # "subscribe"
        /\ \/ exec'.id = i /\ emit' = emit
           \/ exec' = exec /\ emit'.id = i /\ emit'.exec = 0
    BY <1>13 DEF Runs
  <2>2. /\ WireAbout(i) /\ QueueAbout(i) /\ (OnQueue(i)' <=> OnQueue(i))
        /\ PendingAbout(i) /\ (Waits(i)' <=> Waits(i))
    BY <2>1, NothingWritten, NothingQueued, NothingParked
  <2>3. Executing(i)' /\ \A k : k # i => ~Executing(k)'
    BY <1>4, <1>6, <2>1 DEF Executing, Idle, Quiet
  <2>4. About(i)
    BY <1>9, <2>1, <2>3
  <2>5. ~Failed(i)'
    BY <1>4, <1>5, <2>1 DEF Failed, NeverAnswers
  <2>6. Placed(i)'
    BY <1>5, <2>2, <2>3, <2>5, WireKept DEF Placed
  <2>. QED  BY <2>2, <2>4, <2>6, AboutKeepsReplies
<1>. QED  BY <1>3, <1>10, <1>11, <1>12, <1>13

(* A request of a transaction has had its reply, QUEUED: what its handler  *)
(* gives is a token of the EXEC.                                           *)
LEMMA ExecStepKeepsReplies ==
  ASSUME TypeOK, TxInv, ReplyInv, ExecStep
  PROVE  ReplyInv'
<1>1. PICK h \in Requests :
        /\ Takes(h)
        /\ exec # Idle /\ exec'.id = exec.id /\ exec'.db = exec.db
        /\ exec.todo \in Seq(Requests) /\ Len(exec.todo) # 0
        /\ exec'.todo = Tail(exec.todo)
        /\ h.id \in 1..Count /\ h = requests[h.id] /\ log.tx[h.id] = log.tx[exec.id]
        /\ log.tx[exec.id] # 0 /\ RunsOf(h.id) = {}
        /\ h.op \notin {"select", "subscribe"} => h.id \notin log.refused
        /\ \A n \in 1..Len(exec.todo) : n > 1 => h.id < exec.todo[n].id
  BY ExecStepTakes
<1>. PICK i, e : i = h.id /\ e = exec.id
  OBVIOUS
<1>2. e # 0 /\ e \in 0..MaxRequests /\ exec.db \in Dbs /\ emit = Quiet
  BY <1>1 DEF TxInv, Numbered, TypeOK, ExecStep
<1>3. Execute(h, exec.db, e)
  BY <1>1 DEF ExecStep, Takes
<1>4. Confirms(h) /\ \E task \in Tasks : Sends(h, e, task)
  BY <1>2, <1>3, ExecuteSends
<1>5. PICK task \in Tasks : Sends(h, e, task)
  BY <1>4
<1>6. ~IsReply(task)
  BY <1>2, <1>5 DEF Sends, IsReply
<1>7. /\ requests' = requests /\ log'.tx = log.tx /\ exec' # Idle /\ Count' = Count
      /\ log.tx[i] # 0 /\ i \in 1..Count /\ requests[i] = h
  BY <1>1, <1>2 DEF Takes, Idle, Count
<1>8. \A k : Executing(k)' <=> Executing(k)
  <2>1. emit' = Quiet \/ emit'.exec # 0
    BY <1>1, <1>2 DEF Takes
  <2>. QED  BY <1>1, <1>2, <1>7, <2>1 DEF Executing
<1>9. About(i)
  <2>1. Count \in Nat
    BY TxTypes
  <2>2. log'.thrown = log.thrown \/ log'.thrown = log.thrown \cup {i}
    BY <1>5 DEF Sends
  <2>. QED  BY <1>7, <1>8, <2>1, <2>2 DEF About
<1>10. WireAbout(i)
  BY <1>4, <1>7, ConfirmsIsAbout
<1>11. QueueAbout(i) /\ (OnQueue(i)' <=> OnQueue(i))
  <2>1. CASE microtasks' = microtasks
    BY <2>1, NothingQueued
  <2>2. CASE microtasks' = Append(microtasks, task)
    BY <1>6, <2>2, AppendEnqueues, TokenQueued
  <2>. QED  BY <1>5, <2>1, <2>2 DEF Sends
<1>12. PendingAbout(i) /\ (Waits(i)' <=> Waits(i))
  <2>1. CASE pending' = pending
    BY <2>1, NothingParked
  <2>2. CASE pending' = pending \cup {task}
    BY <1>6, <2>2, TokenParked
  <2>. QED  BY <1>5, <2>1, <2>2 DEF Sends
<1>13. ~Failed(i) /\ ~Failed(i)'
  BY <1>7 DEF Failed
<1>14. Placed(i)'
  <2>1. Placed(i)
    BY <1>7 DEF ReplyInv, Accounted
  <2>. QED  BY <1>8, <1>10, <1>11, <1>12, <1>13, <2>1, WireKept, PlacesKept DEF PlaceKept
<1>. QED  BY <1>9, <1>10, <1>11, <1>12, <1>14, AboutKeepsReplies

(* The reply of the request that came last is ahead of none.               *)
LEMMA LastIsAhead ==
  ASSUME ReplyInv, Count \in Nat, NEW i, i = Count, ~OnWire(i), ~OnQueue(i)
  PROVE  Ahead(i)
<1>1. ASSUME NEW s \in Sessions, NEW j \in 1..Len(wire[s])
      PROVE  wire[s][j].id < i \/ wire[s][j].reply = Subscribed
  BY DEF ReplyInv, Addressed, OnWire
<1>2. ASSUME NEW m \in 1..Len(microtasks), IsReply(microtasks[m])
      PROVE  microtasks[m].id < i
  BY <1>2 DEF ReplyInv, Addressed, OnQueue
<1>. QED  BY <1>1, <1>2 DEF Ahead

(* The last request replies when what it did has come to its end.          *)
LEMMA LastReplies ==
  ASSUME TypeOK, ReplyInv, NEW i, i = Count, i \in 1..Count, Executing(i),
         NEW task, Enqueued(task), IsReply(task), task.id = i,
         task.session = requests[i].session,
         UNCHANGED <<requests, log, wire, pending>>,
         \A k : Executing(k)' <=> Executing(k) /\ k # i
  PROVE  ReplyInv'
<1>1. Count' = Count /\ Count \in Nat
  BY TxTypes DEF Count
<1>2. About(i)
  BY <1>1 DEF About
<1>3. WireAbout(i) /\ PendingAbout(i) /\ (Waits(i)' <=> Waits(i))
  BY NothingWritten, NothingParked
<1>4. Placed(i)
  BY DEF ReplyInv, Accounted
<1>5. ~OnWire(i) /\ ~OnQueue(i) /\ ~Waits(i) /\ ~Failed(i)
  BY <1>4 DEF Placed
<1>6. QueueAbout(i) /\ OnQueue(i)'
  BY <1>1, <1>5, LastIsAhead, ReplyQueued
<1>7. ~Failed(i)'
  BY <1>5 DEF Failed, NeverAnswers
<1>8. Placed(i)'
  BY <1>3, <1>5, <1>6, <1>7, WireKept DEF Placed
<1>. QED  BY <1>2, <1>3, <1>6, <1>8, AboutKeepsReplies

LEMMA ExecReturnKeepsReplies ==
  ASSUME TypeOK, TxInv, ReplyInv, ExecReturn
  PROVE  ReplyInv'
<1>. PICK i : i = exec.id
  OBVIOUS
<1>1. i = Count /\ i \in 1..Count /\ requests[i].id = i
  BY TxTypes DEF ExecReturn, TxInv, Numbered
<1>2. requests[i] \in Requests
  BY <1>1 DEF TypeOK, Count
<1>. PICK task : task = PushToken(requests[i], Array(<<>>), 0)
  OBVIOUS
<1>3. IsReply(task) /\ task.id = i /\ task.session = requests[i].session
  BY <1>1 DEF PushToken, IsReply
<1>4. Enqueued(task)
  BY AppendEnqueues DEF ExecReturn, Later, Publish
<1>5. /\ UNCHANGED <<requests, log, wire, pending>> /\ exec' = Idle /\ exec # Idle
      /\ emit = Quiet /\ emit' = Quiet
  BY DEF ExecReturn, server, calls
<1>6. Executing(i) /\ \A k : Executing(k)' <=> Executing(k) /\ k # i
  BY <1>5 DEF Executing
<1>. QED  BY <1>1, <1>3, <1>4, <1>5, <1>6, LastReplies

LEMMA EmitReturnKeepsReplies ==
  ASSUME TypeOK, TxInv, ReplyInv, EmitReturn
  PROVE  ReplyInv'
<1>. PICK i, e : i = emit.id /\ e = emit.exec
  OBVIOUS
<1>1. /\ emit # Quiet /\ i \in 1..Count /\ requests[i].id = i /\ e = exec.id
      /\ exec = Idle => i = Count
      /\ exec # Idle => log.tx[i] = log.tx[exec.id]
  BY DEF EmitReturn, TxInv, Emits, Numbered
<1>. PICK task : task = PushToken(requests[i], Ok, e)
  OBVIOUS
<1>2. task.exec = e /\ task.id = i /\ task.session = requests[i].session
  BY <1>1 DEF PushToken
<1>3. Enqueued(task)
  BY AppendEnqueues DEF EmitReturn, Later
<1>4. UNCHANGED <<requests, log, wire, pending, exec>> /\ emit' = Quiet
  BY DEF EmitReturn, server
<1>5. CASE e = 0
  <2>1. exec = Idle
    BY <1>1, <1>5 DEF TxInv, Numbered
  <2>2. Executing(i) /\ \A k : Executing(k)' <=> Executing(k) /\ k # i
    BY <1>1, <1>4, <1>5, <2>1 DEF Executing
  <2>. QED  BY <1>1, <1>2, <1>3, <1>4, <1>5, <2>1, <2>2, LastReplies DEF IsReply
<1>6. CASE e # 0
  <2>1. \A k : Executing(k)' <=> Executing(k)
    BY <1>4, <1>6 DEF Executing
  <2>2. About(i) /\ WireAbout(i) /\ PendingAbout(i) /\ (Waits(i)' <=> Waits(i))
    BY <1>4, <2>1, TxTypes, NothingWritten, NothingParked DEF About, Count
  <2>3. QueueAbout(i) /\ (OnQueue(i)' <=> OnQueue(i))
    BY <1>2, <1>3, <1>6, TokenQueued DEF IsReply
  <2>4. PlaceKept(i)
    BY <1>4, <2>1, <2>2, <2>3, WireKept DEF PlaceKept, Failed, NeverAnswers
  <2>5. Placed(i)
    BY <1>1 DEF ReplyInv, Accounted
  <2>. QED  BY <2>2, <2>3, <2>4, <2>5, PlacesKept, AboutKeepsReplies
<1>. QED  BY <1>5, <1>6

LEMMA EmitStepKeepsReplies ==
  ASSUME TypeOK, TxInv, ReplyInv, EmitStep
  PROVE  ReplyInv'
<1>. PICK i, e : i = emit.id /\ e = emit.exec
  OBVIOUS
<1>1. PICK w \in waiters : Calls(w)
  BY EmitStepCalls DEF TxInv
<1>2. UNCHANGED <<requests, wire, exec>> /\ emit # Quiet
  BY EmitStepCalls DEF TxInv
<1>3. /\ i \in 1..Count /\ i # 0 /\ e = exec.id
      /\ exec = Idle => log.tx[i] = 0
      /\ exec # Idle => log.tx[i] = log.tx[exec.id]
  BY <1>2, TxTypes DEF TxInv, Emits
<1>4. CASE /\ Settle(w.id)
           /\ emit' = [emit EXCEPT !.left = @ - 1]
           /\ log' = [log EXCEPT !.runs = Run(w.id, w.db, emit.id)]
  <2>1. log'.tx = log.tx /\ log'.thrown = log.thrown
    BY <1>4 DEF TypeOK, Log
  <2>2. emit'.id = i /\ emit'.exec = e
    <3>1. emit \in Emissions
      BY DEF TypeOK
    <3>. QED  BY ONLY <1>4, <3>1, i = emit.id, e = emit.exec DEF Emissions
  <2>3. \A k : Executing(k)' <=> Executing(k)
    BY <1>2, <1>3, <2>2 DEF Executing, Quiet
  <2>. QED  BY <1>2, <1>4, <2>1, <2>3, SettleKeepsReplies
<1>5. CASE /\ emit' = Quiet
           /\ log' = [log EXCEPT !.runs = Run(w.id, w.db, emit.id), !.thrown = @ \cup {emit.id}]
           /\ UNCHANGED <<pending, microtasks>>
  <2>1. log'.tx = log.tx /\ log'.thrown = log.thrown \cup {i}
    BY <1>5 DEF TypeOK, Log
  <2>2. /\ WireAbout(i) /\ PendingAbout(i) /\ (Waits(i)' <=> Waits(i))
        /\ QueueAbout(i) /\ (OnQueue(i)' <=> OnQueue(i))
    BY <1>2, <1>5, NothingWritten, NothingParked, NothingQueued
  <2>3. \A k : k # i => (Executing(k)' <=> Executing(k))
    BY <1>2, <1>5 DEF Executing
  <2>4. About(i)
    BY <1>2, <1>3, <2>1, <2>3, TxTypes DEF About, Count
  <2>5. Placed(i)
    BY <1>3 DEF ReplyInv, Accounted
  <2>6. CASE e = 0
    <3>1. exec = Idle /\ log.tx[i] = 0
      BY <1>3, <2>6 DEF TxInv, Numbered
    <3>2. Executing(i) /\ ~Executing(i)'
      BY <1>2, <1>5, <2>6, <3>1 DEF Executing
    <3>3. Failed(i)'
      BY <2>1, <3>1 DEF Failed, NeverAnswers
    <3>4. Placed(i)'
      BY <2>2, <2>5, <3>2, <3>3, WireKept DEF Placed
    <3>. QED  BY <2>2, <2>4, <3>4, AboutKeepsReplies
  <2>7. CASE e # 0
    <3>1. exec # Idle /\ log.tx[i] # 0
      BY <1>3, <2>7 DEF TxInv, Numbered, Idle
    <3>2. ~Failed(i) /\ ~Failed(i)'
      BY <2>1, <3>1 DEF Failed
    <3>3. Executing(i)' <=> Executing(i)
      BY <1>2, <1>5, <2>7 DEF Executing
    <3>4. Placed(i)'
      BY <2>2, <2>5, <3>2, <3>3, WireKept, PlacesKept DEF PlaceKept
    <3>. QED  BY <2>2, <2>4, <3>4, AboutKeepsReplies
  <2>. QED  BY <2>6, <2>7
<1>. QED  BY <1>1, <1>4, <1>5 DEF Calls

LEMMA TimeoutKeepsReplies ==
  ASSUME TypeOK, ReplyInv, Timeout
  PROVE  ReplyInv'
<1>1. PICK w \in waiters : Settle(w.id)
  BY DEF Timeout
<1>2. UNCHANGED <<requests, wire, log, exec, emit>>
  BY DEF Timeout, server
<1>3. \A k : Executing(k)' <=> Executing(k)
  BY <1>2 DEF Executing
<1>. QED  BY <1>1, <1>2, <1>3, SettleKeepsReplies

LEMMA MicrotaskShifts ==
  ASSUME TypeOK, Microtask
  PROVE  /\ Head(microtasks) = microtasks[1] /\ 1 \in 1..Len(microtasks)
         /\ Head(microtasks) \in Tasks
         /\ \A n \in 1..Len(microtasks') :
              n \in Nat /\ n + 1 \in 1..Len(microtasks) /\ microtasks'[n] = microtasks[n + 1]
         /\ \A n \in 1..Len(microtasks) :
              n # 1 => n - 1 \in 1..Len(microtasks') /\ microtasks'[n - 1] = microtasks[n]
<1>1. microtasks \in Seq(Tasks) /\ microtasks # <<>> /\ microtasks' = Tail(microtasks)
  BY DEF TypeOK, Microtask
<1>. QED  BY <1>1

LEMMA NoReplyIsConfirmation ==
  /\ \A x \in Replies : x # Subscribed
  /\ \A ts : Array(ts) # Subscribed
<1>1. Subscribed[1] = "subscribed"
  BY DEF Subscribed
<1>2. \A x \in Replies : x[1] # "subscribed"
  BY DEF Replies, Ok, Queued, Error, Array, Value
<1>3. \A ts : Array(ts)[1] # "subscribed"
  BY DEF Array
<1>. QED  BY <1>1, <1>2, <1>3

LEMMA MicrotaskKeepsReplies ==
  ASSUME TypeOK, TxInv, ReplyInv, Microtask
  PROVE  ReplyInv'
<1>. DEFINE task == Head(microtasks)
            t == task.session
            written == [id |-> task.id,
                        reply |-> IF task.reply[1] = "array" THEN Array(tokens[task.id])
                                  ELSE task.reply]
<1>1. /\ task = microtasks[1] /\ 1 \in 1..Len(microtasks) /\ task \in Tasks
      /\ \A n \in 1..Len(microtasks') :
           n \in Nat /\ n + 1 \in 1..Len(microtasks) /\ microtasks'[n] = microtasks[n + 1]
      /\ \A n \in 1..Len(microtasks) :
           n # 1 => n - 1 \in 1..Len(microtasks') /\ microtasks'[n - 1] = microtasks[n]
  BY MicrotaskShifts
<1>2. exec' = exec /\ emit' = emit /\ requests' = requests /\ pending' = pending /\ log' = log
  BY DEF Microtask, calls
<1>3. ~IsReply(task) => wire' = wire
  BY DEF Microtask, IsReply
<1>4. IsReply(task) => wire' = [wire EXCEPT ![t] = Append(@, written)]
  BY DEF Microtask, IsReply
<1>5. written.id = task.id /\ t \in Sessions /\ written.reply # Subscribed
  <2>1. written.reply = Array(tokens[task.id]) \/ written.reply = task.reply
    OBVIOUS
  <2>2. task.reply \in Replies
    BY <1>1 DEF Tasks
  <2>. QED  BY <1>1, <2>1, <2>2, NoReplyIsConfirmation DEF Tasks
<1>. HIDE DEF written
<1>6. ASSUME IsReply(task)
      PROVE  /\ \A s \in Sessions : s # t => wire'[s] = wire[s]
             /\ \A j \in 1..Len(wire[t]) : j \in 1..Len(wire'[t]) /\ wire'[t][j] = wire[t][j]
             /\ \A j \in 1..Len(wire'[t]) :
                  \/ j \in 1..Len(wire[t])
                  \/ /\ j = Len(wire[t]) + 1 /\ wire'[t][j].id = task.id
                     /\ wire'[t][j].reply # Subscribed
             /\ Len(wire[t]) + 1 \in 1..Len(wire'[t]) /\ wire'[t][Len(wire[t]) + 1].id = task.id
             /\ wire'[t][Len(wire[t]) + 1].reply # Subscribed
             /\ Len(wire[t]) \in Nat
  <2>1. wire[t] \in Seq(Written) /\ wire'[t] = Append(wire[t], written)
    BY <1>4, <1>5, <1>6 DEF TypeOK
  <2>2. \A s \in Sessions : s # t => wire'[s] = wire[s]
    BY <1>4, <1>5, <1>6 DEF TypeOK
  <2>. QED  BY <1>5, <2>1, <2>2, Appended
<1>7. IsReply(task) =>
        /\ task.id \in 1..Count /\ t = requests[task.id].session
        /\ OnQueue(task.id) /\ ~OnWire(task.id)
  <2>. SUFFICES ASSUME IsReply(task)
                PROVE  /\ task.id \in 1..Count /\ t = requests[task.id].session
                       /\ OnQueue(task.id) /\ ~OnWire(task.id)
    OBVIOUS
  <2>1. task.id \in 1..Count /\ t = requests[task.id].session /\ OnQueue(task.id)
    BY <1>1 DEF ReplyInv, Addressed, OnQueue
  <2>. QED  BY <2>1 DEF ReplyInv, Accounted, Placed
<1>. HIDE DEF task
<1>8. Addressed'
  <2>1. ASSUME NEW n \in 1..Len(microtasks'), IsReply(microtasks'[n])
        PROVE  microtasks'[n].id \in 1..Count
               /\ microtasks'[n].session = requests[microtasks'[n].id].session
    <3>1. n + 1 \in 1..Len(microtasks) /\ microtasks'[n] = microtasks[n + 1]
      BY ONLY <1>1, <2>1
    <3>2. Addressed
      BY DEF ReplyInv
    <3>. QED  BY ONLY <2>1, <3>1, <3>2 DEF Addressed
  <2>2. ASSUME NEW s \in Sessions, NEW j \in 1..Len(wire'[s])
        PROVE  wire'[s][j].id \in 1..Count /\ requests[wire'[s][j].id].session = s
    <3>1. CASE j \in 1..Len(wire[s]) /\ wire'[s][j] = wire[s][j]
      BY <3>1 DEF ReplyInv, Addressed
    <3>2. CASE IsReply(task) /\ s = t /\ wire'[s][j].id = task.id
      BY <1>7, <3>2
    <3>. QED  BY <1>3, <1>6, <3>1, <3>2
  <2>. QED  BY <1>2, <2>1, <2>2 DEF ReplyInv, Addressed, IsReply, Count
<1>9. InOrder'
  <2>1. ASSUME NEW s \in Sessions, NEW j \in 1..Len(wire'[s]), NEW k \in 1..Len(wire'[s]), j < k
        PROVE  \/ wire'[s][j].id < wire'[s][k].id \/ Late(wire'[s][k].id)
               \/ wire'[s][j].reply = Subscribed
               \/ wire'[s][k].reply = Subscribed /\ log.tx[wire'[s][k].id] # 0
    <3>1. CASE wire'[s] = wire[s]
      BY <2>1, <3>1 DEF ReplyInv, InOrder, RepliesInOrder, Late
    <3>2. CASE IsReply(task) /\ s = t
      <4>1. j \in 1..Len(wire[t]) /\ wire'[t][j] = wire[t][j]
        BY <1>6, <2>1, <3>2
      <4>2. CASE k \in 1..Len(wire[t])
        <5>1. wire'[t][k] = wire[t][k]
          BY <1>6, <3>2, <4>2
        <5>2. \/ wire[t][j].id < wire[t][k].id \/ Late(wire[t][k].id)
              \/ wire[t][j].reply = Subscribed
              \/ wire[t][k].reply = Subscribed /\ log.tx[wire[t][k].id] # 0
          BY <1>5, <2>1, <4>1, <4>2 DEF ReplyInv, InOrder, RepliesInOrder, Late
        <5>. QED  BY <3>2, <4>1, <5>1, <5>2
      <4>3. CASE wire'[t][k].id = task.id
        BY <1>1, <3>2, <4>1, <4>3 DEF ReplyInv, InOrder
      <4>. QED  BY <1>6, <3>2, <4>2, <4>3
    <3>. QED  BY <1>3, <1>6, <3>1, <3>2
  <2>2. ASSUME NEW s \in Sessions, NEW j \in 1..Len(wire'[s]), NEW n \in 1..Len(microtasks'),
               IsReply(microtasks'[n]), microtasks'[n].session = s
        PROVE  \/ wire'[s][j].id < microtasks'[n].id \/ Late(microtasks'[n].id)
               \/ wire'[s][j].reply = Subscribed
    <3>1. n + 1 \in 1..Len(microtasks) /\ microtasks'[n] = microtasks[n + 1] /\ 1 < n + 1
      BY <1>1
    <3>2. CASE j \in 1..Len(wire[s]) /\ wire'[s][j] = wire[s][j]
      BY <2>2, <3>1, <3>2 DEF ReplyInv, InOrder
    <3>3. CASE IsReply(task) /\ s = t /\ wire'[s][j].id = task.id
      BY <1>1, <2>2, <3>1, <3>3 DEF ReplyInv, InOrder
    <3>. QED  BY <1>3, <1>6, <3>2, <3>3
  <2>3. ASSUME NEW m \in 1..Len(microtasks'), NEW n \in 1..Len(microtasks'), m < n,
               IsReply(microtasks'[m]), IsReply(microtasks'[n])
        PROVE  microtasks'[m].id < microtasks'[n].id \/ Late(microtasks'[n].id)
    <3>1. /\ m + 1 \in 1..Len(microtasks) /\ microtasks'[m] = microtasks[m + 1]
          /\ n + 1 \in 1..Len(microtasks) /\ microtasks'[n] = microtasks[n + 1]
          /\ m + 1 < n + 1
      BY <1>1, <2>3
    <3>. QED  BY <2>3, <3>1 DEF ReplyInv, InOrder
  <2>. QED  BY <1>2, <2>1, <2>2, <2>3 DEF InOrder, RepliesInOrder, Late, IsReply
<1>10. Distinct'
  <2>1. ASSUME NEW s \in Sessions, NEW j \in 1..Len(wire'[s]), NEW k \in 1..Len(wire'[s]),
               wire'[s][j].id = wire'[s][k].id,
               wire'[s][j].reply # Subscribed, wire'[s][k].reply # Subscribed
        PROVE  j = k
    <3>1. CASE wire'[s] = wire[s]
      BY <2>1, <3>1 DEF ReplyInv, Distinct
    <3>2. CASE IsReply(task) /\ s = t
      <4>1. \A i \in 1..Len(wire[t]) : wire[t][i].id # task.id \/ wire[t][i].reply = Subscribed
        BY <1>5, <1>7, <3>2 DEF OnWire
      <4>2. ASSUME NEW i \in 1..Len(wire'[t]), wire'[t][i].id # task.id
            PROVE  i \in 1..Len(wire[t]) /\ wire'[t][i] = wire[t][i]
        BY <1>6, <3>2, <4>2
      <4>3. ASSUME NEW i \in 1..Len(wire'[t]), wire'[t][i].id = task.id,
                   wire'[t][i].reply # Subscribed
            PROVE  i = Len(wire[t]) + 1
        BY <1>6, <3>2, <4>1, <4>3
      <4>4. CASE wire'[t][j].id = task.id
        BY <2>1, <3>2, <4>3, <4>4
      <4>5. CASE wire'[t][j].id # task.id
        <5>1. /\ j \in 1..Len(wire[t]) /\ wire'[t][j] = wire[t][j]
              /\ k \in 1..Len(wire[t]) /\ wire'[t][k] = wire[t][k]
          BY ONLY <2>1, <3>2, <4>2, <4>5
        <5>2. Distinct
          BY DEF ReplyInv
        <5>. QED  BY ONLY <1>5, <2>1, <3>2, <5>1, <5>2 DEF Distinct
      <4>. QED  BY <4>4, <4>5
    <3>. QED  BY <1>3, <1>6, <3>1, <3>2
  <2>2. ASSUME NEW m \in 1..Len(microtasks'), NEW n \in 1..Len(microtasks'),
               IsReply(microtasks'[m]), IsReply(microtasks'[n]),
               microtasks'[m].id = microtasks'[n].id
        PROVE  m = n
    <3>1. /\ m + 1 \in 1..Len(microtasks) /\ microtasks'[m] = microtasks[m + 1]
          /\ n + 1 \in 1..Len(microtasks) /\ microtasks'[n] = microtasks[n + 1]
      BY <1>1
    <3>2. Distinct
      BY DEF ReplyInv
    <3>3. m + 1 = n + 1 /\ m \in Int /\ n \in Int
      BY ONLY <2>2, <3>1, <3>2 DEF Distinct
    <3>. QED  BY ONLY <3>3
  <2>. QED  BY <1>2, <2>1, <2>2 DEF ReplyInv, Distinct, IsReply
<1>11. Accounted'
  <2>1. ASSUME NEW i \in 1..Count
        PROVE  /\ OnWire(i)' <=> OnWire(i) \/ (i = task.id /\ IsReply(task))
               /\ OnQueue(i)' <=> OnQueue(i) /\ ~(i = task.id /\ IsReply(task))
               /\ Waits(i)' <=> Waits(i)
               /\ Executing(i)' <=> Executing(i)
               /\ Failed(i)' <=> Failed(i)
    <3>1. OnWire(i)' <=> OnWire(i) \/ (i = task.id /\ IsReply(task))
      <4>1. CASE ~IsReply(task)
        BY <1>3, <4>1 DEF OnWire
      <4>2. CASE IsReply(task)
        <5>1. ASSUME OnWire(i) PROVE OnWire(i)'
          <6>1. PICK s \in Sessions : \E j \in 1..Len(wire[s]) :
                  wire[s][j].id = i /\ wire[s][j].reply # Subscribed
            BY <5>1 DEF OnWire
          <6>2. PICK j \in 1..Len(wire[s]) : wire[s][j].id = i /\ wire[s][j].reply # Subscribed
            BY <6>1
          <6>3. j \in 1..Len(wire'[s]) /\ wire'[s][j] = wire[s][j]
            BY ONLY <1>6, <4>2, <6>2
          <6>. QED  BY ONLY <6>2, <6>3 DEF OnWire
        <5>2. ASSUME i = task.id PROVE OnWire(i)'
          <6>1. PICK j \in 1..Len(wire'[t]) :
                  wire'[t][j].id = task.id /\ wire'[t][j].reply # Subscribed
            BY <1>6, <4>2
          <6>. QED  BY ONLY <1>5, <5>2, <6>1 DEF OnWire
        <5>3. ASSUME OnWire(i)', i # task.id PROVE OnWire(i)
          <6>1. PICK s \in Sessions : \E j \in 1..Len(wire'[s]) :
                  wire'[s][j].id = i /\ wire'[s][j].reply # Subscribed
            BY <5>3 DEF OnWire
          <6>2. PICK j \in 1..Len(wire'[s]) : wire'[s][j].id = i /\ wire'[s][j].reply # Subscribed
            BY <6>1
          <6>3. j \in 1..Len(wire[s]) /\ wire[s][j].id = i /\ wire[s][j].reply # Subscribed
            BY <1>6, <4>2, <5>3, <6>2
          <6>. QED  BY <6>3 DEF OnWire
        <5>. QED  BY <4>2, <5>1, <5>2, <5>3
      <4>. QED  BY <4>1, <4>2
    <3>2. OnQueue(i)' <=> OnQueue(i) /\ ~(i = task.id /\ IsReply(task))
      <4>1. ASSUME OnQueue(i)' PROVE OnQueue(i) /\ ~(i = task.id /\ IsReply(task))
        <5>1. PICK n \in 1..Len(microtasks') : microtasks'[n].id = i /\ IsReply(microtasks'[n])
          BY <4>1 DEF OnQueue, IsReply
        <5>2. n + 1 \in 1..Len(microtasks) /\ microtasks'[n] = microtasks[n + 1] /\ n + 1 # 1
          BY <1>1
        <5>3. OnQueue(i)
          BY <5>1, <5>2 DEF OnQueue
        <5>4. ~(i = task.id /\ IsReply(task))
          BY <1>1, <5>1, <5>2 DEF ReplyInv, Distinct
        <5>. QED  BY <5>3, <5>4
      <4>2. ASSUME OnQueue(i), ~(i = task.id /\ IsReply(task)) PROVE OnQueue(i)'
        <5>1. PICK n \in 1..Len(microtasks) : microtasks[n].id = i /\ IsReply(microtasks[n])
          BY <4>2 DEF OnQueue
        <5>2. n # 1
          BY <1>1, <4>2, <5>1
        <5>. QED  BY <1>1, <5>1, <5>2 DEF OnQueue, IsReply
      <4>. QED  BY <4>1, <4>2
    <3>. QED  BY <1>2, <3>1, <3>2 DEF Waits, Executing, Failed, NeverAnswers
  <2>2. ASSUME NEW i \in 1..Count PROVE Placed(i)'
    <3>1. Placed(i)
      BY DEF ReplyInv, Accounted
    <3>. QED  BY <1>7, <2>1, <3>1 DEF Placed
  <2>3. Count' = Count
    BY <1>2 DEF Count
  <2>4. \A i \in 1..Count' : Placed(i)'
    BY <2>2, <2>3
  <2>. QED  BY ONLY <2>4 DEF Accounted, Count, Placed, OnWire, OnQueue, Waits, Executing, Failed,
                              NeverAnswers
<1>. QED  BY <1>8, <1>9, <1>10, <1>11 DEF ReplyInv

LEMMA QuietKeepsReplies ==
  ASSUME ReplyInv, UNCHANGED <<requests, log, exec, emit, microtasks, pending, wire>>
  PROVE  ReplyInv'
<1>. USE DEF ReplyInv, IsReply, Count
<1>1. Addressed'
  BY DEF Addressed
<1>2. InOrder'
  BY DEF InOrder, RepliesInOrder, Late
<1>3. Accounted'
  BY DEF Accounted, Placed, OnWire, OnQueue, Waits, Executing, Failed, NeverAnswers
<1>4. Distinct'
  BY DEF Distinct
<1>. QED  BY <1>1, <1>2, <1>3, <1>4

(***************************************************************************)
(* The invariant.                                                          *)
(***************************************************************************)
LEMMA InitInv ==
  Init => Inv
<1>. SUFFICES ASSUME Init PROVE Inv
  OBVIOUS
<1>. USE DEF Init
<1>1. Idle \in [id : 0..MaxRequests, db : Dbs, todo : Seq(Requests)]
  BY DbsAssumption, BoundsAssumption DEF Idle
<1>2. log \in Log /\ emit \in Emissions
  BY BoundsAssumption, DbsAssumption DEF Log, Quiet, Emissions
<1>3. TypeOK
  <2>1. /\ store \in [Dbs -> 0..MaxRequests] /\ currentDb \in [Sessions -> Dbs]
        /\ commands \in [Sessions -> Seq(Requests) \cup {NoQueue}]
        /\ errored \in [Sessions -> BOOLEAN]
    BY DbsAssumption, BoundsAssumption
  <2>2. tokens \in [Ids -> Seq(Replies)] /\ wire \in [Sessions -> Seq(Written)]
        /\ microtasks \in Seq(Tasks) /\ requests \in Seq(Requests)
    OBVIOUS
  <2>. QED  BY <1>1, <1>2, <2>1, <2>2, BoundsAssumption DEF TypeOK
<1>4. Count = 0 /\ Len(log.runs) = 0 /\ Len(microtasks) = 0 /\ exec = Idle /\ emit = Quiet
      /\ pending = {} /\ log.refused = {} /\ log.thrown = {}
  BY DEF Count
<1>5. \A s \in Sessions : ~InTransaction(s) /\ log.opened[s] = 0 /\ Len(wire[s]) = 0
  BY DEF InTransaction
<1>6. \A i \in Ids : log.tx[i] = 0
  OBVIOUS
<1>7. TxInv
  <2>1. Numbered /\ Opened /\ Parts
    BY <1>4, <1>5, <1>6 DEF Numbered, Opened, Parts
  <2>2. Marked /\ OpenQueues /\ Running
    BY <1>4, <1>5 DEF Marked, OpenQueues, Running
  <2>3. Closed /\ RunsAreContiguous /\ Emits
    BY <1>4 DEF Closed, RunsAreContiguous, Emits
  <2>. QED  BY <2>1, <2>2, <2>3 DEF TxInv
<1>8. ReplyInv
  BY <1>4, <1>5 DEF ReplyInv, Addressed, InOrder, RepliesInOrder, Accounted, Distinct
<1>. QED  BY <1>3, <1>7, <1>8 DEF Inv

LEMMA NextInv ==
  Inv /\ [Next]_vars => Inv'
<1>. SUFFICES ASSUME TypeOK, TxInv, ReplyInv, [Next]_vars
              PROVE  TypeOK' /\ TxInv' /\ ReplyInv'
  BY DEF Inv
<1>1. ASSUME NEW s \in Sessions, NEW n \in 1..MaxChunk, Receive(s, n)
      PROVE  TypeOK' /\ TxInv' /\ ReplyInv'
  <2>1. /\ UNCHANGED <<requests, commands, errored, exec, log, microtasks, pending, wire, emit>>
        /\ emit' = Quiet
    BY <1>1 DEF Receive, AtRest, server, calls
  <2>. QED  BY <1>1, <2>1, ReceiveType, QuietKeepsTx, QuietKeepsReplies
<1>2. CASE Handle
  BY <1>2, HandleType, HandleKeepsTx, HandleKeepsReplies
<1>3. CASE ExecStep
  BY <1>3, ExecStepType, ExecStepKeepsTx, ExecStepKeepsReplies
<1>4. CASE ExecReturn
  BY <1>4, ExecReturnType, ExecReturnKeepsTx, ExecReturnKeepsReplies DEF TxInv
<1>5. CASE Microtask
  <2>1. UNCHANGED <<requests, commands, errored, exec, log, emit, reader>>
    BY <1>5 DEF Microtask, calls
  <2>. QED  BY <1>5, <2>1, MicrotaskType, QuietKeepsTx, MicrotaskKeepsReplies
<1>6. CASE EmitStep
  BY <1>6, EmitStepType, EmitStepKeepsTx, EmitStepKeepsReplies DEF TxInv
<1>7. CASE EmitReturn
  <2>1. UNCHANGED <<requests, commands, errored, exec, log>> /\ emit' = Quiet
    BY <1>7 DEF EmitReturn, server
  <2>2. TypeOK'
    BY <1>7, EmitReturnType DEF TxInv
  <2>. QED  BY <1>7, <2>1, <2>2, QuietKeepsTx, EmitReturnKeepsReplies
<1>8. CASE Timeout
  <2>1. UNCHANGED <<requests, commands, errored, exec, log, emit, reader>>
    BY <1>8 DEF Timeout, server
  <2>. QED  BY <1>8, <2>1, TimeoutType, QuietKeepsTx, TimeoutKeepsReplies
<1>9. CASE UNCHANGED vars
  <2>1. TypeOK'
    BY <1>9 DEF TypeOK, vars, server, loop, calls
  <2>. QED  BY <1>9, <2>1, QuietKeepsTx, QuietKeepsReplies DEF vars, server, loop, calls
<1>. QED  BY <1>1, <1>2, <1>3, <1>4, <1>5, <1>6, <1>7, <1>8, <1>9 DEF Next, Work

(* Every variable keeps its type, every transaction is open, running or    *)
(* over, and every request is in one place on its way to a reply.          *)
THEOREM RequestInvariance == Spec => []Inv
<1>. QED  BY InitInv, NextInv, PTL DEF Spec

(* A transaction is marked as errored exactly when one of its own requests *)
(* was refused (Session.startTransaction and abortTransaction,             *)
(* CommandWrapper, NullCommand).                                           *)
THEOREM TransactionsRememberErrors == Spec => []ErroredIffRefused
<1>1. Inv => ErroredIffRefused
  BY DEF Inv, TxInv, Marked, ErroredIffRefused
<1>. QED  BY <1>1, RequestInvariance, PTL

(* Once EXEC or DISCARD is done, a transaction has run all of its requests *)
(* once each, or none of them (ExecCommand, DiscardCommand).               *)
THEOREM TransactionsAreAtomic == Spec => []AllOrNothing
<1>1. Inv => AllOrNothing
  <2>. SUFFICES ASSUME Inv, exec = Idle, NEW t \in 1..Len(requests)
                PROVE  \/ \A i \in Members(t) : RunsOf(i) = {}
                       \/ \A i \in Members(t) :
                            Cardinality(RunsOf(i)) = 1 /\ i \notin log.refused
    BY DEF AllOrNothing
  <2>1. CASE \E s \in Sessions : log.opened[s] = t
    <3>1. PICK s \in Sessions : log.opened[s] = t
      BY <2>1
    <3>2. /\ Queues(commands[s], t)
          /\ \A i \in Members(t) : i \in log.refused \/ In(i, commands[s])
      BY <3>1 DEF Inv, TxInv, OpenQueues, Opened
    <3>. QED  BY <3>2 DEF Inv, TxInv, Parts, Queues, In
  <2>2. CASE Over(t)
    <3>1. \/ \A i \in Members(t) : RunsOf(i) = {}
          \/ \A i \in Members(t) : RanOnce(i)
      BY <2>2 DEF Inv, TxInv, Closed, Count
    <3>2. ASSUME NEW i, RanOnce(i)
          PROVE  Cardinality(RunsOf(i)) = 1 /\ i \notin log.refused
      BY <3>2, FS_Singleton DEF RanOnce
    <3>. QED  BY <3>1, <3>2
  <2>. QED  BY <2>1, <2>2 DEF Over
<1>. QED  BY <1>1, RequestInvariance, PTL

(* Between the requests of a transaction, which run in the order they were *)
(* sent in and on one database, nothing runs but the waiters that a push   *)
(* of the transaction calls, of whatever session they are (ExecCommand,    *)
(* LPushCommand, BRPoplPushCommand).                                       *)
THEOREM TransactionsAreIsolated == Spec => []RunsAreContiguous
<1>1. Inv => RunsAreContiguous
  BY DEF Inv, TxInv
<1>. QED  BY <1>1, RequestInvariance, PTL

(* A session reads its replies in the order of its requests; only those of *)
(* requests that waited come later, and the confirmation of a SUBSCRIBE    *)
(* earlier, or later when a transaction had queued it (RespServer.receive, *)
(* SubscribeCommand).                                                      *)
THEOREM PipelinesKeepOrder == Spec => []RepliesInOrder
<1>1. Inv => RepliesInOrder
  BY DEF Inv, ReplyInv, InOrder
<1>. QED  BY <1>1, RequestInvariance, PTL

(* At rest every request has had its one reply, on its own socket, unless  *)
(* it waits, is a SUBSCRIBE or its handler threw, outside EXEC             *)
(* (RespServer.receive).                                                   *)
THEOREM NoReplyIsLostOrDoubled == Spec => []OneReplyEach
<1>1. Inv => OneReplyEach
  <2>. SUFFICES ASSUME Inv, AtRest, NEW i \in 1..Len(requests)
                PROVE  IF Waits(i) \/ Failed(i) THEN RepliesTo(i) = {}
                       ELSE \E j \in 1..Len(wire[requests[i].session]) :
                              RepliesTo(i) = {<<requests[i].session, j>>}
    BY DEF OneReplyEach, Failed
  <2>1. ~OnQueue(i) /\ ~Executing(i)
    BY DEF AtRest, OnQueue, Executing
  <2>2. /\ OnWire(i) \/ Waits(i) \/ Failed(i)
        /\ OnWire(i) => ~Waits(i) /\ ~Failed(i)
    BY <2>1 DEF Inv, ReplyInv, Accounted, Placed, Count
  <2>3. CASE ~OnWire(i)
    BY <2>2, <2>3 DEF RepliesTo, OnWire
  <2>4. CASE OnWire(i)
    <3>. PICK s \in Sessions :
           \E j \in 1..Len(wire[s]) : wire[s][j].id = i /\ wire[s][j].reply # Subscribed
      BY <2>4 DEF OnWire
    <3>1. PICK j \in 1..Len(wire[s]) : wire[s][j].id = i /\ wire[s][j].reply # Subscribed
      OBVIOUS
    <3>2. s = requests[i].session
      BY <3>1 DEF Inv, ReplyInv, Addressed
    <3>3. \A u \in Sessions :
            {n \in 1..Len(wire[u]) : wire[u][n].id = i /\ wire[u][n].reply # Subscribed}
              = IF u = s THEN {j} ELSE {}
      <4>1. Addressed /\ Distinct
        BY DEF Inv, ReplyInv
      <4>2. \A u \in Sessions : \A n \in 1..Len(wire[u]) : wire[u][n].id = i => u = s
        BY ONLY <3>2, <4>1 DEF Addressed
      <4>3. \A n \in 1..Len(wire[s]) :
              wire[s][n].id = i /\ wire[s][n].reply # Subscribed => n = j
        BY ONLY <3>1, <4>1 DEF Distinct
      <4>. QED  BY ONLY <3>1, <4>2, <4>3
    <3>4. RepliesTo(i) = {<<s, j>>}
      BY <3>1, <3>3 DEF RepliesTo
    <3>. QED  BY <2>2, <2>4, <3>1, <3>2, <3>4
  <2>. QED  BY <2>3, <2>4
<1>. QED  BY <1>1, RequestInvariance, PTL

(* A request between MULTI and EXEC does not touch the data when it comes  *)
(* in (CommandWrapper.execSync).                                           *)
THEOREM TransactionsWait == Spec => QueuedRequestsWait
<1>1. Inv /\ [Next]_vars => [store' # store => exec # Idle \/ ~InTransaction(reader)]_vars
  <2>. SUFFICES ASSUME Inv, Next, store' # store, exec = Idle
                PROVE  ~InTransaction(reader)
    BY DEF vars, server
  <2>1. Handle \/ EmitStep
    BY DEF Next, Work, Receive, ExecStep, ExecReturn, EmitReturn, Microtask, Timeout, server, Idle
  <2>2. CASE Handle
    <3>1. PICK r \in Requests : Arrives(r) /\ Answer(r)
      BY <2>2, HandleArrives DEF Inv
    <3>2. Immediate(r)
      BY <3>1 DEF Answer, ArityError, NullCommand, Defer, MultiCommand, DiscardCommand,
                  ExecCommand, Untouched
    <3>3. r.op \in {"write", "push", "wait"}
      BY <3>2 DEF Immediate, Execute, DataCommand, Push, Wait, Subscribe
    <3>. QED  BY <3>1, <3>2, <3>3 DEF Immediate, Deferred, Arrives
  <2>3. CASE EmitStep
    <3>1. emit # Quiet
      BY <2>3, EmitStepCalls DEF Inv, TxInv
    <3>. QED  BY <3>1 DEF Inv, TxInv, Emits
  <2>. QED  BY <2>1, <2>2, <2>3
<1>. QED  BY <1>1, RequestInvariance, PTL DEF Spec, QueuedRequestsWait
=============================================================================
