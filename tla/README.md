# Verification of unit-redis-ness

unit-redis-ness is a Redis server in TypeScript, written for unit tests: it keeps its data in
memory, speaks RESP on a socket, and runs in one JavaScript event loop. This directory holds a TLA+
model of its core, TLC configurations that check the model on small instances, and theorems with
proofs that TLAPS checks. Paths below are relative to the root of the repository.

## The system

| Part | Files | State | Operations | Hard because |
|---|---|---|---|---|
| Dictionary, DatabaseValue, Database | `src/dictionary.ts`, `src/resp/data/database*.ts` | items by key, each with an optional deadline | get, put, remove, putIfPresent, putIfAbsent, rename, keys, merge | items die with time, and are removed only when somebody gets them |
| Server context | `src/server/resp-server-context.ts` | databases, made when they are first asked for; clients, scripts; it is the event emitter | getDatabase, publish, addClient, removeClient | shared by all sessions, its listeners are never removed |
| Session | `src/server/session.ts`, `default-session.ts` | selected database, transaction queue, errored flag, subscriptions | startTransaction, queueRequest, abortTransaction, subscribe, unSubscribe | flags are set and cleared in different files |
| Server | `src/server/resp-server.ts` | sockets | receive, start, stop | pipelined requests, replies after an await |
| Command suite, wrapper | `src/resp/processor` | table of handlers | getCommand, execSync | decides between refusing, queueing and executing |
| String, key and database commands | `src/resp/command/{string,key,db}` | none of their own | 27 commands | deadlines, types, several databases |
| Transactions | `src/resp/command/{multi,exec,discard,null}-command.ts` | in the session | MULTI, EXEC, DISCARD | handlers are asynchronous, may throw or wait |
| Lists, blocking lists | `src/resp/command/list`, `src/timed-emitter.ts` | waiters, their timers | pushes, pops, moves, BRPOPLPUSH, BRPOP, BLPOP | a push runs other clients' commands in its middle; timers |
| Publish and subscribe | `src/resp/command/server/*subscribe*`, `publish-command.ts` | emitters | SUBSCRIBE, UNSUBSCRIBE, PUBLISH | callbacks and listeners are kept in three places |
| Sorted sets, sets, hashes | `src/resp/data/sorted-set.ts`, `src/resp/command/{sset,set,hash}` | a skip list; Set; object | 26 commands | spans of the skip list, boundaries |
| Lua scripting | `src/resp/command/script-command.ts`, `src/lua` | cached scripts | EVAL, EVALSHA, SCRIPT | a script is a sequence of commands that may fail half-way |
| RESP | `src/resp/protocol`, redis-parser | none | serialize, parse | chunks, lengths, empty strings |
| Client and information commands | `client-command.ts`, `src/resp/command/server` | names of clients, in the context | CLIENT, INFO, TIME, ECHO, PING, QUIT | the register follows the connections |
| Client helper | `src/client.ts` | one listener for all sockets | sendCommand | shared between requests in flight |

How they interact. A socket delivers a chunk to `RespServer.receive`, whose parser calls an async
callback for each request in it. The callback looks the handler up in the command suite. A handler
is wrapped by `CommandWrapper`, which refuses a bad request, queues it when the session is in a
transaction, or runs the handler on the session's database. A handler runs to its end in one turn of
the event loop; what comes after the callback's `await`, publishing the reply, is a microtask.
Blocking commands and SUBSCRIBE register `TimedEmitter`s on the context; LPUSH, RPUSH and PUBLISH
emit events on the context and so run the callbacks of other sessions inside their own handler,
which may be one of the commands of an EXEC, or a call of a script. SUBSCRIBE writes its
confirmations itself, and its promise stays open.

## The modules

| Module | Models | State against the code | Actions |
|---|---|---|---|
| `Database` | `Dictionary`, `Database`, `DatabaseValue` | a database is a function from keys to items or `Absent` | operators only |
| `Keyspace` | all string, key and database commands over all databases, sessions and a clock | `dbs`: the databases of the context, by index, which need not be a whole number; `now`: `new Date().getTime()`; `currentDb`: of the sessions; `answer`: the last reply | one per command, named after its class, and `Tick` |
| `ExpiringMap` | what `Keyspace` promises (abstract) | `view`: the live items only | one per kind of command |
| `KeyspaceRefinement` | the refinement mapping | forgets items that are dead and not yet removed | |
| `Transactions` | `receive`, `CommandWrapper`, `Session`, MULTI, EXEC, DISCARD, the event loop | `commands`, `errored`, `currentDb`: the session's fields; `reader`/`unread`: the chunk being parsed; `exec`: the EXEC that runs; `emit`: the push that calls waiters; `waiters`: the BRPOPLPUSHs whose timer runs; `microtasks`: continuations; `pending`: open promises; `tokens`: EXEC's arrays; `wire`: the sockets | `Receive`, `Handle` (one disjunct per way a request is handled), `ExecStep`, `ExecReturn`, `EmitStep` (a push calls a waiter), `EmitReturn`, `Microtask`, `Timeout` |
| `BlockingLists` | pushes, pops, moves, the waiters and timers of the blocking commands, keys that become strings | `lists`, `strings`: one database; `waiters`: the emitters whose timer runs; `answers`: what the promises resolved to, `Rejected` when the handler threw | one per command, `SetCommand` and `DelCommand` for what others do to the keys, `Timeout`, `Disconnect` |
| `PubSub` | SUBSCRIBE, UNSUBSCRIBE, PUBLISH | `emitters`: the listeners of the context; `attached`: those with a callback; `subscriptions`: of the sessions; `inbox`: the sockets | one per command, `Disconnect`, `EmitterTimeout` |
| `SkipList` | the methods of `SortedSet` (`sorted-set.ts`) | a record with the fields of the class: `node` (links and spans), `tail`, `level`, `length`, `map` | operators only |
| `SortedSet` | the methods and all sorted-set commands on one set | `zset`: the set of a key; `answer`: the last request and reply | one per method or command that writes; reading commands are operators |
| `ScoreMap` | what a sorted set promises (abstract) | `scores`: a map from members to scores | one disjunct per request |
| `Collections` | the commands on sets and hashes, and the other ones on lists | `db`: the items of one database, the content of sets, lists and hashes included; `answer`: the last request and reply | one per command that writes; `ReadStep` for those that read, which are operators; `SetCommand`, `ExpireCommand` and `Vanish` for what other commands and the clock do to the keys |
| `Scripts` | EVAL, EVALSHA, SCRIPT, redis.call, and MULTI and EXEC around and within scripts | `frames`: the scripts and EXECs on the JavaScript stack; `scripts`: the cache; `store`: a string, or the element of a list, per database; `waiters`: those who wait for a push; the session's fields as in `Transactions` | `Handle` (a client's request), `Call` (redis.call), `ScriptReturn`, `ExecStep`, `ExecReturn`, `Timeout` |
| `KeyspaceProofs`, `TransactionsProofs`, `ScriptsProofs`, `PubSubProofs`, `BlockingListsProofs`, `CollectionsProofs`, `SortedSetProofs`, `ConnectionProofs` | theorems on the module in the name and, for `Keyspace` and `SortedSet`, on the refinement | | |
| `Connection` | `sendCommand` of the client helper, the streams of bytes, the parser of a chunk, the register of clients and CLIENT | `toServer`, `toClient`: the streams; `listeners` and `previous`: the client's `data` listeners and `previousListener`; `answers`: its promises; `clients`: the context's dictionary | `Send`, `Receive`, `Deliver`, `Close` |

`MCKeyspace`, `MCTransactions`, `MCBlockingLists`, `MCPubSub`, `MCSortedSet`, `MCCollections`,
`MCScripts` and `MCConnection` give the constants their values. Definitions whose comment begins
with "Mutant" are variants with a plausible bug. No action uses them; each shows that a property
notices the bug.

What the models leave out: what strings say (a value is the integer it spells, or one text), the
layout of replies, logging, the contents of lists in `Keyspace`, deadlines in `BlockingLists` and
times in `Collections` (an item that has a deadline may vanish at any moment). A handler that throws
gets no reply (`NoReply`, `thrown`): the promise of the parser's callback rejects, and whether the
host then ends the process is its own affair; the model lets the server live on.

How the modules share the code. `Keyspace` and `Collections` have the same `Database` under them:
`Keyspace` knows about time and not about content, `Collections` the other way round. `Transactions`
has the event loop and the microtasks, and no scripts; `Scripts` has what happens within one
handler, so that its EXEC runs its queue at once and nobody reads the tokens. Both have pushes that
call those who wait, and leave it open which of them take an element, which find none and which
throw; that is what `BlockingLists` says. `Connection` has what
is below both: which requests of a stream of bytes reach a handler at all. `BlockingLists` and
`PubSub` have the emitter of the server context, and what runs inside the handler that emits.

## The runs

| Run | Instance | What it shows |
|---|---|---|
| `keyspace_two_keys` | 2 keys, 1 database and two indices that are refused, 1 session, times 3 to 5, relative times 0 and 1 with both units | `ImplementsExpiringMap`: clients cannot tell the dictionaries that are cleaned on read from maps whose items vanish on time, DEL, DBSIZE, KEYS and RANDOMKEY excepted. `LivesAreNotLengthened`: nothing but SET and its like and EXPIRE gives a key a later deadline, or none, INCR in the millisecond of the deadline set aside; `ItemsMoveWhole` |
| `keyspace_two_dbs` | 1 key, 2 databases, those behind 0 and 0.5, 2 sessions, two more indices that are refused | `ImplementsExpiringMap` across databases, and `SessionsKeepToTheirDb` |
| `transactions` | 2 sessions, 2 databases, 5 requests in chunks of up to 2, pushes that call one waiter | `RunsAreContiguous`: the requests of a transaction run on one database, and between them comes nobody but those whom its own pushes call; `QueuedRequestsWait`; `OneReplyEach`, also by waiters that are called |
| `pipeline` | 2 sessions, 4 requests in chunks of up to 3, handlers that are refused, throw, wait or subscribe | `ErroredIffRefused`, `AllOrNothing`: a queue runs whole, or not at all and not when a part was refused; `RepliesInOrder`, `OneReplyEach`, `RequestsSettle` |
| `blocking_lists` | 2 keys with lists or strings, 3 elements, pushes of 1 or 2, 2 blocking requests | `ElementsConserved`, `TimedOutMovesNothing`, `FirstComeFirstServed`, `BlockedAreAnswered`; `WaitersHearOfElements`: nobody waits beside a list with elements, but where they came without an event or behind an exception |
| `pubsub` | 2 sessions, 2 channels, up to 2 of them in a request, 3 emitters, 2 messages | `SubscriptionsAreAttached`, `SubscribersHearOnce`, `PublishCountsEveryCopy` |
| `sorted_set` | 3 members, one of them the empty string, scores -1 to 1, heights 1 to 3 | `ListIsInOrder`, `SpansAreDistances`: the skip list is well formed; `RanksArePositions` (ranks, and slices by rank), `ScoreRangesAreExact` (ranges by score, and their counts): what is read from it is what the sorted members say; `ImplementsScoreMap`: requests and replies are those of a map |
| `collections` | 2 keys, 2 members, 3 fields of which every object inherits two, one of them `__proto__`, the empty string among the values, lists of up to 3, positions -5 to 3 | `ListReadsAreExact`, `ListEditsAreExact`: positions from either end name the elements they should; `FailuresChangeNothing`: a refused request, or one that throws, leaves the database alone, but for SMOVE; `RepliesTellChanges`, `NoListIsEmpty`; `EditsKeepDeadlines`: what puts an old item back keeps its deadline |
| `scripts` | 2 sessions, 2 databases, 5 commands, 3 levels of scripts and EXECs | `ScriptsReadTheirWrites`: nobody comes between the calls of a script but those who wait for what it pushes; `ScriptsRespectTransactions`: its calls wait while its session is in a transaction; `ExecRunsItsQueue`: what EXEC took runs once, also behind a script that throws and also when a script called EXEC |
| `connection` | 2 sockets, 3 requests of 3 units and replies of 2, cut anywhere, wide strings, 1 connection closed | `UncutRequestsRun`: a cut between the parts of a request costs that request only; `LoneRequestsGetTheirReply`, `LoneRequestsAreAnswered`: a request alone on its connection is answered, and with its own reply, whatever listeners are left over; `NamesStayWithTheirConnection` |
| `finding_incr_deadline`, `finding_moves` | `Keyspace` and `BlockingLists`, smaller | a sentence of the repository that the code contradicts, see below |

Every module with a run of its own has a type invariant, `TypeOK`. It is an invariant of its own in
`keyspace_two_keys` and elsewhere the first conjunct of an invariant that would have no meaning
without it (`ErroredIffRefused`, `ElementsConserved`, `SubscriptionsAreAttached`, `ListIsInOrder`,
`NoListIsEmpty`, `ExecRunsItsQueue`, `UncutRequestsRun`).

Why the bounds are enough. Keys: RENAME and MSET relate two keys, no command relates three. One
database more than one shows every confusion of databases, and MOVE relates two; the second one of
the instance lies behind 0.5, which is as good as 1 but for FLUSHALL. Indices are integers that
count `Parts` of a database, halves in every run. That -0.5, which can be selected and not moved to,
or 15.5, has no run: a third database takes TLC beyond its time, and SELECT and MOVE are the only
commands to tell it from 0.5; the theorems hold for any indices. Time: a deadline of one unit set at
time 3 is ahead at 3, current at 4 and past at 5, which are all the cases of the comparison in
`Database.get`; the clock starts above every relative time, as `Date.now()` does. `MaxSafe` is 1, so
that counters meet both ends of their range. The last reply does not guard any action, and the
`VIEW` of the keyspace runs leaves it out. Transactions: five requests hold MULTI, two members, one
of which may push or select, EXEC and a BRPOPLPUSH of the other session, which the push calls; four
hold an error before MULTI and a transaction of one member after it, or a transaction with a refused
member. `MaxCalls` bounds how many waiters a push calls: 1 in `transactions`, and 0 in `pipeline`,
where nothing pushes; a push that calls none is always possible. The theorems hold for any number.
Lists: three elements and two waiters let a push serve both, one and none of them, and a chain from
one list to the other. Channels and emitters: three emitters let a session subscribe again, or twice
at once, beside another. Sorted sets: three nodes of three heights make links that pass over no, one
or two nodes, and let the level rise and fall by more than one; a score of 0, which is falsy, lies
between two others, so that a range may hold the first, the middle or the last member alone; limits
go one beyond the scores on either side, as infinity does. Collections: two keys are what SMOVE and
the STORE commands relate, a source named twice included; three elements over two members have an
element twice with another one before, between or behind; positions go two beyond the front, where
LTRIM and LRANGE differ from LINDEX. One HSET names a field once; LINDEX, LRANGE and LTRIM are asked
for whole positions, and LSET, which takes a fraction for its integer part, for those too. Scripts:
five commands hold a MULTI, a script with two calls of its own and an EXEC, or a script within an
EXEC within a script, or one BRPOPLPUSH and a script that pushes and reads; the one text a client
writes, "1.5", is the kind that Lua gets back changed. Connection: three requests let two be in
flight on one socket while a third goes over the other, or two connections follow each other on one
socket; a request has its header, and a string that may be cut in two, which are the three ways in
which a chunk can begin. The sets of clients and channels are symmetric in the safety runs;
`CHECK_DEADLOCK` is off where the bounds on requests end every behaviour.

## Fairness

* `Transactions`: `WF_vars(Work)`. Once a chunk has been read the JavaScript engine runs its
  handlers, the loop of EXEC and the microtasks without waiting for anybody. Nothing is assumed of
  clients (`Receive`) or of the timers that end what waits (`Timeout`).
* `BlockingLists`: `WF_vars(Fire)`. Every waiter has a timer (`src/timed-emitter.ts:25-38`; a
  timeout of zero is one of 24.8 days), and the loop of Node comes to its timers again and again.
* `Connection`: `WF_vars(Flow)`. TCP brings what was written to the other side, unless the
  connection is closed, which empties the streams. Nothing is assumed of how it is cut.

## What is proved

Eight modules hold theorems, each for every value of the constants that their assumptions allow:
any sets of keys, sessions, databases and inputs, any bounds.

| Module | Theorems | Properties of the runs they state |
|---|---|---|
| `KeyspaceProofs` | `Invariance`; `TypeCorrectness`, `LivesStayBounded`, `SessionsApart`, `ItemsStayWhole`, `LazyExpiryIsExpiry` | `TypeOK`, `LivesAreNotLengthened`, `SessionsKeepToTheirDb`, `ItemsMoveWhole`, `ImplementsExpiringMap` |
| `TransactionsProofs` | `RequestInvariance`; `TransactionsRememberErrors`, `TransactionsAreAtomic`, `TransactionsAreIsolated`, `PipelinesKeepOrder`, `NoReplyIsLostOrDoubled`, `TransactionsWait` | `ErroredIffRefused`, `AllOrNothing`, `RunsAreContiguous`, `RepliesInOrder`, `OneReplyEach`, `QueuedRequestsWait` |
| `ScriptsProofs` | `ScriptInvariance`; `ExecsRunWhatTheyTake`, `ScriptsReadBackWrites`, `ScriptsKeepTransactions` | `ExecRunsItsQueue`, `ScriptsReadTheirWrites`, `ScriptsRespectTransactions` |
| `PubSubProofs` | `PubSubInvariance`; `SubscriptionsStayAttached`, `MessagesAreHeardOnce`, `CopiesAreCounted` | `SubscriptionsAreAttached`, `SubscribersHearOnce`, `PublishCountsEveryCopy` |
| `BlockingListsProofs` | `BlockingInvariance`; `ElementsStay`, `WaitersHear`, `TimedOutStayStill`, `WaitersAreServedInTurn` | `ElementsConserved`, `WaitersHearOfElements`, `TimedOutMovesNothing`, `FirstComeFirstServed` |
| `CollectionsProofs` | `NoListStaysEmpty`; `ListsReadExactly`, `ListsEditExactly`, `FailuresLeaveNoTrace`, `RepliesAreTrue`, `EditsKeepTheDeadline` | `NoListIsEmpty`, `ListReadsAreExact`, `ListEditsAreExact`, `FailuresChangeNothing`, `RepliesTellChanges`, `EditsKeepDeadlines` |
| `SortedSetProofs` | `SetInvariance`; `SetIsInOrder`, `SetSpans`, `SetRanks`, `SetScoreRanges`, `SetImplementsScoreMap` | `ListIsInOrder`, `SpansAreDistances`, `RanksArePositions`, `ScoreRangesAreExact`, `ImplementsScoreMap` |
| `ConnectionProofs` | `ConnectionInvariance`; `RequestsRunUnlessCut`, `LoneRequestsHearTheirReply`, `NamesAreOfTheirConnection` | `UncutRequestsRun`, `LoneRequestsGetTheirReply`, `NamesStayWithTheirConnection` |

The arguments, one component at a time.

**Keyspace.** That a life is not lengthened needs to be known of the leftovers that INCR stores as
deadlines: they are past already. `Inv` says of every cell of every database that it is `Absent` or
holds an item which is `Timely`: without a deadline, dead, or with a deadline at most one requested
time ahead. One lemma per command shows that it preserves `Inv`; lemmas on `Get`, `Sweep`, `Put`,
`Remove` and `RenameItem` say that they keep the cells of a database within any set that has
`Absent`. From `Inv` it follows that what is left of a life is less than the time at which the
server started, and so no deadline to come: that is what `LivesStayBounded` rests on, command by
command. A leftover of 0 is none at all, and only an item whose deadline is now has it; there the
theorem says nothing: the key is there for good then, which is the other way in which INCR breaks
`IncrKeepsDeadline`. The assumption that matters is
`EpochAssumption`: every relative time is smaller than the time at which the server starts. With a
real clock it says that nobody asks for more than 50 years.

**Refinement of the keyspace.** What clients see of a database is the map `Shown`, what a get would
return of each key. A command that leaves a database which shows what it showed before only looks;
any other writes, in `ExpiringMap`, what of the new database is alive. Each command has a lemma that
names the disjunct of `ExpiringMap` it is, and a tick of the clock maps to the step that drops the
items whose deadline has passed, or to a stutter.

**Transactions.** What a reader wants speaks of transactions that are over; the invariant has to
follow them from MULTI on. `TxInv` says: requests are numbered in their order and the EXEC that runs
came last (`Numbered`); a push that calls waiters has run and is of the EXEC that runs, if one does
(`Emits`); a session is in a transaction exactly when it has an open MULTI of its own (`Opened`); a
refused part never ran (`Parts`); the flag is set exactly when a part was refused (`Marked`); a part
of an open transaction is refused or queued (`OpenQueues`); while EXEC runs, each part has run or is
still to do, all of them on one database and none after another one's (`Running`); what is over ran
as a whole or not at all (`Closed`). What waiters do is the doing of the push that calls them
(`Cause`), so that it belongs to the transaction of the push. `ReplyInv` follows the answer of each
request: it is in exactly one place of the wire, the microtasks, the open promises, the running
EXEC, the push that is not done or the requests that are never answered (`Accounted`), it is
addressed to the session that asked (`Addressed`), is there once (`Distinct`), and whatever waits
behind the wire is younger than what is on it, unless it was a request that waits, or a confirmation
(`InOrder`). A step is about one request: whatever else is on its way stays where it is
(`AboutKeepsReplies`, with `WireAbout`, `QueueAbout` and `PendingAbout`), so that for each step only
the place of that one is looked for (`Placed`).

**Scripts.** `Owes` says that a command which waits, in a queue or in the frame of an EXEC, has been
made and has not run, and is nowhere else; that no command has run twice; and that what an EXEC took
has run or is still in its frame. It speaks of the whole stack, so that it holds for scripts and
EXECs within each other to any depth. `ReadInv` says that what the innermost script wrote last to a
database is there (`Fresh`), unless somebody was called who may have taken it, and that each script
has read well so far.

**Publish and subscribe.** `SubscriptionsAreAttached` is inductive once the number of listeners is
known to be bounded. `SubscribersHearOnce` needs `MessagesAreOld`, that no inbox
has a message younger than the last one published, or the next one could be there already.

**Blocking lists.** A push calls any number of listeners any number of times in its middle. Two
relations say what they do together: `Heard`, of one event up to some waiter, with `InTurn` for the
order in which they are served, and `Told`, of the events of a push; each holds at the start and is
kept by one more listener, or one more event. `RPopLPush` rearranges places (`MoveRearranges`), also
within one list. The invariant adds to the properties that no element is in two places (`Single`),
and is in one exactly if it was pushed and is not gone (`Located`); that waiters are requests of
their own whose timer has not fired (`WaitersAreAsked`), and that nothing happened to a request that
is not made yet (`RequestsAreNew`), or else a push could move for one that has timed out; and that a
request has no more moves than there were elements (`MovesAreEvents`), which is the type of `moves`.

**Collections.** `NoListIsEmpty`, which carries the types of all items, is inductive by itself. The
work is in the operators: what a filter of a list leaves is known by the unique order-preserving
enumeration of the places it keeps, and what a command answers by the cardinalities of the sets
before and after.

**Sorted sets.** The links of a skip list are no place to argue about: what is true of a node
follows from the ones before it, along a path of any length. The proofs speak of places instead.
`Linked(z, N, a, v, g)` says that `z` is a list of `N` nodes, where `a` gives the node at each
place, from the head at place 0 to the end of the list behind place `N`, `v` its score and `g` its
height: scores rise along the places, and by name where they are equal, a link of level `i` at place
`p` leads to the next place behind `p` that is as high as `i` (`NextUp`), and on the levels in use
its span is the number of places between the two. The inductive invariant `Inv` says that there are
such `N`, `a`, `v` and `g` (`Whole`), that the length is `N`, that the map has the scores of the
nodes, and that these are scores of the instance. On the levels in use this is what `ListIsInOrder`
and `SpansAreDistances` ask for, so that TLC has checked it on the instance of `sorted_set`; above
them it adds that the links of the head, the only ones there, lead to the end.

A descent by `Path` whose stops are the places up to `k` ends, on each level, at the last of them
that is as high as the level, with the number of steps that led there (`RideIs`, `PathIs`): this is
what `update` and `rank` hold in `_insert`. From there `InsertIs` shows that `_insert` puts in one
place and `RemoveIs` that `_removeNode` takes out one, with every link and span of the new list as
`Linked` has it: a link that passes over the place grows or shrinks by one, one that led to it is
led on. `RemoveRun`, which takes out node after node with the path to the first one, keeps what that
path means at each step. The methods follow (`AddIs`, `RemIs`, `IncrByIs`, and those for ranges of
ranks and of scores), and each is one disjunct of `ScoreMap`. The list along the lowest level is the
order of the members, because there is only one sequence that enumerates them increasingly; ranks
and ranges are pieces (`Piece`) of it, whose ends come from descents by spans and by scores.

**Connection.** Where TCP cuts is not known, so the invariant speaks of what is left of a stream:
its units are in order, with nothing missing behind its head (`Orderly`). From that it follows what
a chunk holds, and that what is cut can be told from the head alone (`CutsAreKnown`). Requests in a
stream are of its connection, younger than the connection and than whatever arrived on it
(`RequestStreams`), and replies are to requests that ran (`ReplyStreams`); together they give
`HandledInOrder` and `HandledIsWhole`, which are the two parts of `UncutRequestsRun`. The register
is the map of the names set last (`NamesAreLast`). `LoneRequestsGetTheirReply` alone says too
little: a lone request is the only thing on its way, or its reply is, and its listener is on its
socket, or it has its reply (`LoneOnes`); a listener is never on the socket of another request
(`ListenersAreOwn`), so that `previousListener` takes none away from a lone request but on a socket
where it is no longer lone. The parser and the session go through a chunk step by step; `ReadUpTo`
and `Ran` say what they have done after any number of steps, and each step carries them on.

Induction is nowhere applied to a predicate, which the installed provers cannot do. Where one is
needed, on the numbers up to n, on the waiters or on the events of a push, it is the least number of
a set, which exists because `<` is well-founded on `Nat` (`Reach` in `BlockingListsProofs`, and its
like elsewhere).

The assumptions are those that the modules declare, and TLC evaluates them in every run: types and
signs of the inputs and bounds; sets that a reply counts are finite (`FiniteKeysAssumption` and the
databases of `Keyspace`, `FiniteAssumption` of `Collections`), as they are in memory; model values
that stand for something absent are none of the values (`AbsentAssumption`, `NoQueueAssumption`,
`AnswerAssumption`, `SessionAssumption`, and `NoneAssumption` of `Connection`: no answer is
nothing); and `EpochAssumption`.

Only model-checked is liveness (`RequestsSettle`, `BlockedAreAnswered`, `LoneRequestsAreAnswered`):
TLAPS has no rules for `ENABLED`, which weak fairness speaks of.

## Where the code and its documentation part

Shown by a run:

1. INCR, DECR, INCRBY and DECRBY kill a volatile key (`finding_incr_deadline`;
   `src/resp/command/string/incr-command.ts:61-68` against
   `src/resp/command/key/expire-command.ts:17-21`). In the very millisecond of the deadline nothing
   is left of it, and the 0 that they store is no deadline for `database.ts:16`: then the key never
   expires. `LivesAreNotLengthened` sets this aside.
2. One BRPOPLPUSH moves several elements (`finding_moves`; `brpoplpush-command.ts:78-91`).

Modelled as the code has them, without a run of their own:

* ZADD never adds anything: `src/resp/data/database.ts:51-55` calls `toString` of an undefined value
  before it merges, against `zadd-command.ts:15-16` and the tests, which expect members to be added
  and counted (`test/resp/command/sset/zadd-command.test.ts:72`). `ScoreMap` lets ZADD add its
  member or answer an error and change nothing: that `ImplementsScoreMap` holds says of ZADD only
  that its error leaves no trace. Through the commands only ZINCRBY puts a member into a sorted set.
* SELECT and MOVE take any number within their bounds, and a database is made for it
  (`select-command.ts:57-71`, `move-command.ts:49-62`, `resp-server-context.ts:103-113`), against
  "any number from 0-15" (`select-command.ts:12-13`); FLUSHALL counts from 0 to 15 and does not
  reach such a database (`flushall-command.ts:30`), against "all the existing databases"
  (`flushall-command.ts:10`).
* SELECT inside a transaction does not reach the requests after it (`exec-command.ts:45-50`):
  `RunsAreContiguous` says that all of them run on the database EXEC was sent to. The events of a
  push, however, name the selected database (`lpush-command.ts:63`), so that a push behind a SELECT
  calls the waiters of another database. `Transactions` has that step (`emit.on`); which elements
  move then, `BlockingLists`, with one database, leaves out.
* A push within EXEC or within a script calls those who wait, of any session, between two commands
  of the transaction or two calls of the script (`lpush-command.ts:62-64`,
  `brpoplpush-command.ts:80-86`): `RunsAreContiguous` and `ScriptsReadTheirWrites` except them.
* SUBSCRIBE writes its confirmation in its handler (`subscribe-command.ts:94-97`), before the
  replies to earlier requests of its chunk, which wait in microtasks (`resp-server.ts:80-86`), and
  so does PUBLISH with its messages. `RepliesInOrder` excepts the confirmations, and messages are
  not on the wire of `Transactions`.
* A channel that is named twice in one SUBSCRIBE is heard after UNSUBSCRIBE
  (`subscribe-command.ts:36-47`): one of its two emitters is forgotten. `SubscribersHearOnce` has
  the case as an exception.
* SET NX answers OK when the key holds an equal item (`set-command.ts:70`).
* DBSIZE, KEYS, RANDOMKEY and DEL count keys whose item is dead (`dbsize-command.ts:32`).
* The range check of DECRBY adds (`incrby-command.ts:53`), and an absent key takes NaN.
* A handler that throws sends no reply (`resp-server.ts:80`); in EXEC its token is missing.
* BRPOP and BLPOP refuse a key with a timeout: the wrapper reads the arity of RPOP
  (`brpop-command.ts:46-52`; `test/resp/command/list/brpop-command.test.ts` expects an answer).
* A second waiter may be answered nil before its timeout, when the first took the element.
* RPOPLPUSH, RENAME and MOVE emit no push event, and neither does the move of a waiter: the one that
  waits on its destination learns nothing (`rpoplpush-command.ts:129`).
* A waiter whose source or destination has become a string throws out of the push that calls it, and
  the waiters behind it are not called (`lpush-command.ts:63`).
* ZCOUNT of a range that holds one member of several is 0 (`sorted-set.ts:294`), while
  ZRANGEBYSCORE finds the member and `zcount-command.ts:15` promises the number of elements;
  `ScoreRangesAreExact` leaves this case out.
* ZRANGE takes -2 as an end for the last member, and an end before the first for the first
  (`zrange-command.ts:124-129`); `RanksArePositions` asks for ends from the front and for -1.
* The empty string is a member without a rank (`sorted-set.ts:566`).
* ZRANGEBYSCORE with a negative LIMIT offset throws (`zrangebyscore-command.ts:184-190`), and its
  offset is not modelled below 0. ZCOUNT refuses -inf and +inf (`zcount-command.ts:49`).
* PUBLISH counts listeners, not receivers (`publish-command.ts:13`, `resp-server-context.ts:40-50`).
* SUBSCRIBE to channels that are all subscribed is never answered (`subscribe-command.ts:105-108`),
  UNSUBSCRIBE without a channel is refused (`unsubscribe-command.ts:22`), and after 24.8 days the
  timer of a subscription ends the process (`subscribe-command.ts:51-69`).
* SINTER and SINTERSTORE never answer when their keys hold sets: a debug line takes the string of a
  set (`sinter-command.ts:152`). When the first key is missing SINTERSTORE stores an empty set.
  SUNIONSTORE stores the text of an error as a member.
* SMOVE into a key that holds no set loses the member and does not answer (`smove-command.ts:66`).
* SADD, SMOVE and HSET take the deadline from their key (`hset-command.ts:94`), although EXPIRE says
  of HSET by name that it leaves it (`expire-command.ts:17-21`): `EditsKeepDeadlines` is about the
  other edits.
* HSET promises the number of fields that were added (`hset-command.ts:21`). It counts a field as
  new when its old value is the empty string, and as old when every object inherits it, as
  `constructor` (`hset-command.ts:76`): `RepliesTellChanges` allows both. HSET of `__proto__` sets
  nothing, counts nothing, and leaves an empty hash where there was no key (`hset-command.ts:82`).
  HGET of an empty string is nil, HGETALL of a missing key one null string.
* LREM with a negative count removes from positions that it compares with the number of matches
  (`lrem-command.ts:101`): as many as it should, but not the last ones, which lines 18 to 22
  promise. LTRIM with an end two before the first element, or further out, keeps elements; LRANGE
  with an end before the first returns the first; LINDEX -1 of one element is nil; LSET refuses the
  first element counted from the end.
* What a script calls loses its error, which becomes nil, and a string that is a number is cut down
  by `parseInt`; a script that returns several values returns them in reverse. EVAL stores its
  script before it checks the number of keys. The empty script, which is falsy, is cached and there
  for neither SCRIPT EXISTS nor EVALSHA (`dictionary.ts:67-69`). A blocking call within a script
  throws after it has acted. MULTI in a script outlives it, and EXEC in a script returns an empty
  table.
* The client helper keeps one `previousListener` for all sockets (`client.ts:14`): a second request
  on a socket takes the listener of the first away, so that its promise never resolves, while
  requests over two sockets leave listeners behind.
* A bulk string is as long as its UTF-16 units (`resp-serialize.ts:43`): readers cut it short.

## Plan

Done: the keyspace with its promise, transactions and the event loop, blocking
lists with keys that change their type, publish and subscribe, sorted sets, collections, scripts,
connections, and the theorems above: every invariant and every action property of the runs that
pass, and both refinements.

Left to do: several databases for the waiters, so that a push behind a SELECT within EXEC calls
those of another one, and the timer of a subscription, which ends the process.

## Not modelled

* The Lua machine (a library) and the Lua bit library: a script is any sequence of calls. `pcall`,
  loops over replies, and the order in which nested tables come back are left out.
* `addAll` and `intersect` of `SortedSet`, which nothing calls.
* INFO, TIME, ECHO, PING and QUIT, which format a reply and keep no state: they are the plain
  requests of `Connection`. Start and stop of the listening socket, and its events that only log.
* `getValue` and `putValue` of the server context, which nothing calls; `Logger`; the generated
  documentation and the sample projects.
* Several databases for waiters, and deadlines of the lists they wait on.
