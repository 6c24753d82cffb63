----------------------------- MODULE Connection -----------------------------
(***************************************************************************)
(* The bytes between sendCommand of client.ts and the server: what RESP    *)
(* and a parser for every chunk make of a stream that TCP cuts wherever it *)
(* likes, which listener gets a reply, and the server's register of        *)
(* clients with CLIENT.                                                    *)
(*                                                                         *)
(* A request is written as its header and one string, which may be cut in  *)
(* two: three units.  A reply is two.  A chunk is any number of the units  *)
(* at the head of a stream.  What the parser does with a chunk is that of  *)
(* redis-parser 3: what is not complete waits in the parser for more, and  *)
(* here nothing more comes; a type byte it does not know ends the chunk.   *)
(* No text within a string is one of the type bytes.                       *)
(*                                                                         *)
(* Commands answer at once.  A connection is made in one step with the     *)
(* first request that is sent on it.                                       *)
(***************************************************************************)
EXTENDS Integers, FiniteSets, SequencesExt

CONSTANTS
  Sockets,      \* the client's sockets
  Names,        \* names of connections, none of them empty
  Kinds,        \* the kinds of request clients send in this instance
  MaxRequests,  \* bound on the requests of a behaviour
  MaxCloses,    \* bound on the closed connections
  None          \* no listener, no answer, no name

AllKinds == {"plain", "wide", "setname", "getname", "spaced", "list"}

ASSUME KindsAssumption == Kinds \subseteq AllKinds
ASSUME BoundsAssumption == MaxRequests \in Nat /\ MaxCloses \in Nat

Ids == 1..MaxRequests
RequestUnits == 3
ReplyUnits == 2

VARIABLES
  requests,   \* the requests sent so far: socket, kind, name
  toServer,   \* [Sockets -> Seq of units], a unit is <<id, place>>
  toClient,   \* [Sockets -> Seq of units of replies]
  listeners,  \* [Sockets -> the requests whose listener is on the socket]
  previous,   \* previousListener: the request that registered it
  answers,    \* [Ids -> what the promise has resolved to]
  connected,  \* the sockets that have a remote address
  clients,    \* the context's dictionary: [registered connections -> name]
  handled,    \* the requests that the server has run, in order
  replies,    \* [Ids -> the reply the server wrote, or None]
  closes,     \* how many connections were closed
  log         \* what the properties look back at, see Log

vars == <<requests, toServer, toClient, listeners, previous, answers, connected,
          clients, handled, replies, closes, log>>

(* lone: the requests sent over a quiet connection on which nothing has    *)
(* happened since but their own exchange, uncut; whole: those of which     *)
(* everything has arrived; cut: those that were cut between header and     *)
(* string; torn: the sockets on which something was cut elsewhere, or      *)
(* carried a wide string; since: how many requests had been sent when the  *)
(* connection was made.                                                    *)
Log == [lone : SUBSET Ids, whole : SUBSET Ids, cut : SUBSET Ids, torn : SUBSET Sockets,
        since : [Sockets -> 0..MaxRequests]]

Ok == <<"ok">>
Error == <<"error">>
Garbled == <<"parser error">>
Bulk(v) == <<"string", v>>

(* A reply is an answer.                                                   *)
ASSUME NoneAssumption ==
  /\ None \notin {Ok, Error, Garbled}
  /\ \A v \in Names \cup {None} \cup AllKinds : None # Bulk(v)
  /\ \A S \in SUBSET Sockets : \A names \in [S -> Names \cup {None}] : None # Bulk(names)

Units(id, n) == [i \in 1..n |-> <<id, i>>]

(* The part of a sequence after its first n elements.                      *)
After(seq, n) == SubSeq(seq, n + 1, Len(seq))

IdsOf(chunk) == {chunk[i][1] : i \in DOMAIN chunk}

(* The ids whose last unit, and first one, are in the chunk, in order, up  *)
(* to the first of bad: what follows a string whose length was counted     *)
(* short is not RESP.                                                      *)
Completes(chunk, i, n) == chunk[i][2] = n /\ <<chunk[i][1], 1>> \in Range(chunk)

Complete(chunk, n, bad) ==
  LET read[i \in 0..Len(chunk)] ==
        IF i = 0 THEN <<>>
        ELSE IF Completes(chunk, i, n) /\ Range(read[i - 1]) \cap bad = {}
        THEN Append(read[i - 1], chunk[i][1])
        ELSE read[i - 1]
  IN read[Len(chunk)]

OfKind(kind) == {i \in DOMAIN requests : requests[i].kind = kind}

(***************************************************************************)
(* The server.                                                             *)
(***************************************************************************)

(* Mutant: a string where a request is due ends the chunk.                 *)
RequestsStopAtStray(chunk) ==
  IF chunk[1][2] # 1 THEN <<>> ELSE Complete(chunk, RequestUnits, OfKind("wide"))

(* A chunk that begins inside a string is dropped.  One that begins with   *)
(* a string makes a request of it that fails before it runs, and what      *)
(* comes behind it is parsed, unless the string was counted short.         *)
RequestsIn(chunk) ==
  IF chunk[1][2] = 3 \/ (chunk[1][2] = 2 /\ chunk[1][1] \in OfKind("wide"))
  THEN <<>>
  ELSE Complete(chunk, RequestUnits, OfKind("wide"))

(* The names after the request, and its reply.  A name with white space is *)
(* refused.                                                                *)
SetName(names, s, r) == IF r.kind = "setname" THEN [names EXCEPT ![s] = r.name] ELSE names

Reply(names, s, r) ==
  CASE r.kind = "setname" -> Ok
    [] r.kind = "spaced" -> Error
    [] r.kind = "getname" -> Bulk(names[s])
    [] r.kind = "list" -> Bulk(names)
    [] OTHER -> Bulk(r.kind)

(* Mutant: the reply is published to all connections.                      *)
WriteToAll(s, units) ==
  toClient' = [x \in Sockets |-> IF x \in connected THEN toClient[x] \o units ELSE toClient[x]]

Write(s, units) == toClient' = [toClient EXCEPT ![s] = @ \o units]

(* One request runs on the session of s.                                   *)
Run(was, s, id) ==
  [names |-> SetName(was.names, s, requests[id]),
   replies |-> [was.replies EXCEPT ![id] = Reply(was.names, s, requests[id])],
   units |-> was.units \o Units(id, ReplyUnits)]

(* RespServer.receive: the requests of one chunk run in order, and their   *)
(* replies are written.                                                    *)
RunAll(s, ids) ==
  LET ran[n \in 0..Len(ids)] ==
        IF n = 0 THEN [names |-> clients, replies |-> replies, units |-> <<>>]
        ELSE Run(ran[n - 1], s, ids[n])
  IN ran[Len(ids)]

Handle(s, chunk) ==
  LET ids == RequestsIn(chunk)
      after == RunAll(s, ids)
  IN /\ clients' = after.names
     /\ replies' = after.replies
     /\ handled' = handled \o ids
     /\ Write(s, after.units)

(* Where the stream is cut, and what that spoils.                          *)
CutsRequest(stream, n) == n < Len(stream) /\ stream[n][2] < RequestUnits
CutsPart(stream, n) == n < Len(stream) /\ stream[n][2] = 2

LogChunk(s, n) ==
  LET stream == toServer[s]
      chunk == SubSeq(stream, 1, n)
      cut == IF CutsRequest(stream, n) THEN {stream[n][1]} ELSE {}
      bad == CutsPart(stream, n) \/ IdsOf(chunk) \cap OfKind("wide") # {}
  IN log' = [log EXCEPT
       !.lone = @ \ cut,
       !.whole = @ \cup {i \in IdsOf(chunk) : <<i, RequestUnits>> \in Range(chunk)},
       !.cut = @ \cup cut,
       !.torn = IF bad THEN @ \cup {s} ELSE @]

Receive(s, n) ==
  /\ n \in 1..Len(toServer[s])
  /\ Handle(s, SubSeq(toServer[s], 1, n))
  /\ toServer' = [toServer EXCEPT ![s] = After(@, n)]
  /\ LogChunk(s, n)
  /\ UNCHANGED <<requests, listeners, previous, answers, connected, closes>>

(***************************************************************************)
(* The client.                                                             *)
(***************************************************************************)
Quiet(s) == toServer[s] = <<>> /\ toClient[s] = <<>>

Unanswered(s) == {i \in DOMAIN requests : requests[i].socket = s /\ answers[i] = None}

(* Mutant: the variable is set before its listener is removed.             *)
ListenSwapped(s, id) ==
  /\ listeners' = [listeners EXCEPT ![s] = (@ \cup {id}) \ {id}]
  /\ previous' = id

(* previousListener is removed from this socket, whichever socket it was   *)
(* added to; the new one stays when it has been called.                    *)
Listen(s, id) ==
  /\ listeners' = [listeners EXCEPT ![s] = (@ \ {previous}) \cup {id}]
  /\ previous' = id

(* sendCommand.  A socket that is not connected is connected first, which  *)
(* registers a session without a name.                                     *)
Send(s, kind, name) ==
  LET id == Len(requests) + 1 IN
  /\ id <= MaxRequests
  /\ requests' = Append(requests, [socket |-> s, kind |-> kind, name |-> name])
  /\ Listen(s, id)
  /\ toServer' = [toServer EXCEPT ![s] = @ \o Units(id, RequestUnits)]
  /\ connected' = connected \cup {s}
  /\ clients' = IF s \in connected THEN clients
                ELSE [x \in DOMAIN clients \cup {s} |-> IF x = s THEN None ELSE clients[x]]
  /\ log' = [log EXCEPT !.lone = (@ \ Unanswered(s)) \cup IF Quiet(s) THEN {id} ELSE {},
                        !.since[s] = IF s \in connected THEN @ ELSE Len(requests)]
  /\ UNCHANGED <<toClient, answers, handled, replies, closes>>

(* What is read of a reply: the tail of a wide string is cut off.          *)
Received(id) == IF requests[id].kind = "wide" THEN Bulk("shortened") ELSE replies[id]

(* What a listener resolves to first, if anything: a chunk that begins     *)
(* inside a reply makes an error of the parser.                            *)
FirstOf(chunk) ==
  IF chunk[1][2] = 2 THEN Garbled
  ELSE LET ids == Complete(chunk, ReplyUnits, {}) IN
       IF ids = <<>> THEN None ELSE Received(ids[1])

(* Every listener on the socket gets the chunk.                            *)
Deliver(s, n) ==
  /\ n \in 1..Len(toClient[s])
  /\ LET stream == toClient[s]
         first == FirstOf(SubSeq(stream, 1, n))
         cut == IF stream[n][2] < ReplyUnits THEN {stream[n][1]} ELSE {}
     IN /\ answers' = [i \in Ids |-> IF i \in listeners[s] /\ answers[i] = None THEN first
                                     ELSE answers[i]]
        /\ toClient' = [toClient EXCEPT ![s] = After(@, n)]
        /\ log' = [log EXCEPT !.lone = @ \ cut]
  /\ UNCHANGED <<requests, toServer, listeners, previous, connected, clients, handled,
                 replies, closes>>

Without(names, s) == [x \in DOMAIN names \ {s} |-> names[x]]

(* Mutant: the session outlives its connection.                            *)
CloseRemembering(s) ==
  /\ s \in connected /\ closes < MaxCloses
  /\ closes' = closes + 1
  /\ connected' = connected \ {s}
  /\ toServer' = [toServer EXCEPT ![s] = <<>>]
  /\ toClient' = [toClient EXCEPT ![s] = <<>>]
  /\ log' = [log EXCEPT !.lone = @ \ Unanswered(s)]
  /\ UNCHANGED <<requests, listeners, previous, answers, clients, handled, replies>>

(* The connection is closed, and what was under way is lost.  The          *)
(* listeners stay on the client's socket.                                  *)
Close(s) ==
  /\ s \in connected /\ closes < MaxCloses
  /\ closes' = closes + 1
  /\ connected' = connected \ {s}
  /\ clients' = Without(clients, s)
  /\ toServer' = [toServer EXCEPT ![s] = <<>>]
  /\ toClient' = [toClient EXCEPT ![s] = <<>>]
  /\ log' = [log EXCEPT !.lone = @ \ Unanswered(s),
                        !.cut = @ \cup (Unanswered(s) \ log.whole)]
  /\ UNCHANGED <<requests, listeners, previous, answers, handled, replies>>

Init ==
  /\ requests = <<>>
  /\ toServer = [s \in Sockets |-> <<>>]
  /\ toClient = [s \in Sockets |-> <<>>]
  /\ listeners = [s \in Sockets |-> {}]
  /\ previous = None
  /\ answers = [i \in Ids |-> None]
  /\ connected = {}
  /\ clients = <<>>
  /\ handled = <<>>
  /\ replies = [i \in Ids |-> None]
  /\ closes = 0
  /\ log = [lone |-> {}, whole |-> {}, cut |-> {}, torn |-> {},
            since |-> [s \in Sockets |-> 0]]

Flow ==
  \E s \in Sockets : \/ \E n \in 1..(RequestUnits * MaxRequests) : Receive(s, n)
                     \/ \E n \in 1..(ReplyUnits * MaxRequests) : Deliver(s, n)

Next ==
  \/ \E s \in Sockets, kind \in Kinds, name \in Names :
       (kind = "setname" \/ name = CHOOSE x \in Names : TRUE) /\ Send(s, kind, name)
  \/ Flow
  \/ \E s \in Sockets : Close(s)

(* TCP brings what was written to the other side.                          *)
Spec == Init /\ [][Next]_vars /\ WF_vars(Flow)
-----------------------------------------------------------------------------
(* Every variable is of its type.                                          *)
TypeOK ==
  /\ requests \in Seq([socket : Sockets, kind : Kinds, name : Names])
  /\ toServer \in [Sockets -> Seq(Ids \X (1..RequestUnits))]
  /\ toClient \in [Sockets -> Seq(Ids \X (1..ReplyUnits))]
  /\ listeners \in [Sockets -> SUBSET DOMAIN requests]
  /\ previous \in DOMAIN requests \cup {None}
  /\ connected \subseteq Sockets /\ clients \in [connected -> Names \cup {None}]
  /\ handled \in Seq(DOMAIN requests)
  /\ \A i \in Ids : replies[i] # None => i \in Range(handled)
  /\ \A i \in Ids : answers[i] # None => i \in DOMAIN requests
  /\ closes \in 0..MaxCloses
  /\ log \in Log

(* However the stream is cut, the requests of a connection run once and in *)
(* the order in which they were sent, and one of which everything has      *)
(* arrived is run unless it was cut itself: a cut between the parts of one *)
(* request costs that request only.  A cut inside of a part, or a string   *)
(* whose length was counted short, may cost others (RespServer.receive).   *)
UncutRequestsRun ==
  /\ TypeOK
  /\ \A m, n \in 1..Len(handled) :
       m < n /\ requests[handled[m]].socket = requests[handled[n]].socket => handled[m] < handled[n]
  /\ \A i \in DOMAIN requests : requests[i].socket \notin log.torn =>
       (i \in Range(handled) <=> i \in log.whole /\ i \notin log.cut)

(* A request that is sent when nothing is under way on its connection, and *)
(* whose exchange is neither cut nor joined by another, is answered with   *)
(* its own reply, whatever listeners other sockets and earlier requests    *)
(* have left (sendCommand).                                                *)
LoneRequestsGetTheirReply ==
  \A i \in log.lone \ OfKind("wide") : answers[i] \in {None, replies[i]}

LoneAndWaiting == \E i \in log.lone : answers[i] = None

(* It is answered in the end, unless something else happens first: when    *)
(* clients have stopped sending nobody waits for such an answer.           *)
LoneRequestsAreAnswered == LoneAndWaiting ~> ~LoneAndWaiting

(* The requests that come before request i in the list ids.                *)
Before(ids, i) == {ids[n] : n \in {m \in 1..Len(ids) : \A k \in 1..m : ids[k] # i}}

LastName(s, ids) ==
  LET sets == {j \in ids \cap OfKind("setname") : requests[j].socket = s /\ j > log.since[s]}
  IN IF sets = {} THEN None
     ELSE requests[CHOOSE j \in sets : \A k \in sets : k <= j].name

(* The name that a connection is told is the last one that was set on it   *)
(* since it was made, and CLIENT LIST has the connections that there are,  *)
(* with their own names (ClientCommand, RespServer.registerConnection).    *)
NamesStayWithTheirConnection ==
  [][\A i \in Range(handled') \ Range(handled) :
       LET earlier == Before(handled', i) IN
       CASE requests[i].kind = "getname" ->
              replies'[i] = Bulk(LastName(requests[i].socket, earlier))
         [] requests[i].kind = "list" ->
              replies'[i] = Bulk([s \in connected |-> LastName(s, earlier)])
         [] OTHER -> TRUE]_vars
=============================================================================
