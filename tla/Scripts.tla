------------------------------ MODULE Scripts -------------------------------
(***************************************************************************)
(* EVAL, EVALSHA and SCRIPT, and redis.call from within a script, together *)
(* with MULTI and EXEC, which scripts can be queued for and can call.      *)
(*                                                                         *)
(* A script runs inside the handler of its request.  redis.call goes       *)
(* through the CommandWrapper with the session of that request, so that a  *)
(* script may change the session's database, open its transaction, run its *)
(* EXEC and other scripts: frames is what is on the stack then.  What a    *)
(* call answers is serialized and parsed again to make a Lua value of it.  *)
(*                                                                         *)
(* A script is any sequence of calls: its code matters to the cache only.  *)
(* A database is one string, or the element of one list.  A handler may    *)
(* throw (a key of another type), and BRPOPLPUSH returns a promise: it has *)
(* taken the element, or it waits for one.  A push calls whoever waits for *)
(* its event, within its own handler and whatever that is part of.         *)
(* Scripts that catch errors with pcall are left out.                      *)
(***************************************************************************)
EXTENDS Integers, FiniteSets, SequencesExt

CONSTANTS
  Sessions,    \* the connected clients
  Dbs,         \* the database indices
  Codes,       \* the texts of scripts
  Unparsable,  \* the one that is not Lua
  Blank,       \* the empty one
  Texts,       \* what clients write
  Ops,         \* the commands of this instance
  MaxSteps,    \* bound on the commands of a behaviour
  MaxDepth,    \* bound on scripts and EXECs within each other
  NoQueue      \* Session.commands when it is undefined

AllOps == {"write", "push", "read", "throw", "wait", "refuse", "select", "multi", "exec",
           "discard", "eval", "evalsha", "load", "exists", "flush", "FLUSH"}

(* Strings that are numbers to JavaScript, and what parseInt makes of them.*)
Numbers == [t \in {"1.5", "07"} |-> IF t = "1.5" THEN "1" ELSE "7"]

ASSUME CodesAssumption == {Unparsable, Blank} \subseteq Codes
ASSUME TextsAssumption == Texts \subseteq {"", "word", "1.5", "07"}
ASSUME OpsAssumption == Ops \subseteq AllOps
ASSUME DbsAssumption == Dbs \subseteq Nat /\ 0 \in Dbs
ASSUME BoundsAssumption == MaxSteps \in Nat /\ MaxDepth \in Nat

Steps == 1..MaxSteps

(* A command: the step it was made in, and its arguments.  counted is      *)
(* whether the number of keys of an EVAL is one.                           *)
Commands == [id : Steps, op : AllOps, text : Texts \cup {""}, db : Dbs,
             code : Codes, counted : BOOLEAN]

ASSUME NoQueueAssumption == NoQueue \notin Seq(Commands)

VARIABLES
  store,      \* [Dbs -> the string of the database, or Nil]
  scripts,    \* the cache of the server context, by code instead of digest
  currentDb,  \* [Sessions -> Dbs]
  commands,   \* [Sessions -> the queue of a transaction, or NoQueue]
  errored,    \* [Sessions -> BOOLEAN]
  caller,     \* the session whose request is being handled
  frames,     \* the scripts and EXECs that are running, innermost last
  waiters,    \* the BRPOPLPUSHs that wait: the event, by database, and theirs
  reply,      \* the answer to the last request of a client, or None
  log         \* what the properties look back at, see Log

session == <<currentDb, commands, errored>>
vars == <<store, scripts, session, caller, frames, waiters, reply, log>>

Nil == <<"nil">>
Ok == <<"status", "OK">>
Queued == <<"string", "QUEUED">>
Error == <<"error">>
None == <<"none">>
Bulk(t) == <<"string", t>>
Array(a) == <<"array", a>>
Flag(b) == <<"integer", IF b THEN "1" ELSE "0">>

(* How many commands there were; those whose handlers ran, in order; those *)
(* that an EXEC has promised to run.                                       *)
Log == [made : 0..MaxSteps, ran : Seq(Steps), promised : SUBSET Steps]

Frame(kind, db, todo) == [kind |-> kind, db |-> db, todo |-> todo, seen |-> <<>>]

IsScript(fs) == fs # <<>> /\ Last(fs).kind = "script"

InTransaction(s) == commands[s] # NoQueue

(***************************************************************************)
(* Values on their way into a script and out of it.                        *)
(***************************************************************************)

(* A string that is a number is cut down to an integer.                    *)
IntegerText(t) == IF t \in DOMAIN Numbers THEN Numbers[t] ELSE t

(* The parser of the reply of a call: an error does not count as an answer *)
(* and an empty string is the null string.                                 *)
ToLua(v) ==
  IF v \in {Error, Nil, Bulk("")} THEN Nil
  ELSE IF v[1] = "array" THEN v ELSE Bulk(IntegerText(v[2]))

(* What the script returns: nothing, one value, or several in reverse.     *)
FromLua(values) ==
  IF values = <<>> THEN Nil ELSE IF Len(values) = 1 THEN values[1] ELSE Array(Reverse(values))

(***************************************************************************)
(* A handler's result goes to the script that called it, to the tokens of  *)
(* its EXEC, which nobody here reads, or to the client.                    *)
(***************************************************************************)
Seen(fs, c, d, v, called) ==
  [fs EXCEPT ![Len(fs)].seen =
     Append(@, [op |-> c.op, text |-> c.text, db |-> d, value |-> v, called |-> called])]

(* The databases of those who wait for the event of a push: the event is   *)
(* named after the database that the session of the push has selected.     *)
Called(c) == {w.db : w \in {x \in waiters : c.op = "push" /\ x.on = currentDb[caller']}}

Deliver(fs, c, v) ==
  /\ frames' = IF IsScript(fs) THEN Seen(fs, c, currentDb[caller'], ToLua(v), Called(c)) ELSE fs
  /\ reply' = IF fs = <<>> THEN v ELSE None

(* Mutant: an exception in a script ends the EXEC around it as well.       *)
AbortAll(fs) == frames' = <<>> /\ reply' = None

(* An exception ends the scripts it passes through.  EXEC runs each of its *)
(* commands in a function of its own that is async, and goes on.           *)
Abort(fs) ==
  /\ frames' = LET execs == {i \in DOMAIN fs : fs[i].kind = "exec"} IN
               SubSeq(fs, 1, CHOOSE n \in {0} \cup execs : \A i \in execs : i <= n)
  /\ reply' = None

Deep(fs) == Len(fs) >= MaxDepth

Ran(c) == log' = [log EXCEPT !.made = IF c.id > @ THEN c.id ELSE @, !.ran = Append(@, c.id)]
Made(c) == log' = [log EXCEPT !.made = c.id]

(***************************************************************************)
(* The bare commands, on the database that they are given.                 *)
(***************************************************************************)

(* Those who wait take elements, or find none or too many to take all, or  *)
(* one of them throws and ends the push.                                   *)
Push(c, d, fs) ==
  /\ c.op = "push"
  /\ \E taken \in SUBSET Called(c) :
       store' = [e \in Dbs |-> IF e \in taken THEN Nil ELSE IF e = d THEN Bulk(c.text) ELSE store[e]]
  /\ Deliver(fs, c, Ok) \/ (Called(c) # {} /\ Abort(fs))
  /\ UNCHANGED waiters

Wait(c, d, fs) ==
  /\ c.op = "wait"
  /\ IF store[d] # Nil THEN store' = [store EXCEPT ![d] = Nil] /\ UNCHANGED waiters
     ELSE waiters' = waiters \cup {[on |-> currentDb[caller'], db |-> d]} /\ UNCHANGED store
  /\ IF IsScript(fs) THEN Abort(fs) ELSE frames' = fs /\ reply' = None

DataCommand(c, d, fs) ==
  /\ \/ /\ \/ c.op = "write" /\ store' = [store EXCEPT ![d] = Bulk(c.text)] /\ Deliver(fs, c, Ok)
           \/ c.op = "read" /\ UNCHANGED store /\ Deliver(fs, c, store[d])
           \/ c.op = "throw" /\ UNCHANGED store /\ Abort(fs)
        /\ UNCHANGED waiters
     \/ Push(c, d, fs)
     \/ Wait(c, d, fs)
  /\ UNCHANGED <<scripts, session>>

SelectCommand(s, c, fs) ==
  /\ c.op = "select"
  /\ currentDb' = [currentDb EXCEPT ![s] = c.db]
  /\ Deliver(fs, c, Ok)
  /\ UNCHANGED <<store, scripts, waiters, commands, errored>>

(* EVAL puts its code into the cache before it looks at the key count.     *)
ScriptStep(c, fs) ==
  /\ \/ /\ c.op = "eval"
        /\ scripts' = scripts \cup ({c.code} \ {Unparsable})
        /\ IF c.code = Unparsable \/ ~c.counted THEN Deliver(fs, c, Error)
           ELSE ~Deep(fs) /\ frames' = Append(fs, Frame("script", 0, <<>>)) /\ reply' = None
     \/ /\ c.op = "evalsha"
        /\ IF c.code \notin scripts \ {Blank} \/ ~c.counted THEN Deliver(fs, c, Error)
           ELSE ~Deep(fs) /\ frames' = Append(fs, Frame("script", 0, <<>>)) /\ reply' = None
        /\ UNCHANGED scripts
     \/ /\ c.op = "load"
        /\ scripts' = scripts \cup ({c.code} \ {Unparsable})
        /\ Deliver(fs, c, IF c.code = Unparsable THEN Error ELSE Bulk("sha"))
     \/ c.op = "exists" /\ Deliver(fs, c, Array(<<Flag(c.code \in scripts \ {Blank})>>))
        /\ UNCHANGED scripts
     \/ c.op = "flush" /\ scripts' = {} /\ Deliver(fs, c, Ok)
     \/ c.op = "FLUSH" /\ Deliver(fs, c, Error) /\ UNCHANGED scripts
  /\ UNCHANGED <<store, waiters, session>>

Bare(s, c, d, fs) ==
  /\ DataCommand(c, d, fs) \/ SelectCommand(s, c, fs) \/ ScriptStep(c, fs)
  /\ Ran(c)

(***************************************************************************)
(* CommandWrapper.execSync, for a client or for redis.call.                *)
(***************************************************************************)
Refuse(s, c, fs) ==
  /\ c.op = "refuse"
  /\ errored' = IF InTransaction(s) THEN [errored EXCEPT ![s] = TRUE] ELSE errored
  /\ Deliver(fs, c, Error) /\ Made(c)
  /\ UNCHANGED <<store, scripts, waiters, currentDb, commands>>

Deferred(op) == op \notin {"multi", "exec", "discard", "refuse"}

Defer(s, c, fs) ==
  /\ InTransaction(s) /\ Deferred(c.op)
  /\ commands' = [commands EXCEPT ![s] = Append(@, c)]
  /\ Deliver(fs, c, Queued) /\ Made(c)
  /\ UNCHANGED <<store, scripts, waiters, currentDb, errored>>

Multi(s, c, fs) ==
  /\ c.op = "multi"
  /\ IF InTransaction(s) THEN Deliver(fs, c, Error) /\ UNCHANGED <<commands, errored>>
     ELSE /\ commands' = [commands EXCEPT ![s] = <<>>]
          /\ errored' = [errored EXCEPT ![s] = FALSE]
          /\ Deliver(fs, c, Ok)
  /\ Made(c)
  /\ UNCHANGED <<store, scripts, waiters, currentDb>>

Discard(s, c, fs) ==
  /\ c.op = "discard"
  /\ Deliver(fs, c, IF InTransaction(s) THEN Ok ELSE Error)
  /\ commands' = [commands EXCEPT ![s] = NoQueue]
  /\ errored' = IF InTransaction(s) THEN [errored EXCEPT ![s] = FALSE] ELSE errored
  /\ Made(c)
  /\ UNCHANGED <<store, scripts, waiters, currentDb>>

Exec(s, c, fs) ==
  /\ c.op = "exec"
  /\ IF ~InTransaction(s) \/ errored[s]
     THEN /\ Deliver(fs, c, Error)
          /\ errored' = IF InTransaction(s) THEN [errored EXCEPT ![s] = FALSE] ELSE errored
          /\ Made(c)
     ELSE /\ ~Deep(fs)
          /\ frames' = Append(fs, Frame("exec", currentDb[s], commands[s]))
          /\ reply' = None
          /\ log' = [log EXCEPT !.made = c.id, !.promised = @ \cup {q.id : q \in Range(commands[s])}]
          /\ UNCHANGED errored
  /\ commands' = [commands EXCEPT ![s] = NoQueue]
  /\ UNCHANGED <<store, scripts, waiters, currentDb>>

(* Mutant: redis.call looks up the commands without their wrappers.        *)
WrapperForClients(s, c, fs) ==
  IF IsScript(fs) /\ Deferred(c.op) THEN Bare(s, c, currentDb[s], fs)
  ELSE \/ Refuse(s, c, fs) \/ Defer(s, c, fs)
       \/ ~InTransaction(s) /\ Bare(s, c, currentDb[s], fs)
       \/ Multi(s, c, fs) \/ Discard(s, c, fs) \/ Exec(s, c, fs)

Wrapper(s, c, fs) ==
  \/ Refuse(s, c, fs)
  \/ Defer(s, c, fs)
  \/ ~InTransaction(s) /\ Bare(s, c, currentDb[s], fs)
  \/ Multi(s, c, fs) \/ Discard(s, c, fs) \/ Exec(s, c, fs)

(***************************************************************************)
(* The actions.                                                            *)
(***************************************************************************)

(* Any command that is not made yet.                                       *)
NewCommands ==
  {c \in [id : {log.made + 1}, op : Ops, text : Texts \cup {""}, db : Dbs,
          code : Codes, counted : BOOLEAN] :
     /\ c.op \in {"write", "push"} \/ c.text = ""
     /\ c.op = "select" \/ c.db = 0
     /\ c.op \in {"eval", "evalsha", "load", "exists"} \/ c.code = Blank
     /\ c.op \in {"eval", "evalsha"} \/ c.counted}

(* Mutant: other sockets are read while a script waits for its call.       *)
HandleBetween(s) ==
  /\ log.made < MaxSteps
  /\ frames = <<>> \/ (IsScript(frames) /\ s # caller)
  /\ caller' = s
  /\ \E c \in NewCommands :
       IF frames = <<>> THEN Wrapper(s, c, <<>>)
       ELSE /\ c.op = "write"
            /\ store' = [store EXCEPT ![currentDb[s]] = Bulk(c.text)]
            /\ Ran(c) /\ UNCHANGED <<scripts, waiters, session, frames, reply>>

(* RespServer.receive, when nothing else runs.                             *)
Handle(s) ==
  /\ log.made < MaxSteps
  /\ frames = <<>>
  /\ caller' = s
  /\ \E c \in NewCommands : Wrapper(s, c, <<>>)

(* redis.call.                                                             *)
Call ==
  /\ log.made < MaxSteps
  /\ IsScript(frames)
  /\ UNCHANGED caller
  /\ \E c \in NewCommands : Wrapper(caller, c, frames)

(* The script ends, and returns nothing, its last value or all of them.    *)
ScriptReturn ==
  /\ IsScript(frames)
  /\ LET values == [i \in DOMAIN Last(frames).seen |-> Last(frames).seen[i].value]
         call == [op |-> "eval", text |-> ""]
     IN \E n \in {0, 1, Len(values)} :
          /\ n <= Len(values)
          /\ UNCHANGED caller
          /\ Deliver(Front(frames), call, FromLua(SubSeq(values, Len(values) - n + 1, Len(values))))
  /\ UNCHANGED <<store, scripts, waiters, session, log>>

(* The next command of the queue, without its wrapper.                     *)
ExecStep ==
  /\ frames # <<>> /\ Last(frames).kind = "exec" /\ Last(frames).todo # <<>>
  /\ UNCHANGED caller
  /\ LET exec == Last(frames) IN
     Bare(caller, Head(exec.todo), exec.db, [frames EXCEPT ![Len(frames)].todo = Tail(@)])

(* The tokens are pushed into the array later: a script finds it empty.    *)
ExecReturn ==
  /\ frames # <<>> /\ Last(frames).kind = "exec" /\ Last(frames).todo = <<>>
  /\ UNCHANGED caller
  /\ Deliver(Front(frames), [op |-> "exec", text |-> ""], Array(<<>>))
  /\ UNCHANGED <<store, scripts, waiters, session, log>>

(* A timer fires: one who waits has its answer, and its listeners go.      *)
Timeout ==
  /\ frames = <<>>
  /\ \E w \in waiters : waiters' = waiters \ {w}
  /\ UNCHANGED <<store, scripts, session, caller, frames, reply, log>>

Init ==
  /\ store = [d \in Dbs |-> Nil]
  /\ scripts = {}
  /\ currentDb = [s \in Sessions |-> 0]
  /\ commands = [s \in Sessions |-> NoQueue]
  /\ errored = [s \in Sessions |-> FALSE]
  /\ caller \in Sessions
  /\ frames = <<>>
  /\ waiters = {}
  /\ reply = None
  /\ log = [made |-> 0, ran |-> <<>>, promised |-> {}]

Next == (\E s \in Sessions : Handle(s)) \/ Call \/ ScriptReturn \/ ExecStep \/ ExecReturn
        \/ Timeout

Spec == Init /\ [][Next]_vars
-----------------------------------------------------------------------------
(* Nothing depends on the last reply.                                      *)
StateView == <<store, scripts, session, caller, frames, waiters, log>>

(* A script or an EXEC that is running.  Replies nest to any depth, so     *)
(* that the frames are no set.                                             *)
IsFrame(f) ==
  /\ f = [kind |-> f.kind, db |-> f.db, todo |-> f.todo, seen |-> f.seen]
  /\ f.db \in Dbs /\ f.todo \in Seq(Commands) /\ f.seen \in Seq(Range(f.seen))
  /\ \/ f.kind = "script" /\ f.todo = <<>>
     \/ f.kind = "exec" /\ f.seen = <<>>

IsStack(fs) == fs \in Seq(Range(fs)) /\ \A p \in DOMAIN fs : IsFrame(fs[p])

(* Every variable is of its type.                                          *)
TypeOK ==
  /\ store \in [Dbs -> {Nil} \cup {Bulk(t) : t \in Texts \cup {"", "word"}}]
  /\ scripts \subseteq Codes \ {Unparsable}
  /\ currentDb \in [Sessions -> Dbs]
  /\ commands \in [Sessions -> Seq(Commands) \cup {NoQueue}]
  /\ errored \in [Sessions -> BOOLEAN]
  /\ caller \in Sessions
  /\ IsStack(frames)
  /\ waiters \subseteq [on : Dbs, db : Dbs]
  /\ log \in Log

Frames == {f \in Range(frames) : f.kind = "script"}

(* What a script reads is what it has written or pushed last to that       *)
(* database, as far as Lua can tell: no request of another client comes in *)
(* between its calls (ScriptCommand.executeLua, LuaRedisLib,               *)
(* RespServer.receive).  Those who wait for an element do come in, but     *)
(* only when the script pushes one that they wait for; and an EXEC or a    *)
(* script within the script may have written since.                        *)
ScriptsReadTheirWrites ==
  \A f \in Frames : \A i, j \in DOMAIN f.seen :
    LET wrote == f.seen[i]
        read == f.seen[j]
        since == {f.seen[n].op : n \in (i + 1)..(j - 1)}
    IN (/\ i < j /\ wrote.op \in {"write", "push"} /\ read.op = "read" /\ wrote.db = read.db
        /\ Queued \notin {wrote.value, read.value}
        /\ since \cap {"write", "push", "exec", "eval", "evalsha"} = {}
        /\ wrote.db \notin wrote.called)
       => read.value = ToLua(Bulk(wrote.text))

(* The calls of a script whose session is in a transaction do not touch    *)
(* the data before EXEC does, whoever opened the transaction (LuaRedisLib, *)
(* CommandWrapper.execSync).                                               *)
ScriptsRespectTransactions ==
  [][store' # store =>
       \/ ~InTransaction(caller')
       \/ \E i \in DOMAIN frames : frames[i].kind = "exec"]_vars

(* What EXEC has taken from the queue has run once by the time the loop is *)
(* at rest, also behind a script or another command that threw, and also   *)
(* when it is a script that called EXEC (ExecCommand, LuaRedisLib).        *)
ExecRunsItsQueue ==
  /\ TypeOK
  /\ IsInjective(log.ran)
  /\ frames = <<>> => log.promised \subseteq Range(log.ran)
=============================================================================
