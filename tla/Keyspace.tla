------------------------------ MODULE Keyspace ------------------------------
(***************************************************************************)
(* The key commands, string commands and database commands of              *)
(* unit-redis-ness over the databases of one server context.  A command's  *)
(* handler runs to its end without an await, so a command is one step.     *)
(*                                                                         *)
(* A session that gets no reply because its handler throws has the answer  *)
(* NoReply: the async callback of RespServer.receive rejects and nothing   *)
(* is published.  The host decides whether the rejection ends the process; *)
(* the model lets the server live on, which covers both.                   *)
(***************************************************************************)
EXTENDS Database

CONSTANTS
  Indices,     \* inputs: the numbers of databases, counted in parts
  Parts,       \* how many parts make one: with 2, the index 3 is 1.5
  DbCount,     \* 16 in the code
  Sessions,    \* the connected clients
  Epoch,       \* Date.now() when the server starts
  MaxNow,      \* bound: the clock stops here
  Ttls,        \* inputs: relative times, some of them below 1
  Second,      \* 1000 in the code: what EXPIRE and EX multiply by
  MaxSafe,     \* Number.MAX_SAFE_INTEGER
  Increments,  \* inputs of INCRBY and DECRBY
  Values,      \* inputs: the strings clients store
  NoSession    \* the session of the answer before the first command

ASSUME IndexAssumption == Indices \subseteq Int /\ 0 \in Indices /\ IsFiniteSet(Indices)
ASSUME DbAssumption == Parts \in Nat \ {0} /\ DbCount \in Nat \ {0}
ASSUME ClockAssumption == Epoch \in Nat /\ MaxNow \in Nat /\ 0 < Epoch /\ Epoch <= MaxNow
ASSUME NumbersAssumption == Second \in Nat \ {0} /\ MaxSafe \in Nat \ {0}
ASSUME InputsAssumption == /\ Ttls \subseteq Int
                           /\ Increments \subseteq Strings
                           /\ Values \subseteq Strings
ASSUME SessionAssumption == NoSession \notin Sessions

(* The clock starts at an Epoch beyond every relative time a client asks   *)
(* for: a remaining time that is mistaken for an absolute one is past.     *)
ASSUME EpochAssumption == \A t \in Ttls : t * Second < Epoch

(* SELECT takes every number above -1 and below 16, MOVE every one from 0  *)
(* to 15: -0.5 and 15.5 can be selected and not moved to, and 1.5 is as    *)
(* good as 1.  A database is made when it is first asked for.              *)
Selectable(id) == -Parts < id /\ id < DbCount * Parts
Reachable(target) == 0 <= target /\ target <= (DbCount - 1) * Parts

Dbs == {id \in Indices : Selectable(id)}

(* The databases that FLUSHALL counts through.                             *)
Numbered == {i * Parts : i \in 0..(DbCount - 1)}

VARIABLES
  dbs,        \* [Dbs -> Databases]
  now,        \* new Date().getTime()
  currentDb,  \* [Sessions -> Dbs]
  answer      \* the last command answered: session, command, reply

vars == <<dbs, now, currentDb, answer>>

Ok == <<"status">>
Nil == <<"nil">>
Error == <<"error">>
NoReply == <<"none">>
Integer(n) == <<"integer", n>>
Bulk(v) == <<"string", v>>
Array(a) == <<"array", a>>
Flag(b) == Integer(IF b THEN 1 ELSE 0)

Db(s) == dbs[currentDb[s]]

Lookup(s, k) == Get(Db(s), k, now)

Answer(s, command, reply) ==
  answer' = [session |-> s, command |-> command, reply |-> reply]

(* Mutant: every session works on database 0.                              *)
LeaveFirstDb(s, db, command, reply) ==
  /\ dbs' = [dbs EXCEPT ![0] = db]
  /\ Answer(s, command, reply)
  /\ UNCHANGED <<now, currentDb>>

(* A command that leaves its own database as db.                           *)
Leave(s, db, command, reply) ==
  /\ dbs' = [dbs EXCEPT ![currentDb[s]] = db]
  /\ Answer(s, command, reply)
  /\ UNCHANGED <<now, currentDb>>

(* A command whose only effect is what its get removed.                    *)
LeaveSwept(s, k, command, reply) == Leave(s, Sweep(Db(s), k, now), command, reply)

(* A command that is turned down before it looks at the database.          *)
Refuse(s, command) == Leave(s, Db(s), command, Error)

(***************************************************************************)
(* String commands.                                                        *)
(***************************************************************************)

(* SET key value [PX ttl | EX ttl] [NX | XX].  OK means that what the      *)
(* dictionary returned prints like the new value.  The unit is 1 for PX.   *)
Saved(s, k, item, condition) ==
  IF condition = "XX" /\ Lookup(s, k) = Absent THEN Absent
  ELSE IF condition = "NX" /\ Lookup(s, k) # Absent THEN Lookup(s, k)
  ELSE item

AfterSet(s, k, item, condition) ==
  IF condition = "XX" THEN PutIfPresent(Db(s), k, item, now)
  ELSE IF condition = "NX" THEN PutIfAbsent(Db(s), k, item, now)
  ELSE Put(Db(s), k, item)

Deadline(ttl, unit) == IF ttl = Undefined THEN Undefined ELSE now + ttl * unit

SetName(condition) ==
  CASE condition = "XX" -> "set xx"
    [] condition = "NX" -> "set nx"
    [] condition = "always" -> "set"

SetCommand(s, k, v, ttl, unit, condition) ==
  IF ttl # Undefined /\ ttl < 1
  THEN Refuse(s, SetName(condition))
  ELSE LET item == StringItem(v, Deadline(ttl, unit)) IN
       Leave(s, AfterSet(s, k, item, condition), SetName(condition),
             IF Saved(s, k, item, condition) = item THEN Ok ELSE Nil)

(* GET answers with the item itself.  A string serializes as a string, any *)
(* other type falls through to the error branch of the serializer.         *)
GetCommand(s, k) ==
  LET item == Lookup(s, k) IN
  LeaveSwept(s, k, "get",
             IF item = Absent THEN Nil
             ELSE IF item.type = "string" THEN Bulk(item.value) ELSE Error)

(* GETSET throws on a list after its get, before its put.                  *)
GetSetCommand(s, k, v) ==
  LET item == Lookup(s, k) IN
  IF item # Absent /\ item.type # "string"
  THEN LeaveSwept(s, k, "getset", NoReply)
  ELSE Leave(s, Put(Db(s), k, StringItem(v, Undefined)), "getset",
             IF item = Absent THEN Nil ELSE Bulk(item.value))

SetNxCommand(s, k, v) ==
  IF Lookup(s, k) # Absent
  THEN LeaveSwept(s, k, "setnx", Flag(FALSE))
  ELSE Leave(s, Put(Db(s), k, StringItem(v, Undefined)), "setnx", Flag(TRUE))

(* MSET of the keys of f; an odd number of parameters is refused.          *)
MsetCommand(s, f, odd) ==
  IF odd THEN Refuse(s, "mset")
  ELSE Leave(s, [k \in Keys |-> IF k \in DOMAIN f THEN StringItem(f[k], Undefined)
                                ELSE Db(s)[k]],
             "mset", Ok)

(* MGET answers nil for a missing key and for a key of another type.       *)
MGetCommand(s, K) ==
  Leave(s, [k \in Keys |-> IF k \in K THEN Lookup(s, k) ELSE Db(s)[k]], "mget",
        Array([k \in K |->
                 IF Lookup(s, k) # Absent /\ Lookup(s, k).type = "string"
                 THEN Bulk(Lookup(s, k).value) ELSE Nil]))

(* Mutant: the remaining time is added to the deadline.                    *)
LeftoverAdded(item) ==
  IF TimeToLive(item, now) = -1 THEN Undefined ELSE item.expiredAt + TimeToLive(item, now)

(* What INCR and INCRBY store as the new expiredAt: the remaining time.    *)
LeftoverDeadline(item) ==
  IF TimeToLive(item, now) = -1 THEN Undefined ELSE TimeToLive(item, now)

(* INCR (sign 1) and DECR (sign -1).  NaN fails the range check.           *)
IncrCommand(s, k, sign) ==
  LET item == Lookup(s, k) IN
  IF item = Absent
  THEN Leave(s, Put(Db(s), k, StringItem(sign, Undefined)), "incr", Integer(sign))
  ELSE IF item.type # "string"
  THEN LeaveSwept(s, k, "incr", NoReply)
  ELSE IF item.value = Text \/ item.value >= MaxSafe \/ item.value <= -MaxSafe
  THEN LeaveSwept(s, k, "incr", Error)
  ELSE Leave(s, Put(Db(s), k, StringItem(item.value + sign, LeftoverDeadline(item))),
             "incr", Integer(item.value + sign))

(* INCRBY, DECRBY.  The range check adds the increment whatever the sign;  *)
(* an absent key takes any increment, NaN included.                        *)
IncrByCommand(s, k, sign, increment) ==
  LET item == Lookup(s, k)
      signed == IF increment = Text THEN Text ELSE sign * increment
  IN
  IF item = Absent
  THEN Leave(s, Put(Db(s), k, StringItem(signed, Undefined)), "incrby", Integer(signed))
  ELSE IF item.type # "string"
  THEN LeaveSwept(s, k, "incrby", NoReply)
  ELSE IF \/ item.value = Text \/ increment = Text
          \/ item.value + increment > MaxSafe
          \/ item.value + increment < -MaxSafe
  THEN LeaveSwept(s, k, "incrby", Error)
  ELSE Leave(s, Put(Db(s), k, StringItem(item.value + signed, LeftoverDeadline(item))),
             "incrby", Integer(item.value + signed))

(* LPUSH and RPUSH as the keyspace sees them: the key gets or keeps a      *)
(* list, and keeps its deadline, because the item is changed in place.     *)
PushCommand(s, k) ==
  LET item == Lookup(s, k) IN
  IF item # Absent /\ item.type # "list"
  THEN LeaveSwept(s, k, "push", NoReply)
  ELSE Leave(s, IF item = Absent THEN Put(Db(s), k, ListItem) ELSE Db(s),
             "push", Integer(1))

(***************************************************************************)
(* Key commands.                                                           *)
(***************************************************************************)

(* DEL removes from the dictionary without a get: an expired item counts.  *)
DelCommand(s, K) ==
  Leave(s, [k \in Keys |-> IF k \in K THEN Absent ELSE Db(s)[k]], "del",
        Integer(Cardinality(K \cap Present(Db(s)))))

ExistsCommand(s, K) ==
  Leave(s, [k \in Keys |-> IF k \in K THEN Lookup(s, k) ELSE Db(s)[k]], "exists",
        Integer(Cardinality({k \in K : Lookup(s, k) # Absent})))

TypeCommand(s, k) ==
  LeaveSwept(s, k, "type",
             Bulk(IF Lookup(s, k) = Absent THEN "none" ELSE Lookup(s, k).type))

(* EXPIRE (unit Second) and PEXPIRE (unit 1).                              *)
ExpireCommand(s, k, ttl, unit) ==
  LET item == Lookup(s, k) IN
  IF item = Absent THEN LeaveSwept(s, k, "expire", Flag(FALSE))
  ELSE IF ttl = Text THEN LeaveSwept(s, k, "expire", Error)
  ELSE Leave(s, Put(Db(s), k, [item EXCEPT !.expiredAt =
                                 IF ttl < 1 THEN -1 ELSE now + ttl * unit]),
             "expire", Flag(TRUE))

TtlCommand(s, k) ==
  LET item == Lookup(s, k) IN
  LeaveSwept(s, k, "ttl",
             IF item = Absent THEN Integer(-2)
             ELSE IF TimeToLive(item, now) = -1 THEN Integer(-1)
             ELSE Integer(TimeToLive(item, now) \div Second))

RenameCommand(s, from, to) ==
  IF Lookup(s, from) = Absent
  THEN LeaveSwept(s, from, "rename", Error)
  ELSE Leave(s, RenameItem(Db(s), from, to), "rename", Ok)

RenameNxCommand(s, from, to) ==
  IF Lookup(s, from) = Absent
  THEN LeaveSwept(s, from, "renamenx", Error)
  ELSE IF Lookup(s, to) # Absent
  THEN Leave(s, Db(s), "renamenx", Flag(FALSE))
  ELSE Leave(s, RenameItem(Sweep(Db(s), to, now), from, to), "renamenx", Flag(TRUE))

(* Mutant: the key stays behind in the source.                             *)
CopyCommand(s, k, target) ==
  IF target = Text \/ ~Reachable(target) \/ target = currentDb[s] THEN Refuse(s, "move")
  ELSE IF Lookup(s, k) = Absent THEN LeaveSwept(s, k, "move", Flag(FALSE))
  ELSE IF Get(dbs[target], k, now) # Absent THEN Leave(s, Db(s), "move", Flag(FALSE))
  ELSE /\ dbs' = [dbs EXCEPT ![target] = Put(@, k, Db(s)[k])]
       /\ Answer(s, "move", Flag(TRUE))
       /\ UNCHANGED <<now, currentDb>>

(* MOVE reads the key of the source, then, when there is one, the key of   *)
(* the target.                                                             *)
MoveCommand(s, k, target) ==
  IF target = Text \/ ~Reachable(target) \/ target = currentDb[s] THEN Refuse(s, "move")
  ELSE IF Lookup(s, k) = Absent THEN LeaveSwept(s, k, "move", Flag(FALSE))
  ELSE IF Get(dbs[target], k, now) # Absent THEN Leave(s, Db(s), "move", Flag(FALSE))
  ELSE /\ dbs' = [dbs EXCEPT ![target] = Put(@, k, Db(s)[k]),
                             ![currentDb[s]] = Remove(@, k)]
       /\ Answer(s, "move", Flag(TRUE))
       /\ UNCHANGED <<now, currentDb>>

KeysCommand(s, K) == Leave(s, Db(s), "keys", Array(K \cap Present(Db(s))))

RandomKeyCommand(s) ==
  \/ /\ Present(Db(s)) = {}
     /\ Leave(s, Db(s), "randomkey", Nil)
  \/ \E k \in Present(Db(s)) : Leave(s, Db(s), "randomkey", Bulk(k))

(***************************************************************************)
(* Database commands.                                                      *)
(***************************************************************************)

(* Mutant: the index is not checked.                                       *)
SelectAnything(s, id) ==
  /\ currentDb' = [currentDb EXCEPT ![s] = id]
  /\ Answer(s, "select", Ok)
  /\ UNCHANGED <<dbs, now>>

SelectCommand(s, id) ==
  IF id = Text \/ ~Selectable(id) THEN Refuse(s, "select")
  ELSE /\ currentDb' = [currentDb EXCEPT ![s] = id]
       /\ Answer(s, "select", Ok)
       /\ UNCHANGED <<dbs, now>>

DbSizeCommand(s) ==
  Leave(s, Db(s), "dbsize", Integer(Cardinality(Present(Db(s)))))

FlushDbCommand(s) == Leave(s, EmptyDatabase, "flushdb", Ok)

FlushAllCommand(s) ==
  /\ dbs' = [d \in Dbs |-> IF d \in Numbered THEN EmptyDatabase ELSE dbs[d]]
  /\ Answer(s, "flushall", Ok)
  /\ UNCHANGED <<now, currentDb>>

(* Time passes between commands, never inside one.                         *)
Tick ==
  /\ now < MaxNow
  /\ now' = now + 1
  /\ UNCHANGED <<dbs, currentDb, answer>>

Init ==
  /\ dbs = [d \in Dbs |-> EmptyDatabase]
  /\ now = Epoch
  /\ currentDb = [s \in Sessions |-> 0]
  /\ answer = [session |-> NoSession, command |-> "none", reply |-> NoReply]

StringCommand(s) ==
  \/ \E k \in Keys, v \in Values, t \in Ttls \cup {Undefined}, u \in {1, Second},
        c \in {"always", "NX", "XX"} : SetCommand(s, k, v, t, u, c)
  \/ \E k \in Keys : GetCommand(s, k)
  \/ \E k \in Keys, v \in Values : GetSetCommand(s, k, v)
  \/ \E k \in Keys, v \in Values : SetNxCommand(s, k, v)
  \/ \E K \in (SUBSET Keys) \ {{}} : \E f \in [K -> Values], odd \in BOOLEAN :
       MsetCommand(s, f, odd)
  \/ \E K \in (SUBSET Keys) \ {{}} : MGetCommand(s, K)
  \/ \E k \in Keys, sign \in {1, -1} : IncrCommand(s, k, sign)
  \/ \E k \in Keys, sign \in {1, -1}, n \in Increments : IncrByCommand(s, k, sign, n)
  \/ \E k \in Keys : PushCommand(s, k)

KeyCommand(s) ==
  \/ \E K \in (SUBSET Keys) \ {{}} : DelCommand(s, K)
  \/ \E K \in (SUBSET Keys) \ {{}} : ExistsCommand(s, K)
  \/ \E k \in Keys : TypeCommand(s, k)
  \/ \E k \in Keys, t \in Ttls \cup {Text}, u \in {1, Second} : ExpireCommand(s, k, t, u)
  \/ \E k \in Keys : TtlCommand(s, k)
  \/ \E from, to \in Keys : RenameCommand(s, from, to)
  \/ \E from, to \in Keys : RenameNxCommand(s, from, to)
  \/ \E k \in Keys, d \in Indices \cup {Text} : MoveCommand(s, k, d)
  \/ \E K \in SUBSET Keys : KeysCommand(s, K)
  \/ RandomKeyCommand(s)

DbCommand(s) ==
  \/ \E d \in Indices \cup {Text} : SelectCommand(s, d)
  \/ DbSizeCommand(s)
  \/ FlushDbCommand(s)
  \/ FlushAllCommand(s)

Next ==
  \/ Tick
  \/ \E s \in Sessions : StringCommand(s) \/ KeyCommand(s) \/ DbCommand(s)

Spec == Init /\ [][Next]_vars
-----------------------------------------------------------------------------
(* Every variable is of its type.                                          *)
TypeOK ==
  /\ dbs \in [Dbs -> Databases]
  /\ now \in Epoch..MaxNow
  /\ currentDb \in [Sessions -> Dbs]
  /\ answer.session \in Sessions \cup {NoSession}

(* The live item under key k of database d.                                *)
LiveItem(d, k) == Get(dbs[d], k, now)

LiveCells == {c \in Dbs \X Keys : LiveItem(c[1], c[2]) # Absent}

Persistent(item) == item.expiredAt \in {Undefined, 0}

NoLonger(new, old) ==
  Persistent(old) \/ (~Persistent(new) /\ new.expiredAt <= old.expiredAt)

(* The commands that say which deadline a key is to have, or none.         *)
SettingDeadlines == {"set", "set xx", "set nx", "getset", "setnx", "mset", "expire"}

(* What is alive under a key after the step was alive before, there or     *)
(* where it was moved from, and dies no later; or INCR or a push made it   *)
(* where nothing was alive; or INCR met it in the very millisecond of its  *)
(* deadline, of which the 0 that is left is none: see IncrKeepsDeadline.   *)
NotLengthened ==
  \A c \in LiveCells' :
    \/ \E b \in LiveCells : /\ NoLonger(LiveItem(c[1], c[2])', LiveItem(b[1], b[2]))
                            /\ b = c \/ answer'.command \in {"rename", "renamenx", "move"}
    \/ answer'.command \in {"incr", "incrby", "push"} /\ c \notin LiveCells
    \/ /\ answer'.command \in {"incr", "incrby"}
       /\ c \in LiveCells /\ LiveItem(c[1], c[2]).expiredAt = now

(* No other command lengthens a life (IncrCommand, IncrByCommand,          *)
(* RenameCommand, MoveCommand, Database.get).                              *)
LivesAreNotLengthened ==
  [][now' = now /\ answer'.command \notin SettingDeadlines => NotLengthened]_vars

(* RENAME, RENAMENX and MOVE change where an item is and nothing about it: *)
(* a live item afterwards was live before, deadline included, and no item  *)
(* comes to be in two places (RenameCommand, RenameNxCommand, MoveCommand).*)
ItemsMoveWhole ==
  [][answer'.command \in {"rename", "renamenx", "move"} =>
       /\ Cardinality(LiveCells') <= Cardinality(LiveCells)
       /\ \A c \in LiveCells' : \E b \in LiveCells :
            LiveItem(c[1], c[2])' = LiveItem(b[1], b[2])]_vars

(* A command works on the database its session has selected; only MOVE and *)
(* FLUSHALL reach into another (CommandWrapper.getCurrentDB).  While the   *)
(* clock stands, a step is a command of the session it answers.            *)
SessionsKeepToTheirDb ==
  [][now' = now /\ answer'.command \notin {"move", "flushall"} =>
       \A d \in Dbs \ {currentDb[answer'.session]} : dbs'[d] = dbs[d]]_vars

(***************************************************************************)
(* What the repository says and the code does not do.                      *)
(***************************************************************************)

(* expire-command.ts: incrementing leaves the timeout untouched.  INCR     *)
(* stores the remaining time as the absolute one, so that the key is gone  *)
(* with the next read, or, when nothing is left, is there for good.        *)
IncrKeepsDeadline ==
  [][now' = now /\ answer'.command \in {"incr", "incrby"} =>
       \A d \in Dbs, k \in Keys :
         LiveItem(d, k) # Absent =>
           /\ LiveItem(d, k)' # Absent
           /\ LiveItem(d, k)'.expiredAt = LiveItem(d, k).expiredAt]_vars

=============================================================================
