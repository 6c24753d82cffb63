---------------------------- MODULE ExpiringMap ----------------------------
(***************************************************************************)
(* What the keyspace promises its clients: maps from keys to items where   *)
(* an item is gone the moment its deadline has passed, and every command   *)
(* but four answers from the live items alone.  DEL, DBSIZE, KEYS and      *)
(* RANDOMKEY may also count or name keys whose item has just died.         *)
(*                                                                         *)
(* There is no dictionary here that keeps dead items and no get that       *)
(* cleans up: Keyspace, which has both, is shown to implement this module. *)
(***************************************************************************)
EXTENDS Integers, FiniteSets

CONSTANTS Keys, Absent, Undefined, Text, ListBody, Dbs, Numbered, Sessions, Epoch, Ttls,
          Second, Increments, Values, NoSession

VARIABLES
  view,       \* [Dbs -> [Keys -> live items and Absent]]
  now, currentDb, answer

vars == <<view, now, currentDb, answer>>

Empty == [k \in Keys |-> Absent]

String(v, deadline) == [type |-> "string", value |-> v, expiredAt |-> deadline]

EmptyList == [type |-> "list", value |-> ListBody, expiredAt |-> Undefined]

(* A deadline of 0 is no deadline.                                         *)
Dead(item, t) ==
  item # Absent /\ item.expiredAt \notin {Undefined, 0} /\ item.expiredAt < t

(* What time t leaves of the map m.                                        *)
Visible(m, t) == [k \in Keys |-> IF Dead(m[k], t) THEN Absent ELSE m[k]]

(* The time an item has left, -1 for ever.  A deadline cannot be behind an *)
(* item that is live.                                                      *)
Remaining(item) ==
  IF item.expiredAt = Undefined THEN -1
  ELSE IF item.expiredAt = 0 THEN 0 ELSE item.expiredAt - now

Map(s) == view[currentDb[s]]

Say(s, command, reply) ==
  /\ answer' = [session |-> s, command |-> command, reply |-> reply]
  /\ UNCHANGED <<now, currentDb>>

(* The session's map becomes m, less what is dead already.                 *)
Become(s, m, command, reply) ==
  /\ view' = [view EXCEPT ![currentDb[s]] = Visible(m, now)]
  /\ Say(s, command, reply)

Look(s, command, reply) == UNCHANGED view /\ Say(s, command, reply)

Refused(s, command) == Look(s, command, <<"error">>)

Live(m) == {k \in Keys : m[k] # Absent}

Number(b) == <<"integer", IF b THEN 1 ELSE 0>>

IsString(item) == item # Absent /\ item.type = "string"

(* Strings: a write replaces the item, or finds its condition false.       *)
Set(s, k, v, ttl, unit, condition) ==
  LET item == String(v, IF ttl = Undefined THEN Undefined ELSE now + ttl * unit)
      allowed == CASE condition = "XX" -> Map(s)[k] # Absent
                   [] condition = "NX" -> Map(s)[k] = Absent
                   [] condition = "always" -> TRUE
      name == CASE condition = "XX" -> "set xx" [] condition = "NX" -> "set nx"
                [] condition = "always" -> "set"
  IN IF allowed THEN Become(s, [Map(s) EXCEPT ![k] = item], name, <<"status">>)
     ELSE Look(s, name, IF Map(s)[k] = item THEN <<"status">> ELSE <<"nil">>)

GetSet(s, k, v) ==
  IF Map(s)[k] = Absent \/ IsString(Map(s)[k])
  THEN Become(s, [Map(s) EXCEPT ![k] = String(v, Undefined)], "getset",
              IF Map(s)[k] = Absent THEN <<"nil">> ELSE <<"string", Map(s)[k].value>>)
  ELSE Look(s, "getset", <<"none">>)

SetNx(s, k, v) ==
  IF Map(s)[k] = Absent
  THEN Become(s, [Map(s) EXCEPT ![k] = String(v, Undefined)], "setnx", Number(TRUE))
  ELSE Look(s, "setnx", Number(FALSE))

Mset(s, f) ==
  Become(s, [k \in Keys |-> IF k \in DOMAIN f THEN String(f[k], Undefined)
                            ELSE Map(s)[k]], "mset", <<"status">>)

(* Counters.  The item with a deadline gets the remaining time as its new  *)
(* deadline, which kills it at once: all the code promises for a volatile  *)
(* counter is the reply.                                                   *)
Count(s, k, command, n) ==
  LET item == Map(s)[k] IN
  IF item = Absent
  THEN Become(s, [Map(s) EXCEPT ![k] = String(n, Undefined)], command, <<"integer", n>>)
  ELSE IF ~IsString(item) THEN Look(s, command, <<"none">>)
  ELSE \/ Refused(s, command)
       \/ /\ item.value # Text /\ n # Text
          /\ Become(s, [Map(s) EXCEPT ![k] = String(item.value + n,
                         IF Remaining(item) = -1 THEN Undefined ELSE Remaining(item))],
                    command, <<"integer", item.value + n>>)

Push(s, k) ==
  IF IsString(Map(s)[k]) THEN Look(s, "push", <<"none">>)
  ELSE Become(s, [Map(s) EXCEPT ![k] = IF Map(s)[k] = Absent THEN EmptyList ELSE Map(s)[k]],
              "push", <<"integer", 1>>)

(* Reads.                                                                  *)
Read(s, k) ==
  LET item == Map(s)[k] IN
  \/ Look(s, "get", IF item = Absent THEN <<"nil">>
                    ELSE IF IsString(item) THEN <<"string", item.value>> ELSE <<"error">>)
  \/ Look(s, "type", <<"string", IF item = Absent THEN "none" ELSE item.type>>)
  \/ Look(s, "ttl", <<"integer",
       IF item = Absent THEN -2 ELSE IF Remaining(item) = -1 THEN -1
       ELSE Remaining(item) \div Second>>)

ReadMany(s, K) ==
  \/ Look(s, "exists", <<"integer", Cardinality(K \cap Live(Map(s)))>>)
  \/ Look(s, "mget", <<"array", [k \in K |->
       IF IsString(Map(s)[k]) THEN <<"string", Map(s)[k].value>> ELSE <<"nil">>]>>)

(* The answers that may take a dead key for a live one.                    *)
Census(s) ==
  \/ \E n \in Cardinality(Live(Map(s))) .. Cardinality(Keys) : Look(s, "dbsize", <<"integer", n>>)
  \/ \E K, D \in SUBSET Keys : Look(s, "keys", <<"array", (K \cap Live(Map(s))) \cup (K \cap D)>>)
  \/ \E k \in Keys : Look(s, "randomkey", <<"string", k>>)
  \/ Live(Map(s)) = {} /\ Look(s, "randomkey", <<"nil">>)

Del(s, K) ==
  \E n \in Cardinality(K \cap Live(Map(s))) .. Cardinality(K) :
    Become(s, [k \in Keys |-> IF k \in K THEN Absent ELSE Map(s)[k]], "del", <<"integer", n>>)

Expire(s, k, ttl, unit) ==
  IF Map(s)[k] = Absent THEN Look(s, "expire", Number(FALSE))
  ELSE IF ttl = Text THEN Refused(s, "expire")
  ELSE Become(s, IF ttl < 1 THEN [Map(s) EXCEPT ![k] = Absent]
                 ELSE [Map(s) EXCEPT ![k].expiredAt = now + ttl * unit],
              "expire", Number(TRUE))

Renamed(m, from, to) == [[m EXCEPT ![from] = Absent] EXCEPT ![to] = m[from]]

(* An item changes its name or its database and stays what it was.         *)
Rename(s, from, to) ==
  IF Map(s)[from] = Absent THEN Refused(s, "rename")
  ELSE Become(s, Renamed(Map(s), from, to), "rename", <<"status">>)

RenameNx(s, from, to) ==
  IF Map(s)[from] = Absent THEN Refused(s, "renamenx")
  ELSE IF Map(s)[to] # Absent THEN Look(s, "renamenx", Number(FALSE))
  ELSE Become(s, Renamed(Map(s), from, to), "renamenx", Number(TRUE))

Move(s, k, target) ==
  IF Map(s)[k] = Absent \/ view[target][k] # Absent
  THEN Look(s, "move", Number(FALSE))
  ELSE /\ view' = [view EXCEPT ![target] = [@ EXCEPT ![k] = Map(s)[k]],
                               ![currentDb[s]] = [@ EXCEPT ![k] = Absent]]
       /\ Say(s, "move", Number(TRUE))

Flush(s) ==
  \/ Become(s, Empty, "flushdb", <<"status">>)
  \/ /\ view' = [d \in Dbs |-> IF d \in Numbered THEN Empty ELSE view[d]]
     /\ Say(s, "flushall", <<"status">>)

Select(s, d) ==
  /\ currentDb' = [currentDb EXCEPT ![s] = d]
  /\ answer' = [session |-> s, command |-> "select", reply |-> <<"status">>]
  /\ UNCHANGED <<view, now>>

(* Time passes, and takes with it what has run out.                        *)
Tick ==
  /\ now' = now + 1
  /\ view' = [d \in Dbs |-> Visible(view[d], now')]
  /\ UNCHANGED <<currentDb, answer>>

Init ==
  /\ view = [d \in Dbs |-> Empty]
  /\ now = Epoch
  /\ currentDb = [s \in Sessions |-> 0]
  /\ answer = [session |-> NoSession, command |-> "none", reply |-> <<"none">>]

Command(s) ==
  \/ \E c \in {"set", "set nx", "set xx", "mset", "move", "select"} : Refused(s, c)
  \/ \E k \in Keys :
       \/ Read(s, k) \/ Push(s, k)
       \/ \E v \in Values : GetSet(s, k, v) \/ SetNx(s, k, v)
       \/ \E v \in Values, t \in {t \in Ttls : t >= 1} \cup {Undefined}, u \in {1, Second},
          c \in {"always", "NX", "XX"} : Set(s, k, v, t, u, c)
       \/ \E n \in {1, -1} : Count(s, k, "incr", n)
       \/ \E n \in Increments, sign \in {1, -1} :
            Count(s, k, "incrby", IF n = Text THEN Text ELSE sign * n)
       \/ \E t \in Ttls \cup {Text}, u \in {1, Second} : Expire(s, k, t, u)
       \/ \E to \in Keys : Rename(s, k, to) \/ RenameNx(s, k, to)
       \/ \E d \in Dbs \ {currentDb[s]} : Move(s, k, d)
  \/ \E K \in (SUBSET Keys) \ {{}} :
       ReadMany(s, K) \/ Del(s, K) \/ \E f \in [K -> Values] : Mset(s, f)
  \/ \E d \in Dbs : Select(s, d)
  \/ Census(s) \/ Flush(s)

Next == Tick \/ \E s \in Sessions : Command(s)

Spec == Init /\ [][Next]_vars
=============================================================================
