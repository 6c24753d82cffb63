--------------------------- MODULE KeyspaceProofs ---------------------------
(***************************************************************************)
(* Theorems about Keyspace, for any keys, databases, clients, inputs and   *)
(* clock.  One inductive invariant carries the types and the deadlines:    *)
(* every cell of every database holds a good item, that is, none at all or *)
(* an item of the right type whose deadline, if it is still ahead, is one  *)
(* that some client could ask for now.  Commands only ever move good items *)
(* around, drop them, or make new ones, and time only makes deadlines that *)
(* are ahead come closer.                                                  *)
(***************************************************************************)
EXTENDS KeyspaceRefinement, FiniteSetTheorems, TLAPS

(* A deadline that is ahead is within reach of a request made now.         *)
Timely(item) ==
  /\ ~Expired(item, now)
  /\ item.expiredAt \notin {Undefined, 0}
  => \E t \in Ttls : item.expiredAt <= now + t * Second

GoodItems == {item \in Items : Timely(item)} \cup {Absent}

GoodDatabases == [Keys -> GoodItems]

Inv == TypeOK /\ dbs \in [Dbs -> GoodDatabases]

(***************************************************************************)
(* The operations on a database preserve what all of its cells are in.     *)
(***************************************************************************)
LEMMA GetStays ==
  ASSUME NEW G, Absent \in G, NEW db \in [Keys -> G], NEW k \in Keys, NEW t
  PROVE  Get(db, k, t) \in G
BY DEF Get

LEMMA SweepStays ==
  ASSUME NEW G, Absent \in G, NEW db \in [Keys -> G], NEW k \in Keys, NEW t
  PROVE  Sweep(db, k, t) \in [Keys -> G]
BY GetStays DEF Sweep

LEMMA PutStays ==
  ASSUME NEW G, NEW db \in [Keys -> G], NEW k \in Keys, NEW item \in G
  PROVE  Put(db, k, item) \in [Keys -> G]
BY DEF Put

LEMMA RemoveStays ==
  ASSUME NEW G, Absent \in G, NEW db \in [Keys -> G], NEW k \in Keys
  PROVE  Remove(db, k) \in [Keys -> G]
BY DEF Remove

LEMMA PutIfStays ==
  ASSUME NEW G, Absent \in G, NEW db \in [Keys -> G], NEW k \in Keys, NEW t, NEW item \in G
  PROVE  /\ PutIfPresent(db, k, item, t) \in [Keys -> G]
         /\ PutIfAbsent(db, k, item, t) \in [Keys -> G]
BY SweepStays, PutStays DEF PutIfPresent, PutIfAbsent

LEMMA RenameStays ==
  ASSUME NEW G, Absent \in G, NEW db \in [Keys -> G], NEW from \in Keys, NEW to \in Keys
  PROVE  RenameItem(db, from, to) \in [Keys -> G]
<1>1. Remove(db, from) \in [Keys -> G]
  BY RemoveStays
<1>2. db[from] \in G
  OBVIOUS
<1>. QED  BY <1>1, <1>2, PutStays DEF RenameItem

(***************************************************************************)
(* Which items are good.                                                   *)
(***************************************************************************)
LEMMA GoodAbsent == Absent \in GoodItems
BY DEF GoodItems

LEMMA StringItemIsItem ==
  ASSUME NEW v \in Strings, NEW d \in Int \cup {Undefined}
  PROVE  /\ StringItem(v, d) \in Items
         /\ StringItem(v, d).expiredAt = d
BY DEF StringItem, Items

LEMMA ItemHasFields ==
  ASSUME NEW item \in Items
  PROVE  /\ item.expiredAt \in Int \cup {Undefined}
         /\ item.type = "string" => item.value \in Strings
         /\ item # Absent
BY AbsentAssumption DEF Items

(* An item whose deadline is moved is an item.                             *)
LEMMA ItemWithDeadline ==
  ASSUME NEW item \in Items, NEW d \in Int \cup {Undefined}
  PROVE  /\ [item EXCEPT !.expiredAt = d] \in Items
         /\ [item EXCEPT !.expiredAt = d].expiredAt = d
BY DEF Items

(* An item is good without a deadline, with one that has passed, and with  *)
(* one that is within the reach of some request.                           *)
LEMMA GoodByDeadline ==
  ASSUME NEW item \in Items,
         \/ item.expiredAt \in {Undefined, 0}
         \/ item.expiredAt < now
         \/ \E t \in Ttls : item.expiredAt <= now + t * Second
  PROVE  item \in GoodItems
BY ItemHasFields DEF GoodItems, Timely, Expired

(* A relative time in seconds is at least the same number of milliseconds. *)
LEMMA SecondIsLong ==
  ASSUME NEW t \in Int, t >= 1
  PROVE  t * Second \in Int /\ t <= t * Second
BY NumbersAssumption, SMT

(***************************************************************************)
(* The databases: finitely many, the first of them among them, and every   *)
(* one that MOVE accepts.                                                  *)
(***************************************************************************)
LEMMA PartsMakeOne == DbCount * Parts \in Int /\ DbCount * Parts > 0 /\ Parts > 0
BY DbAssumption, SMT

LEMMA FirstDbIsThere == 0 \in Dbs
BY IndexAssumption, PartsMakeOne, DbAssumption DEF Dbs, Selectable

LEMMA DbsAreFinite == IsFiniteSet(Dbs)
<1>1. Dbs \in SUBSET Indices
  BY DEF Dbs
<1>. QED  BY <1>1, IndexAssumption, FS_Subset

LEMMA ReachableIsThere ==
  ASSUME NEW d \in Indices \cup {Text}, d # Text, Reachable(d)
  PROVE  d \in Dbs
<1>1. d \in Indices /\ d \in Int
  BY IndexAssumption
<1>2. (DbCount - 1) * Parts = DbCount * Parts - Parts
  BY DbAssumption, SMT
<1>3. -Parts < d /\ d < DbCount * Parts
  BY <1>1, <1>2, PartsMakeOne, DbAssumption DEF Reachable
<1>. QED  BY <1>1, <1>3 DEF Dbs, Selectable

(***************************************************************************)
(* What the commands have in common.                                       *)
(***************************************************************************)

(* The state a session sees.                                               *)
LEMMA Seen ==
  ASSUME Inv, NEW s \in Sessions
  PROVE  /\ currentDb[s] \in Dbs
         /\ Db(s) \in GoodDatabases
         /\ now \in Int /\ now >= Epoch /\ now > 0
BY ClockAssumption DEF Inv, TypeOK, Db

(* A command that leaves a good database behind preserves the invariant.   *)
LEMMA LeaveInv ==
  ASSUME Inv, NEW s \in Sessions, NEW db \in GoodDatabases, NEW c, NEW r, Leave(s, db, c, r)
  PROVE  Inv'
<1>1. GoodItems' = GoodItems /\ GoodDatabases' = GoodDatabases
  <2>1. now' = now
    BY DEF Leave
  <2>. QED  BY <2>1 DEF GoodDatabases, GoodItems, Timely, Expired
<1>2. GoodDatabases \subseteq Databases
  BY DEF GoodDatabases, GoodItems, Databases
<1>3. dbs' \in [Dbs -> GoodDatabases]
  BY DEF Leave, Inv
<1>4. answer'.session \in Sessions
  BY DEF Leave, Answer
<1>. QED  BY <1>1, <1>2, <1>3, <1>4 DEF Inv, TypeOK, Leave

LEMMA LookupIsGood ==
  ASSUME Inv, NEW s \in Sessions, NEW k \in Keys
  PROVE  /\ Lookup(s, k) \in GoodItems
         /\ Sweep(Db(s), k, now) \in GoodDatabases
         /\ Lookup(s, k) # Absent => /\ Lookup(s, k) \in Items
                                     /\ ~Expired(Lookup(s, k), now)
BY Seen, GoodAbsent, GetStays, SweepStays DEF Lookup, GoodDatabases, GoodItems, Get

LEMMA LeaveSweptInv ==
  ASSUME Inv, NEW s \in Sessions, NEW k \in Keys, NEW c, NEW r, LeaveSwept(s, k, c, r)
  PROVE  Inv'
BY LookupIsGood, LeaveInv DEF LeaveSwept

LEMMA RefuseInv ==
  ASSUME Inv, NEW s \in Sessions, NEW c, Refuse(s, c)
  PROVE  Inv'
BY Seen, LeaveInv DEF Refuse

(* A command that puts a good item under a key.                            *)
LEMMA PutGood ==
  ASSUME Inv, NEW s \in Sessions, NEW k \in Keys, NEW item \in GoodItems
  PROVE  Put(Db(s), k, item) \in GoodDatabases
BY Seen, PutStays DEF GoodDatabases

(* Strings without a deadline are good.                                    *)
LEMMA PlainStringIsGood ==
  ASSUME NEW v \in Strings
  PROVE  StringItem(v, Undefined) \in GoodItems
BY StringItemIsItem, GoodByDeadline

(* The deadline of a counter after INCR is behind the clock or is none:    *)
(* what was left to a live item is less than the Epoch.                    *)
LEMMA CountedIsGood ==
  ASSUME Inv, NEW s \in Sessions, NEW k \in Keys, Lookup(s, k) # Absent, NEW v \in Strings
  PROVE  StringItem(v, LeftoverDeadline(Lookup(s, k))) \in GoodItems
<1>. DEFINE item == Lookup(s, k)
            left == LeftoverDeadline(item)
<1>1. item \in Items /\ item \in GoodItems /\ item # Absent /\ ~Expired(item, now)
  BY LookupIsGood
<1>2. item.expiredAt \in Int \cup {Undefined}
  BY <1>1, ItemHasFields
<1>3. left \in Int \cup {Undefined} /\ (left \in {Undefined, 0} \/ left < now)
  <2>1. CASE item.expiredAt = Undefined
    BY <2>1, Seen DEF LeftoverDeadline, TimeToLive
  <2>2. CASE item.expiredAt = 0
    BY <2>2, Seen, KeysAssumption DEF LeftoverDeadline, TimeToLive
  <2>3. CASE item.expiredAt \in Int \ {0}
    <3>1. now \in Int /\ now >= Epoch /\ Epoch \in Int
      BY Seen, ClockAssumption
    <3>2. item.expiredAt >= now
      BY <1>1, <2>3, <3>1, KeysAssumption DEF Expired
    <3>3. PICK t \in Ttls : item.expiredAt <= now + t * Second
      BY <1>1, <2>3, KeysAssumption DEF GoodItems, Timely
    <3>4. t * Second \in Int /\ t * Second < Epoch
      BY InputsAssumption, NumbersAssumption, EpochAssumption
    <3>5. item.expiredAt - now < now
      BY <2>3, <3>1, <3>3, <3>4
    <3>6. TimeToLive(item, now) = item.expiredAt - now
      BY <2>3, <3>1, <3>2, KeysAssumption DEF TimeToLive
    <3>. QED  BY <2>3, <3>1, <3>2, <3>5, <3>6 DEF LeftoverDeadline
  <2>. QED  BY <1>2, <2>1, <2>2, <2>3
<1>. QED  BY <1>3, StringItemIsItem, GoodByDeadline

(***************************************************************************)
(* The string commands.                                                    *)
(***************************************************************************)
LEMMA SetInv ==
  ASSUME Inv, NEW s \in Sessions, NEW k \in Keys, NEW v \in Values,
         NEW ttl \in Ttls \cup {Undefined}, NEW unit \in {1, Second}, NEW c,
         SetCommand(s, k, v, ttl, unit, c)
  PROVE  Inv'
<1>1. CASE ttl # Undefined /\ ttl < 1
  BY <1>1, RefuseInv DEF SetCommand
<1>2. CASE ~(ttl # Undefined /\ ttl < 1)
  <2>. DEFINE item == StringItem(v, Deadline(ttl, unit))
  <2>1. v \in Strings
    BY InputsAssumption
  <2>2. item \in GoodItems
    <3>1. CASE ttl = Undefined
      BY <2>1, <3>1, PlainStringIsGood DEF Deadline
    <3>2. CASE ttl # Undefined
      <4>1. ttl \in Ttls /\ ttl \in Int /\ ttl >= 1
        BY <1>2, <3>2, InputsAssumption
      <4>2. now + ttl * unit \in Int /\ now + ttl * unit <= now + ttl * Second
        <5>1. CASE unit = 1
          BY <4>1, <5>1, SecondIsLong, Seen
        <5>2. CASE unit = Second
          BY <4>1, <5>2, SecondIsLong, Seen
        <5>. QED  BY <5>1, <5>2
      <4>3. item \in Items /\ item.expiredAt = now + ttl * unit
        BY <2>1, <3>2, <4>2, StringItemIsItem DEF Deadline
      <4>. QED  BY <4>1, <4>2, <4>3, GoodByDeadline
    <3>. QED  BY <3>1, <3>2
  <2>3. AfterSet(s, k, item, c) \in GoodDatabases
    BY <2>2, Seen, GoodAbsent, PutIfStays, PutGood DEF AfterSet, GoodDatabases
  <2>. HIDE DEF item
  <2>4. PICK r : Leave(s, AfterSet(s, k, item, c), SetName(c), r)
    BY <1>2 DEF SetCommand, item
  <2>. QED  BY <2>3, <2>4, LeaveInv
<1>. QED  BY <1>1, <1>2

LEMMA GetInv ==
  ASSUME Inv, NEW s \in Sessions, NEW k \in Keys, GetCommand(s, k)
  PROVE  Inv'
BY LeaveSweptInv DEF GetCommand

LEMMA GetSetInv ==
  ASSUME Inv, NEW s \in Sessions, NEW k \in Keys, NEW v \in Values, GetSetCommand(s, k, v)
  PROVE  Inv'
<1>1. Put(Db(s), k, StringItem(v, Undefined)) \in GoodDatabases
  BY InputsAssumption, PlainStringIsGood, PutGood
<1>. QED  BY <1>1, LeaveInv, LeaveSweptInv DEF GetSetCommand

LEMMA SetNxInv ==
  ASSUME Inv, NEW s \in Sessions, NEW k \in Keys, NEW v \in Values, SetNxCommand(s, k, v)
  PROVE  Inv'
<1>1. Put(Db(s), k, StringItem(v, Undefined)) \in GoodDatabases
  BY InputsAssumption, PlainStringIsGood, PutGood
<1>. QED  BY <1>1, LeaveInv, LeaveSweptInv DEF SetNxCommand

LEMMA MsetInv ==
  ASSUME Inv, NEW s \in Sessions, NEW K \in SUBSET Keys, NEW f \in [K -> Values], NEW odd,
         MsetCommand(s, f, odd)
  PROVE  Inv'
<1>. DEFINE db == [k \in Keys |-> IF k \in DOMAIN f THEN StringItem(f[k], Undefined) ELSE Db(s)[k]]
<1>1. \A k \in K : StringItem(f[k], Undefined) \in GoodItems
  BY InputsAssumption, PlainStringIsGood
<1>2. Db(s) \in [Keys -> GoodItems]
  BY Seen DEF GoodDatabases
<1>3. db \in GoodDatabases
  BY <1>1, <1>2 DEF GoodDatabases
<1>. QED  BY <1>3, LeaveInv, RefuseInv DEF MsetCommand

(* A command that looks some keys up and drops the dead ones among them.   *)
LEMMA LookedUpIsGood ==
  ASSUME Inv, NEW s \in Sessions, NEW K \in SUBSET Keys
  PROVE  [k \in Keys |-> IF k \in K THEN Lookup(s, k) ELSE Db(s)[k]] \in GoodDatabases
BY LookupIsGood, Seen DEF GoodDatabases

LEMMA MGetInv ==
  ASSUME Inv, NEW s \in Sessions, NEW K \in SUBSET Keys, MGetCommand(s, K)
  PROVE  Inv'
BY LookedUpIsGood, LeaveInv DEF MGetCommand

LEMMA IncrInv ==
  ASSUME Inv, NEW s \in Sessions, NEW k \in Keys, NEW sign \in {1, -1}, IncrCommand(s, k, sign)
  PROVE  Inv'
<1>. DEFINE item == Lookup(s, k)
<1>1. CASE item = Absent
  <2>1. Put(Db(s), k, StringItem(sign, Undefined)) \in GoodDatabases
    BY PlainStringIsGood, PutGood DEF Strings
  <2>. QED  BY <1>1, <2>1, LeaveInv DEF IncrCommand
<1>2. CASE item # Absent /\ item.type = "string" /\ item.value # Text
  <2>1. item.value + sign \in Strings
    BY <1>2, LookupIsGood, ItemHasFields DEF Strings
  <2>2. Put(Db(s), k, StringItem(item.value + sign, LeftoverDeadline(item))) \in GoodDatabases
    BY <1>2, <2>1, CountedIsGood, PutGood
  <2>. QED  BY <1>2, <2>2, LeaveInv, LeaveSweptInv DEF IncrCommand
<1>3. CASE item # Absent /\ (item.type # "string" \/ item.value = Text)
  BY <1>3, LeaveSweptInv DEF IncrCommand
<1>. QED  BY <1>1, <1>2, <1>3

LEMMA IncrByInv ==
  ASSUME Inv, NEW s \in Sessions, NEW k \in Keys, NEW sign \in {1, -1}, NEW n \in Increments,
         IncrByCommand(s, k, sign, n)
  PROVE  Inv'
<1>. DEFINE item == Lookup(s, k)
            signed == IF n = Text THEN Text ELSE sign * n
<1>1. signed \in Strings /\ (n # Text => signed \in Int)
  BY InputsAssumption DEF Strings
<1>2. CASE item = Absent
  <2>1. Put(Db(s), k, StringItem(signed, Undefined)) \in GoodDatabases
    BY <1>1, PlainStringIsGood, PutGood
  <2>. QED  BY <1>2, <2>1, LeaveInv DEF IncrByCommand
<1>3. CASE item # Absent /\ item.type = "string" /\ item.value # Text /\ n # Text
  <2>1. item.value + signed \in Strings
    BY <1>1, <1>3, LookupIsGood, ItemHasFields DEF Strings
  <2>2. Put(Db(s), k, StringItem(item.value + signed, LeftoverDeadline(item))) \in GoodDatabases
    BY <1>3, <2>1, CountedIsGood, PutGood
  <2>. QED  BY <1>3, <2>2, LeaveInv, LeaveSweptInv DEF IncrByCommand
<1>4. CASE item # Absent /\ (item.type # "string" \/ item.value = Text \/ n = Text)
  BY <1>4, LeaveSweptInv DEF IncrByCommand
<1>. QED  BY <1>2, <1>3, <1>4

LEMMA PushInv ==
  ASSUME Inv, NEW s \in Sessions, NEW k \in Keys, PushCommand(s, k)
  PROVE  Inv'
<1>1. ListItem \in GoodItems
  <2>1. ListItem \in Items /\ ListItem.expiredAt = Undefined
    BY DEF ListItem, Items
  <2>. QED  BY <2>1, GoodByDeadline
<1>2. Put(Db(s), k, ListItem) \in GoodDatabases
  BY <1>1, PutGood
<1>. QED  BY <1>2, Seen, LeaveInv, LeaveSweptInv DEF PushCommand

LEMMA StringCommandInv ==
  ASSUME Inv, NEW s \in Sessions, StringCommand(s)
  PROVE  Inv'
BY SetInv, GetInv, GetSetInv, SetNxInv, MsetInv, MGetInv, IncrInv, IncrByInv, PushInv
   DEF StringCommand

(***************************************************************************)
(* The key commands.                                                       *)
(***************************************************************************)
LEMMA DelInv ==
  ASSUME Inv, NEW s \in Sessions, NEW K \in SUBSET Keys, DelCommand(s, K)
  PROVE  Inv'
<1>1. [k \in Keys |-> IF k \in K THEN Absent ELSE Db(s)[k]] \in GoodDatabases
  BY Seen, GoodAbsent DEF GoodDatabases
<1>. QED  BY <1>1, LeaveInv DEF DelCommand

LEMMA ExistsInv ==
  ASSUME Inv, NEW s \in Sessions, NEW K \in SUBSET Keys, ExistsCommand(s, K)
  PROVE  Inv'
BY LookedUpIsGood, LeaveInv DEF ExistsCommand

LEMMA TypeInv ==
  ASSUME Inv, NEW s \in Sessions, NEW k \in Keys, TypeCommand(s, k)
  PROVE  Inv'
BY LeaveSweptInv DEF TypeCommand

LEMMA TtlInv ==
  ASSUME Inv, NEW s \in Sessions, NEW k \in Keys, TtlCommand(s, k)
  PROVE  Inv'
BY LeaveSweptInv DEF TtlCommand

LEMMA ExpireInv ==
  ASSUME Inv, NEW s \in Sessions, NEW k \in Keys, NEW ttl \in Ttls \cup {Text},
         NEW unit \in {1, Second}, ExpireCommand(s, k, ttl, unit)
  PROVE  Inv'
<1>. DEFINE item == Lookup(s, k)
            deadline == IF ttl < 1 THEN -1 ELSE now + ttl * unit
<1>1. CASE item = Absent \/ ttl = Text
  BY <1>1, LeaveSweptInv DEF ExpireCommand
<1>2. CASE item # Absent /\ ttl # Text
  <2>1. ttl \in Ttls /\ ttl \in Int /\ now \in Int /\ now > 0
    BY <1>2, InputsAssumption, Seen
  <2>2. deadline \in Int /\ (deadline < now \/ deadline <= now + ttl * Second)
    <3>1. CASE ttl < 1
      BY <2>1, <3>1
    <3>2. CASE ttl >= 1 /\ unit = 1
      BY <2>1, <3>2, SecondIsLong
    <3>3. CASE ttl >= 1 /\ unit = Second
      BY <2>1, <3>3, SecondIsLong
    <3>. QED  BY <2>1, <3>1, <3>2, <3>3
  <2>3. [item EXCEPT !.expiredAt = deadline] \in GoodItems
    <3>1. item \in Items
      BY <1>2, LookupIsGood
    <3>. HIDE DEF item, deadline
    <3>2. /\ [item EXCEPT !.expiredAt = deadline] \in Items
          /\ [item EXCEPT !.expiredAt = deadline].expiredAt = deadline
      BY <2>2, <3>1, ItemWithDeadline
    <3>. QED  BY <2>1, <2>2, <3>2, GoodByDeadline
  <2>4. Put(Db(s), k, [item EXCEPT !.expiredAt = deadline]) \in GoodDatabases
    BY <2>3, PutGood
  <2>5. Leave(s, Put(Db(s), k, [item EXCEPT !.expiredAt = deadline]), "expire", Flag(TRUE))
    BY <1>2 DEF ExpireCommand
  <2>. QED  BY <2>4, <2>5, LeaveInv
<1>. QED  BY <1>1, <1>2

LEMMA RenameInv ==
  ASSUME Inv, NEW s \in Sessions, NEW from \in Keys, NEW to \in Keys, RenameCommand(s, from, to)
  PROVE  Inv'
<1>1. RenameItem(Db(s), from, to) \in GoodDatabases
  BY Seen, GoodAbsent, RenameStays DEF GoodDatabases
<1>. QED  BY <1>1, LeaveInv, LeaveSweptInv DEF RenameCommand

LEMMA RenameNxInv ==
  ASSUME Inv, NEW s \in Sessions, NEW from \in Keys, NEW to \in Keys, RenameNxCommand(s, from, to)
  PROVE  Inv'
<1>1. RenameItem(Sweep(Db(s), to, now), from, to) \in GoodDatabases
  BY LookupIsGood, GoodAbsent, RenameStays DEF GoodDatabases
<1>. QED  BY <1>1, Seen, LeaveInv, LeaveSweptInv DEF RenameNxCommand

LEMMA MoveInv ==
  ASSUME Inv, NEW s \in Sessions, NEW k \in Keys, NEW target \in Indices \cup {Text},
         MoveCommand(s, k, target)
  PROVE  Inv'
<1>1. CASE \/ target = Text \/ ~Reachable(target) \/ target = currentDb[s]
           \/ Lookup(s, k) = Absent \/ Get(dbs[target], k, now) # Absent
  BY <1>1, Seen, RefuseInv, LeaveInv, LeaveSweptInv DEF MoveCommand
<1>2. CASE /\ target # Text /\ Reachable(target) /\ target \in Dbs /\ target # currentDb[s]
           /\ Lookup(s, k) # Absent /\ Get(dbs[target], k, now) = Absent
  <2>1. /\ dbs' = [dbs EXCEPT ![target] = Put(@, k, Db(s)[k]), ![currentDb[s]] = Remove(@, k)]
        /\ Answer(s, "move", Flag(TRUE))
        /\ now' = now /\ currentDb' = currentDb
    BY <1>2 DEF MoveCommand
  <2>2. Put(dbs[target], k, Db(s)[k]) \in GoodDatabases
    BY <1>2, Seen, PutStays DEF Inv, GoodDatabases
  <2>3. Remove(dbs[currentDb[s]], k) \in GoodDatabases
    BY Seen, GoodAbsent, RemoveStays DEF Inv, GoodDatabases
  <2>4. dbs' \in [Dbs -> GoodDatabases]
    BY <1>2, <2>1, <2>2, <2>3, Seen DEF Inv
  <2>5. GoodDatabases' = GoodDatabases
    BY <2>1 DEF GoodDatabases, GoodItems, Timely, Expired
  <2>6. GoodDatabases \subseteq Databases
    BY DEF GoodDatabases, GoodItems, Databases
  <2>. QED  BY <2>1, <2>4, <2>5, <2>6 DEF Inv, TypeOK, Answer
<1>. QED  BY <1>1, <1>2, ReachableIsThere

LEMMA KeysInv ==
  ASSUME Inv, NEW s \in Sessions, NEW K, KeysCommand(s, K) \/ RandomKeyCommand(s)
  PROVE  Inv'
BY Seen, LeaveInv DEF KeysCommand, RandomKeyCommand

LEMMA KeyCommandInv ==
  ASSUME Inv, NEW s \in Sessions, KeyCommand(s)
  PROVE  Inv'
BY DelInv, ExistsInv, TypeInv, ExpireInv, TtlInv, RenameInv, RenameNxInv, MoveInv, KeysInv
   DEF KeyCommand

(***************************************************************************)
(* The database commands and the clock.                                    *)
(***************************************************************************)
LEMMA SelectInv ==
  ASSUME Inv, NEW s \in Sessions, NEW d \in Indices \cup {Text}, SelectCommand(s, d)
  PROVE  Inv'
<1>1. CASE d = Text \/ ~Selectable(d)
  BY <1>1, RefuseInv DEF SelectCommand
<1>2. CASE d # Text /\ Selectable(d) /\ d \in Dbs
  <2>1. GoodDatabases' = GoodDatabases
    BY <1>2 DEF SelectCommand, GoodDatabases, GoodItems, Timely, Expired
  <2>. QED  BY <1>2, <2>1 DEF SelectCommand, Inv, TypeOK, Answer
<1>. QED  BY <1>1, <1>2 DEF Dbs

LEMMA FlushAllInv ==
  ASSUME Inv, NEW s \in Sessions, FlushAllCommand(s)
  PROVE  Inv'
<1>1. EmptyDatabase \in GoodDatabases /\ EmptyDatabase \in Databases
  BY GoodAbsent DEF EmptyDatabase, GoodDatabases, Databases
<1>2. GoodDatabases' = GoodDatabases
  BY DEF FlushAllCommand, GoodDatabases, GoodItems, Timely, Expired
<1>. QED  BY <1>1, <1>2 DEF FlushAllCommand, Inv, TypeOK, Answer

LEMMA DbCommandInv ==
  ASSUME Inv, NEW s \in Sessions, DbCommand(s)
  PROVE  Inv'
<1>1. EmptyDatabase \in GoodDatabases
  BY GoodAbsent DEF EmptyDatabase, GoodDatabases
<1>. QED  BY <1>1, Seen, SelectInv, FlushAllInv, LeaveInv
          DEF DbCommand, DbSizeCommand, FlushDbCommand

(* As the clock moves on, a deadline that is still ahead was ahead before, *)
(* and nearer the clock than it was.                                       *)
LEMMA TickInv ==
  ASSUME Inv, Tick
  PROVE  Inv'
<1>1. now \in Int /\ now' = now + 1 /\ now' \in Epoch..MaxNow
  BY ClockAssumption DEF Tick, Inv, TypeOK
<1>2. ASSUME NEW item \in Items, Timely(item)
      PROVE  Timely(item)'
  <2>. SUFFICES ASSUME item.expiredAt \notin {Undefined, 0}, ~(item.expiredAt < now')
                PROVE  \E t \in Ttls : item.expiredAt <= now' + t * Second
    BY ItemHasFields DEF Timely, Expired
  <2>1. item.expiredAt \in Int /\ item.expiredAt > now
    BY <1>1, ItemHasFields
  <2>2. PICK t \in Ttls : item.expiredAt <= now + t * Second
    BY <1>1, <1>2, <2>1 DEF Timely, Expired
  <2>3. t * Second \in Int
    BY InputsAssumption, NumbersAssumption
  <2>4. item.expiredAt <= now' + t * Second
    BY <1>1, <2>1, <2>2, <2>3
  <2>. QED  BY <2>4
<1>3. GoodItems \subseteq GoodItems'
  BY <1>2 DEF GoodItems
<1>4. dbs' = dbs /\ dbs \in [Dbs -> [Keys -> GoodItems']]
  BY <1>3 DEF Tick, Inv, GoodDatabases
<1>. QED  BY <1>1, <1>4 DEF Tick, Inv, TypeOK, GoodDatabases

(***************************************************************************)
(* The theorems.                                                           *)
(***************************************************************************)
LEMMA InitInv == Init => Inv
<1>. SUFFICES ASSUME Init PROVE Inv
  OBVIOUS
<1>1. EmptyDatabase \in GoodDatabases /\ EmptyDatabase \in Databases
  BY GoodAbsent DEF EmptyDatabase, GoodDatabases, Databases
<1>. QED  BY <1>1, FirstDbIsThere, ClockAssumption DEF Init, Inv, TypeOK

LEMMA NextInv == Inv /\ [Next]_vars => Inv'
<1>. SUFFICES ASSUME Inv, [Next]_vars PROVE Inv'
  OBVIOUS
<1>1. CASE Tick
  BY <1>1, TickInv
<1>2. ASSUME NEW s \in Sessions, StringCommand(s) \/ KeyCommand(s) \/ DbCommand(s)
      PROVE  Inv'
  BY <1>2, StringCommandInv, KeyCommandInv, DbCommandInv
<1>3. CASE UNCHANGED vars
  BY <1>3 DEF vars, Inv, TypeOK, GoodDatabases, GoodItems, Timely, Expired
<1>. QED  BY <1>1, <1>2, <1>3 DEF Next

THEOREM Invariance == Spec => []Inv
BY InitInv, NextInv, PTL DEF Spec

(* Every reachable state is of its type: no command, whatever its inputs   *)
(* and the state it meets, leaves something in a database that is not an   *)
(* item, or selects an index that SELECT refuses; the index need not be a  *)
(* whole number (SelectCommand, MoveCommand, RespServerContext.getDatabase)*)
THEOREM TypeCorrectness == Spec => []TypeOK
<1>1. Inv => TypeOK
  BY DEF Inv
<1>. QED  BY <1>1, Invariance, PTL

(* A step of session s that leaves every other database alone.             *)
OwnDb(s) ==
  /\ answer'.session = s
  /\ \A d \in Dbs \ {currentDb[s]} : dbs'[d] = dbs[d]

LEMMA LeaveOwnDb ==
  ASSUME Inv, NEW s \in Sessions, NEW db, NEW c, NEW r, Leave(s, db, c, r)
  PROVE  OwnDb(s)
BY DEF Leave, Answer, OwnDb, Inv

LEMMA CommandsOwnDb ==
  ASSUME Inv, NEW s \in Sessions, StringCommand(s) \/ KeyCommand(s) \/ DbCommand(s),
         answer'.command \notin {"move", "flushall"}
  PROVE  OwnDb(s)
<1>1. CASE StringCommand(s)
  <2>1. ASSUME NEW k \in Keys, NEW v, NEW t, NEW u, NEW c,
               SetCommand(s, k, v, t, u, c) \/ GetCommand(s, k) \/ GetSetCommand(s, k, v)
        PROVE  OwnDb(s)
    BY <2>1, LeaveOwnDb DEF LeaveSwept, Refuse, SetCommand, GetCommand, GetSetCommand
  <2>2. ASSUME NEW k \in Keys, NEW v, SetNxCommand(s, k, v) \/ PushCommand(s, k)
        PROVE  OwnDb(s)
    BY <2>2, LeaveOwnDb DEF LeaveSwept, SetNxCommand, PushCommand
  <2>3. ASSUME NEW K, NEW f, NEW odd, MsetCommand(s, f, odd) \/ MGetCommand(s, K)
        PROVE  OwnDb(s)
    BY <2>3, LeaveOwnDb DEF Refuse, MsetCommand, MGetCommand
  <2>4. ASSUME NEW k \in Keys, NEW sign, NEW n, IncrCommand(s, k, sign) \/ IncrByCommand(s, k, sign, n)
        PROVE  OwnDb(s)
    BY <2>4, LeaveOwnDb DEF LeaveSwept, IncrCommand, IncrByCommand
  <2>. QED  BY ONLY <1>1, <2>1, <2>2, <2>3, <2>4 DEF StringCommand
<1>2. CASE KeyCommand(s)
  <2>1. ASSUME NEW k \in Keys, NEW d, MoveCommand(s, k, d)
        PROVE  OwnDb(s)
    <3>1. \/ \E r : Answer(s, "move", r)
          \/ \E db, r : Leave(s, db, "move", r)
      BY <2>1 DEF MoveCommand, LeaveSwept, Refuse
    <3>2. ASSUME NEW r PROVE ~Answer(s, "move", r)
      BY DEF Answer
    <3>. QED  BY <3>1, <3>2, LeaveOwnDb
  <2>. QED
    BY <1>2, <2>1, LeaveOwnDb
       DEF KeyCommand, LeaveSwept, DelCommand, ExistsCommand, TypeCommand, ExpireCommand,
           TtlCommand, RenameCommand, RenameNxCommand, KeysCommand, RandomKeyCommand
<1>3. CASE DbCommand(s)
  <2>1. ASSUME NEW d, SelectCommand(s, d)
        PROVE  OwnDb(s)
    BY <2>1, LeaveOwnDb DEF SelectCommand, Refuse, Answer, OwnDb
  <2>2. ~FlushAllCommand(s)
    BY DEF FlushAllCommand, Answer
  <2>. QED  BY <1>3, <2>1, <2>2, LeaveOwnDb DEF DbCommand, DbSizeCommand, FlushDbCommand
<1>. QED  BY <1>1, <1>2, <1>3

(* Only MOVE and FLUSHALL reach into a database that the session has not   *)
(* selected (CommandWrapper.getCurrentDB).                                 *)
THEOREM SessionsApart == Spec => SessionsKeepToTheirDb
<1>. DEFINE Apart == now' = now /\ answer'.command \notin {"move", "flushall"} =>
                       \A d \in Dbs \ {currentDb[answer'.session]} : dbs'[d] = dbs[d]
<1>1. Inv /\ [Next]_vars => [Apart]_vars
  <2>. SUFFICES ASSUME Inv, Next, now' = now, answer'.command \notin {"move", "flushall"}
                PROVE  \A d \in Dbs \ {currentDb[answer'.session]} : dbs'[d] = dbs[d]
    OBVIOUS
  <2>1. ~Tick
    BY ClockAssumption DEF Tick, Inv, TypeOK
  <2>. QED  BY <2>1, CommandsOwnDb DEF Next, OwnDb
<1>. QED  BY <1>1, Invariance, PTL DEF Spec, SessionsKeepToTheirDb

(***************************************************************************)
(* Items that move.                                                        *)
(***************************************************************************)

(* The live items after the step are live items of before, and no more.    *)
MovesWhole ==
  /\ Cardinality(LiveCells') <= Cardinality(LiveCells)
  /\ \A c \in LiveCells' : \E b \in LiveCells :
       LiveItem(c[1], c[2])' = LiveItem(b[1], b[2])

LEMMA LiveCellsAreFinite == IsFiniteSet(LiveCells)
<1>1. IsFiniteSet(Dbs \X Keys)
  BY DbsAreFinite, FiniteKeysAssumption, FS_Product
<1>2. LiveCells \in SUBSET (Dbs \X Keys)
  BY DEF LiveCells
<1>. QED  BY <1>1, <1>2, FS_Subset

(* A step that only takes items away.                                      *)
Shrinks ==
  \A c \in LiveCells' : c \in LiveCells /\ LiveItem(c[1], c[2])' = LiveItem(c[1], c[2])

LEMMA StayingIsWhole ==
  ASSUME Shrinks
  PROVE  MovesWhole
<1>1. PICK old : old = LiveCells
  OBVIOUS
<1>2. PICK new : new = LiveCells'
  OBVIOUS
<1>3. IsFiniteSet(old) /\ new \in SUBSET old
  BY <1>1, <1>2, LiveCellsAreFinite DEF Shrinks
<1>4. Cardinality(new) <= Cardinality(old)
  BY <1>3, FS_Subset
<1>. QED  BY <1>1, <1>2, <1>4 DEF MovesWhole, Shrinks

(* A step that takes the item of cell b to cell e, and perhaps others away.*)
LEMMA MovingIsWhole ==
  ASSUME NEW b, NEW e, b \in LiveCells,
         \A c \in LiveCells' :
           \/ c = e /\ LiveItem(c[1], c[2])' = LiveItem(b[1], b[2])
           \/ c # b /\ c \in LiveCells /\ LiveItem(c[1], c[2])' = LiveItem(c[1], c[2])
  PROVE  MovesWhole
<1>1. PICK old : old = LiveCells
  OBVIOUS
<1>2. PICK new : new = LiveCells'
  OBVIOUS
<1>3. PICK rest : rest = old \ {b}
  OBVIOUS
<1>4. IsFiniteSet(old) /\ b \in old /\ new \in SUBSET (rest \cup {e})
  BY <1>1, <1>2, <1>3, LiveCellsAreFinite
<1>5. /\ IsFiniteSet(rest) /\ Cardinality(rest) = Cardinality(old) - 1
      /\ Cardinality(old) \in Nat /\ Cardinality(rest) \in Nat
  BY <1>3, <1>4, FS_RemoveElement, FS_CardinalityType
<1>6. /\ IsFiniteSet(rest \cup {e})
      /\ Cardinality(rest \cup {e}) <= Cardinality(old)
      /\ Cardinality(rest \cup {e}) \in Nat
  <2>1. /\ IsFiniteSet(rest \cup {e})
        /\ Cardinality(rest \cup {e}) = IF e \in rest THEN Cardinality(rest) ELSE Cardinality(rest) + 1
    BY <1>5, FS_AddElement
  <2>. QED  BY <1>5, <2>1
<1>7. Cardinality(new) <= Cardinality(rest \cup {e}) /\ Cardinality(new) \in Nat
  <2>1. IsFiniteSet(new) /\ Cardinality(new) <= Cardinality(rest \cup {e})
    BY <1>4, <1>6, FS_Subset
  <2>. QED  BY <2>1, FS_CardinalityType
<1>8. Cardinality(new) <= Cardinality(old)
  BY <1>5, <1>6, <1>7
<1>. QED  BY <1>1, <1>2, <1>8 DEF MovesWhole

(* What a cell shows after a command that left db behind.                  *)
LEMMA LeftCells ==
  ASSUME Inv, NEW s \in Sessions, NEW db, NEW c, NEW r, Leave(s, db, c, r),
         NEW d \in Dbs, NEW k \in Keys
  PROVE  LiveItem(d, k)' = IF d = currentDb[s] THEN Get(db, k, now) ELSE LiveItem(d, k)
BY DEF Leave, LiveItem, Get, Expired, Inv

LEMMA LeaveStays ==
  ASSUME Inv, NEW s \in Sessions, NEW db, NEW c, NEW r, Leave(s, db, c, r),
         \A k \in Keys : Get(db, k, now) \in {Absent, Lookup(s, k)}
  PROVE  Shrinks
<1>1. ASSUME NEW d \in Dbs, NEW k \in Keys
      PROVE  LiveItem(d, k)' \in {Absent, LiveItem(d, k)}
  BY LeftCells DEF Lookup, Db, LiveItem
<1>. QED  BY <1>1 DEF LiveCells, Shrinks

LEMMA LeaveMoves ==
  ASSUME Inv, NEW s \in Sessions, NEW db, NEW c, NEW r, Leave(s, db, c, r),
         NEW from \in Keys, NEW to \in Keys, Lookup(s, from) # Absent,
         \A k \in Keys : \/ Get(db, k, now) = Absent
                         \/ k = to /\ Get(db, k, now) = Lookup(s, from)
                         \/ k # from /\ Get(db, k, now) = Lookup(s, k)
  PROVE  MovesWhole
<1>1. PICK b : b = <<currentDb[s], from>>
  OBVIOUS
<1>2. PICK e : e = <<currentDb[s], to>>
  OBVIOUS
<1>3. currentDb[s] \in Dbs /\ b \in LiveCells /\ LiveItem(b[1], b[2]) = Lookup(s, from)
  BY <1>1, Seen DEF LiveCells, LiveItem, Lookup, Db
<1>4. ASSUME NEW x \in LiveCells'
      PROVE  \/ x = e /\ LiveItem(x[1], x[2])' = LiveItem(b[1], b[2])
             \/ x # b /\ x \in LiveCells /\ LiveItem(x[1], x[2])' = LiveItem(x[1], x[2])
  <2>1. PICK d \in Dbs, k \in Keys : x = <<d, k>> /\ LiveItem(d, k)' # Absent
    BY DEF LiveCells
  <2>2. LiveItem(d, k)' = IF d = currentDb[s] THEN Get(db, k, now) ELSE LiveItem(d, k)
    BY LeftCells
  <2>3. d = currentDb[s] => LiveItem(d, k) = Lookup(s, k)
    BY DEF LiveItem, Lookup, Db
  <2>4. LiveItem(d, k) # Absent => x \in LiveCells
    BY <2>1 DEF LiveCells
  <2>. QED  BY <1>1, <1>2, <1>3, <2>1, <2>2, <2>3, <2>4
<1>. QED  BY <1>3, <1>4, MovingIsWhole

LEMMA LeaveSweptStays ==
  ASSUME Inv, NEW s \in Sessions, NEW k \in Keys, NEW c, NEW r, LeaveSwept(s, k, c, r)
  PROVE  Shrinks
<1>1. \A j \in Keys : Get(Sweep(Db(s), k, now), j, now) \in {Absent, Lookup(s, j)}
  BY Seen DEF Sweep, Get, Expired, Lookup, GoodDatabases
<1>. QED  BY <1>1, LeaveStays DEF LeaveSwept

(* A command that drops dead items among the keys of K and nothing else,   *)
(* and one that drops nothing.                                             *)
LEMMA LookedUpStays ==
  ASSUME Inv, NEW s \in Sessions, NEW K \in SUBSET Keys, NEW c, NEW r,
         Leave(s, [k \in Keys |-> IF k \in K THEN Lookup(s, k) ELSE Db(s)[k]], c, r)
  PROVE  Shrinks
<1>1. \A k \in Keys : Get([j \in Keys |-> IF j \in K THEN Lookup(s, j) ELSE Db(s)[j]], k, now)
                        \in {Absent, Lookup(s, k)}
  BY DEF Get, Expired, Lookup
<1>. QED  BY <1>1, LeaveStays

LEMMA SameStays ==
  ASSUME Inv, NEW s \in Sessions, NEW c, NEW r, Leave(s, Db(s), c, r)
  PROVE  Shrinks
<1>1. \A k \in Keys : Get(Db(s), k, now) = Lookup(s, k)
  BY DEF Lookup
<1>. QED  BY <1>1, LeaveStays

(* A renamed item is under its new name what it was under the old one.     *)
LEMMA RenamedCells ==
  ASSUME NEW db, NEW G, db \in [Keys -> G], NEW from \in Keys, NEW to \in Keys,
         Get(db, from, now) # Absent, NEW k \in Keys
  PROVE  Get(RenameItem(db, from, to), k, now) =
           IF k = to THEN Get(db, from, now)
           ELSE IF k = from THEN Absent ELSE Get(db, k, now)
BY DEF RenameItem, Put, Remove, Get, Expired

LEMMA RenameIsWhole ==
  ASSUME Inv, NEW s \in Sessions, NEW from \in Keys, NEW to \in Keys,
         RenameCommand(s, from, to) \/ RenameNxCommand(s, from, to)
  PROVE  MovesWhole
<1>1. CASE Lookup(s, from) = Absent
  BY <1>1, LeaveSweptStays, StayingIsWhole DEF RenameCommand, RenameNxCommand
<1>2. CASE RenameCommand(s, from, to) /\ Lookup(s, from) # Absent
  <2>1. \A k \in Keys : Get(RenameItem(Db(s), from, to), k, now) =
          IF k = to THEN Lookup(s, from) ELSE IF k = from THEN Absent ELSE Lookup(s, k)
    BY <1>2, Seen, RenamedCells DEF Lookup, GoodDatabases
  <2>. QED  BY <1>2, <2>1, LeaveMoves DEF RenameCommand
<1>3. CASE RenameNxCommand(s, from, to) /\ Lookup(s, from) # Absent /\ Lookup(s, to) # Absent
  <2>1. \A k \in Keys : Get(Db(s), k, now) = Lookup(s, k)
    BY DEF Lookup
  <2>. QED  BY <1>3, <2>1, LeaveStays, StayingIsWhole DEF RenameNxCommand
<1>4. CASE RenameNxCommand(s, from, to) /\ Lookup(s, from) # Absent /\ Lookup(s, to) = Absent
  <2>1. PICK db : db = Sweep(Db(s), to, now)
    OBVIOUS
  <2>2. db \in [Keys -> GoodItems] /\ \A k \in Keys : Get(db, k, now) = Lookup(s, k)
    BY <2>1, Seen, LookupIsGood DEF Sweep, Get, Expired, Lookup, GoodDatabases
  <2>3. \A k \in Keys : Get(RenameItem(db, from, to), k, now) =
          IF k = to THEN Lookup(s, from) ELSE IF k = from THEN Absent ELSE Lookup(s, k)
    BY <1>4, <2>2, RenamedCells
  <2>. QED  BY <1>4, <2>1, <2>3, LeaveMoves DEF RenameNxCommand
<1>. QED  BY <1>1, <1>2, <1>3, <1>4

LEMMA MoveIsWhole ==
  ASSUME Inv, NEW s \in Sessions, NEW k \in Keys, NEW target \in Indices \cup {Text},
         MoveCommand(s, k, target)
  PROVE  MovesWhole
<1>0. \A j \in Keys : Get(Db(s), j, now) = Lookup(s, j)
  BY DEF Lookup
<1>1. CASE \/ target = Text \/ ~Reachable(target) \/ target = currentDb[s]
           \/ Lookup(s, k) = Absent \/ Get(dbs[target], k, now) # Absent
  BY <1>0, <1>1, LeaveStays, LeaveSweptStays, StayingIsWhole DEF MoveCommand, Refuse
<1>2. CASE /\ target # Text /\ Reachable(target) /\ target \in Dbs /\ target # currentDb[s]
           /\ Lookup(s, k) # Absent /\ Get(dbs[target], k, now) = Absent
  <2>1. /\ dbs' = [dbs EXCEPT ![target] = Put(@, k, Db(s)[k]), ![currentDb[s]] = Remove(@, k)]
        /\ now' = now
    BY <1>2 DEF MoveCommand
  <2>2. PICK b : b = <<currentDb[s], k>>
    OBVIOUS
  <2>3. PICK e : e = <<target, k>>
    OBVIOUS
  <2>4. Lookup(s, k) = Db(s)[k] /\ ~Expired(Db(s)[k], now)
    BY <1>2 DEF Lookup, Get
  <2>5. b \in LiveCells /\ LiveItem(b[1], b[2]) = Db(s)[k]
    BY <1>2, <2>2, <2>4, Seen DEF LiveCells, LiveItem, Lookup, Db
  <2>6. ASSUME NEW d \in Dbs, NEW j \in Keys
        PROVE  LiveItem(d, j)' = IF d = currentDb[s] /\ j = k THEN Absent
                                 ELSE IF d = target /\ j = k THEN Db(s)[k] ELSE LiveItem(d, j)
    <3>1. dbs[d] \in [Keys -> GoodItems] /\ currentDb[s] \in Dbs
      BY Seen DEF Inv, GoodDatabases
    <3>2. dbs'[d][j] = IF d = currentDb[s] /\ j = k THEN Absent
                       ELSE IF d = target /\ j = k THEN Db(s)[k] ELSE dbs[d][j]
      BY <1>2, <2>1, <3>1 DEF Put, Remove, Inv
    <3>3. ~Expired(Absent, now)
      BY DEF Expired
    <3>4. LiveItem(d, j)' = Get(dbs'[d], j, now)
      BY <2>1 DEF LiveItem, Get, Expired
    <3>. QED  BY <2>4, <3>2, <3>3, <3>4 DEF LiveItem, Get
  <2>7. ASSUME NEW x \in LiveCells'
        PROVE  \/ x = e /\ LiveItem(x[1], x[2])' = LiveItem(b[1], b[2])
               \/ x # b /\ x \in LiveCells /\ LiveItem(x[1], x[2])' = LiveItem(x[1], x[2])
    <3>1. PICK d \in Dbs, j \in Keys : x = <<d, j>> /\ LiveItem(d, j)' # Absent
      BY DEF LiveCells
    <3>2. LiveItem(d, j) # Absent => x \in LiveCells
      BY <3>1 DEF LiveCells
    <3>. QED  BY <2>2, <2>3, <2>5, <2>6, <3>1, <3>2
  <2>. QED  BY <2>5, <2>7, MovingIsWhole
<1>. QED  BY <1>1, <1>2, ReachableIsThere

(* As time passes, an item at most dies.                                   *)
LEMMA TickIsWhole ==
  ASSUME Inv, Tick
  PROVE  MovesWhole
<1>1. now \in Int /\ now' = now + 1 /\ dbs' = dbs
  BY ClockAssumption DEF Tick, Inv, TypeOK
<1>2. ASSUME NEW d \in Dbs, NEW k \in Keys
      PROVE  LiveItem(d, k)' \in {Absent, LiveItem(d, k)}
  <2>1. dbs[d][k] \in Items \cup {Absent}
    BY DEF Inv, GoodDatabases, GoodItems
  <2>2. Expired(dbs[d][k], now) => Expired(dbs[d][k], now')
    BY <1>1, <2>1, ItemHasFields DEF Expired
  <2>. QED  BY <1>1, <2>2 DEF LiveItem, Get
<1>. QED  BY <1>2, StayingIsWhole DEF LiveCells, Shrinks

(* Every other command has another name.                                   *)
LEMMA OnlyTheseMove ==
  ASSUME NEW s \in Sessions, StringCommand(s) \/ KeyCommand(s) \/ DbCommand(s),
         answer'.command \in {"rename", "renamenx", "move"}
  PROVE  \/ \E from, to \in Keys : RenameCommand(s, from, to) \/ RenameNxCommand(s, from, to)
         \/ \E k \in Keys, d \in Indices \cup {Text} : MoveCommand(s, k, d)
<1>1. ASSUME NEW db, NEW c, NEW r, Leave(s, db, c, r)
      PROVE  answer'.command = c
  BY <1>1 DEF Leave, Answer
<1>2. CASE StringCommand(s)
  <2>1. ASSUME NEW k \in Keys, NEW v, NEW t, NEW u, NEW c \in {"always", "NX", "XX"},
               SetCommand(s, k, v, t, u, c)
        PROVE  FALSE
    <3>1. PICK name : name = SetName(c)
      OBVIOUS
    <3>2. name \in {"set", "set nx", "set xx"}
      BY <3>1 DEF SetName
    <3>3. \E db, r : Leave(s, db, name, r)
      BY <2>1, <3>1 DEF SetCommand, Refuse
    <3>. QED  BY <1>1, <3>2, <3>3
  <2>2. ASSUME NEW k \in Keys, NEW v,
               GetCommand(s, k) \/ GetSetCommand(s, k, v) \/ SetNxCommand(s, k, v) \/ PushCommand(s, k)
        PROVE  FALSE
    BY <1>1, <2>2 DEF LeaveSwept, GetCommand, GetSetCommand, SetNxCommand, PushCommand
  <2>3. ASSUME NEW K, NEW f, NEW odd, MsetCommand(s, f, odd) \/ MGetCommand(s, K)
        PROVE  FALSE
    BY <1>1, <2>3 DEF Refuse, MsetCommand, MGetCommand
  <2>4. ASSUME NEW k \in Keys, NEW sign, NEW n, IncrCommand(s, k, sign) \/ IncrByCommand(s, k, sign, n)
        PROVE  FALSE
    BY <1>1, <2>4 DEF LeaveSwept, IncrCommand, IncrByCommand
  <2>. QED  BY ONLY <1>2, <2>1, <2>2, <2>3, <2>4 DEF StringCommand
<1>3. CASE KeyCommand(s)
  BY <1>1, <1>3
     DEF KeyCommand, LeaveSwept, DelCommand, ExistsCommand, TypeCommand, ExpireCommand,
         TtlCommand, KeysCommand, RandomKeyCommand
<1>4. CASE DbCommand(s)
  BY <1>1, <1>4
     DEF DbCommand, SelectCommand, Refuse, DbSizeCommand, FlushDbCommand, FlushAllCommand, Answer
<1>. QED  BY <1>2, <1>3, <1>4

(* RENAME, RENAMENX and MOVE change where an item is and nothing about it, *)
(* and no item comes to be in two places (RenameCommand, RenameNxCommand,  *)
(* MoveCommand).                                                           *)
THEOREM ItemsStayWhole == Spec => ItemsMoveWhole
<1>1. Inv /\ [Next]_vars => [answer'.command \in {"rename", "renamenx", "move"} => MovesWhole]_vars
  <2>. SUFFICES ASSUME Inv, Next, answer'.command \in {"rename", "renamenx", "move"}
                PROVE  MovesWhole
    OBVIOUS
  <2>. QED  BY OnlyTheseMove, RenameIsWhole, MoveIsWhole, TickIsWhole DEF Next
<1>. QED  BY <1>1, Invariance, PTL DEF Spec, ItemsMoveWhole, MovesWhole

(***************************************************************************)
(* Lives that are not lengthened.  A command either takes items away, or   *)
(* moves them whole, or makes one where nothing was alive; there remain    *)
(* INCR and its relatives on a live key.  What they store is the time that *)
(* was left, which the invariant bounds by what a request can ask for, and *)
(* the assumption on the clock puts that behind now: unless nothing was    *)
(* left at all, the new item is dead already.                              *)
(***************************************************************************)
LEMMA LiveIsItem ==
  ASSUME Inv, NEW d \in Dbs, NEW k \in Keys, LiveItem(d, k) # Absent
  PROVE  /\ LiveItem(d, k) \in Items /\ LiveItem(d, k) \in GoodItems
         /\ ~Expired(LiveItem(d, k), now)
         /\ NoLonger(LiveItem(d, k), LiveItem(d, k))
<1>1. /\ LiveItem(d, k) = dbs[d][k] /\ ~Expired(dbs[d][k], now)
      /\ dbs[d][k] \in GoodItems /\ dbs[d][k] # Absent
  BY DEF Inv, GoodDatabases, LiveItem, Get
<1>2. dbs[d][k] \in Items
  BY <1>1 DEF GoodItems
<1>. QED  BY <1>1, <1>2, ItemHasFields DEF NoLonger, Persistent

LEMMA ShrinkingLengthensNone ==
  ASSUME Inv, Shrinks
  PROVE  NotLengthened
<1>. SUFFICES ASSUME NEW c \in LiveCells'
              PROVE  \E b \in LiveCells : /\ NoLonger(LiveItem(c[1], c[2])', LiveItem(b[1], b[2]))
                                          /\ b = c
  BY DEF NotLengthened
<1>1. c \in LiveCells /\ LiveItem(c[1], c[2])' = LiveItem(c[1], c[2])
  BY DEF Shrinks
<1>2. c[1] \in Dbs /\ c[2] \in Keys /\ LiveItem(c[1], c[2]) # Absent
  BY <1>1 DEF LiveCells
<1>3. NoLonger(LiveItem(c[1], c[2]), LiveItem(c[1], c[2]))
  BY <1>2, LiveIsItem
<1>. QED  BY <1>1, <1>3

LEMMA MovingLengthensNone ==
  ASSUME Inv, MovesWhole, answer'.command \in {"rename", "renamenx", "move"}
  PROVE  NotLengthened
<1>. SUFFICES ASSUME NEW c \in LiveCells'
              PROVE  \E b \in LiveCells : NoLonger(LiveItem(c[1], c[2])', LiveItem(b[1], b[2]))
  BY DEF NotLengthened
<1>1. PICK b \in LiveCells : LiveItem(c[1], c[2])' = LiveItem(b[1], b[2])
  BY DEF MovesWhole
<1>2. b[1] \in Dbs /\ b[2] \in Keys /\ LiveItem(b[1], b[2]) # Absent
  BY <1>1 DEF LiveCells
<1>3. NoLonger(LiveItem(b[1], b[2]), LiveItem(b[1], b[2]))
  BY <1>2, LiveIsItem
<1>. QED  BY <1>1, <1>3

(* A command that puts an item under one key: every other cell that is     *)
(* alive afterwards was alive before, with the same item.                  *)
LEMMA OtherCells ==
  ASSUME Inv, NEW s \in Sessions, NEW k \in Keys, NEW item, NEW c, NEW r,
         Leave(s, Put(Db(s), k, item), c, r), NEW x \in LiveCells'
  PROVE  \/ x \in LiveCells /\ NoLonger(LiveItem(x[1], x[2])', LiveItem(x[1], x[2]))
         \/ /\ x = <<currentDb[s], k>> /\ LiveItem(x[1], x[2])' = item
            /\ ~Expired(item, now)
<1>1. PICK d \in Dbs, j \in Keys : x = <<d, j>> /\ LiveItem(d, j)' # Absent
  BY DEF LiveCells
<1>2. LiveItem(d, j)' = IF d = currentDb[s] THEN Get(Put(Db(s), k, item), j, now) ELSE LiveItem(d, j)
  BY LeftCells
<1>3. CASE d = currentDb[s] /\ j = k
  <2>1. Put(Db(s), k, item)[k] = item
    BY Seen DEF Put, GoodDatabases
  <2>. QED  BY <1>1, <1>2, <1>3, <2>1 DEF Get
<1>4. CASE ~(d = currentDb[s] /\ j = k)
  <2>1. LiveItem(d, j)' = LiveItem(d, j)
    <3>1. d = currentDb[s] => Put(Db(s), k, item)[j] = dbs[d][j]
      BY <1>4, Seen DEF Put, GoodDatabases, Db
    <3>. QED  BY <1>2, <3>1 DEF LiveItem, Get
  <2>2. x \in LiveCells
    BY <1>1, <2>1 DEF LiveCells
  <2>3. NoLonger(LiveItem(d, j), LiveItem(d, j))
    BY <1>1, <2>1, LiveIsItem
  <2>. QED  BY <1>1, <2>1, <2>2, <2>3
<1>. QED  BY <1>3, <1>4

LEMMA StartingLengthensNone ==
  ASSUME Inv, NEW s \in Sessions, NEW k \in Keys, NEW item, NEW c \in {"incr", "incrby", "push"},
         NEW r, Lookup(s, k) = Absent, Leave(s, Put(Db(s), k, item), c, r)
  PROVE  NotLengthened
<1>1. answer'.command = c
  BY DEF Leave, Answer
<1>2. <<currentDb[s], k>> \notin LiveCells
  BY DEF LiveCells, LiveItem, Lookup, Db
<1>. QED  BY <1>1, <1>2, OtherCells DEF NotLengthened

LEMMA CountingLengthensNone ==
  ASSUME Inv, NEW s \in Sessions, NEW k \in Keys, NEW v \in Strings, NEW c \in {"incr", "incrby"},
         NEW r, Lookup(s, k) # Absent,
         Leave(s, Put(Db(s), k, StringItem(v, LeftoverDeadline(Lookup(s, k)))), c, r)
  PROVE  NotLengthened
<1>1. answer'.command = c
  BY DEF Leave, Answer
<1>2. PICK old : old = Lookup(s, k)
  OBVIOUS
<1>3. PICK new : new = StringItem(v, LeftoverDeadline(old))
  OBVIOUS
<1>4. PICK e : e = <<currentDb[s], k>>
  OBVIOUS
<1>5. e \in LiveCells /\ LiveItem(e[1], e[2]) = old
  BY <1>2, <1>4, Seen DEF LiveCells, LiveItem, Lookup, Db
<1>6. ~Expired(new, now) => NoLonger(new, old) \/ old.expiredAt = now
  <2>. SUFFICES ASSUME ~Expired(new, now), ~Persistent(old), old.expiredAt # now
                PROVE  FALSE
    BY DEF NoLonger
  <2>1. old \in Items /\ old \in GoodItems /\ old # Absent /\ ~Expired(old, now)
    BY <1>2, LookupIsGood
  <2>2. now \in Int /\ now >= Epoch /\ Epoch \in Int
    BY Seen, ClockAssumption
  <2>3. old.expiredAt \in Int /\ old.expiredAt > now /\ old.expiredAt # 0
    BY <2>1, <2>2, ItemHasFields DEF Expired, Persistent
  <2>4. PICK t \in Ttls : old.expiredAt <= now + t * Second
    BY <2>1, <2>3, KeysAssumption DEF GoodItems, Timely
  <2>5. t * Second \in Int /\ t * Second < Epoch
    BY InputsAssumption, NumbersAssumption, EpochAssumption
  <2>6. LeftoverDeadline(old) = old.expiredAt - now
    BY <2>2, <2>3, KeysAssumption DEF LeftoverDeadline, TimeToLive
  <2>7. new.expiredAt = old.expiredAt - now /\ new # Absent
    <3>1. old.expiredAt - now \in Int \cup {Undefined}
      BY <2>2, <2>3
    <3>. QED  BY <1>3, <2>6, <3>1, StringItemIsItem, ItemHasFields
  <2>8. new.expiredAt > 0 /\ new.expiredAt < now /\ new.expiredAt \in Int
    BY <2>2, <2>3, <2>4, <2>5, <2>7
  <2>. QED  BY <2>7, <2>8, KeysAssumption DEF Expired
<1>7. ASSUME NEW x \in LiveCells'
      PROVE  \/ x \in LiveCells /\ NoLonger(LiveItem(x[1], x[2])', LiveItem(x[1], x[2]))
             \/ x \in LiveCells /\ LiveItem(x[1], x[2]).expiredAt = now
  <2>1. \/ x \in LiveCells /\ NoLonger(LiveItem(x[1], x[2])', LiveItem(x[1], x[2]))
        \/ x = e /\ LiveItem(x[1], x[2])' = new /\ ~Expired(new, now)
    BY <1>2, <1>3, <1>4, OtherCells
  <2>. QED  BY <1>5, <1>6, <2>1
<1>. QED  BY <1>1, <1>7 DEF NotLengthened

LEMMA StringCommandLengthensNone ==
  ASSUME Inv, NEW s \in Sessions, StringCommand(s), answer'.command \notin SettingDeadlines
  PROVE  NotLengthened
<1>1. ASSUME NEW db, NEW c, NEW r, Leave(s, db, c, r)
      PROVE  answer'.command = c
  BY <1>1 DEF Leave, Answer
<1>2. ASSUME NEW k \in Keys, NEW v, NEW t, NEW u, NEW c \in {"always", "NX", "XX"},
             SetCommand(s, k, v, t, u, c)
      PROVE  FALSE
  <2>1. PICK name : name = SetName(c)
    OBVIOUS
  <2>2. name \in {"set", "set nx", "set xx"}
    BY <2>1 DEF SetName
  <2>3. \E db, r : Leave(s, db, name, r)
    BY <1>2, <2>1 DEF SetCommand, Refuse
  <2>. QED  BY <1>1, <2>2, <2>3 DEF SettingDeadlines
<1>3. ASSUME NEW k \in Keys, NEW v, GetSetCommand(s, k, v) \/ SetNxCommand(s, k, v)
      PROVE  FALSE
  BY <1>1, <1>3 DEF LeaveSwept, GetSetCommand, SetNxCommand, SettingDeadlines
<1>4. ASSUME NEW f, NEW odd, MsetCommand(s, f, odd)
      PROVE  FALSE
  BY <1>1, <1>4 DEF Refuse, MsetCommand, SettingDeadlines
<1>5. ASSUME NEW k \in Keys, GetCommand(s, k)
      PROVE  NotLengthened
  BY <1>5, LeaveSweptStays, ShrinkingLengthensNone DEF GetCommand
<1>6. ASSUME NEW K \in SUBSET Keys, MGetCommand(s, K)
      PROVE  NotLengthened
  BY <1>6, LookedUpStays, ShrinkingLengthensNone DEF MGetCommand
<1>7. ASSUME NEW k \in Keys, NEW sign \in {1, -1}, IncrCommand(s, k, sign)
      PROVE  NotLengthened
  <2>1. CASE Lookup(s, k) = Absent
    BY <1>7, <2>1, StartingLengthensNone DEF IncrCommand
  <2>2. CASE \E r : LeaveSwept(s, k, "incr", r)
    BY <2>2, LeaveSweptStays, ShrinkingLengthensNone
  <2>3. CASE Lookup(s, k) # Absent /\ Lookup(s, k).type = "string" /\ Lookup(s, k).value # Text
    <3>1. Lookup(s, k).value + sign \in Strings
      BY <2>3, LookupIsGood, ItemHasFields DEF Strings
    <3>. QED  BY <1>7, <2>2, <2>3, <3>1, CountingLengthensNone DEF IncrCommand
  <2>. QED  BY <1>7, <2>1, <2>2, <2>3 DEF IncrCommand
<1>8. ASSUME NEW k \in Keys, NEW sign \in {1, -1}, NEW n \in Increments,
             IncrByCommand(s, k, sign, n)
      PROVE  NotLengthened
  <2>1. CASE Lookup(s, k) = Absent
    BY <1>8, <2>1, StartingLengthensNone DEF IncrByCommand
  <2>2. CASE \E r : LeaveSwept(s, k, "incrby", r)
    BY <2>2, LeaveSweptStays, ShrinkingLengthensNone
  <2>3. CASE /\ Lookup(s, k) # Absent /\ Lookup(s, k).type = "string"
             /\ Lookup(s, k).value # Text /\ n # Text
    <3>1. n \in Int /\ sign * n \in Int
      BY <2>3, InputsAssumption DEF Strings
    <3>2. Lookup(s, k).value + sign * n \in Strings
      BY <2>3, <3>1, LookupIsGood, ItemHasFields DEF Strings
    <3>. QED  BY <1>8, <2>2, <2>3, <3>2, CountingLengthensNone DEF IncrByCommand
  <2>. QED  BY <1>8, <2>1, <2>2, <2>3 DEF IncrByCommand
<1>9. ASSUME NEW k \in Keys, PushCommand(s, k)
      PROVE  NotLengthened
  <2>1. CASE Lookup(s, k) = Absent
    BY <1>9, <2>1, StartingLengthensNone DEF PushCommand
  <2>2. CASE Lookup(s, k) # Absent
    BY <1>9, <2>2, SameStays, LeaveSweptStays, ShrinkingLengthensNone DEF PushCommand
  <2>. QED  BY <2>1, <2>2
<1>. QED  BY <1>2, <1>3, <1>4, <1>5, <1>6, <1>7, <1>8, <1>9 DEF StringCommand

LEMMA KeyCommandLengthensNone ==
  ASSUME Inv, NEW s \in Sessions, KeyCommand(s), answer'.command \notin SettingDeadlines
  PROVE  NotLengthened
<1>1. ASSUME NEW db, NEW c, NEW r, Leave(s, db, c, r)
      PROVE  answer'.command = c
  BY <1>1 DEF Leave, Answer
<1>2. ASSUME NEW K \in SUBSET Keys, DelCommand(s, K)
      PROVE  NotLengthened
  <2>1. \A k \in Keys : Get([j \in Keys |-> IF j \in K THEN Absent ELSE Db(s)[j]], k, now)
                          \in {Absent, Lookup(s, k)}
    BY DEF Get, Expired, Lookup
  <2>. QED  BY <1>2, <2>1, LeaveStays, ShrinkingLengthensNone DEF DelCommand
<1>3. ASSUME NEW K \in SUBSET Keys, ExistsCommand(s, K)
      PROVE  NotLengthened
  BY <1>3, LookedUpStays, ShrinkingLengthensNone DEF ExistsCommand
<1>4. ASSUME NEW k \in Keys, TypeCommand(s, k) \/ TtlCommand(s, k)
      PROVE  NotLengthened
  BY <1>4, LeaveSweptStays, ShrinkingLengthensNone DEF TypeCommand, TtlCommand
<1>5. ASSUME NEW k \in Keys, NEW t, NEW u, ExpireCommand(s, k, t, u)
      PROVE  FALSE
  BY <1>1, <1>5 DEF LeaveSwept, ExpireCommand, SettingDeadlines
<1>6. ASSUME NEW from \in Keys, NEW to \in Keys,
             RenameCommand(s, from, to) \/ RenameNxCommand(s, from, to)
      PROVE  NotLengthened
  <2>1. answer'.command \in {"rename", "renamenx"}
    BY <1>1, <1>6 DEF LeaveSwept, RenameCommand, RenameNxCommand
  <2>. QED  BY <1>6, <2>1, RenameIsWhole, MovingLengthensNone
<1>7. ASSUME NEW k \in Keys, NEW d \in Indices \cup {Text}, MoveCommand(s, k, d)
      PROVE  NotLengthened
  <2>1. \/ \E r : Answer(s, "move", r)
        \/ \E db, r : Leave(s, db, "move", r)
    BY <1>7 DEF MoveCommand, LeaveSwept, Refuse
  <2>2. answer'.command = "move"
    BY <1>1, <2>1 DEF Answer
  <2>. QED  BY <1>7, <2>2, MoveIsWhole, MovingLengthensNone
<1>8. ASSUME NEW K, KeysCommand(s, K) \/ RandomKeyCommand(s)
      PROVE  NotLengthened
  BY <1>8, SameStays, ShrinkingLengthensNone DEF KeysCommand, RandomKeyCommand
<1>. QED  BY <1>2, <1>3, <1>4, <1>5, <1>6, <1>7, <1>8 DEF KeyCommand

LEMMA DbCommandLengthensNone ==
  ASSUME Inv, NEW s \in Sessions, DbCommand(s)
  PROVE  NotLengthened
<1>1. ASSUME NEW d, SelectCommand(s, d)
      PROVE  NotLengthened
  <2>1. CASE Refuse(s, "select")
    BY <2>1, SameStays, ShrinkingLengthensNone DEF Refuse
  <2>2. CASE dbs' = dbs /\ now' = now
    BY <2>2, ShrinkingLengthensNone DEF Shrinks, LiveCells, LiveItem, Get, Expired
  <2>. QED  BY <1>1, <2>1, <2>2 DEF SelectCommand
<1>2. CASE DbSizeCommand(s)
  BY <1>2, SameStays, ShrinkingLengthensNone DEF DbSizeCommand
<1>3. CASE FlushDbCommand(s)
  <2>1. \A k \in Keys : Get(EmptyDatabase, k, now) = Absent
    BY DEF Get, Expired, EmptyDatabase
  <2>. QED  BY <1>3, <2>1, LeaveStays, ShrinkingLengthensNone DEF FlushDbCommand
<1>4. CASE FlushAllCommand(s)
  <2>1. ASSUME NEW d \in Dbs, NEW k \in Keys
        PROVE  LiveItem(d, k)' \in {Absent, LiveItem(d, k)}
    BY <1>4 DEF FlushAllCommand, LiveItem, Get, Expired, EmptyDatabase
  <2>. QED  BY <2>1, ShrinkingLengthensNone DEF Shrinks, LiveCells
<1>. QED  BY <1>1, <1>2, <1>3, <1>4 DEF DbCommand

(* A command that is not asked to lengthens no life, whatever was done     *)
(* before it: the leftovers that INCR stores as deadlines are past, but in *)
(* the one millisecond in which nothing is left (IncrCommand,              *)
(* IncrByCommand, RenameCommand, MoveCommand, Database.get).               *)
THEOREM LivesStayBounded == Spec => LivesAreNotLengthened
<1>1. Inv /\ [Next]_vars =>
        [now' = now /\ answer'.command \notin SettingDeadlines => NotLengthened]_vars
  <2>. SUFFICES ASSUME Inv, Next, now' = now, answer'.command \notin SettingDeadlines
                PROVE  NotLengthened
    OBVIOUS
  <2>1. ~Tick
    BY ClockAssumption DEF Tick, Inv, TypeOK
  <2>. QED  BY <2>1, StringCommandLengthensNone, KeyCommandLengthensNone, DbCommandLengthensNone
            DEF Next
<1>. QED  BY <1>1, Invariance, PTL DEF Spec, LivesAreNotLengthened

(***************************************************************************)
(* Keyspace implements ExpiringMap, for any keys, databases, clients,      *)
(* inputs and clock: the refinement that the run keyspace_two_dbs checks.  *)
(*                                                                         *)
(* What clients see of a database is what a get would return of each of    *)
(* its keys, and Shown gives that map.  A command that leaves a database   *)
(* which shows what it showed before is a command that only looks; one     *)
(* that leaves another writes, in ExpiringMap, what of it is still alive.  *)
(* Each command has a lemma that names the disjunct of ExpiringMap it is.  *)
(* Time is the only other step: as the clock moves on, what is shown       *)
(* shrinks by the items whose deadline has just passed.                    *)
(***************************************************************************)

(* What clients can see of a database.                                     *)
Shown(db) == [k \in Keys |-> Get(db, k, now)]

(***************************************************************************)
(* The map of a session, and the two ways in which a command leaves it.    *)
(***************************************************************************)
LEMMA MapIsShown ==
  ASSUME Inv, NEW s \in Sessions
  PROVE  /\ Promise!Map(s) = Shown(Db(s))
         /\ \A k \in Keys : Promise!Map(s)[k] = Lookup(s, k)
BY Seen DEF Promise!Map, Shown, Db, Get, Expired, IsDead, Lookup

LEMMA LeaveBecomes ==
  ASSUME Inv, NEW s \in Sessions, NEW db, NEW m, NEW c, NEW r, Leave(s, db, c, r),
         Shown(db) = Promise!Visible(m, now)
  PROVE  Promise!Become(s, m, c, r)
BY Seen DEF Promise!Become, Promise!Say, Leave, Answer, Shown, Inv, Get, Expired, IsDead

LEMMA LeaveLooks ==
  ASSUME Inv, NEW s \in Sessions, NEW db, NEW c, NEW r, Leave(s, db, c, r),
         Shown(db) = Shown(Db(s))
  PROVE  Promise!Look(s, c, r)
BY Seen DEF Promise!Look, Promise!Say, Leave, Answer, Shown, Inv, Get, Expired, IsDead, Db

(* Dropping a dead item shows nothing.                                     *)
LEMMA SweepShows ==
  ASSUME NEW db, NEW G, db \in [Keys -> G], NEW k \in Keys
  PROVE  Shown(Sweep(db, k, now)) = Shown(db)
BY DEF Shown, Sweep, Get, Expired

LEMMA SweptLooks ==
  ASSUME Inv, NEW s \in Sessions, NEW k \in Keys, NEW c, NEW r, LeaveSwept(s, k, c, r)
  PROVE  Promise!Look(s, c, r)
<1>1. Shown(Sweep(Db(s), k, now)) = Shown(Db(s))
  BY Seen, SweepShows DEF GoodDatabases
<1>. QED  BY <1>1, LeaveLooks DEF LeaveSwept

LEMMA RefuseLooks ==
  ASSUME Inv, NEW s \in Sessions, NEW c, Refuse(s, c)
  PROVE  Promise!Refused(s, c)
BY LeaveLooks DEF Refuse, Promise!Refused, Error

(* Time takes from what is shown nothing but what it took from the items.  *)
LEMMA PutShows ==
  ASSUME NEW db, NEW G, db \in [Keys -> G], NEW k \in Keys, NEW item
  PROVE  Shown(Put(db, k, item)) = Promise!Visible([Shown(db) EXCEPT ![k] = item], now)
BY DEF Shown, Put, Get, Expired, Promise!Visible, Promise!Dead

LEMMA PutBecomes ==
  ASSUME Inv, NEW s \in Sessions, NEW k \in Keys, NEW item, NEW c, NEW r,
         Leave(s, Put(Db(s), k, item), c, r)
  PROVE  Promise!Become(s, [Promise!Map(s) EXCEPT ![k] = item], c, r)
<1>1. Shown(Put(Db(s), k, item)) = Promise!Visible([Shown(Db(s)) EXCEPT ![k] = item], now)
  BY Seen, PutShows DEF GoodDatabases
<1>2. Promise!Map(s) = Shown(Db(s))
  BY MapIsShown
<1>. QED  BY <1>1, <1>2, LeaveBecomes

(* A database whose every key shows what the map m shows of it.            *)
LEMMA CellsShow ==
  ASSUME NEW db, NEW m,
         \A k \in Keys : Get(db, k, now) = IF Expired(m[k], now) THEN Absent ELSE m[k]
  PROVE  Shown(db) = Promise!Visible(m, now)
BY DEF Shown, Promise!Visible, Promise!Dead, Expired

(* A command that drops dead items among the keys of K and nothing else.   *)
LEMMA LookedUpLooks ==
  ASSUME Inv, NEW s \in Sessions, NEW K \in SUBSET Keys, NEW c, NEW r,
         Leave(s, [k \in Keys |-> IF k \in K THEN Lookup(s, k) ELSE Db(s)[k]], c, r)
  PROVE  Promise!Look(s, c, r)
<1>1. Shown([k \in Keys |-> IF k \in K THEN Lookup(s, k) ELSE Db(s)[k]]) = Shown(Db(s))
  BY DEF Shown, Get, Expired, Lookup
<1>. QED  BY <1>1, LeaveLooks

LEMMA AliveIsPresent ==
  ASSUME Inv, NEW s \in Sessions, NEW k \in Keys, Lookup(s, k) # Absent
  PROVE  Lookup(s, k) = Db(s)[k] /\ ~Expired(Db(s)[k], now)
BY DEF Lookup, Get

(* A live item has the time left that TTL computes.                        *)
LEMMA LeftIsRemaining ==
  ASSUME Inv, NEW s \in Sessions, NEW k \in Keys, Lookup(s, k) # Absent
  PROVE  /\ TimeToLive(Lookup(s, k), now) = Promise!Remaining(Lookup(s, k))
         /\ LeftoverDeadline(Lookup(s, k)) =
              IF Promise!Remaining(Lookup(s, k)) = -1 THEN Undefined
              ELSE Promise!Remaining(Lookup(s, k))
<1>1. PICK item : item = Lookup(s, k)
  OBVIOUS
<1>2. item \in Items /\ ~Expired(item, now) /\ now \in Int
  BY <1>1, LookupIsGood, Seen
<1>3. item.expiredAt \in Int \cup {Undefined} /\ item # Absent
  BY <1>2, ItemHasFields
<1>4. TimeToLive(item, now) = Promise!Remaining(item)
  BY <1>2, <1>3 DEF TimeToLive, Promise!Remaining, Expired
<1>. QED  BY <1>1, <1>4 DEF LeftoverDeadline

(***************************************************************************)
(* The string commands.                                                    *)
(***************************************************************************)
LEMMA SetRefines ==
  ASSUME Inv, NEW s \in Sessions, NEW k \in Keys, NEW v \in Values,
         NEW ttl \in Ttls \cup {Undefined}, NEW unit \in {1, Second},
         NEW c \in {"always", "NX", "XX"}, SetCommand(s, k, v, ttl, unit, c)
  PROVE  \/ Promise!Refused(s, SetName(c))
         \/ (ttl = Undefined \/ ttl >= 1) /\ Promise!Set(s, k, v, ttl, unit, c)
<1>1. CASE ttl # Undefined /\ ttl < 1
  BY <1>1, RefuseLooks DEF SetCommand
<1>2. CASE ~(ttl # Undefined /\ ttl < 1)
  <2>1. PICK item : item = StringItem(v, Deadline(ttl, unit))
    OBVIOUS
  <2>2. Leave(s, AfterSet(s, k, item, c), SetName(c), IF Saved(s, k, item, c) = item THEN Ok ELSE Nil)
    BY <1>2, <2>1 DEF SetCommand
  <2>3. item = Promise!String(v, IF ttl = Undefined THEN Undefined ELSE now + ttl * unit)
    BY <2>1 DEF StringItem, Deadline, Promise!String
  <2>4. item # Absent
    <3>1. Deadline(ttl, unit) \in Int \cup {Undefined}
      BY Seen, InputsAssumption, NumbersAssumption DEF Deadline
    <3>. QED  BY <2>1, <3>1, InputsAssumption, StringItemIsItem, ItemHasFields
  <2>5. ttl = Undefined \/ ttl >= 1
    BY <1>2, InputsAssumption
  <2>6. Promise!Map(s)[k] = Lookup(s, k)
    BY MapIsShown
  <2>7. CASE /\ c = "XX" => Lookup(s, k) # Absent
             /\ c = "NX" => Lookup(s, k) = Absent
    <3>1. Leave(s, Put(Db(s), k, item), SetName(c), <<"status">>)
      BY <2>2, <2>7 DEF AfterSet, Saved, PutIfPresent, PutIfAbsent, Lookup, Ok
    <3>2. Promise!Become(s, [Promise!Map(s) EXCEPT ![k] = item], SetName(c), <<"status">>)
      BY <3>1, PutBecomes
    <3>. QED  BY <2>3, <2>5, <2>6, <2>7, <3>2 DEF Promise!Set, SetName
  <2>8. CASE c = "XX" /\ Lookup(s, k) = Absent
    <3>1. LeaveSwept(s, k, "set xx", <<"nil">>)
      BY <2>2, <2>4, <2>8 DEF AfterSet, Saved, PutIfPresent, Lookup, LeaveSwept, SetName, Nil
    <3>2. Promise!Look(s, "set xx", <<"nil">>)
      BY <3>1, SweptLooks
    <3>. QED  BY <2>3, <2>4, <2>5, <2>6, <2>8, <3>2 DEF Promise!Set
  <2>9. CASE c = "NX" /\ Lookup(s, k) # Absent
    <3>1. Leave(s, Db(s), "set nx", IF Lookup(s, k) = item THEN <<"status">> ELSE <<"nil">>)
      BY <2>2, <2>9 DEF AfterSet, Saved, PutIfAbsent, Lookup, SetName, Ok, Nil
    <3>2. Promise!Look(s, "set nx", IF Lookup(s, k) = item THEN <<"status">> ELSE <<"nil">>)
      BY <3>1, LeaveLooks
    <3>. QED  BY <2>3, <2>5, <2>6, <2>9, <3>2 DEF Promise!Set
  <2>. QED  BY <2>7, <2>8, <2>9
<1>. QED  BY <1>1, <1>2

LEMMA ReadRefines ==
  ASSUME Inv, NEW s \in Sessions, NEW k \in Keys,
         GetCommand(s, k) \/ TypeCommand(s, k) \/ TtlCommand(s, k)
  PROVE  Promise!Read(s, k)
<1>1. Promise!Map(s)[k] = Lookup(s, k)
  BY MapIsShown
<1>2. CASE GetCommand(s, k)
  BY <1>1, <1>2, SweptLooks, LookupIsGood
     DEF GetCommand, Promise!Read, Promise!IsString, Nil, Bulk, Error
<1>3. CASE TypeCommand(s, k)
  BY <1>1, <1>3, SweptLooks DEF TypeCommand, Promise!Read, Bulk
<1>4. CASE TtlCommand(s, k)
  <2>1. LeaveSwept(s, k, "ttl", <<"integer",
          IF Lookup(s, k) = Absent THEN -2
          ELSE IF Promise!Remaining(Lookup(s, k)) = -1 THEN -1
          ELSE Promise!Remaining(Lookup(s, k)) \div Second>>)
    BY <1>4, LeftIsRemaining DEF TtlCommand, Integer
  <2>. QED  BY <1>1, <2>1, SweptLooks DEF Promise!Read
<1>. QED  BY <1>2, <1>3, <1>4

LEMMA GetSetRefines ==
  ASSUME Inv, NEW s \in Sessions, NEW k \in Keys, NEW v \in Values, GetSetCommand(s, k, v)
  PROVE  Promise!GetSet(s, k, v)
<1>1. Promise!Map(s)[k] = Lookup(s, k)
  BY MapIsShown
<1>2. CASE Lookup(s, k) # Absent /\ Lookup(s, k).type # "string"
  BY <1>1, <1>2, SweptLooks DEF GetSetCommand, Promise!GetSet, Promise!IsString, NoReply
<1>3. CASE ~(Lookup(s, k) # Absent /\ Lookup(s, k).type # "string")
  <2>1. Leave(s, Put(Db(s), k, Promise!String(v, Undefined)), "getset",
              IF Lookup(s, k) = Absent THEN <<"nil">> ELSE <<"string", Lookup(s, k).value>>)
    BY <1>3 DEF GetSetCommand, StringItem, Promise!String, Nil, Bulk
  <2>2. ASSUME NEW r, Leave(s, Put(Db(s), k, Promise!String(v, Undefined)), "getset", r)
        PROVE  Promise!Become(s, [Promise!Map(s) EXCEPT ![k] = Promise!String(v, Undefined)],
                              "getset", r)
    BY <2>2, PutBecomes
  <2>3. CASE Lookup(s, k) = Absent
    <3>1. Leave(s, Put(Db(s), k, Promise!String(v, Undefined)), "getset", <<"nil">>)
      BY <2>1, <2>3
    <3>2. Promise!Become(s, [Promise!Map(s) EXCEPT ![k] = Promise!String(v, Undefined)],
                         "getset", <<"nil">>)
      BY <2>2, <3>1
    <3>3. Promise!Map(s)[k] = Absent
      BY <1>1, <2>3
    <3>. QED  BY ONLY <3>2, <3>3 DEF Promise!GetSet, Promise!Become, Promise!Say
  <2>4. CASE Lookup(s, k) # Absent
    <3>1. PICK v0 : v0 = Lookup(s, k).value
      OBVIOUS
    <3>2. Leave(s, Put(Db(s), k, Promise!String(v, Undefined)), "getset", <<"string", v0>>)
      BY <2>1, <2>4, <3>1
    <3>3. Promise!Become(s, [Promise!Map(s) EXCEPT ![k] = Promise!String(v, Undefined)],
                         "getset", <<"string", v0>>)
      BY <2>2, <3>2
    <3>4. /\ Promise!Map(s)[k] # Absent /\ Promise!IsString(Promise!Map(s)[k])
          /\ v0 = Promise!Map(s)[k].value
      BY <1>1, <1>3, <2>4, <3>1 DEF Promise!IsString
    <3>. QED  BY ONLY <3>3, <3>4 DEF Promise!GetSet, Promise!Become, Promise!Say
  <2>. QED  BY <2>3, <2>4
<1>. QED  BY <1>2, <1>3

LEMMA SetNxRefines ==
  ASSUME Inv, NEW s \in Sessions, NEW k \in Keys, NEW v \in Values, SetNxCommand(s, k, v)
  PROVE  Promise!SetNx(s, k, v)
<1>1. Promise!Map(s)[k] = Lookup(s, k)
  BY MapIsShown
<1>2. CASE Lookup(s, k) # Absent
  BY <1>1, <1>2, SweptLooks DEF SetNxCommand, Promise!SetNx, Promise!Number, Flag, Integer
<1>3. CASE Lookup(s, k) = Absent
  <2>1. Leave(s, Put(Db(s), k, Promise!String(v, Undefined)), "setnx", Promise!Number(TRUE))
    BY <1>3 DEF SetNxCommand, StringItem, Promise!String, Promise!Number, Flag, Integer
  <2>. QED  BY <1>1, <1>3, <2>1, PutBecomes DEF Promise!SetNx
<1>. QED  BY <1>2, <1>3

LEMMA MsetRefines ==
  ASSUME Inv, NEW s \in Sessions, NEW K \in SUBSET Keys, NEW f \in [K -> Values], NEW odd,
         MsetCommand(s, f, odd)
  PROVE  Promise!Refused(s, "mset") \/ Promise!Mset(s, f)
<1>1. CASE odd
  BY <1>1, RefuseLooks DEF MsetCommand
<1>2. CASE ~odd
  <2>1. PICK db : db = [k \in Keys |-> IF k \in DOMAIN f THEN StringItem(f[k], Undefined)
                                       ELSE Db(s)[k]]
    OBVIOUS
  <2>2. PICK m : m = [k \in Keys |-> IF k \in DOMAIN f THEN Promise!String(f[k], Undefined)
                                     ELSE Promise!Map(s)[k]]
    OBVIOUS
  <2>3. Leave(s, db, "mset", <<"status">>)
    BY <1>2, <2>1 DEF MsetCommand, Ok
  <2>4. Shown(db) = Promise!Visible(m, now)
    BY <2>1, <2>2, MapIsShown, CellsShow DEF StringItem, Promise!String, Lookup, Get, Expired
  <2>5. Promise!Become(s, m, "mset", <<"status">>)
    BY <2>3, <2>4, LeaveBecomes
  <2>. QED  BY <2>2, <2>5 DEF Promise!Mset
<1>. QED  BY <1>1, <1>2

LEMMA MGetRefines ==
  ASSUME Inv, NEW s \in Sessions, NEW K \in SUBSET Keys, MGetCommand(s, K)
  PROVE  Promise!ReadMany(s, K)
<1>1. PICK r : r = <<"array", [k \in K |-> IF Promise!IsString(Promise!Map(s)[k])
                                           THEN <<"string", Promise!Map(s)[k].value>>
                                           ELSE <<"nil">>]>>
  OBVIOUS
<1>2. r = Array([k \in K |-> IF Lookup(s, k) # Absent /\ Lookup(s, k).type = "string"
                             THEN Bulk(Lookup(s, k).value) ELSE Nil])
  BY <1>1, MapIsShown DEF Array, Bulk, Nil, Promise!IsString
<1>3. Promise!Look(s, "mget", r)
  BY <1>2, LookedUpLooks DEF MGetCommand
<1>. QED  BY <1>1, <1>3 DEF Promise!ReadMany

(* What INCR and its relatives do to a key that holds an integer.          *)
LEMMA CountBecomes ==
  ASSUME Inv, NEW s \in Sessions, NEW k \in Keys, NEW n, NEW c, n # Text,
         Lookup(s, k) # Absent, Lookup(s, k).type = "string", Lookup(s, k).value # Text,
         Leave(s, Put(Db(s), k, StringItem(Lookup(s, k).value + n, LeftoverDeadline(Lookup(s, k)))),
               c, Integer(Lookup(s, k).value + n))
  PROVE  Promise!Count(s, k, c, n)
<1>1. PICK item : item = Promise!Map(s)[k]
  OBVIOUS
<1>2. PICK v : v = item.value + n
  OBVIOUS
<1>3. PICK left : left = IF Promise!Remaining(item) = -1 THEN Undefined
                         ELSE Promise!Remaining(item)
  OBVIOUS
<1>4. item = Lookup(s, k)
  BY <1>1, MapIsShown
<1>5. left = LeftoverDeadline(Lookup(s, k))
  BY <1>3, <1>4, LeftIsRemaining
<1>6. Leave(s, Put(Db(s), k, Promise!String(v, left)), c, <<"integer", v>>)
  BY <1>2, <1>4, <1>5 DEF StringItem, Promise!String, Integer
<1>7. Promise!Become(s, [Promise!Map(s) EXCEPT ![k] = Promise!String(v, left)], c, <<"integer", v>>)
  BY <1>6, PutBecomes
<1>8. item # Absent /\ Promise!IsString(item) /\ item.value # Text
  BY <1>4 DEF Promise!IsString
<1>. QED  BY ONLY <1>1, <1>2, <1>3, <1>7, <1>8, n # Text DEF Promise!Count, Promise!Become, Promise!Say

(* An absent key counts from nothing.                                      *)
LEMMA CountStarts ==
  ASSUME Inv, NEW s \in Sessions, NEW k \in Keys, NEW n, NEW c, Lookup(s, k) = Absent,
         Leave(s, Put(Db(s), k, StringItem(n, Undefined)), c, Integer(n))
  PROVE  Promise!Count(s, k, c, n)
<1>1. Leave(s, Put(Db(s), k, Promise!String(n, Undefined)), c, <<"integer", n>>)
  BY DEF StringItem, Promise!String, Integer
<1>2. Promise!Become(s, [Promise!Map(s) EXCEPT ![k] = Promise!String(n, Undefined)], c,
                     <<"integer", n>>)
  BY <1>1, PutBecomes
<1>3. Promise!Map(s)[k] = Absent
  BY MapIsShown
<1>. QED  BY <1>2, <1>3 DEF Promise!Count

(* A key that holds no number counts nothing.                              *)
LEMMA CountFails ==
  ASSUME Inv, NEW s \in Sessions, NEW k \in Keys, NEW n, NEW c, Lookup(s, k) # Absent,
         \/ Lookup(s, k).type # "string" /\ LeaveSwept(s, k, c, NoReply)
         \/ Lookup(s, k).type = "string" /\ LeaveSwept(s, k, c, Error)
  PROVE  Promise!Count(s, k, c, n)
<1>1. Promise!Map(s)[k] = Lookup(s, k)
  BY MapIsShown
<1>2. \/ Lookup(s, k).type # "string" /\ Promise!Look(s, c, <<"none">>)
      \/ Lookup(s, k).type = "string" /\ Promise!Look(s, c, <<"error">>)
  BY SweptLooks DEF NoReply, Error
<1>. QED  BY <1>1, <1>2 DEF Promise!Count, Promise!IsString, Promise!Refused

LEMMA IncrRefines ==
  ASSUME Inv, NEW s \in Sessions, NEW k \in Keys, NEW sign \in {1, -1}, IncrCommand(s, k, sign)
  PROVE  Promise!Count(s, k, "incr", sign)
<1>1. sign # Text
  BY KeysAssumption
<1>2. CASE Lookup(s, k) = Absent
  BY <1>2, CountStarts DEF IncrCommand
<1>3. CASE /\ Lookup(s, k) # Absent
           /\ \/ Lookup(s, k).type # "string"
              \/ LeaveSwept(s, k, "incr", Error)
  BY <1>3, CountFails DEF IncrCommand
<1>4. CASE /\ Lookup(s, k) # Absent /\ Lookup(s, k).type = "string"
           /\ ~LeaveSwept(s, k, "incr", Error)
  BY <1>1, <1>4, CountBecomes DEF IncrCommand
<1>. QED  BY <1>2, <1>3, <1>4

LEMMA IncrByRefines ==
  ASSUME Inv, NEW s \in Sessions, NEW k \in Keys, NEW sign \in {1, -1}, NEW n \in Increments,
         IncrByCommand(s, k, sign, n)
  PROVE  Promise!Count(s, k, "incrby", IF n = Text THEN Text ELSE sign * n)
<1>1. PICK signed : signed = IF n = Text THEN Text ELSE sign * n
  OBVIOUS
<1>2. n # Text => signed # Text
  <2>. SUFFICES ASSUME n # Text PROVE signed # Text
    OBVIOUS
  <2>1. n \in Int
    BY InputsAssumption DEF Strings
  <2>2. sign * n \in Int
    BY <2>1
  <2>. QED  BY <1>1, <2>2, KeysAssumption
<1>3. CASE Lookup(s, k) = Absent
  BY <1>1, <1>3, CountStarts DEF IncrByCommand
<1>4. CASE /\ Lookup(s, k) # Absent
           /\ \/ Lookup(s, k).type # "string"
              \/ LeaveSwept(s, k, "incrby", Error)
  BY <1>1, <1>4, CountFails DEF IncrByCommand
<1>5. CASE /\ Lookup(s, k) # Absent /\ Lookup(s, k).type = "string"
           /\ ~LeaveSwept(s, k, "incrby", Error)
  <2>1. /\ Lookup(s, k).value # Text /\ n # Text
        /\ Leave(s, Put(Db(s), k, StringItem(Lookup(s, k).value + signed,
                                             LeftoverDeadline(Lookup(s, k)))),
                 "incrby", Integer(Lookup(s, k).value + signed))
    BY <1>1, <1>5 DEF IncrByCommand
  <2>. QED  BY <1>1, <1>2, <1>5, <2>1, CountBecomes
<1>. QED  BY <1>3, <1>4, <1>5

LEMMA PushRefines ==
  ASSUME Inv, NEW s \in Sessions, NEW k \in Keys, PushCommand(s, k)
  PROVE  Promise!Push(s, k)
<1>1. Promise!Map(s)[k] = Lookup(s, k)
  BY MapIsShown
<1>2. CASE Lookup(s, k) # Absent /\ Lookup(s, k).type # "list"
  <2>1. Promise!IsString(Lookup(s, k))
    BY <1>2, LookupIsGood DEF Promise!IsString, Items
  <2>2. Promise!Look(s, "push", <<"none">>)
    BY <1>2, SweptLooks DEF PushCommand, NoReply
  <2>. QED  BY <1>1, <2>1, <2>2 DEF Promise!Push
<1>3. CASE ~(Lookup(s, k) # Absent /\ Lookup(s, k).type # "list")
  <2>1. ~Promise!IsString(Lookup(s, k))
    BY <1>3 DEF Promise!IsString
  <2>2. PICK item : item = IF Lookup(s, k) = Absent THEN Promise!EmptyList ELSE Lookup(s, k)
    OBVIOUS
  <2>3. Leave(s, Put(Db(s), k, item), "push", <<"integer", 1>>)
    <3>1. CASE Lookup(s, k) = Absent
      BY <1>3, <2>2, <3>1 DEF PushCommand, ListItem, Promise!EmptyList, Integer
    <3>2. CASE Lookup(s, k) # Absent
      <4>1. Put(Db(s), k, item) = Db(s)
        BY <2>2, <3>2, Seen, AliveIsPresent DEF Put, GoodDatabases
      <4>. QED  BY <1>3, <3>2, <4>1 DEF PushCommand, Integer
    <3>. QED  BY <3>1, <3>2
  <2>4. Promise!Become(s, [Promise!Map(s) EXCEPT ![k] = item], "push", <<"integer", 1>>)
    BY <2>3, PutBecomes
  <2>. QED  BY <1>1, <2>1, <2>2, <2>4 DEF Promise!Push
<1>. QED  BY <1>2, <1>3

(***************************************************************************)
(* The key commands.                                                       *)
(***************************************************************************)

(* DEL may count a dead item, but nothing that is not there at all.        *)
LEMMA DelRefines ==
  ASSUME Inv, NEW s \in Sessions, NEW K \in SUBSET Keys, DelCommand(s, K)
  PROVE  Promise!Del(s, K)
<1>1. PICK db : db = [k \in Keys |-> IF k \in K THEN Absent ELSE Db(s)[k]]
  OBVIOUS
<1>2. PICK m : m = [k \in Keys |-> IF k \in K THEN Absent ELSE Promise!Map(s)[k]]
  OBVIOUS
<1>3. PICK n : n = Cardinality(K \cap Present(Db(s)))
  OBVIOUS
<1>4. Leave(s, db, "del", <<"integer", n>>)
  BY <1>1, <1>3 DEF DelCommand, Integer
<1>5. Shown(db) = Promise!Visible(m, now)
  BY <1>1, <1>2, MapIsShown, CellsShow DEF Lookup, Get, Expired
<1>6. Promise!Become(s, m, "del", <<"integer", n>>)
  BY <1>4, <1>5, LeaveBecomes
<1>7. n \in Cardinality(K \cap Promise!Live(Promise!Map(s))) .. Cardinality(K)
  <2>1. Promise!Live(Promise!Map(s)) \subseteq Present(Db(s))
    BY MapIsShown DEF Promise!Live, Present, Lookup, Get
  <2>2. IsFiniteSet(K)
    BY FiniteKeysAssumption, FS_Subset
  <2>3. IsFiniteSet(K \cap Present(Db(s))) /\ n <= Cardinality(K)
    BY <1>3, <2>2, FS_Subset
  <2>4. Cardinality(K \cap Promise!Live(Promise!Map(s))) <= n
    <3>1. (K \cap Promise!Live(Promise!Map(s))) \in SUBSET (K \cap Present(Db(s)))
      BY <2>1
    <3>. QED  BY <1>3, <2>3, <3>1, FS_Subset
  <2>5. /\ n \in Nat /\ Cardinality(K) \in Nat
        /\ Cardinality(K \cap Promise!Live(Promise!Map(s))) \in Nat
    <3>1. IsFiniteSet(K \cap Promise!Live(Promise!Map(s)))
      BY <2>2, FS_Subset
    <3>. QED  BY <1>3, <2>2, <2>3, <3>1, FS_CardinalityType
  <2>. QED  BY <2>3, <2>4, <2>5
<1>8. \A S : Promise!Cardinality(S) = Cardinality(S)
  BY DEF Promise!Cardinality, Cardinality
<1>9. n \in Promise!Cardinality(K \cap Promise!Live(Promise!Map(s))) .. Promise!Cardinality(K)
  BY ONLY <1>7, <1>8
<1>10. Promise!Become(s, [k \in Keys |-> IF k \in K THEN Absent ELSE Promise!Map(s)[k]],
                      "del", <<"integer", n>>)
  BY ONLY <1>2, <1>6
<1>. QED  BY ONLY <1>9, <1>10 DEF Promise!Del

LEMMA ExistsRefines ==
  ASSUME Inv, NEW s \in Sessions, NEW K \in SUBSET Keys, ExistsCommand(s, K)
  PROVE  Promise!ReadMany(s, K)
<1>1. PICK n : n = Cardinality({k \in K : Lookup(s, k) # Absent})
  OBVIOUS
<1>2. {k \in K : Lookup(s, k) # Absent} = K \cap Promise!Live(Promise!Map(s))
  BY MapIsShown DEF Promise!Live
<1>3. n = Promise!Cardinality(K \cap Promise!Live(Promise!Map(s)))
  <2>1. \A S : Promise!Cardinality(S) = Cardinality(S)
    BY DEF Promise!Cardinality, Cardinality
  <2>. QED  BY <1>1, <1>2, <2>1
<1>4. Promise!Look(s, "exists", <<"integer", n>>)
  <2>1. Leave(s, [k \in Keys |-> IF k \in K THEN Lookup(s, k) ELSE Db(s)[k]], "exists", <<"integer", n>>)
    BY <1>1 DEF ExistsCommand, Integer
  <2>. QED  BY <2>1, LookedUpLooks
<1>. QED  BY <1>3, <1>4 DEF Promise!ReadMany, Promise!Look, Promise!Say

(* An item that gets a deadline behind the clock is gone.                  *)
LEMMA ExpireRefines ==
  ASSUME Inv, NEW s \in Sessions, NEW k \in Keys, NEW ttl \in Ttls \cup {Text},
         NEW unit \in {1, Second}, ExpireCommand(s, k, ttl, unit)
  PROVE  Promise!Expire(s, k, ttl, unit)
<1>1. Promise!Map(s)[k] = Lookup(s, k)
  BY MapIsShown
<1>2. CASE Lookup(s, k) = Absent
  BY <1>1, <1>2, SweptLooks DEF ExpireCommand, Promise!Expire, Promise!Number, Flag, Integer
<1>3. CASE Lookup(s, k) # Absent /\ ttl = Text
  BY <1>1, <1>3, SweptLooks DEF ExpireCommand, Promise!Expire, Promise!Refused, Error
<1>4. CASE Lookup(s, k) # Absent /\ ttl # Text
  <2>1. PICK m : m = Promise!Map(s)
    OBVIOUS
  <2>2. PICK deadline : deadline = IF ttl < 1 THEN -1 ELSE now + ttl * unit
    OBVIOUS
  <2>3. PICK item : item = [m[k] EXCEPT !.expiredAt = deadline]
    OBVIOUS
  <2>4. m = Shown(Db(s)) /\ m[k] = Lookup(s, k) /\ m = [j \in Keys |-> m[j]]
    BY <2>1, MapIsShown DEF Shown
  <2>5. Leave(s, Put(Db(s), k, item), "expire", Promise!Number(TRUE))
    BY <1>4, <2>2, <2>3, <2>4 DEF ExpireCommand, Promise!Number, Flag, Integer
  <2>6. CASE ttl < 1
    <3>1. deadline = -1 /\ now \in Int /\ now > 0
      BY <2>2, <2>6, Seen
    <3>2. item \in Items /\ item.expiredAt = -1
      BY <1>4, <2>3, <2>4, <3>1, LookupIsGood, ItemWithDeadline
    <3>3. Expired(item, now)
      BY <3>1, <3>2, KeysAssumption, ItemHasFields DEF Expired
    <3>4. Shown(Put(Db(s), k, item)) = Promise!Visible([m EXCEPT ![k] = item], now)
      BY <2>4, Seen, PutShows DEF GoodDatabases
    <3>5. Promise!Visible([m EXCEPT ![k] = item], now) = Promise!Visible([m EXCEPT ![k] = Absent], now)
      BY <2>4, <3>3 DEF Promise!Visible, Promise!Dead, Expired
    <3>6. PICK m1 : m1 = [m EXCEPT ![k] = Absent]
      OBVIOUS
    <3>7. Promise!Become(s, m1, "expire", Promise!Number(TRUE))
      BY <2>5, <3>4, <3>5, <3>6, LeaveBecomes
    <3>. QED  BY <1>1, <1>4, <2>1, <2>4, <2>6, <3>6, <3>7
              DEF Promise!Expire, Promise!Become, Promise!Say
  <2>7. CASE ~(ttl < 1)
    <3>1. PICK m1 : m1 = [m EXCEPT ![k].expiredAt = now + ttl * unit]
      OBVIOUS
    <3>2. m1 = [m EXCEPT ![k] = item]
      BY <2>2, <2>3, <2>4, <2>7, <3>1
    <3>3. Promise!Become(s, m1, "expire", Promise!Number(TRUE))
      <4>1. Shown(Put(Db(s), k, item)) = Promise!Visible(m1, now)
        BY <2>4, <3>2, Seen, PutShows DEF GoodDatabases
      <4>. QED  BY <2>5, <4>1, LeaveBecomes
    <3>. QED  BY <1>1, <1>4, <2>1, <2>4, <2>7, <3>1, <3>3
              DEF Promise!Expire, Promise!Become, Promise!Say
  <2>. QED  BY <2>6, <2>7
<1>. QED  BY <1>2, <1>3, <1>4

(* A live item that is renamed takes everything along.                     *)
LEMMA RenamedShows ==
  ASSUME NEW db, NEW G, db \in [Keys -> G], NEW from \in Keys, NEW to \in Keys,
         Get(db, from, now) # Absent
  PROVE  Shown(RenameItem(db, from, to)) =
           Promise!Visible(Promise!Renamed(Shown(db), from, to), now)
<1>1. db[from] # Absent /\ Get(db, from, now) = db[from] /\ ~Expired(db[from], now)
  BY DEF Get
<1>2. PICK db1 : db1 = [[db EXCEPT ![from] = Absent] EXCEPT ![to] = db[from]]
  OBVIOUS
<1>3. PICK m1 : m1 = [[Shown(db) EXCEPT ![from] = Absent] EXCEPT ![to] = db[from]]
  OBVIOUS
<1>4. \A k \in Keys : db1[k] = IF k = to THEN db[from] ELSE IF k = from THEN Absent ELSE db[k]
  BY <1>2
<1>5. \A k \in Keys : m1[k] = IF k = to THEN db[from] ELSE IF k = from THEN Absent
                              ELSE Get(db, k, now)
  BY <1>3 DEF Shown
<1>6. \A k \in Keys : Get(db1, k, now) = IF Expired(m1[k], now) THEN Absent ELSE m1[k]
  BY <1>4, <1>5 DEF Get, Expired
<1>7. RenameItem(db, from, to) = db1
  BY <1>1, <1>2 DEF RenameItem, Put, Remove
<1>8. Promise!Renamed(Shown(db), from, to) = m1
  BY <1>1, <1>3 DEF Promise!Renamed, Shown
<1>. QED  BY <1>6, <1>7, <1>8, CellsShow

LEMMA RenameRefines ==
  ASSUME Inv, NEW s \in Sessions, NEW from \in Keys, NEW to \in Keys,
         RenameCommand(s, from, to)
  PROVE  Promise!Rename(s, from, to)
<1>1. Promise!Map(s)[from] = Lookup(s, from)
  BY MapIsShown
<1>2. CASE Lookup(s, from) = Absent
  BY <1>1, <1>2, SweptLooks DEF RenameCommand, Promise!Rename, Promise!Refused, Error
<1>3. CASE Lookup(s, from) # Absent
  <2>1. PICK m1 : m1 = Promise!Renamed(Promise!Map(s), from, to)
    OBVIOUS
  <2>2. Shown(RenameItem(Db(s), from, to)) = Promise!Visible(m1, now)
    BY <1>3, <2>1, MapIsShown, Seen, RenamedShows DEF GoodDatabases, Lookup
  <2>3. Leave(s, RenameItem(Db(s), from, to), "rename", <<"status">>)
    BY <1>3 DEF RenameCommand, Ok
  <2>4. Promise!Become(s, m1, "rename", <<"status">>)
    BY <2>2, <2>3, LeaveBecomes
  <2>. QED  BY <1>1, <1>3, <2>1, <2>4 DEF Promise!Rename, Promise!Become, Promise!Say
<1>. QED  BY <1>2, <1>3

LEMMA RenameNxRefines ==
  ASSUME Inv, NEW s \in Sessions, NEW from \in Keys, NEW to \in Keys,
         RenameNxCommand(s, from, to)
  PROVE  Promise!RenameNx(s, from, to)
<1>1. Promise!Map(s)[from] = Lookup(s, from) /\ Promise!Map(s)[to] = Lookup(s, to)
  BY MapIsShown
<1>2. CASE Lookup(s, from) = Absent
  BY <1>1, <1>2, SweptLooks DEF RenameNxCommand, Promise!RenameNx, Promise!Refused, Error
<1>3. CASE Lookup(s, from) # Absent /\ Lookup(s, to) # Absent
  <2>1. Leave(s, Db(s), "renamenx", Promise!Number(FALSE))
    BY <1>3 DEF RenameNxCommand, Promise!Number, Flag, Integer
  <2>. QED  BY <1>1, <1>3, <2>1, LeaveLooks DEF Promise!RenameNx
<1>4. CASE Lookup(s, from) # Absent /\ Lookup(s, to) = Absent
  <2>1. PICK db : db = Sweep(Db(s), to, now)
    OBVIOUS
  <2>2. PICK m1 : m1 = Promise!Renamed(Promise!Map(s), from, to)
    OBVIOUS
  <2>3. db \in [Keys -> GoodItems] /\ Shown(db) = Promise!Map(s)
    BY <2>1, LookupIsGood, MapIsShown, Seen, SweepShows DEF GoodDatabases
  <2>4. Get(db, from, now) # Absent
    BY <1>1, <1>4, <2>3 DEF Shown
  <2>5. Shown(RenameItem(db, from, to)) = Promise!Visible(m1, now)
    BY <2>2, <2>3, <2>4, RenamedShows
  <2>6. Leave(s, RenameItem(db, from, to), "renamenx", Promise!Number(TRUE))
    BY <1>4, <2>1 DEF RenameNxCommand, Promise!Number, Flag, Integer
  <2>7. Promise!Become(s, m1, "renamenx", Promise!Number(TRUE))
    BY <2>5, <2>6, LeaveBecomes
  <2>. QED  BY <1>1, <1>4, <2>2, <2>7 DEF Promise!RenameNx, Promise!Become, Promise!Say
<1>. QED  BY <1>2, <1>3, <1>4

LEMMA MoveRefines ==
  ASSUME Inv, NEW s \in Sessions, NEW k \in Keys, NEW target \in Indices \cup {Text},
         MoveCommand(s, k, target)
  PROVE  \/ Promise!Refused(s, "move")
         \/ target \in Dbs \ {currentDb[s]} /\ Promise!Move(s, k, target)
<1>1. CASE target = Text \/ ~Reachable(target) \/ target = currentDb[s]
  BY <1>1, RefuseLooks DEF MoveCommand
<1>2. CASE target # Text /\ Reachable(target) /\ target \in Dbs \ {currentDb[s]}
  <2>. DEFINE view == [d \in Dbs |-> [j \in Keys |-> IF IsDead(dbs[d][j]) THEN Absent ELSE dbs[d][j]]]
  <2>1. Promise!Map(s)[k] = Lookup(s, k) /\ view[target][k] = Get(dbs[target], k, now)
    BY <1>2, MapIsShown DEF Get, IsDead, Expired
  <2>2. CASE Lookup(s, k) = Absent
    BY <1>2, <2>1, <2>2, SweptLooks DEF MoveCommand, Promise!Move, Promise!Number, Flag, Integer
  <2>3. CASE Lookup(s, k) # Absent /\ Get(dbs[target], k, now) # Absent
    <3>1. Leave(s, Db(s), "move", Promise!Number(FALSE))
      BY <1>2, <2>3 DEF MoveCommand, Promise!Number, Flag, Integer
    <3>. QED  BY <1>2, <2>1, <2>3, <3>1, LeaveLooks DEF Promise!Move
  <2>4. CASE Lookup(s, k) # Absent /\ Get(dbs[target], k, now) = Absent
    <3>1. /\ dbs' = [dbs EXCEPT ![target] = Put(@, k, Db(s)[k]), ![currentDb[s]] = Remove(@, k)]
          /\ Answer(s, "move", Flag(TRUE))
          /\ UNCHANGED <<now, currentDb>>
      BY <1>2, <2>4 DEF MoveCommand
    <3>2. Promise!Say(s, "move", Promise!Number(TRUE))
      BY <3>1 DEF Answer, Promise!Say, Promise!Number, Flag, Integer
    <3>3. view' = [view EXCEPT ![target] = [@ EXCEPT ![k] = Promise!Map(s)[k]],
                               ![currentDb[s]] = [@ EXCEPT ![k] = Absent]]
      <4>1. Promise!Map(s)[k] = Db(s)[k] /\ ~Expired(Db(s)[k], now)
        BY <2>1, <2>4, AliveIsPresent
      <4>2. \A d \in Dbs : dbs[d] \in [Keys -> GoodItems] /\ currentDb[s] \in Dbs
        BY Seen DEF Inv, GoodDatabases
      <4>3. \A d \in Dbs, j \in Keys : dbs'[d][j] =
              IF d = currentDb[s] /\ j = k THEN Absent
              ELSE IF d = target /\ j = k THEN Db(s)[k] ELSE dbs[d][j]
        BY <1>2, <3>1, <4>2 DEF Put, Remove, Inv
      <4>4. now' = now
        BY <3>1
      <4>5. PICK x : x = Promise!Map(s)[k]
        OBVIOUS
      <4>6. PICK old : old = view
        OBVIOUS
      <4>7. \A d \in Dbs : old[d] = [j \in Keys |-> IF Expired(dbs[d][j], now) THEN Absent ELSE dbs[d][j]]
        BY <4>6 DEF IsDead, Expired
      <4>8. \A d \in Dbs, j \in Keys :
              (IF Expired(dbs'[d][j], now) THEN Absent ELSE dbs'[d][j]) =
                IF d = currentDb[s] /\ j = k THEN Absent
                ELSE IF d = target /\ j = k THEN x ELSE old[d][j]
        <5>. SUFFICES ASSUME NEW d \in Dbs, NEW j \in Keys
                      PROVE  (IF Expired(dbs'[d][j], now) THEN Absent ELSE dbs'[d][j]) =
                               IF d = currentDb[s] /\ j = k THEN Absent
                               ELSE IF d = target /\ j = k THEN x ELSE old[d][j]
          OBVIOUS
        <5>1. x = Db(s)[k] /\ ~Expired(x, now) /\ ~Expired(Absent, now)
          BY <4>1, <4>5 DEF Expired
        <5>2. old[d][j] = IF Expired(dbs[d][j], now) THEN Absent ELSE dbs[d][j]
          BY <4>7
        <5>3. dbs'[d][j] = IF d = currentDb[s] /\ j = k THEN Absent
                           ELSE IF d = target /\ j = k THEN x ELSE dbs[d][j]
          BY <4>3, <5>1
        <5>. QED  BY <5>1, <5>2, <5>3
      <4>9. view' = [d \in Dbs |-> [j \in Keys |-> IF Expired(dbs'[d][j], now) THEN Absent
                                                   ELSE dbs'[d][j]]]
        BY <4>4 DEF IsDead, Expired
      <4>10. [old EXCEPT ![target] = [@ EXCEPT ![k] = x], ![currentDb[s]] = [@ EXCEPT ![k] = Absent]]
               = [d \in Dbs |-> [j \in Keys |->
                    IF d = currentDb[s] /\ j = k THEN Absent
                    ELSE IF d = target /\ j = k THEN x ELSE old[d][j]]]
        BY <1>2, <4>2, <4>6, <4>7
      <4>11. view' = [old EXCEPT ![target] = [@ EXCEPT ![k] = x],
                                 ![currentDb[s]] = [@ EXCEPT ![k] = Absent]]
        BY ONLY <4>8, <4>9, <4>10
      <4>. QED  BY <4>5, <4>6, <4>11
    <3>. QED  BY <1>2, <2>1, <2>4, <3>2, <3>3 DEF Promise!Move
  <2>. QED  BY <2>2, <2>3, <2>4
<1>. QED  BY <1>1, <1>2, ReachableIsThere

(* DBSIZE, KEYS and RANDOMKEY may name what is dead, and no more than is   *)
(* there.                                                                  *)
LEMMA CensusRefines ==
  ASSUME Inv, NEW s \in Sessions,
         \/ DbSizeCommand(s)
         \/ \E K \in SUBSET Keys : KeysCommand(s, K)
         \/ RandomKeyCommand(s)
  PROVE  Promise!Census(s)
<1>1. PICK live : live = Promise!Live(Promise!Map(s))
  OBVIOUS
<1>2. PICK present : present = Present(Db(s))
  OBVIOUS
<1>3. live \subseteq present /\ present \subseteq Keys
  BY <1>1, <1>2, MapIsShown DEF Promise!Live, Present, Lookup, Get
<1>4. ASSUME NEW c, NEW r, Leave(s, Db(s), c, r)
      PROVE  Promise!Look(s, c, r)
  BY <1>4, LeaveLooks
<1>5. CASE DbSizeCommand(s)
  <2>1. PICK n : n = Cardinality(present)
    OBVIOUS
  <2>2. IsFiniteSet(present) /\ IsFiniteSet(live)
    BY <1>3, FiniteKeysAssumption, FS_Subset
  <2>3. n \in Nat /\ Cardinality(live) \in Nat /\ Cardinality(Keys) \in Nat
    BY <2>1, <2>2, FiniteKeysAssumption, FS_CardinalityType
  <2>4. Cardinality(live) <= n /\ n <= Cardinality(Keys)
    BY <1>3, <2>1, <2>2, FiniteKeysAssumption, FS_Subset
  <2>5. n \in Promise!Cardinality(Promise!Live(Promise!Map(s))) .. Promise!Cardinality(Keys)
    <3>1. \A S : Promise!Cardinality(S) = Cardinality(S)
      BY DEF Promise!Cardinality, Cardinality
    <3>. QED  BY <1>1, <2>3, <2>4, <3>1
  <2>6. Promise!Look(s, "dbsize", <<"integer", n>>)
    BY <1>2, <1>4, <1>5, <2>1 DEF DbSizeCommand, Integer
  <2>. QED  BY <2>5, <2>6 DEF Promise!Census
<1>6. ASSUME NEW K \in SUBSET Keys, KeysCommand(s, K)
      PROVE  Promise!Census(s)
  <2>1. Promise!Look(s, "keys", <<"array", K \cap present>>)
    BY <1>2, <1>4, <1>6 DEF KeysCommand, Array
  <2>2. K \cap present = (K \cap live) \cup (K \cap present)
    BY <1>3
  <2>3. \E D \in SUBSET Keys :
          Promise!Look(s, "keys", <<"array", (K \cap Promise!Live(Promise!Map(s))) \cup (K \cap D)>>)
    BY <1>1, <1>3, <2>1, <2>2 DEF Promise!Look, Promise!Say
  <2>. QED  BY <2>3 DEF Promise!Census
<1>7. CASE RandomKeyCommand(s)
  <2>1. CASE present = {} /\ Leave(s, Db(s), "randomkey", Nil)
    BY <1>1, <1>3, <1>4, <2>1 DEF Promise!Census, Nil
  <2>2. CASE \E k \in present : Leave(s, Db(s), "randomkey", Bulk(k))
    BY <1>3, <1>4, <2>2 DEF Promise!Census, Bulk
  <2>. QED  BY <1>2, <1>7, <2>1, <2>2 DEF RandomKeyCommand
<1>. QED  BY <1>5, <1>6, <1>7

(***************************************************************************)
(* The database commands and the clock.                                    *)
(***************************************************************************)
LEMMA SelectRefines ==
  ASSUME Inv, NEW s \in Sessions, NEW d \in Indices \cup {Text}, SelectCommand(s, d)
  PROVE  Promise!Refused(s, "select") \/ (d \in Dbs /\ Promise!Select(s, d))
<1>1. CASE d = Text \/ ~Selectable(d)
  BY <1>1, RefuseLooks DEF SelectCommand
<1>2. CASE d # Text /\ Selectable(d)
  <2>1. Promise!Select(s, d)
    BY <1>2 DEF SelectCommand, Answer, Ok, Promise!Select, IsDead
  <2>. QED  BY <1>2, <2>1 DEF Dbs
<1>. QED  BY <1>1, <1>2

LEMMA FlushRefines ==
  ASSUME Inv, NEW s \in Sessions, FlushDbCommand(s) \/ FlushAllCommand(s)
  PROVE  Promise!Flush(s)
<1>1. CASE FlushDbCommand(s)
  <2>1. Shown(EmptyDatabase) = Promise!Visible(Promise!Empty, now)
    BY DEF Shown, Get, Expired, EmptyDatabase, Promise!Visible, Promise!Dead, Promise!Empty
  <2>. QED  BY <1>1, <2>1, LeaveBecomes DEF FlushDbCommand, Promise!Flush, Ok
<1>2. CASE FlushAllCommand(s)
  BY <1>2 DEF FlushAllCommand, Answer, Ok, EmptyDatabase, Promise!Flush, Promise!Say,
              Promise!Empty, IsDead
<1>. QED  BY <1>1, <1>2

(* What was dead stays dead, and what has just died is taken away.         *)
LEMMA TickRefines ==
  ASSUME Inv, Tick
  PROVE  Promise!Tick
<1>1. now \in Int /\ now' = now + 1 /\ dbs' = dbs
  BY ClockAssumption DEF Tick, Inv, TypeOK
<1>2. ASSUME NEW d \in Dbs, NEW k \in Keys
      PROVE  Expired(dbs[d][k], now) => Expired(dbs[d][k], now')
  <2>1. dbs[d][k] \in Items \cup {Absent}
    BY DEF Inv, GoodDatabases, GoodItems
  <2>. QED  BY <1>1, <2>1, ItemHasFields DEF Expired
<1>3. ASSUME NEW d \in Dbs, NEW k \in Keys
      PROVE  (IF IsDead(dbs[d][k]) THEN Absent ELSE dbs[d][k])' =
               IF Promise!Dead(IF IsDead(dbs[d][k]) THEN Absent ELSE dbs[d][k], now')
               THEN Absent ELSE IF IsDead(dbs[d][k]) THEN Absent ELSE dbs[d][k]
  BY <1>1, <1>2 DEF IsDead, Expired, Promise!Dead
<1>. QED  BY <1>1, <1>3 DEF Tick, Promise!Tick, Promise!Visible

(***************************************************************************)
(* The refinement.                                                         *)
(***************************************************************************)
LEMMA StringCommandRefines ==
  ASSUME Inv, NEW s \in Sessions, StringCommand(s)
  PROVE  Promise!Command(s)
<1>1. ASSUME NEW k \in Keys, NEW v \in Values, NEW t \in Ttls \cup {Undefined},
             NEW u \in {1, Second}, NEW c \in {"always", "NX", "XX"},
             SetCommand(s, k, v, t, u, c)
      PROVE  Promise!Command(s)
  <2>1. CASE Promise!Refused(s, SetName(c))
    <3>1. SetName(c) \in {"set", "set nx", "set xx", "mset", "move", "select"}
      BY DEF SetName
    <3>. QED  BY <2>1, <3>1 DEF Promise!Command
  <2>2. CASE (t = Undefined \/ t >= 1) /\ Promise!Set(s, k, v, t, u, c)
    <3>1. t \in {i \in Ttls : i >= 1} \cup {Undefined}
      BY <2>2
    <3>2. \E x \in {i \in Ttls : i >= 1} \cup {Undefined} : Promise!Set(s, k, v, x, u, c)
      BY <2>2, <3>1
    <3>. QED  BY <3>2 DEF Promise!Command
  <2>. QED  BY <1>1, <2>1, <2>2, SetRefines
<1>2. ASSUME NEW k \in Keys, GetCommand(s, k) \/ PushCommand(s, k)
      PROVE  Promise!Command(s)
  BY <1>2, ReadRefines, PushRefines DEF Promise!Command
<1>3. ASSUME NEW k \in Keys, NEW v \in Values, GetSetCommand(s, k, v) \/ SetNxCommand(s, k, v)
      PROVE  Promise!Command(s)
  BY <1>3, GetSetRefines, SetNxRefines DEF Promise!Command
<1>4. ASSUME NEW K \in (SUBSET Keys) \ {{}}, NEW f \in [K -> Values], NEW odd \in BOOLEAN,
             MsetCommand(s, f, odd)
      PROVE  Promise!Command(s)
  BY <1>4, MsetRefines DEF Promise!Command
<1>5. ASSUME NEW K \in (SUBSET Keys) \ {{}}, MGetCommand(s, K)
      PROVE  Promise!Command(s)
  BY <1>5, MGetRefines DEF Promise!Command
<1>6. ASSUME NEW k \in Keys, NEW sign \in {1, -1}, IncrCommand(s, k, sign)
      PROVE  Promise!Command(s)
  BY <1>6, IncrRefines DEF Promise!Command
<1>7. ASSUME NEW k \in Keys, NEW sign \in {1, -1}, NEW n \in Increments,
             IncrByCommand(s, k, sign, n)
      PROVE  Promise!Command(s)
  BY <1>7, IncrByRefines DEF Promise!Command
<1>. QED  BY <1>1, <1>2, <1>3, <1>4, <1>5, <1>6, <1>7 DEF StringCommand

LEMMA KeyCommandRefines ==
  ASSUME Inv, NEW s \in Sessions, KeyCommand(s)
  PROVE  Promise!Command(s)
<1>1. ASSUME NEW K \in (SUBSET Keys) \ {{}}, DelCommand(s, K) \/ ExistsCommand(s, K)
      PROVE  Promise!Command(s)
  BY <1>1, DelRefines, ExistsRefines DEF Promise!Command
<1>2. ASSUME NEW k \in Keys, TypeCommand(s, k) \/ TtlCommand(s, k)
      PROVE  Promise!Command(s)
  BY <1>2, ReadRefines DEF Promise!Command
<1>3. ASSUME NEW k \in Keys, NEW t \in Ttls \cup {Text}, NEW u \in {1, Second},
             ExpireCommand(s, k, t, u)
      PROVE  Promise!Command(s)
  BY <1>3, ExpireRefines DEF Promise!Command
<1>4. ASSUME NEW from \in Keys, NEW to \in Keys,
             RenameCommand(s, from, to) \/ RenameNxCommand(s, from, to)
      PROVE  Promise!Command(s)
  BY <1>4, RenameRefines, RenameNxRefines DEF Promise!Command
<1>5. ASSUME NEW k \in Keys, NEW d \in Indices \cup {Text}, MoveCommand(s, k, d)
      PROVE  Promise!Command(s)
  BY <1>5, MoveRefines DEF Promise!Command
<1>6. CASE (\E K \in SUBSET Keys : KeysCommand(s, K)) \/ RandomKeyCommand(s)
  BY <1>6, CensusRefines DEF Promise!Command
<1>. QED  BY <1>1, <1>2, <1>3, <1>4, <1>5, <1>6 DEF KeyCommand

LEMMA DbCommandRefines ==
  ASSUME Inv, NEW s \in Sessions, DbCommand(s)
  PROVE  Promise!Command(s)
<1>1. ASSUME NEW d \in Indices \cup {Text}, SelectCommand(s, d)
      PROVE  Promise!Command(s)
  BY <1>1, SelectRefines DEF Promise!Command
<1>2. CASE DbSizeCommand(s)
  BY <1>2, CensusRefines DEF Promise!Command
<1>3. CASE FlushDbCommand(s) \/ FlushAllCommand(s)
  BY <1>3, FlushRefines DEF Promise!Command
<1>. QED  BY <1>1, <1>2, <1>3 DEF DbCommand

LEMMA InitRefines == Init => Promise!Init
BY DEF Init, EmptyDatabase, NoReply, IsDead, Promise!Init, Promise!Empty

LEMMA NextRefines == Inv /\ [Next]_vars => [Promise!Next]_(Promise!vars)
<1>. SUFFICES ASSUME Inv, [Next]_vars PROVE [Promise!Next]_(Promise!vars)
  OBVIOUS
<1>1. CASE Tick
  BY <1>1, TickRefines DEF Promise!Next
<1>2. ASSUME NEW s \in Sessions, StringCommand(s) \/ KeyCommand(s) \/ DbCommand(s)
      PROVE  Promise!Next
  BY <1>2, StringCommandRefines, KeyCommandRefines, DbCommandRefines DEF Promise!Next
<1>3. CASE UNCHANGED vars
  BY <1>3 DEF vars, Promise!vars, IsDead
<1>. QED  BY <1>1, <1>2, <1>3 DEF Next

(* Clients of the lazily cleaned dictionaries see maps whose items vanish  *)
(* on time: every reply of every command, and the state it leaves, is one  *)
(* that ExpiringMap allows (Database.get and the commands built on it).    *)
THEOREM LazyExpiryIsExpiry == Spec => ImplementsExpiringMap
BY InitRefines, NextRefines, Invariance, PTL DEF Spec, ImplementsExpiringMap, Promise!Spec
=============================================================================
