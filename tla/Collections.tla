---------------------------- MODULE Collections -----------------------------
(***************************************************************************)
(* The commands on sets and hashes, and the commands on lists that nobody  *)
(* waits for, over the keys of one database.  A handler runs to its end in *)
(* one turn of the event loop, so a command is one step.                   *)
(*                                                                         *)
(* Sets, lists and hashes are JavaScript objects that the handlers change  *)
(* in place before they put them back: what a handler did before it threw  *)
(* stays done.  None of these handlers has the field dataType that the     *)
(* wrapper looks at (they set DbDataType), so that a key of another type   *)
(* is noticed by the accessors of DatabaseValue only, which throw.         *)
(*                                                                         *)
(* Of a deadline only its existence is kept; an item that has one may      *)
(* vanish at any moment, as ExpiringMap allows.                            *)
(***************************************************************************)
EXTENDS Integers, FiniteSets, SequencesExt

CONSTANTS
  Keys,       \* the keys of the instance
  Members,    \* members of sets and elements of lists, none of them empty
  ErrorText,  \* the text of a WRONGTYPE error, as a member of a set
  Fields,     \* fields of hashes
  Inherited,  \* the fields that every JavaScript object inherits
  Proto,      \* one of them, __proto__, which no assignment of a string sets
  Values,     \* values of fields
  Empty,      \* the empty string, one of the values
  Indices,    \* inputs: list positions
  Counts,     \* inputs: counts of LREM
  Malformed,  \* an input that is not a number
  Builtin,    \* what an inherited field holds
  Blob,       \* the content of a string
  Absent,     \* the item of a key that the dictionary does not have
  MaxLength   \* bound: no list grows longer

ASSUME InheritedAssumption == Inherited \subseteq Fields /\ Proto \in Inherited
ASSUME EmptyAssumption == Empty \in Values /\ Builtin \notin Values
ASSUME InputAssumption == /\ Indices \subseteq Int /\ Counts \subseteq Int
                          /\ Malformed \notin Int
ASSUME LengthAssumption == MaxLength \in Nat
ASSUME FiniteAssumption == IsFiniteSet(Members) /\ IsFiniteSet(Fields)

AllMembers == Members \cup {ErrorText}

(* The hashes: objects with some of the fields.                            *)
Hashes == UNION {[fs -> Values] : fs \in SUBSET Fields}

Items ==
  [type : {"string"}, value : {Blob}, volatile : BOOLEAN] \cup
  [type : {"set"}, value : SUBSET AllMembers, volatile : BOOLEAN] \cup
  [type : {"list"}, value : Seq(Members), volatile : BOOLEAN] \cup
  [type : {"hash"}, value : Hashes, volatile : BOOLEAN]

ASSUME AbsentAssumption == Absent \notin Items \cup Values \cup {Builtin}

VARIABLES
  db,     \* [Keys -> Items \cup {Absent}]
  answer  \* the last request that may write: command, key, arguments, reply

vars == <<db, answer>>

Ok == <<"status">>
Nil == <<"nil">>
Error == <<"error">>
NoReply == <<"none">>
Integer(n) == <<"integer", n>>
Bulk(v) == <<"string", v>>
Array(a) == <<"array", a>>

Fresh(type, value) == [type |-> type, value |-> value, volatile |-> FALSE]

Is(k, type) == db[k] # Absent /\ db[k].type = type

(* getOrDefault with an empty object, and an accessor that does not throw. *)
Usable(k, type) == db[k] = Absent \/ db[k].type = type

Content(k, default) == IF db[k] = Absent THEN default ELSE db[k].value
SetAt(k) == Content(k, {})
ListAt(k) == Content(k, <<>>)
HashAt(k) == Content(k, <<>>)

Answer(command, k, args, reply) ==
  answer' = [command |-> command, key |-> k, args |-> args, reply |-> reply]

(* A request that changes nothing: refused, thrown out of, or in vain.     *)
Unmoved(command, k, args, reply) == UNCHANGED db /\ Answer(command, k, args, reply)

(* The key gets an item, or loses it with its last element.                *)
Write(command, k, args, item, reply) ==
  /\ db' = [db EXCEPT ![k] = item]
  /\ Answer(command, k, args, reply)

(* Mutant: the key stays when its last element goes.                       *)
KeptEmpty(k, value, empty) == [db[k] EXCEPT !.value = value]

(* Mutant: what is left is put back as a new item.                         *)
KeptAfresh(k, value, empty) == IF value = empty THEN Absent ELSE Fresh(db[k].type, value)

(* The same object is put back, its deadline with it, or the key removed.  *)
Kept(k, value, empty) ==
  IF value = empty THEN Absent ELSE [db[k] EXCEPT !.value = value]

(***************************************************************************)
(* Sets.                                                                   *)
(***************************************************************************)

(* SADD puts a new item around the old set: the deadline is gone.          *)
SAddCommand(k, ms) ==
  IF ~Usable(k, "set") THEN Unmoved("sadd", k, ms, NoReply)
  ELSE Write("sadd", k, ms, Fresh("set", SetAt(k) \cup ms), Integer(Cardinality(ms \ SetAt(k))))

(* SREM puts the old item back, or removes it with its last member.        *)
SRemCommand(k, ms) ==
  LET hit == SetAt(k) \cap ms IN
  IF db[k] = Absent THEN Unmoved("srem", k, ms, Integer(0))
  ELSE IF ~Is(k, "set") THEN Unmoved("srem", k, ms, NoReply)
  ELSE IF hit = {} THEN Unmoved("srem", k, ms, Integer(0))
  ELSE Write("srem", k, ms, Kept(k, SetAt(k) \ hit, {}), Integer(Cardinality(hit)))

(* Mutant: source and destination are two sets even under one key.         *)
MovedApart(from, to, m) ==
  [db EXCEPT ![to] = IF m \in SetAt(to) THEN @ ELSE Fresh("set", SetAt(to) \cup {m}),
             ![from] = Fresh("set", SetAt(from) \ {m})]

(* The member is out of the set of from before the set of to, the same     *)
(* object if the keys are the same, is asked for it.                       *)
Moved(from, to, m) ==
  IF from = to THEN [db EXCEPT ![from] = Fresh("set", SetAt(from))]
  ELSE [db EXCEPT ![to] = IF m \in SetAt(to) THEN @ ELSE Fresh("set", SetAt(to) \cup {m}),
                  ![from] = Fresh("set", SetAt(from) \ {m})]

(* SMOVE looks at the type of its destination when the member has left.    *)
SMoveCommand(from, to, m) ==
  LET args == <<to, m>> IN
  IF ~Usable(from, "set") THEN Unmoved("smove", from, args, NoReply)
  ELSE IF m \notin SetAt(from) THEN Unmoved("smove", from, args, Integer(0))
  ELSE IF ~Usable(to, "set")
  THEN Write("smove", from, args, [db[from] EXCEPT !.value = @ \ {m}], NoReply)
  ELSE db' = Moved(from, to, m) /\ Answer("smove", from, args, Integer(1))

(* SUNION and SUNIONSTORE: the tokens of the union of the keys.            *)
Union(ks) ==
  IF db[ks[1]] = Absent THEN Array({})
  ELSE IF \A i \in DOMAIN ks : Is(ks[i], "set")
  THEN Array(UNION {SetAt(ks[i]) : i \in DOMAIN ks})
  ELSE Error

(* An error is a token too: its text becomes the one member of dst.        *)
SUnionStoreCommand(dst, ks) ==
  LET result == Union(ks)
      stored == IF result = Error THEN {ErrorText} ELSE result[2]
  IN Write("sunionstore", dst, ks, Fresh("set", stored), Integer(Cardinality(stored)))

(* SINTER and SINTERSTORE: a line of the log takes the string of the first *)
(* key that is no set, which throws unless it is a string, and of the      *)
(* first set when all of them are sets, which throws.                      *)
Intersection(ks) ==
  LET others == {i \in DOMAIN ks : i > 1 /\ ~Is(ks[i], "set")}
      firstOther == CHOOSE i \in others : \A j \in others : i <= j
  IN IF db[ks[1]] = Absent THEN Array({})
     ELSE IF ~Is(ks[1], "set") THEN Error
     ELSE IF others # {} /\ Is(ks[firstOther], "string") THEN Error
     ELSE NoReply

(* Mutant: the destination is removed before the sets are looked at.       *)
SInterStoreClearing(dst, ks) ==
  LET result == Intersection(ks) IN
  IF result = Array({}) THEN Write("sinterstore", dst, ks, Fresh("set", {}), Integer(0))
  ELSE Write("sinterstore", dst, ks, Absent, result)

SInterStoreCommand(dst, ks) ==
  LET result == Intersection(ks) IN
  IF result = Array({}) THEN Write("sinterstore", dst, ks, Fresh("set", {}), Integer(0))
  ELSE Unmoved("sinterstore", dst, ks, result)

(* A key that is no set counts as an empty one, but for the first.         *)
SDiff(ks) ==
  IF db[ks[1]] = Absent THEN Array({})
  ELSE IF ~Is(ks[1], "set") THEN NoReply
  ELSE Array(SetAt(ks[1]) \ UNION {SetAt(ks[i]) : i \in {j \in DOMAIN ks : j > 1 /\ Is(ks[j], "set")}})

SCard(k) == IF Usable(k, "set") THEN Integer(Cardinality(SetAt(k))) ELSE NoReply

SIsMember(k, m) ==
  IF Usable(k, "set") THEN Integer(IF m \in SetAt(k) THEN 1 ELSE 0) ELSE NoReply

SMembers(k) == IF Usable(k, "set") THEN Array(SetAt(k)) ELSE NoReply

(***************************************************************************)
(* Hashes: objects, whose missing fields are looked up in their prototype. *)
(***************************************************************************)
Field(hash, f) ==
  IF f \in DOMAIN hash THEN hash[f] ELSE IF f \in Inherited THEN Builtin ELSE Absent

Falsy(v) == v \in {Absent, Empty}

(* HSET counts the fields whose old value is falsy, and puts a new item,   *)
(* also around the hash that stays empty when __proto__ is all it is given.*)
HSetCommand(k, new) ==
  LET old == HashAt(k)
      added == {f \in DOMAIN new : Falsy(Field(old, f))}
      set == DOMAIN new \ {Proto}
      hash == [f \in DOMAIN old \cup set |-> IF f \in set THEN new[f] ELSE old[f]]
  IN IF ~Usable(k, "hash") THEN Unmoved("hset", k, new, NoReply)
     ELSE Write("hset", k, new, Fresh("hash", hash), Integer(Cardinality(added)))

(* A field without a value is refused before the hash is read.             *)
HSetOddCommand(k) == Unmoved("hset", k, <<>>, Error)

HGet(k, f) ==
  IF db[k] = Absent THEN Nil
  ELSE IF ~Is(k, "hash") THEN NoReply
  ELSE IF Falsy(Field(HashAt(k), f)) THEN Nil ELSE Bulk(Field(HashAt(k), f))

(* Fields and values; a key that is not there has one, the null string.    *)
HGetAll(k) ==
  IF db[k] = Absent THEN Array(Nil)
  ELSE IF ~Is(k, "hash") THEN NoReply ELSE Array(HashAt(k))

(***************************************************************************)
(* Lists.                                                                  *)
(***************************************************************************)
Lower(a, b) == IF a < b THEN a ELSE b
Higher(a, b) == IF a > b THEN a ELSE b
Abs(n) == IF n < 0 THEN -n ELSE n

(* Array.slice(first, end): negative positions count from the end, and the *)
(* element at end is not part of it.                                       *)
Place(list, n) == IF n < 0 THEN Higher(Len(list) + n, 0) ELSE Lower(n, Len(list))
Slice(list, first, end) == SubSeq(list, Place(list, first) + 1, Place(list, end))

(* A negative position as LRANGE and LTRIM count it.                       *)
FromFront(list, n) == IF n < 0 THEN Len(list) + n ELSE n

RPushCommand(k, e) ==
  /\ Len(IF Is(k, "list") THEN ListAt(k) ELSE <<>>) < MaxLength
  /\ IF db[k] = Absent THEN Write("rpush", k, e, Fresh("list", <<e>>), Integer(1))
     ELSE IF ~Is(k, "list") THEN Unmoved("rpush", k, e, NoReply)
     ELSE Write("rpush", k, e, [db[k] EXCEPT !.value = Append(@, e)], Integer(Len(ListAt(k)) + 1))

(* The length is compared with the position counted from either end.  A    *)
(* fraction is n too, its part before the point: splice cuts it off there, *)
(* and the length is above the one just when it is above the other.        *)
LSetCommand(k, n, e) ==
  LET list == ListAt(k)
      place == Place(list, n) + 1
  IN IF db[k] = Absent \/ n = Malformed THEN Unmoved("lset", k, <<n, e>>, Error)
     ELSE IF ~Is(k, "list") THEN Unmoved("lset", k, <<n, e>>, NoReply)
     ELSE IF Abs(n) >= Len(list) THEN Unmoved("lset", k, <<n, e>>, Error)
     ELSE Write("lset", k, <<n, e>>, [db[k] EXCEPT !.value[place] = e], Ok)

(* Mutant: the end of the range is left out.                               *)
TrimmedShort(list, first, last) ==
  Slice(list, Higher(FromFront(list, first), 0), FromFront(list, last))

(* Only the start is kept from falling off the front once more.            *)
Trimmed(list, first, last) ==
  Slice(list, Higher(FromFront(list, first), 0), FromFront(list, last) + 1)

LTrimCommand(k, first, last) ==
  LET args == <<first, last>> IN
  IF Malformed \in {first, last} THEN Unmoved("ltrim", k, args, Error)
  ELSE IF db[k] = Absent THEN Unmoved("ltrim", k, args, Ok)
  ELSE IF ~Is(k, "list") THEN Unmoved("ltrim", k, args, NoReply)
  ELSE Write("ltrim", k, args, Kept(k, Trimmed(ListAt(k), first, last), <<>>), Ok)

(* The elements at the positions that keep has, counted from 1, in order.  *)
Restricted(list, keep) ==
  LET kept[i \in 0..Len(list)] ==
        IF i = 0 THEN <<>>
        ELSE IF i \in keep THEN Append(kept[i - 1], list[i]) ELSE kept[i - 1]
  IN kept[Len(list)]

Occurrences(list, e) == {i \in 1..Len(list) : list[i] = e}

(* Positions from 0 of the elements equal to e, in order.                  *)
Matching(list, e) == Restricted([i \in 1..Len(list) |-> i - 1], Occurrences(list, e))

(* A negative count compares positions in the list with the number of      *)
(* matches, and takes the first |count| that pass.                         *)
ToRemove(list, count, e) ==
  LET matching == Matching(list, e)
      late == {i \in 1..Len(matching) : matching[i] >= Len(matching) + count}
      eligible == IF count < 0 THEN Restricted(matching, late) ELSE matching
  IN IF count = 0 THEN eligible ELSE SubSeq(eligible, 1, Lower(Abs(count), Len(eligible)))

LRemCommand(k, count, e) ==
  LET removed == ToRemove(ListAt(k), count, e)
      keep == {i \in 1..Len(ListAt(k)) : i - 1 \notin ToSet(removed)}
  IN IF count = Malformed THEN Unmoved("lrem", k, <<count, e>>, Error)
     ELSE IF db[k] = Absent THEN Unmoved("lrem", k, <<count, e>>, Integer(0))
     ELSE IF ~Is(k, "list") THEN Unmoved("lrem", k, <<count, e>>, NoReply)
     ELSE Write("lrem", k, <<count, e>>, Kept(k, Restricted(ListAt(k), keep), <<>>),
                Integer(Len(removed)))

LLen(k) == IF Usable(k, "list") THEN Integer(Len(ListAt(k))) ELSE NoReply

(* An array of at most one element, which serializes as its element.       *)
LIndex(k, n) ==
  LET list == ListAt(k)
      found == Slice(list, n, IF n < 0 /\ Abs(n) < Len(list) THEN Len(list) + 1 + n ELSE n + 1)
  IN IF db[k] = Absent THEN Nil
     ELSE IF n = Malformed THEN Error
     ELSE IF ~Is(k, "list") THEN NoReply
     ELSE IF found = <<>> THEN Nil ELSE Bulk(found[1])

(* Mutant: a negative end is not counted from the end.                     *)
LRangeForward(k, first, last) ==
  IF ~Usable(k, "list") THEN NoReply
  ELSE IF Malformed \in {first, last} THEN Error
  ELSE Array(Slice(ListAt(k), Higher(FromFront(ListAt(k), first), 0), Higher(last, 0) + 1))

LRange(k, first, last) ==
  LET start == Higher(FromFront(ListAt(k), first), 0)
      stop == Higher(FromFront(ListAt(k), last), 0)
  IN IF ~Usable(k, "list") THEN NoReply
     ELSE IF Malformed \in {first, last} THEN Error
     ELSE Array(Slice(ListAt(k), start, stop + 1))

(***************************************************************************)
(* What other commands do to the keys.                                     *)
(***************************************************************************)

(* SET replaces whatever there is.                                         *)
SetCommand(k) == Write("set", k, <<>>, Fresh("string", Blob), Ok)

(* EXPIRE puts an item with a deadline and the same content.               *)
ExpireCommand(k) ==
  db[k] # Absent /\ Write("expire", k, <<>>, [db[k] EXCEPT !.volatile = TRUE], Integer(1))

(* A deadline has passed when the next command gets the key.               *)
Vanish(k) ==
  db[k] # Absent /\ db[k].volatile /\ Write("time", k, <<>>, Absent, Nil)

Init ==
  /\ db = [k \in Keys |-> Absent]
  /\ answer = [command |-> "none", key |-> Absent, args |-> <<>>, reply |-> Nil]

Sources == UNION {[1..n -> Keys] : n \in 1..Cardinality(Keys)}

SetStep(k) ==
  \/ \E ms \in (SUBSET Members) \ {{}} : SAddCommand(k, ms) \/ SRemCommand(k, ms)
  \/ \E to \in Keys, m \in Members : SMoveCommand(k, to, m)
  \/ \E ks \in Sources : SUnionStoreCommand(k, ks) \/ SInterStoreCommand(k, ks)

HashStep(k) ==
  \/ HSetOddCommand(k)
  \/ \E fs \in (SUBSET Fields) \ {{}} : \E new \in [fs -> Values] : HSetCommand(k, new)

ListStep(k) ==
  \/ \E e \in Members : RPushCommand(k, e)
  \/ \E e \in Members, n \in Indices \cup {Malformed} : LSetCommand(k, n, e)
  \/ \E e \in Members, n \in Counts \cup {Malformed} : LRemCommand(k, n, e)
  \/ \E first, last \in Indices \cup {Malformed} : LTrimCommand(k, first, last)

(* The commands that only read: what they answer is the operator's value.  *)
ReadStep(k) ==
  \/ \E m \in Members : Unmoved("sismember", k, m, SIsMember(k, m))
  \/ Unmoved("scard", k, <<>>, SCard(k))
  \/ Unmoved("smembers", k, <<>>, SMembers(k))
  \/ \E ks \in Sources : \/ Unmoved("sunion", ks[1], ks, Union(ks))
                         \/ Unmoved("sinter", ks[1], ks, Intersection(ks))
                         \/ Unmoved("sdiff", ks[1], ks, SDiff(ks))
  \/ \E f \in Fields : Unmoved("hget", k, f, HGet(k, f))
  \/ Unmoved("hgetall", k, <<>>, HGetAll(k))
  \/ Unmoved("llen", k, <<>>, LLen(k))
  \/ \E n \in Indices \cup {Malformed} : Unmoved("lindex", k, n, LIndex(k, n))
  \/ \E first, last \in Indices \cup {Malformed} :
       Unmoved("lrange", k, <<first, last>>, LRange(k, first, last))

Next ==
  \E k \in Keys :
    \/ SetStep(k) \/ HashStep(k) \/ ListStep(k) \/ ReadStep(k)
    \/ SetCommand(k) \/ ExpireCommand(k) \/ Vanish(k)

Spec == Init /\ [][Next]_vars
-----------------------------------------------------------------------------
StateView == db

(* Every variable is of its type.                                          *)
TypeOK == db \in [Keys -> Items \cup {Absent}]

SetIn(d, k) == IF d[k] = Absent \/ d[k].type # "set" THEN {} ELSE d[k].value
ListIn(d, k) == IF d[k] = Absent \/ d[k].type # "list" THEN <<>> ELSE d[k].value
HashIn(d, k) == IF d[k] = Absent \/ d[k].type # "hash" THEN <<>> ELSE d[k].value

(* The elements from position first to last, both counted from either end. *)
Between(list, first, last) ==
  Restricted(list, {i \in 1..Len(list) :
                      FromFront(list, first) <= i - 1 /\ i - 1 <= FromFront(list, last)})

(* LINDEX and LRANGE find the elements that positions from either end      *)
(* name, whatever falls off the list on either side; but for -1 on a list  *)
(* of one element, and an end before the first (LIndexCommand,             *)
(* LRangeCommand).                                                         *)
ListReadsAreExact ==
  \A k \in {key \in Keys : Is(key, "list")} :
    LET list == ListAt(k) IN
    \A n, m \in Indices :
      /\ <<Len(list), n>> # <<1, -1>> =>
           LIndex(k, n) = IF FromFront(list, n) + 1 \in 1..Len(list)
                          THEN Bulk(list[FromFront(list, n) + 1]) ELSE Nil
      /\ m >= -Len(list) => LRange(k, n, m) = Array(Between(list, n, m))

(* The first count of the places, or all of them.                          *)
FirstOf(places, count) ==
  {i \in places : count = 0 \/ Cardinality({j \in places : j < i}) < count}

Others(list, e) == Restricted(list, (1..Len(list)) \ Occurrences(list, e))

TrimmedExactly(old, new, args) == args[2] >= -Len(old) - 1 => new = Between(old, args[1], args[2])

ReplacedExactly(old, new, args) == new = [old EXCEPT ![FromFront(old, args[1]) + 1] = args[2]]

RemovedExactly(old, new, args) ==
  LET count == args[1]
      e == args[2]
      places == Occurrences(old, e)
  IN /\ Others(new, e) = Others(old, e)
     /\ count >= 0 => new = Restricted(old, (1..Len(old)) \ FirstOf(places, count))
     /\ count < 0 => Cardinality(Occurrences(new, e)) = Higher(Cardinality(places) + count, 0)

(* LTRIM leaves what LRANGE would have read, LSET changes one element,     *)
(* LREM takes the first elements, or, with a negative count, as many but   *)
(* not always the last, as its documentation has it, and never one that is *)
(* not equal to its argument (LTrimCommand, LSetCommand, LRemCommand).     *)
ListEditsAreExact ==
  [][\A k \in Keys :
       (Is(k, "list") /\ answer'.key = k /\ answer'.reply \notin {Error, NoReply}) =>
          LET old == ListIn(db, k)
              new == ListIn(db', k)
              args == answer'.args
          IN CASE answer'.command = "ltrim" -> TrimmedExactly(old, new, args)
               [] answer'.command = "lset" -> ReplacedExactly(old, new, args)
               [] answer'.command = "lrem" -> RemovedExactly(old, new, args)
               [] OTHER -> TRUE]_vars

Lost(from, m) == [db EXCEPT ![from].value = @ \ {m}]

(* A request that is refused or throws changes nothing at all.  SMOVE into *)
(* a key that holds no set is the exception: it has taken the member away  *)
(* when it throws (SMoveCommand).                                          *)
FailuresChangeNothing ==
  [][answer'.reply \in {Error, NoReply} =>
       \/ db' = db
       \/ /\ answer'.command = "smove"
          /\ ~Usable(answer'.args[1], "set")
          /\ db' = Lost(answer'.key, answer'.args[2])]_vars

(* The fields that are new are counted, and no others.  The documentation  *)
(* of HSET has no exceptions to that and the code has two: a field that    *)
(* objects inherit may be added and not counted, and one that held the     *)
(* empty string be counted and not added.                                  *)
HsetTold(old, new, n) ==
  LET born == DOMAIN new \ DOMAIN old
      empty == {f \in DOMAIN old : old[f] = Empty}
  IN Cardinality(born \ Inherited) <= n /\ n <= Cardinality(born \cup empty)

(* The member is in its destination and nowhere else, unless it is one set.*)
SMoveTold(from, args, n, old, new) ==
  LET to == args[1]
      m == args[2]
  IN IF n = 0 THEN old = new /\ m \notin SetIn(old, from)
     ELSE /\ m \in SetIn(old, from)
          /\ SetIn(new, to) = SetIn(old, to) \cup {m}
          /\ from # to => SetIn(new, from) = SetIn(old, from) \ {m}

(* Every number that one of these commands can answer with.                *)
Numbers == 0..(1 + MaxLength + Cardinality(Members) + Cardinality(Fields))

(* The number a command answers is what happened to the collection, also   *)
(* when SMOVE has one set under both of its keys; of HSET's number it says *)
(* what HsetTold does (SAddCommand, SRemCommand, SMoveCommand, HsetCommand,*)
(* LRemCommand).                                                           *)
RepliesTellChanges ==
  [][\A n \in Numbers : answer'.reply = Integer(n) =>
       LET k == answer'.key
           args == answer'.args
           old == SetIn(db, k)
           new == SetIn(db', k)
       IN CASE answer'.command = "sadd" ->
                 new = old \cup args /\ Cardinality(new) = Cardinality(old) + n
            [] answer'.command = "srem" ->
                 new = old \ args /\ Cardinality(new) = Cardinality(old) - n
            [] answer'.command = "smove" -> SMoveTold(k, args, n, db, db')
            [] answer'.command = "lrem" -> Len(ListIn(db', k)) = Len(ListIn(db, k)) - n
            [] answer'.command = "hset" -> HsetTold(HashIn(db, k), HashIn(db', k), n)
            [] OTHER -> TRUE]_vars

(* The commands that replace a value, and those that change one and put    *)
(* it back as a new item, without the deadline that EXPIRE's documentation *)
(* says it keeps.                                                          *)
Replacing == {"set", "sunionstore", "sinterstore"}
Renewing == {"sadd", "hset", "smove"}

(* A key gets a deadline from EXPIRE only, and has it until its value is   *)
(* replaced, whatever SREM, LREM, LSET, LTRIM and pushes take away or add: *)
(* that HSET, SADD and SMOVE drop it is another matter (SRemCommand,       *)
(* LTrimCommand, LRemCommand, LSetCommand, RPushCommand, ExpireCommand).   *)
EditsKeepDeadlines ==
  [][\A k \in Keys :
       (/\ db[k] # Absent /\ db'[k] # Absent
        /\ db[k].volatile # db'[k].volatile
        /\ answer'.command \notin Renewing) =>
          IF db[k].volatile
          THEN answer'.command \in Replacing ELSE answer'.command = "expire"]_vars

(* No sequence of commands leaves a key with an empty list, which readers  *)
(* would take for one that is there (LTrimCommand, LRemCommand).           *)
NoListIsEmpty ==
  /\ TypeOK
  /\ \A k \in Keys : Is(k, "list") => db[k].value # <<>>
=============================================================================
