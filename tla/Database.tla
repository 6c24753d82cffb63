------------------------------ MODULE Database ------------------------------
(***************************************************************************)
(* One logical database: a Dictionary from keys to DatabaseValues, with    *)
(* lazy expiry.  A database is a total function from Keys; a key with no   *)
(* item maps to Absent.                                                    *)
(*                                                                         *)
(* An item is a record [type, value, expiredAt].  expiredAt is Undefined,  *)
(* or a number that the code reads as an absolute time in milliseconds.    *)
(* Nothing removes an item when its time comes: the next get does, so a    *)
(* database may hold items that no reader will ever see again.             *)
(***************************************************************************)
EXTENDS Integers, FiniteSets

CONSTANTS
  Keys,       \* the keys of the instance
  Absent,     \* the item of a key that the dictionary does not have
  Undefined,  \* the expiredAt of an item without a deadline
  Text,       \* a string that Number() turns into NaN
  ListBody    \* the content of a list, which only the type matters of here

(* The clients of one run name finitely many keys: there is no command for *)
(* infinitely many, and so many can be counted.                            *)
ASSUME FiniteKeysAssumption == IsFiniteSet(Keys)

ASSUME KeysAssumption == Undefined \notin Int /\ Text \notin Int

(* A string is the integer it spells, or Text.                             *)
Strings == Int \cup {Text}

Items ==
  [type : {"string"}, value : Strings, expiredAt : Int \cup {Undefined}] \cup
  [type : {"list"}, value : {ListBody}, expiredAt : Int \cup {Undefined}]

ASSUME AbsentAssumption == Absent \notin Items

Databases == [Keys -> Items \cup {Absent}]

EmptyDatabase == [k \in Keys |-> Absent]

StringItem(v, deadline) ==
  [type |-> "string", value |-> v, expiredAt |-> deadline]

ListItem == [type |-> "list", value |-> ListBody, expiredAt |-> Undefined]

(* What get tests before it removes: undefined and 0 are falsy in          *)
(* JavaScript, so neither ever expires, and the comparison is strict.      *)
Expired(item, now) ==
  /\ item # Absent
  /\ item.expiredAt \notin {Undefined, 0}
  /\ item.expiredAt < now

Get(db, k, now) == IF Expired(db[k], now) THEN Absent ELSE db[k]

(* The database a get leaves behind.                                       *)
Sweep(db, k, now) == [db EXCEPT ![k] = Get(db, k, now)]

Put(db, k, item) == [db EXCEPT ![k] = item]

Remove(db, k) == [db EXCEPT ![k] = Absent]

PutIfPresent(db, k, item, now) ==
  IF Get(db, k, now) = Absent THEN Sweep(db, k, now) ELSE Put(db, k, item)

(* Mutant: an expired item still counts as one.                            *)
PutIfAbsentStale(db, k, item, now) ==
  IF db[k] = Absent THEN Put(db, k, item) ELSE db

PutIfAbsent(db, k, item, now) ==
  IF Get(db, k, now) = Absent THEN Put(db, k, item) ELSE db

(* Mutant: the item stays under its old key.                               *)
RenameCopies(db, from, to) ==
  IF db[from] = Absent THEN db ELSE Put(db, to, db[from])

(* remove(from) and put(to, the same object): the deadline goes along.     *)
RenameItem(db, from, to) ==
  IF db[from] = Absent THEN db ELSE Put(Remove(db, from), to, db[from])

(* keys() and size() do not look at deadlines.                             *)
Present(db) == {k \in Keys : db[k] # Absent}

(* expiredAt - now for a deadline ahead, but the code takes the absolute   *)
(* value, and 0 for the falsy deadlines.                                   *)
TimeToLive(item, now) ==
  IF item.expiredAt = Undefined THEN -1
  ELSE IF item.expiredAt = 0 THEN 0
  ELSE IF item.expiredAt > now THEN item.expiredAt - now ELSE now - item.expiredAt
=============================================================================
