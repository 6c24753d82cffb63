------------------------- MODULE KeyspaceRefinement -------------------------
(***************************************************************************)
(* Keyspace implements ExpiringMap: cleaning up on read is as good as      *)
(* having items vanish on time.  The refinement mapping forgets the items  *)
(* whose deadline has passed and that no get has removed yet.              *)
(***************************************************************************)
EXTENDS Keyspace

IsDead(item) ==
  item # Absent /\ item.expiredAt \notin {Undefined, 0} /\ item.expiredAt < now

Promise == INSTANCE ExpiringMap WITH
  view <- [d \in Dbs |-> [k \in Keys |-> IF IsDead(dbs[d][k]) THEN Absent ELSE dbs[d][k]]]

(* Clients of the lazily cleaned dictionaries see maps whose items vanish  *)
(* on time: every reply of every command, and the state it leaves, is one  *)
(* that ExpiringMap allows (Database.get and the commands built on it).    *)
ImplementsExpiringMap == Promise!Spec
=============================================================================
