---------------------------- MODULE UnitOfWork ----------------------------
(***************************************************************************)
(* A route's use of a MemorySession, for any route: a unit of work makes   *)
(* session calls in any order and any number, and is dropped at any time   *)
(* (the response is sent, or an exception ends the handler), after which   *)
(* the next request opens a session of its own.                            *)
(***************************************************************************)
EXTENDS MemorySession

CONSTANTS Values,     \* the contents a record may have
          Seed,       \* the seeded stores
          MaxObjects, \* bound: objects made or loaded in one unit of work
          MaxId       \* bound: the ids in use

ASSUME SeedAssumption ==
    /\ DOMAIN Seed = Classes
    /\ \A c \in Classes : /\ Largest(DOMAIN Seed[c]) \in Nat
                          /\ DOMAIN Seed[c] \subseteq 1..Largest(DOMAIN Seed[c])
                          /\ Seed[c] \in [DOMAIN Seed[c] -> Values]

VARIABLES u,          \* the unit of work in progress
          wrote       \* history: what it assigned to records and has not committed

vars == <<u, wrote>>

Init == /\ u = Open([store |-> Seed, counter |-> InitialCounter(Seed)])
        /\ wrote = {}

Room == Len(u.objs) < MaxObjects

(* A query, or get, that finds the record. *)
Query(c, i) == /\ Room
               /\ i \in DOMAIN u.store[c]
               /\ u' = Load(u, c, i)
               /\ UNCHANGED wrote

Construct(c, v) == /\ Room
                   /\ u.counter[c] <= MaxId
                   /\ u' = Make(u, c, v)
                   /\ UNCHANGED wrote

(* What the unit of work wrote to the record of object h, with a new value. *)
Rewritten(h, v) ==
    LET o == u.objs[h]
    IN {w \in wrote : ~(w.class = o.class /\ w.id = o.id)}
         \cup {[class |-> o.class, id |-> o.id, data |-> v]}

SetField(h, v) == /\ u' = Assign(u, h, v)
                  /\ wrote' = IF u.objs[h].tracked THEN Rewritten(h, v) ELSE wrote

AddObject(h) == /\ ~u.objs[h].tracked
                /\ ~InSeq(h, u.adds)
                /\ u' = Add(u, h)
                /\ UNCHANGED wrote

DeleteObject(h) == /\ u.objs[h].tracked
                   /\ ~InSeq(h, u.deletes)
                   /\ u' = Delete(u, h)
                   /\ UNCHANGED wrote

(* Refreshing an object takes back what was assigned to it. *)
RefreshObject(h) ==
    /\ u' = Refresh(u, h)
    /\ wrote' = {w \in wrote : ~(w.class = u.objs[h].class /\ w.id = u.objs[h].id)}

RollbackUnit == /\ u' = Rollback(u)
                /\ wrote' = {}

CommitUnit == /\ \A c \in Classes :
                    Largest(DOMAIN u.store[c]) + Cardinality(AddsOf(u, c)) <= MaxId
              /\ u' = Commit(u)
              /\ wrote' = {}

NextRequest == /\ u' = Open(Close(u))
               /\ wrote' = {}

Next == \/ \E c \in Classes : \E i \in DOMAIN u.store[c] : Query(c, i)
        \/ \E c \in Classes, v \in Values : Construct(c, v)
        \/ \E h \in DOMAIN u.objs :
              \/ \E v \in Values : SetField(h, v)
              \/ AddObject(h)
              \/ DeleteObject(h)
              \/ RefreshObject(h)
        \/ RollbackUnit
        \/ CommitUnit
        \/ NextRequest

Spec == Init /\ [][Next]_vars

---------------------------------------------------------------------------
(* The stores are finite maps from positive ids, and the three lists name  *)
(* objects of the unit of work: loaded ones to update or delete, made ones *)
(* to add.                                                                 *)
Objects == [class : Classes \cup {Generic}, id : Positive,
            tracked : BOOLEAN, data : Values]

StoresOK == \A c \in Classes : /\ DOMAIN u.store[c] \subseteq Positive
                               /\ IsFiniteSet(DOMAIN u.store[c])
                               /\ u.store[c] \in [DOMAIN u.store[c] -> Values]

ListsOK == /\ u.adds \in Seq(DOMAIN u.objs)
           /\ u.updates \in Seq(DOMAIN u.objs)
           /\ u.deletes \in Seq(DOMAIN u.objs)
           /\ \A k \in DOMAIN u.adds : ~u.objs[u.adds[k]].tracked
           /\ \A k \in DOMAIN u.updates : u.objs[u.updates[k]].tracked
           /\ \A k \in DOMAIN u.deletes : u.objs[u.deletes[k]].tracked

(* Loaded objects have a class that model_map knows, or the generic one. *)
ObjectsOK == /\ u.objs \in Seq(Objects)
             /\ \A h \in DOMAIN u.objs :
                   IF u.objs[h].tracked THEN u.objs[h].class \in Typed \cup {Generic}
                                        ELSE u.objs[h].class \in Classes

TypeOK == /\ DOMAIN u = {"store", "counter", "objs", "adds", "updates", "deletes"}
          /\ u.counter \in [Classes -> Positive]
          /\ DOMAIN u.store = Classes
          /\ StoresOK
          /\ ObjectsOK
          /\ ListsOK

(* A record of a class that queries give back as a generic object is never *)
(* changed and never removed once it is stored, whatever a route assigns   *)
(* to the objects it loads, deletes or commits (memory_adapter.py:606 and  *)
(* :783): subscriptions, recurring rules, invoices and the rest only grow. *)
UntypedRecordsAreFrozen ==
    [][\A c \in Classes \ Typed : \A i \in DOMAIN u.store[c] :
          i \in DOMAIN u'.store[c] /\ u'.store[c][i] = u.store[c][i]]_u

(* A commit gives every record that the unit of work assigned to, that it  *)
(* does not delete and that it holds no second pending object of, the      *)
(* value it assigned last, whatever other calls came between the two       *)
(* (memory_adapter.py:783); a second object of the record, changed or not, *)
(* may overwrite it.                                                       *)
PendingOf(c, i) == {u.updates[k] : k \in UpdatesOf(u, c, i)}

SoleCopyIsWritten ==
    [][(u' = Commit(u)) =>
        \A w \in wrote : (/\ w.class \in Classes
                          /\ Cardinality(PendingOf(w.class, w.id)) <= 1
                          /\ w.id \in DOMAIN u.store[w.class] \ Gone(u, w.class))
                            => u'.store[w.class][w.id] = w.data]_u

(* Objects added by one unit of work get ids of their own, and none that   *)
(* is in use: an addition never overwrites a record and is never           *)
(* overwritten by another one.                                             *)
AddedIdsAreFresh ==
    \A k \in DOMAIN u.adds :
        /\ NewId(u, k) \notin DOMAIN u.store[u.objs[u.adds[k]].class]
        /\ \A j \in DOMAIN u.adds :
              (/\ u.objs[u.adds[j]].class = u.objs[u.adds[k]].class
               /\ NewId(u, j) = NewId(u, k)) => j = k
=============================================================================
