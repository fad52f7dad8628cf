--------------------------- MODULE MemorySession ---------------------------
(***************************************************************************)
(* The in-memory storage the backend's routes work on                       *)
(* (storage/memory_adapter.py) and the model objects they hold              *)
(* (models/memory_models.py), as operators on values.                       *)
(*                                                                         *)
(* A database value has the stores of the data manager, one function from  *)
(* ids to records per model class, and the id counters of the model        *)
(* classes.  A unit of work is what one request has at hand: the database, *)
(* the Python objects it has made so far, and the session's three pending  *)
(* lists, which name objects by their place in objs.  Requests never await *)
(* inside a unit of work, so one operator call is never interleaved with   *)
(* another request's.                                                      *)
(***************************************************************************)
EXTENDS Naturals, Sequences, FiniteSets

CONSTANTS Classes,    \* the model classes that have a store
          Typed,      \* those a query turns back into objects of their class
          Generic,    \* BaseMemoryModel, the class of all other loaded objects
          Untracked   \* the classes whose id counter does not start after the seed

ASSUME ClassesAssumption ==
    /\ Typed \subseteq Classes
    /\ Untracked \subseteq Classes
    /\ Generic \notin Classes

Positive == Nat \ {0}

(* The largest member of a finite set of naturals, 0 for the empty one. *)
Largest(S) == IF S = {} THEN 0 ELSE CHOOSE m \in S : \A n \in S : n <= m

InSeq(x, s) == \E k \in DOMAIN s : s[k] = x

(* The counters are set to the largest seeded id plus one, for the classes *)
(* _initialize_counters lists; the other classes count from 1.             *)
InitialCounter(store) ==
    [c \in Classes |-> IF c \in Untracked THEN 1 ELSE Largest(DOMAIN store[c]) + 1]

---------------------------------------------------------------------------
(* A session is opened for every request and dropped with it. *)
Open(db) ==
    [store |-> db.store, counter |-> db.counter,
     objs |-> <<>>, adds |-> <<>>, updates |-> <<>>, deletes |-> <<>>]

Close(u) == [store |-> u.store, counter |-> u.counter]

(* Seeded bug: every loaded object gets the class of its record. *)
Load_AllTyped(u, c, i) ==
    [u EXCEPT !.objs = Append(@, [class |-> c, id |-> i, tracked |-> TRUE,
                                  data |-> u.store[c][i]]),
              !.updates = Append(@, Len(u.objs) + 1)]

(* A query makes a new object for every record it returns, of the record's *)
(* class if model_map has it and generic otherwise, and puts the object on *)
(* the update list whether or not it will be changed.                      *)
Load(u, c, i) ==
    [u EXCEPT !.objs = Append(@, [class |-> IF c \in Typed THEN c ELSE Generic,
                                  id |-> i, tracked |-> TRUE, data |-> u.store[c][i]]),
              !.updates = Append(@, Len(u.objs) + 1)]

(* Constructing an object takes an id from the counter of its class. *)
Make(u, c, data) ==
    [u EXCEPT !.objs = Append(@, [class |-> c, id |-> u.counter[c],
                                  tracked |-> FALSE, data |-> data]),
              !.counter[c] = @ + 1]

(* Seeded bug: an object that was never loaded is put on the list as well. *)
Assign_Untracked(u, h, data) ==
    [u EXCEPT !.objs[h].data = data,
              !.updates = IF ~InSeq(h, @) THEN Append(@, h) ELSE @]

(* Seeded bug: only loading puts an object on the list. *)
Assign_Unlisted(u, h, data) == [u EXCEPT !.objs[h].data = data]

(* Assigning an attribute of a loaded object puts it back on the list. *)
Assign(u, h, data) ==
    [u EXCEPT !.objs[h].data = data,
              !.updates = IF u.objs[h].tracked /\ ~InSeq(h, @) THEN Append(@, h) ELSE @]

Add(u, h) == [u EXCEPT !.adds = Append(@, h)]

Delete(u, h) == [u EXCEPT !.deletes = Append(@, h)]

Rollback(u) == [u EXCEPT !.adds = <<>>, !.updates = <<>>, !.deletes = <<>>]

(* Only an object of a class with a store finds its record again. *)
Refresh(u, h) ==
    LET o == u.objs[h]
    IN IF o.class \in Classes /\ o.id \in DOMAIN u.store[o.class]
       THEN [u EXCEPT !.objs[h].data = u.store[o.class][o.id]]
       ELSE u

---------------------------------------------------------------------------
(* commit, part 1: every added object is given the id after the largest in *)
(* its store, in the order of the list, whatever id it had before.         *)
AddsOf(u, c) == {k \in DOMAIN u.adds : u.objs[u.adds[k]].class = c}

(* Seeded bug: the store's next id is worked out once for all additions. *)
NewId_Once(u, k) == Largest(DOMAIN u.store[u.objs[u.adds[k]].class]) + 1

NewId(u, k) ==
    LET c == u.objs[u.adds[k]].class
    IN Largest(DOMAIN u.store[c]) + Cardinality({j \in AddsOf(u, c) : j <= k})

IdAfter(u, h) ==
    IF InSeq(h, u.adds) THEN NewId(u, CHOOSE k \in DOMAIN u.adds : u.adds[k] = h)
                        ELSE u.objs[h].id

Added(u, c) ==
    LET new == {NewId(u, k) : k \in AddsOf(u, c)}
    IN [i \in DOMAIN u.store[c] \cup new |->
          IF i \in new
          THEN u.objs[u.adds[CHOOSE k \in AddsOf(u, c) : NewId(u, k) = i]].data
          ELSE u.store[c][i]]

(* commit, part 2: every object on the update list overwrites the whole    *)
(* record with its id, so the last of several loads of it is what stays;   *)
(* a generic object has no store and is passed over.                       *)
UpdatesOf(u, c, i) ==
    {k \in DOMAIN u.updates : /\ u.objs[u.updates[k]].class = c
                              /\ u.objs[u.updates[k]].id = i}

Updated(u, c, records) ==
    [i \in DOMAIN records |->
        IF UpdatesOf(u, c, i) = {} THEN records[i]
        ELSE u.objs[u.updates[Largest(UpdatesOf(u, c, i))]].data]

(* commit, part 3: the records of deleted objects are taken out. *)
Gone(u, c) ==
    {u.objs[u.deletes[k]].id : k \in {j \in DOMAIN u.deletes : u.objs[u.deletes[j]].class = c}}

Kept(u, c, records) == [i \in DOMAIN records \ Gone(u, c) |-> records[i]]

Commit(u) ==
    [u EXCEPT !.store = [c \in Classes |-> Kept(u, c, Updated(u, c, Added(u, c)))],
              !.objs = [h \in DOMAIN u.objs |-> [u.objs[h] EXCEPT !.id = IdAfter(u, h)]],
              !.adds = <<>>, !.updates = <<>>, !.deletes = <<>>]
=============================================================================
