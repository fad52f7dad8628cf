-------------------------- MODULE UnitOfWorkProofs --------------------------
(***************************************************************************)
(* Proofs about every sequence of session calls: the inductive invariant   *)
(* Sound says what the stores, the objects and the pending lists are, and  *)
(* from it follow that added objects get ids of their own and that what a  *)
(* query restores as a generic object is never changed in the store.  With *)
(* Held (each write has a pending object that holds it) it gives that a    *)
(* commit writes every record of which there is a single pending object.   *)
(***************************************************************************)
EXTENDS UnitOfWork, FiniteSetTheorems, SequenceTheorems, WellFoundedInduction, TLAPS

(* A store's ids are bounded, which is what being finite comes to and what *)
(* a commit preserves visibly.                                             *)
Bounded(S) == \E m \in Nat : S \subseteq 1..m

Stored(store) ==
    /\ DOMAIN store = Classes
    /\ \A c \in Classes : /\ Bounded(DOMAIN store[c])
                          /\ store[c] \in [DOMAIN store[c] -> Values]

Pending(objs, list, tracked) ==
    /\ list \in Seq(DOMAIN objs)
    /\ \A k \in DOMAIN list : objs[list[k]].tracked = tracked

ObjectsSound(objs) ==
    /\ objs \in Seq(Objects)
    /\ \A h \in DOMAIN objs :
          IF objs[h].tracked THEN objs[h].class \in Typed \cup {Generic}
                             ELSE objs[h].class \in Classes

Parts == {"store", "counter", "objs", "adds", "updates", "deletes"}

Sound(v) ==
    /\ DOMAIN v = Parts
    /\ v.counter \in [Classes -> Positive]
    /\ Stored(v.store)
    /\ ObjectsSound(v.objs)
    /\ Pending(v.objs, v.adds, FALSE)
    /\ Pending(v.objs, v.updates, TRUE)
    /\ Pending(v.objs, v.deletes, TRUE)

---------------------------------------------------------------------------
(* The natural numbers are well-founded: a non-empty set has a least one. *)
LEMMA LeastNatural ==
    ASSUME NEW U, U \subseteq Nat, U # {}
    PROVE  \E x \in U : \A y \in U : x <= y
<1> DEFINE R == OpToRel(<, Nat)
<1>1. \E x \in U : \A y \in U : ~(<<y, x>> \in R)
  BY NatLessThanWellFounded, WFMin
<1>2. ASSUME NEW x \in Nat, NEW y \in Nat, ~(<<y, x>> \in R)
      PROVE  x <= y
  BY <1>2 DEF OpToRel
<1> QED
  BY <1>1, <1>2

(* The largest of a bounded set of ids is a bound of it, and in it unless  *)
(* it is empty: the least bound is.                                        *)
LEMMA LargestIsMax ==
    ASSUME NEW S, Bounded(S)
    PROVE  /\ Largest(S) \in Nat
           /\ \A n \in S : n \in Nat /\ n <= Largest(S)
           /\ S # {} => Largest(S) \in S
<1>1. CASE S = {}
  BY <1>1 DEF Largest
<1>2. CASE S # {}
  <2> DEFINE U == {m \in Nat : \A s \in S : s <= m}
  <2>1. PICK m \in Nat : S \subseteq 1..m
    BY DEF Bounded
  <2>2. S \subseteq Nat /\ m \in U
    BY <2>1
  <2>3. PICK x \in U : \A y \in U : x <= y
    BY <2>2, LeastNatural
  <2>4. x \in S
    <3> SUFFICES ASSUME x \notin S
                 PROVE  FALSE
      OBVIOUS
    <3>1. \A s \in S : s < x
      BY <2>2, <2>3
    <3>2. x \in Nat /\ x - 1 \in Nat
      <4>1. PICK s \in S : TRUE
        BY <1>2
      <4>2. s \in Nat /\ s < x /\ x \in Nat
        BY <2>2, <2>3, <3>1, <4>1
      <4> QED
        BY <4>2
    <3>3. \A s \in S : s <= x - 1
      BY <2>2, <3>1, <3>2
    <3>4. x - 1 \in U /\ ~(x <= x - 1)
      BY <3>2, <3>3
    <3> QED
      BY <2>3, <3>4
  <2> QED
    BY <1>2, <2>2, <2>3, <2>4 DEF Largest
<1> QED
  BY <1>1, <1>2

---------------------------------------------------------------------------
(* What the pending lists say of the objects survives a new object, an     *)
(* entry more and a change of an object's id or data.                      *)
LEMMA ObjectAppended ==
    ASSUME NEW objs, ObjectsSound(objs), NEW o \in Objects,
           IF o.tracked THEN o.class \in Typed \cup {Generic} ELSE o.class \in Classes
    PROVE  /\ ObjectsSound(Append(objs, o))
           /\ Len(objs) + 1 \in DOMAIN Append(objs, o)
           /\ Append(objs, o)[Len(objs) + 1] = o
           /\ \A list, t : Pending(objs, list, t) => Pending(Append(objs, o), list, t)
<1> DEFINE new == Append(objs, o)
<1>1. /\ new \in Seq(Objects)
      /\ DOMAIN new = 1..(Len(objs) + 1)
      /\ DOMAIN objs = 1..Len(objs) /\ Len(objs) \in Nat
      /\ new[Len(objs) + 1] = o
      /\ \A h \in DOMAIN objs : new[h] = objs[h]
  BY DEF ObjectsSound
<1>2. ObjectsSound(new)
  <2> SUFFICES ASSUME NEW h \in DOMAIN new
               PROVE  IF new[h].tracked THEN new[h].class \in Typed \cup {Generic}
                                        ELSE new[h].class \in Classes
    BY <1>1 DEF ObjectsSound
  <2>1. CASE h = Len(objs) + 1
    BY <1>1, <2>1
  <2>2. CASE h # Len(objs) + 1
    <3>1. h \in DOMAIN objs
      BY <1>1, <2>2
    <3> QED
      BY <1>1, <3>1 DEF ObjectsSound
  <2> QED
    BY <2>1, <2>2
<1>3. ASSUME NEW list, NEW t, Pending(objs, list, t)
      PROVE  Pending(new, list, t)
  <2>1. list \in Seq(DOMAIN new)
    BY <1>1, <1>3 DEF Pending
  <2>2. \A k \in DOMAIN list : list[k] \in DOMAIN objs
    BY <1>3 DEF Pending
  <2> QED
    BY <1>1, <1>3, <2>1, <2>2 DEF Pending
<1> QED
  BY <1>1, <1>2, <1>3

LEMMA EntryAppended ==
    ASSUME NEW objs, NEW list, NEW t, Pending(objs, list, t),
           NEW h \in DOMAIN objs, objs[h].tracked = t
    PROVE  Pending(objs, Append(list, h), t)
<1> DEFINE new == Append(list, h)
<1>1. /\ new \in Seq(DOMAIN objs)
      /\ DOMAIN new = 1..(Len(list) + 1)
      /\ DOMAIN list = 1..Len(list) /\ Len(list) \in Nat
      /\ new[Len(list) + 1] = h
      /\ \A k \in DOMAIN list : new[k] = list[k]
  BY DEF Pending
<1>2. ASSUME NEW k \in DOMAIN new
      PROVE  objs[new[k]].tracked = t
  <2>1. CASE k = Len(list) + 1
    BY <1>1, <2>1
  <2>2. CASE k # Len(list) + 1
    <3>1. k \in DOMAIN list
      BY <1>1, <2>2
    <3> QED
      BY <1>1, <3>1 DEF Pending
  <2> QED
    BY <2>1, <2>2
<1> QED
  BY <1>1, <1>2 DEF Pending

LEMMA ObjectsReplaced ==
    ASSUME NEW objs, ObjectsSound(objs),
           NEW new \in Seq(Objects), DOMAIN new = DOMAIN objs,
           \A h \in DOMAIN objs : /\ new[h].tracked = objs[h].tracked
                                  /\ new[h].class = objs[h].class
    PROVE  /\ ObjectsSound(new)
           /\ \A list, t : Pending(objs, list, t) => Pending(new, list, t)
<1>1. ObjectsSound(new)
  BY DEF ObjectsSound
<1>2. ASSUME NEW list, NEW t, Pending(objs, list, t)
      PROVE  Pending(new, list, t)
  <2>1. \A k \in DOMAIN list : list[k] \in DOMAIN objs
    BY <1>2 DEF Pending
  <2> QED
    BY <1>2, <2>1 DEF Pending
<1> QED
  BY <1>1, <1>2

LEMMA NothingPending ==
    ASSUME NEW objs, NEW t
    PROVE  Pending(objs, <<>>, t)
<1> QED
  BY DEF Pending

---------------------------------------------------------------------------
(* Every call of the session keeps a sound unit of work sound. *)
LEMMA IdsArePositive ==
    ASSUME NEW store, Stored(store), NEW c \in Classes
    PROVE  DOMAIN store[c] \subseteq Positive
<1>1. PICK m \in Nat : DOMAIN store[c] \subseteq 1..m
  BY DEF Stored, Bounded
<1> QED
  BY <1>1 DEF Positive

LEMMA OpenSound ==
    ASSUME NEW store, NEW counter,
           Stored(store), counter \in [Classes -> Positive]
    PROVE  Sound(Open([store |-> store, counter |-> counter]))
<1>1. ObjectsSound(<<>>)
  BY DEF ObjectsSound
<1> QED
  BY <1>1, NothingPending DEF Sound, Open, Parts

LEMMA LoadSound ==
    ASSUME NEW v, Sound(v), NEW c \in Classes, NEW i \in DOMAIN v.store[c]
    PROVE  Sound(Load(v, c, i)) /\ Load(v, c, i).store = v.store
<1> DEFINE new == Load(v, c, i)
           o == [class |-> IF c \in Typed THEN c ELSE Generic,
                 id |-> i, tracked |-> TRUE, data |-> v.store[c][i]]
           objs == Append(v.objs, o)
           h == Len(v.objs) + 1
<1>1. o \in Objects /\ o.tracked = TRUE /\ o.class \in Typed \cup {Generic}
  <2>1. i \in Positive /\ v.store[c][i] \in Values
    BY IdsArePositive DEF Sound, Stored
  <2> QED
    BY <2>1 DEF Objects
<1>2. /\ ObjectsSound(objs)
      /\ h \in DOMAIN objs /\ objs[h].tracked = TRUE
      /\ Pending(objs, v.adds, FALSE)
      /\ Pending(objs, v.updates, TRUE)
      /\ Pending(objs, v.deletes, TRUE)
  <2> HIDE DEF o
  <2> QED
    BY <1>1, ObjectAppended DEF Sound
<1>3. Pending(objs, Append(v.updates, h), TRUE)
  <2> HIDE DEF objs, h
  <2> QED
    BY <1>2, EntryAppended
<1>4. /\ DOMAIN new = Parts
      /\ new.store = v.store
      /\ new.counter = v.counter
      /\ new.objs = objs
      /\ new.adds = v.adds
      /\ new.updates = Append(v.updates, h)
      /\ new.deletes = v.deletes
  BY DEF Load, Sound, Parts
<1> HIDE DEF objs, h
<1> QED
  BY <1>2, <1>3, <1>4 DEF Sound

LEMMA MakeSound ==
    ASSUME NEW v, Sound(v), NEW c \in Classes, NEW data \in Values
    PROVE  Sound(Make(v, c, data)) /\ Make(v, c, data).store = v.store
<1> DEFINE new == Make(v, c, data)
           o == [class |-> c, id |-> v.counter[c], tracked |-> FALSE, data |-> data]
           objs == Append(v.objs, o)
           counter == [v.counter EXCEPT ![c] = @ + 1]
<1>1. o \in Objects /\ o.tracked = FALSE /\ o.class \in Classes
  BY DEF Objects, Sound
<1>2. /\ ObjectsSound(objs)
      /\ Pending(objs, v.adds, FALSE)
      /\ Pending(objs, v.updates, TRUE)
      /\ Pending(objs, v.deletes, TRUE)
  <2> HIDE DEF o
  <2> QED
    BY <1>1, ObjectAppended DEF Sound
<1>3. counter \in [Classes -> Positive]
  BY DEF Sound, Positive
<1>4. /\ DOMAIN new = Parts
      /\ new.store = v.store
      /\ new.counter = counter
      /\ new.objs = objs
      /\ new.adds = v.adds
      /\ new.updates = v.updates
      /\ new.deletes = v.deletes
  BY DEF Make, Sound, Parts
<1> HIDE DEF objs, counter
<1> QED
  BY <1>2, <1>3, <1>4 DEF Sound

LEMMA AssignSound ==
    ASSUME NEW v, Sound(v), NEW h \in DOMAIN v.objs, NEW data \in Values
    PROVE  Sound(Assign(v, h, data)) /\ Assign(v, h, data).store = v.store
<1> DEFINE new == Assign(v, h, data)
           objs == [v.objs EXCEPT ![h].data = data]
           updates == IF v.objs[h].tracked /\ ~InSeq(h, v.updates)
                      THEN Append(v.updates, h) ELSE v.updates
<1>1. /\ objs \in Seq(Objects)
      /\ DOMAIN objs = DOMAIN v.objs
      /\ \A k \in DOMAIN v.objs : /\ objs[k].tracked = v.objs[k].tracked
                                   /\ objs[k].class = v.objs[k].class
  <2> DEFINE o == [v.objs[h] EXCEPT !.data = data]
  <2>1. v.objs \in Seq(Objects) /\ h \in 1..Len(v.objs) /\ v.objs[h] \in Objects
    BY DEF Sound, ObjectsSound
  <2>2. o \in Objects /\ o.tracked = v.objs[h].tracked /\ o.class = v.objs[h].class
    BY <2>1 DEF Objects
  <2>3. objs = [v.objs EXCEPT ![h] = o]
    OBVIOUS
  <2> HIDE DEF o, objs
  <2> QED
    BY <2>1, <2>2, <2>3, ExceptSeq
<1>2. /\ ObjectsSound(objs)
      /\ Pending(objs, v.adds, FALSE)
      /\ Pending(objs, v.updates, TRUE)
      /\ Pending(objs, v.deletes, TRUE)
  <2> HIDE DEF objs
  <2> QED
    BY <1>1, ObjectsReplaced DEF Sound
<1>3. v.objs[h].tracked \in BOOLEAN
  <2>1. v.objs[h] \in Objects
    BY DEF Sound, ObjectsSound
  <2> QED
    BY <2>1 DEF Objects
<1>4. Pending(objs, updates, TRUE)
  <2> HIDE DEF objs
  <2> QED
    BY <1>1, <1>2, <1>3, EntryAppended
<1>5. /\ DOMAIN new = Parts
      /\ new.store = v.store
      /\ new.counter = v.counter
      /\ new.objs = objs
      /\ new.adds = v.adds
      /\ new.updates = updates
      /\ new.deletes = v.deletes
  BY DEF Assign, Sound, Parts
<1> HIDE DEF objs, updates
<1> QED
  BY <1>2, <1>4, <1>5 DEF Sound

LEMMA ListsSound ==
    ASSUME NEW v, Sound(v)
    PROVE  /\ \A h \in DOMAIN v.objs : v.objs[h].tracked = FALSE =>
                 Sound(Add(v, h)) /\ Add(v, h).store = v.store
           /\ \A h \in DOMAIN v.objs : v.objs[h].tracked = TRUE =>
                 Sound(Delete(v, h)) /\ Delete(v, h).store = v.store
           /\ Sound(Rollback(v)) /\ Rollback(v).store = v.store
<1>1. ASSUME NEW h \in DOMAIN v.objs, v.objs[h].tracked = FALSE
      PROVE  Sound(Add(v, h)) /\ Add(v, h).store = v.store
  <2>1. Pending(v.objs, Append(v.adds, h), FALSE)
    BY <1>1, EntryAppended DEF Sound
  <2> QED
    BY <2>1 DEF Add, Sound, Parts
<1>2. ASSUME NEW h \in DOMAIN v.objs, v.objs[h].tracked = TRUE
      PROVE  Sound(Delete(v, h)) /\ Delete(v, h).store = v.store
  <2>1. Pending(v.objs, Append(v.deletes, h), TRUE)
    BY <1>2, EntryAppended DEF Sound
  <2> QED
    BY <2>1 DEF Delete, Sound, Parts
<1>3. Sound(Rollback(v)) /\ Rollback(v).store = v.store
  BY NothingPending DEF Rollback, Sound, Parts
<1> QED
  BY <1>1, <1>2, <1>3

LEMMA RefreshSound ==
    ASSUME NEW v, Sound(v), NEW h \in DOMAIN v.objs
    PROVE  Sound(Refresh(v, h)) /\ Refresh(v, h).store = v.store
<1> DEFINE o == v.objs[h]
           data == v.store[o.class][o.id]
           objs == [v.objs EXCEPT ![h].data = data]
           new == [v EXCEPT !.objs[h].data = data]
<1>1. CASE ~(o.class \in Classes /\ o.id \in DOMAIN v.store[o.class])
  BY <1>1 DEF Refresh
<1>2. CASE o.class \in Classes /\ o.id \in DOMAIN v.store[o.class]
  <2>1. data \in Values
    BY <1>2 DEF Sound, Stored
  <2>2. /\ objs \in Seq(Objects)
        /\ DOMAIN objs = DOMAIN v.objs
        /\ \A k \in DOMAIN v.objs : /\ objs[k].tracked = v.objs[k].tracked
                                     /\ objs[k].class = v.objs[k].class
    <3> DEFINE p == [o EXCEPT !.data = data]
    <3> HIDE DEF data
    <3>1. v.objs \in Seq(Objects) /\ h \in 1..Len(v.objs) /\ o \in Objects
      BY DEF Sound, ObjectsSound
    <3>2. p \in Objects /\ p.tracked = o.tracked /\ p.class = o.class
      BY <2>1, <3>1 DEF Objects
    <3>3. objs = [v.objs EXCEPT ![h] = p]
      OBVIOUS
    <3> HIDE DEF p, objs
    <3> QED
      BY <3>1, <3>2, <3>3, ExceptSeq
  <2>3. /\ ObjectsSound(objs)
        /\ Pending(objs, v.adds, FALSE)
        /\ Pending(objs, v.updates, TRUE)
        /\ Pending(objs, v.deletes, TRUE)
    <3> HIDE DEF objs
    <3> QED
      BY <2>2, ObjectsReplaced DEF Sound
  <2>4. Refresh(v, h) = new
    BY <1>2 DEF Refresh
  <2>5. /\ DOMAIN new = Parts
        /\ new.store = v.store
        /\ new.counter = v.counter
        /\ new.objs = objs
        /\ new.adds = v.adds
        /\ new.updates = v.updates
        /\ new.deletes = v.deletes
    BY DEF Sound, Parts
  <2> HIDE DEF objs, new
  <2> QED
    BY <2>3, <2>4, <2>5 DEF Sound
<1> QED
  BY <1>1, <1>2

---------------------------------------------------------------------------
(* A commit.  The place of an object among the added ones of its class     *)
(* counts from 1 and tells them apart, so their new ids follow the largest *)
(* id in use and differ.                                                   *)
Place(v, c, k) == Cardinality({j \in AddsOf(v, c) : j <= k})

LEMMA PlacesDiffer ==
    ASSUME NEW v, Sound(v), NEW c,
           NEW k \in AddsOf(v, c)
    PROVE  /\ Place(v, c, k) \in 1..Len(v.adds)
           /\ \A j \in AddsOf(v, c) : j < k => Place(v, c, j) < Place(v, c, k)
<1> DEFINE Upto(i) == {j \in AddsOf(v, c) : j <= i}
<1>1. /\ Len(v.adds) \in Nat
      /\ DOMAIN v.adds = 1..Len(v.adds)
      /\ AddsOf(v, c) \subseteq 1..Len(v.adds)
  BY DEF Sound, Pending, AddsOf
<1>2. \A i : /\ IsFiniteSet(Upto(i)) /\ Cardinality(Upto(i)) \in Nat
             /\ Cardinality(Upto(i)) <= Len(v.adds)
  <2>1. IsFiniteSet(1..Len(v.adds)) /\ Cardinality(1..Len(v.adds)) = Len(v.adds)
    BY <1>1, FS_Interval
  <2>2. \A i : Upto(i) \in SUBSET (1..Len(v.adds))
    BY <1>1
  <2> HIDE DEF Upto
  <2> QED
    BY <2>1, <2>2, FS_Subset, FS_CardinalityType
<1>3. Place(v, c, k) \in 1..Len(v.adds)
  <2>1. k \in Upto(k)
    BY <1>1
  <2>2. Cardinality(Upto(k)) # 0
    BY <1>2, <2>1, FS_EmptySet
  <2> HIDE DEF Upto
  <2>3. Cardinality(Upto(k)) \in 1..Len(v.adds)
    BY <1>1, <1>2, <2>2
  <2> QED
    BY <2>3 DEF Place, Upto
<1>4. ASSUME NEW j \in AddsOf(v, c), j < k
      PROVE  Place(v, c, j) < Place(v, c, k)
  <2>1. Upto(j) \in SUBSET Upto(k) /\ Upto(j) # Upto(k)
    <3>1. k \in Upto(k) /\ k \notin Upto(j)
      BY <1>1, <1>4
    <3>2. ASSUME NEW i \in Upto(j)
          PROVE  i \in Upto(k)
      BY <1>1, <1>4
    <3> QED
      BY <3>1, <3>2
  <2> HIDE DEF Upto
  <2>2. Cardinality(Upto(j)) < Cardinality(Upto(k))
    BY <1>2, <2>1, FS_Subset
  <2> QED
    BY <2>2 DEF Place, Upto
<1> QED
  BY <1>3, <1>4

LEMMA NewIdsAreFresh ==
    ASSUME NEW v, Sound(v), NEW k \in DOMAIN v.adds
    PROVE  LET c == v.objs[v.adds[k]].class
               top == Largest(DOMAIN v.store[c])
           IN /\ c \in Classes /\ k \in AddsOf(v, c)
              /\ top \in Nat
              /\ NewId(v, k) \in (top + 1)..(top + Len(v.adds))
              /\ NewId(v, k) \notin DOMAIN v.store[c]
              /\ \A j \in AddsOf(v, c) : NewId(v, j) = NewId(v, k) => j = k
<1> DEFINE c == v.objs[v.adds[k]].class
           top == Largest(DOMAIN v.store[c])
<1>1. c \in Classes /\ k \in AddsOf(v, c)
  <2>1. v.adds[k] \in DOMAIN v.objs /\ v.objs[v.adds[k]].tracked = FALSE
    BY DEF Sound, Pending
  <2> QED
    BY <2>1 DEF Sound, ObjectsSound, AddsOf
<1>2. top \in Nat /\ \A n \in DOMAIN v.store[c] : n \in Nat /\ n <= top
  BY <1>1, LargestIsMax DEF Sound, Stored
<1>3. \A j \in AddsOf(v, c) : NewId(v, j) = top + Place(v, c, j)
  BY DEF NewId, Place, AddsOf
<1>4. /\ Len(v.adds) \in Nat
      /\ \A j \in AddsOf(v, c) : j \in Nat /\ Place(v, c, j) \in 1..Len(v.adds)
  <2>1. /\ Len(v.adds) \in Nat
        /\ \A j \in AddsOf(v, c) : j \in Nat
    BY DEF AddsOf, Sound, Pending
  <2> QED
    BY <2>1, PlacesDiffer
<1>5. \A i, j \in AddsOf(v, c) : i < j => Place(v, c, i) < Place(v, c, j)
  BY PlacesDiffer
<1> HIDE DEF c, top
<1>6. NewId(v, k) \in (top + 1)..(top + Len(v.adds))
  BY <1>1, <1>2, <1>3, <1>4
<1>7. NewId(v, k) \notin DOMAIN v.store[c]
  BY <1>2, <1>4, <1>6
<1>8. ASSUME NEW j \in AddsOf(v, c), NewId(v, j) = NewId(v, k)
      PROVE  j = k
  <2>1. Place(v, c, j) = Place(v, c, k)
    BY <1>1, <1>2, <1>3, <1>4, <1>8
  <2> QED
    BY <1>1, <1>4, <1>5, <2>1
<1>9. \A j \in AddsOf(v, c) : NewId(v, j) = NewId(v, k) => j = k
  BY <1>8
<1> USE DEF c, top
<1> QED
  BY <1>1, <1>2, <1>6, <1>7, <1>9, Zenon

(* The stores after the three parts of a commit. *)
LEMMA AddedSound ==
    ASSUME NEW v, Sound(v), NEW c \in Classes
    PROVE  /\ Bounded(DOMAIN Added(v, c))
           /\ Added(v, c) \in [DOMAIN Added(v, c) -> Values]
           /\ \A i \in DOMAIN v.store[c] : /\ i \in DOMAIN Added(v, c)
                                           /\ Added(v, c)[i] = v.store[c][i]
<1> DEFINE new == {NewId(v, k) : k \in AddsOf(v, c)}
           of(i) == CHOOSE k \in AddsOf(v, c) : NewId(v, k) = i
           top == Largest(DOMAIN v.store[c])
           records == v.store[c]
           result == [i \in DOMAIN records \cup new |->
                        IF i \in new THEN v.objs[v.adds[of(i)]].data ELSE records[i]]
<1>1. \A k \in AddsOf(v, c) : k \in DOMAIN v.adds /\ v.objs[v.adds[k]].class = c
  BY DEF AddsOf
<1>2. /\ top \in Nat /\ Len(v.adds) \in Nat
      /\ \A n \in DOMAIN records : n \in Nat /\ n <= top
      /\ records \in [DOMAIN records -> Values]
      /\ DOMAIN records \subseteq Positive
  BY LargestIsMax, IdsArePositive DEF Sound, Stored, Pending
<1>3. \A k \in AddsOf(v, c) : /\ NewId(v, k) \in (top + 1)..(top + Len(v.adds))
                              /\ NewId(v, k) \notin DOMAIN records
  <2> TAKE k \in AddsOf(v, c)
  <2> QED
    BY <1>1, NewIdsAreFresh
<1>4. \A k \in AddsOf(v, c) : v.objs[v.adds[k]].data \in Values
  <2> TAKE k \in AddsOf(v, c)
  <2>1. v.adds[k] \in DOMAIN v.objs
    BY <1>1 DEF Sound, Pending
  <2>2. v.objs[v.adds[k]] \in Objects
    BY <2>1 DEF Sound, ObjectsSound
  <2> QED
    BY <2>2 DEF Objects
<1>5. Added(v, c) = result
  BY DEF Added
<1> HIDE DEF top
<1>6. Bounded(DOMAIN records \cup new)
  <2>1. \A i \in DOMAIN records : i \in 1..(top + Len(v.adds))
    BY <1>2 DEF Positive
  <2>2. \A i \in new : i \in 1..(top + Len(v.adds))
    BY <1>2, <1>3
  <2>3. top + Len(v.adds) \in Nat
    BY <1>2
  <2> HIDE DEF new, records
  <2> QED
    BY <2>1, <2>2, <2>3 DEF Bounded
<1>7. \A i \in new : of(i) \in AddsOf(v, c)
  OBVIOUS
<1>8. \A i \in DOMAIN records : i \notin new
  BY <1>3
<1> HIDE DEF new, of, records
<1>9. result \in [DOMAIN records \cup new -> Values]
  BY <1>2, <1>4, <1>7
<1>10. DOMAIN result = DOMAIN records \cup new
  OBVIOUS
<1>11. \A i \in DOMAIN records : result[i] = records[i]
  BY <1>8
<1> HIDE DEF result
<1> QED
  BY <1>5, <1>6, <1>9, <1>10, <1>11 DEF records

LEMMA UpdatedSound ==
    ASSUME NEW v, Sound(v), NEW c \in Classes,
           NEW records, records \in [DOMAIN records -> Values]
    PROVE  /\ DOMAIN Updated(v, c, records) = DOMAIN records
           /\ Updated(v, c, records) \in [DOMAIN records -> Values]
<1> DEFINE last(i) == Largest(UpdatesOf(v, c, i))
<1>1. ASSUME NEW i \in DOMAIN records, UpdatesOf(v, c, i) # {}
      PROVE  v.objs[v.updates[last(i)]].data \in Values
  <2>1. UpdatesOf(v, c, i) \subseteq 1..Len(v.updates) /\ Len(v.updates) \in Nat
    BY DEF UpdatesOf, Sound, Pending
  <2>2. last(i) \in UpdatesOf(v, c, i)
    BY <1>1, <2>1, LargestIsMax DEF Bounded
  <2>3. last(i) \in DOMAIN v.updates
    BY <2>2 DEF UpdatesOf
  <2>4. v.objs[v.updates[last(i)]] \in Objects
    <3> HIDE DEF last
    <3> QED
      BY <2>3 DEF Sound, Pending, ObjectsSound
  <2> HIDE DEF last
  <2> QED
    BY <2>4 DEF Objects
<1> QED
  BY <1>1 DEF Updated

(* A commit leaves the records of an untyped class as they are: no pending *)
(* update or deletion is of such a class.                                  *)
LEMMA UntypedUnwritten ==
    ASSUME NEW v, Sound(v), NEW c \in Classes \ Typed
    PROVE  (\A i : UpdatesOf(v, c, i) = {}) /\ Gone(v, c) = {}
<1>1. ASSUME NEW k \in DOMAIN v.updates
      PROVE  v.objs[v.updates[k]].class # c
  <2>1. v.updates[k] \in DOMAIN v.objs /\ v.objs[v.updates[k]].tracked = TRUE
    BY DEF Sound, Pending
  <2>2. v.objs[v.updates[k]].class \in Typed \cup {Generic}
    BY <2>1 DEF Sound, ObjectsSound
  <2> QED
    BY <2>2, ClassesAssumption
<1>2. ASSUME NEW k \in DOMAIN v.deletes
      PROVE  v.objs[v.deletes[k]].class # c
  <2>1. v.deletes[k] \in DOMAIN v.objs /\ v.objs[v.deletes[k]].tracked = TRUE
    BY DEF Sound, Pending
  <2>2. v.objs[v.deletes[k]].class \in Typed \cup {Generic}
    BY <2>1 DEF Sound, ObjectsSound
  <2> QED
    BY <2>2, ClassesAssumption
<1> QED
  BY <1>1, <1>2 DEF UpdatesOf, Gone

LEMMA CommitSound ==
    ASSUME NEW v, Sound(v)
    PROVE  /\ Sound(Commit(v))
           /\ \A c \in Classes \ Typed : \A i \in DOMAIN v.store[c] :
                 /\ i \in DOMAIN Commit(v).store[c]
                 /\ Commit(v).store[c][i] = v.store[c][i]
<1> DEFINE records(c) == Updated(v, c, Added(v, c))
           store == [c \in Classes |-> Kept(v, c, records(c))]
           objs == [h \in DOMAIN v.objs |-> [v.objs[h] EXCEPT !.id = IdAfter(v, h)]]
           new == Commit(v)
<1>1. /\ DOMAIN new = Parts
      /\ new.store = store
      /\ new.counter = v.counter
      /\ new.objs = objs
      /\ new.adds = <<>> /\ new.updates = <<>> /\ new.deletes = <<>>
  BY DEF Commit, Sound, Parts
<1>2. \A c \in Classes : /\ Bounded(DOMAIN records(c))
                         /\ DOMAIN records(c) = DOMAIN Added(v, c)
                         /\ records(c) \in [DOMAIN records(c) -> Values]
  <2> TAKE c \in Classes
  <2>1. Bounded(DOMAIN Added(v, c)) /\ Added(v, c) \in [DOMAIN Added(v, c) -> Values]
    BY AddedSound
  <2> QED
    BY <2>1, UpdatedSound
<1>3. Stored(store)
  <2> SUFFICES ASSUME NEW c \in Classes
               PROVE  /\ Bounded(DOMAIN store[c])
                      /\ store[c] \in [DOMAIN store[c] -> Values]
    BY DEF Stored
  <2> DEFINE r == records(c)
  <2>1. store[c] = [i \in DOMAIN r \ Gone(v, c) |-> r[i]]
    BY DEF Kept
  <2>2. Bounded(DOMAIN r) /\ r \in [DOMAIN r -> Values]
    BY <1>2
  <2> HIDE DEF r, store
  <2>3. DOMAIN store[c] \subseteq DOMAIN r
    BY <2>1
  <2>4. Bounded(DOMAIN store[c])
    BY <2>2, <2>3 DEF Bounded
  <2> QED
    BY <2>1, <2>2, <2>4
<1>4. ObjectsSound(objs)
  <2>1. /\ objs \in Seq(Objects)
        /\ DOMAIN objs = DOMAIN v.objs
        /\ \A h \in DOMAIN v.objs : /\ objs[h].tracked = v.objs[h].tracked
                                     /\ objs[h].class = v.objs[h].class
    <3>1. ASSUME NEW h \in DOMAIN v.objs
          PROVE  /\ objs[h] \in Objects
                 /\ objs[h].tracked = v.objs[h].tracked
                 /\ objs[h].class = v.objs[h].class
      <4>1. v.objs[h] \in Objects
        BY DEF Sound, ObjectsSound
      <4>2. IdAfter(v, h) \in Positive
        <5>1. CASE InSeq(h, v.adds)
          <6> DEFINE k == CHOOSE j \in DOMAIN v.adds : v.adds[j] = h
          <6>1. k \in DOMAIN v.adds /\ Len(v.adds) \in Nat
            BY <5>1 DEF InSeq, Sound, Pending
          <6>2. IdAfter(v, h) = NewId(v, k)
            BY <5>1 DEF IdAfter
          <6> HIDE DEF k
          <6>3. PICK top \in Nat : NewId(v, k) \in (top + 1)..(top + Len(v.adds))
            BY <6>1, NewIdsAreFresh
          <6> QED
            BY <6>1, <6>2, <6>3 DEF Positive
        <5>2. CASE ~InSeq(h, v.adds)
          BY <4>1, <5>2 DEF IdAfter, Objects
        <5> QED
          BY <5>1, <5>2
      <4>3. objs[h] = [v.objs[h] EXCEPT !.id = IdAfter(v, h)]
        OBVIOUS
      <4> HIDE DEF objs
      <4> QED
        BY <4>1, <4>2, <4>3 DEF Objects
    <3>2. DOMAIN objs = DOMAIN v.objs /\ DOMAIN objs = 1..Len(v.objs) /\ Len(v.objs) \in Nat
      BY DEF Sound, ObjectsSound
    <3>3. objs \in [1..Len(v.objs) -> Objects]
      <4>1. objs = [h \in DOMAIN objs |-> objs[h]]
        OBVIOUS
      <4> HIDE DEF objs
      <4> QED
        BY <3>1, <3>2, <4>1
    <3> HIDE DEF objs
    <3> QED
      BY <3>1, <3>2, <3>3
  <2> HIDE DEF objs
  <2> QED
    BY <2>1, ObjectsReplaced DEF Sound
<1>5. ASSUME NEW c \in Classes \ Typed, NEW i \in DOMAIN v.store[c]
      PROVE  i \in DOMAIN store[c] /\ store[c][i] = v.store[c][i]
  <2>1. i \in DOMAIN Added(v, c) /\ Added(v, c)[i] = v.store[c][i]
    BY AddedSound
  <2>2. records(c)[i] = Added(v, c)[i] /\ i \in DOMAIN records(c)
    BY <2>1, UntypedUnwritten DEF Updated
  <2>3. Gone(v, c) = {}
    BY UntypedUnwritten
  <2>4. store[c] = [j \in DOMAIN records(c) \ Gone(v, c) |-> records(c)[j]]
    BY DEF Kept
  <2> HIDE DEF records, store
  <2> QED
    BY <2>1, <2>2, <2>3, <2>4
<1> HIDE DEF store, objs
<1>6. Sound(new)
  BY <1>1, <1>3, <1>4, NothingPending DEF Sound
<1> QED
  BY <1>1, <1>5, <1>6

---------------------------------------------------------------------------
(* The invariant of the specification. *)
LEMMA SoundInit ==
    ASSUME Init
    PROVE  Sound(u)
<1>1. Stored(Seed)
  BY SeedAssumption DEF Stored, Bounded
<1>2. InitialCounter(Seed) \in [Classes -> Positive]
  BY SeedAssumption DEF InitialCounter, Positive
<1> QED
  BY <1>1, <1>2, OpenSound DEF Init

(* One step: the unit of work stays sound and no record of an untyped      *)
(* class changes.                                                          *)
Frozen(store, new) ==
    \A c \in Classes \ Typed : \A i \in DOMAIN store[c] :
        i \in DOMAIN new[c] /\ new[c][i] = store[c][i]

LEMMA SoundNext ==
    ASSUME Sound(u), [Next]_vars
    PROVE  Sound(u)' /\ Frozen(u.store, u'.store)
<1>1. ASSUME NEW c \in Classes, NEW i \in DOMAIN u.store[c], Query(c, i)
      PROVE  Sound(u)' /\ Frozen(u.store, u'.store)
  BY <1>1, LoadSound DEF Query, Frozen
<1>2. ASSUME NEW c \in Classes, NEW data \in Values, Construct(c, data)
      PROVE  Sound(u)' /\ Frozen(u.store, u'.store)
  BY <1>2, MakeSound DEF Construct, Frozen
<1>3. ASSUME NEW h \in DOMAIN u.objs, NEW data \in Values, SetField(h, data)
      PROVE  Sound(u)' /\ Frozen(u.store, u'.store)
  BY <1>3, AssignSound DEF SetField, Frozen
<1>4. ASSUME NEW h \in DOMAIN u.objs
      PROVE  u.objs[h].tracked \in BOOLEAN
  <2>1. u.objs[h] \in Objects
    BY DEF Sound, ObjectsSound
  <2> QED
    BY <2>1 DEF Objects
<1>5. ASSUME NEW h \in DOMAIN u.objs, AddObject(h)
      PROVE  Sound(u)' /\ Frozen(u.store, u'.store)
  BY <1>4, <1>5, ListsSound DEF AddObject, Frozen
<1>6. ASSUME NEW h \in DOMAIN u.objs, DeleteObject(h)
      PROVE  Sound(u)' /\ Frozen(u.store, u'.store)
  BY <1>4, <1>6, ListsSound DEF DeleteObject, Frozen
<1>7. ASSUME NEW h \in DOMAIN u.objs, RefreshObject(h)
      PROVE  Sound(u)' /\ Frozen(u.store, u'.store)
  BY <1>7, RefreshSound DEF RefreshObject, Frozen
<1>8. ASSUME RollbackUnit
      PROVE  Sound(u)' /\ Frozen(u.store, u'.store)
  BY <1>8, ListsSound DEF RollbackUnit, Frozen
<1>9. ASSUME CommitUnit
      PROVE  Sound(u)' /\ Frozen(u.store, u'.store)
  BY <1>9, CommitSound DEF CommitUnit, Frozen
<1>10. ASSUME NextRequest
       PROVE  Sound(u)' /\ Frozen(u.store, u'.store)
  <2>1. Sound(Open([store |-> u.store, counter |-> u.counter]))
    BY OpenSound DEF Sound
  <2>2. Open(Close(u)).store = u.store
    BY DEF Open, Close
  <2> QED
    BY <1>10, <2>1, <2>2 DEF NextRequest, Close, Frozen
<1>11. CASE UNCHANGED vars
  BY <1>11 DEF vars, Frozen
<1> QED
  BY <1>1, <1>2, <1>3, <1>5, <1>6, <1>7, <1>8, <1>9, <1>10, <1>11 DEF Next

(* After any sequence of session calls the stores of the data manager are  *)
(* finite maps from positive ids, loaded objects wait on the update and    *)
(* delete lists of a MemorySession and made ones on its list of additions  *)
(* (memory_adapter.py:624).                                                *)
THEOREM UnitOfWorkIsSound == Spec => []Sound(u)
<1>1. Init => Sound(u)
  BY SoundInit
<1>2. Sound(u) /\ [Next]_vars => Sound(u)'
  BY SoundNext
<1> QED
  BY <1>1, <1>2, PTL DEF Spec

(* Whatever a unit of work does, the stores are finite maps from positive  *)
(* ids and the pending lists name the objects they should                  *)
(* (memory_adapter.py:624).                                                *)
THEOREM TypeCorrect == Spec => []TypeOK
<1>1. ASSUME Sound(u)
      PROVE  TypeOK
  <2>1. StoresOK
    <3> SUFFICES ASSUME NEW c \in Classes
                 PROVE  /\ DOMAIN u.store[c] \subseteq Positive
                        /\ IsFiniteSet(DOMAIN u.store[c])
                        /\ u.store[c] \in [DOMAIN u.store[c] -> Values]
      BY DEF StoresOK
    <3>1. PICK m \in Nat : DOMAIN u.store[c] \subseteq 1..m
      BY <1>1 DEF Sound, Stored, Bounded
    <3>2. IsFiniteSet(1..m)
      BY FS_Interval
    <3>3. IsFiniteSet(DOMAIN u.store[c])
      <4>1. DOMAIN u.store[c] \in SUBSET (1..m)
        BY <3>1
      <4> QED
        BY <3>2, <4>1, FS_Subset
    <3> QED
      BY <1>1, <3>3, IdsArePositive DEF Sound, Stored
  <2>2. ObjectsOK
    BY <1>1 DEF ObjectsOK, Sound, ObjectsSound
  <2>3. ListsOK
    BY <1>1 DEF ListsOK, Sound, Pending
  <2> QED
    BY <1>1, <2>1, <2>2, <2>3 DEF TypeOK, Sound, Stored, Parts
<1> QED
  BY <1>1, UnitOfWorkIsSound, PTL

(* Objects added by one unit of work get ids of their own, none of them in *)
(* use (the id generation of commit, memory_adapter.py:766).               *)
THEOREM AdditionsAreFresh == Spec => []AddedIdsAreFresh
<1>1. ASSUME Sound(u)
      PROVE  AddedIdsAreFresh
  <2> SUFFICES ASSUME NEW k \in DOMAIN u.adds
               PROVE  /\ NewId(u, k) \notin DOMAIN u.store[u.objs[u.adds[k]].class]
                      /\ \A j \in DOMAIN u.adds :
                           (/\ u.objs[u.adds[j]].class = u.objs[u.adds[k]].class
                            /\ NewId(u, j) = NewId(u, k)) => j = k
    BY DEF AddedIdsAreFresh
  <2> DEFINE c == u.objs[u.adds[k]].class
  <2>1. /\ NewId(u, k) \notin DOMAIN u.store[c]
        /\ \A j \in AddsOf(u, c) : NewId(u, j) = NewId(u, k) => j = k
    BY <1>1, NewIdsAreFresh
  <2>2. \A j \in DOMAIN u.adds : u.objs[u.adds[j]].class = c => j \in AddsOf(u, c)
    BY DEF AddsOf
  <2> QED
    BY <2>1, <2>2
<1> QED
  BY <1>1, UnitOfWorkIsSound, PTL

(* No call changes or removes a stored record of a class that queries      *)
(* restore as a generic object (memory_adapter.py:597 and :783).           *)
THEOREM UntypedFrozen == Spec => UntypedRecordsAreFrozen
<1>1. Sound(u) /\ [Next]_vars =>
        [\A c \in Classes \ Typed : \A i \in DOMAIN u.store[c] :
            i \in DOMAIN u'.store[c] /\ u'.store[c][i] = u.store[c][i]]_u
  BY SoundNext DEF Frozen
<1> QED
  BY <1>1, UnitOfWorkIsSound, PTL DEF Spec, UntypedRecordsAreFrozen

---------------------------------------------------------------------------
(* What was assigned to a record is held by an object on the update list   *)
(* until the unit of work ends or takes it back: the invariant behind      *)
(* SoleCopyIsWritten, stated of a unit of work v and a set of writes W.    *)
Waiting(v, c, i, data) ==
    \E k \in UpdatesOf(v, c, i) : v.objs[v.updates[k]].data = data

Held(v, W) == \A w \in W : w.class \in Classes => Waiting(v, w.class, w.id, w.data)

Grows(v, new) == \/ new.updates = v.updates
                 \/ \E h : new.updates = Append(v.updates, h)

Keeps(v, new, c, i) ==
    \A h \in DOMAIN v.objs : v.objs[h].class = c /\ v.objs[h].id = i =>
        /\ new.objs[h].class = c /\ new.objs[h].id = i
        /\ new.objs[h].data = v.objs[h].data

LEMMA WaitingStays ==
    ASSUME NEW v, Sound(v), NEW new, NEW c, NEW i, NEW data,
           Waiting(v, c, i, data), Grows(v, new), Keeps(v, new, c, i)
    PROVE  Waiting(new, c, i, data)
<1>1. PICK k \in UpdatesOf(v, c, i) : v.objs[v.updates[k]].data = data
  BY DEF Waiting
<1>2. v.updates \in Seq(DOMAIN v.objs) /\ k \in DOMAIN v.updates
  BY DEF Sound, Pending, UpdatesOf
<1>3. k \in DOMAIN new.updates /\ new.updates[k] = v.updates[k]
  <2>1. CASE new.updates = v.updates
    BY <1>2, <2>1
  <2>2. ASSUME NEW h, new.updates = Append(v.updates, h)
        PROVE  k \in DOMAIN new.updates /\ new.updates[k] = v.updates[k]
    <3> DEFINE list == Append(v.updates, h)
    <3>1. /\ DOMAIN v.updates = 1..Len(v.updates) /\ Len(v.updates) \in Nat
          /\ v.updates \in Seq((DOMAIN v.objs) \cup {h})
      BY <1>2
    <3>2. DOMAIN list = 1..(Len(v.updates) + 1) /\ list[k] = v.updates[k]
      BY <1>2, <3>1
    <3> QED
      BY <1>2, <2>2, <3>1, <3>2
  <2> QED
    BY <2>1, <2>2 DEF Grows
<1>4. v.updates[k] \in DOMAIN v.objs
  BY <1>2
<1>5. /\ new.objs[v.updates[k]].class = c
      /\ new.objs[v.updates[k]].id = i
      /\ new.objs[v.updates[k]].data = data
  BY <1>1, <1>4 DEF UpdatesOf, Keeps
<1> QED
  BY <1>3, <1>5 DEF Waiting, UpdatesOf

(* Assigning puts the object on the list with the value. *)
LEMMA AssignedWaits ==
    ASSUME NEW v, Sound(v), NEW h \in DOMAIN v.objs, NEW data,
           v.objs[h].tracked = TRUE
    PROVE  Waiting(Assign(v, h, data), v.objs[h].class, v.objs[h].id, data)
<1> DEFINE o == v.objs[h]
           new == Assign(v, h, data)
           objs == [v.objs EXCEPT ![h].data = data]
<1>1. /\ new.objs = objs
      /\ new.updates = IF ~InSeq(h, v.updates) THEN Append(v.updates, h) ELSE v.updates
  BY DEF Assign, Sound, Parts
<1>2. o \in Objects
  BY DEF Sound, ObjectsSound
<1>3. objs[h].class = o.class /\ objs[h].id = o.id /\ objs[h].data = data
  BY <1>2 DEF Objects
<1>4. PICK k \in DOMAIN new.updates : new.updates[k] = h
  <2>1. CASE InSeq(h, v.updates)
    BY <1>1, <2>1 DEF InSeq
  <2>2. CASE ~InSeq(h, v.updates)
    <3> DEFINE list == Append(v.updates, h)
    <3>1. v.updates \in Seq(DOMAIN v.objs)
      BY DEF Sound, Pending
    <3>2. /\ DOMAIN list = 1..(Len(v.updates) + 1)
          /\ Len(v.updates) \in Nat
          /\ list[Len(v.updates) + 1] = h
      BY <3>1
    <3> HIDE DEF list
    <3>3. Len(v.updates) + 1 \in DOMAIN list
      BY <3>2
    <3> QED
      BY <1>1, <2>2, <3>2, <3>3 DEF list
  <2> QED
    BY <2>1, <2>2
<1> HIDE DEF new, objs
<1>5. Waiting(new, o.class, o.id, data)
  BY <1>1, <1>3, <1>4 DEF Waiting, UpdatesOf
<1> QED
  BY <1>5 DEF new

(* A record with a single pending object gets that object's data. *)
LEMMA SoleCopyCommitted ==
    ASSUME NEW v, Sound(v), NEW c \in Classes, NEW i, NEW data,
           Waiting(v, c, i, data),
           Cardinality({v.updates[k] : k \in UpdatesOf(v, c, i)}) <= 1,
           i \in DOMAIN v.store[c] \ Gone(v, c)
    PROVE  Commit(v).store[c][i] = data
<1> DEFINE P == {v.updates[k] : k \in UpdatesOf(v, c, i)}
           last == Largest(UpdatesOf(v, c, i))
<1>1. PICK k \in UpdatesOf(v, c, i) : v.objs[v.updates[k]].data = data
  BY DEF Waiting
<1>2. /\ UpdatesOf(v, c, i) \subseteq 1..Len(v.updates) /\ Len(v.updates) \in Nat
      /\ \A j \in UpdatesOf(v, c, i) : v.updates[j] \in 1..Len(v.objs)
      /\ Len(v.objs) \in Nat
  <2>1. v.objs \in Seq(Objects) /\ v.updates \in Seq(DOMAIN v.objs)
    BY DEF Sound, Pending, ObjectsSound
  <2> QED
    BY <2>1 DEF UpdatesOf
<1>3. last \in UpdatesOf(v, c, i)
  BY <1>1, <1>2, LargestIsMax DEF Bounded
<1>4. v.updates[last] = v.updates[k]
  <2>1. P \in SUBSET (1..Len(v.objs)) /\ v.updates[last] \in P /\ v.updates[k] \in P
    BY <1>2, <1>3
  <2>2. IsFiniteSet(1..Len(v.objs))
    BY <1>2, FS_Interval
  <2> HIDE DEF P, last
  <2>3. IsFiniteSet(P) /\ Cardinality(P) \in Nat
    BY <2>1, <2>2, FS_Subset, FS_CardinalityType
  <2>4. Cardinality(P) # 0
    BY <2>1, <2>3, FS_EmptySet
  <2>5. Cardinality(P) = 1
    BY <2>3, <2>4 DEF P
  <2>6. PICK x : P = {x}
    BY <2>3, <2>5, FS_Singleton
  <2> QED
    BY <2>1, <2>6
<1>5. i \in DOMAIN Added(v, c)
  BY AddedSound
<1> DEFINE records == Updated(v, c, Added(v, c))
<1>6. i \in DOMAIN records /\ records[i] = data
  <2>1. records[i] = v.objs[v.updates[last]].data
    BY <1>1, <1>5 DEF Updated
  <2> QED
    BY <1>1, <1>4, <1>5, <2>1 DEF Updated
<1>7. Commit(v).store[c] = Kept(v, c, records)
  <2>1. Commit(v).store = [d \in Classes |-> Kept(v, d, Updated(v, d, Added(v, d)))]
    BY DEF Commit, Sound, Parts
  <2> QED
    BY <2>1
<1> HIDE DEF records
<1> QED
  BY <1>6, <1>7 DEF Kept

LEMMA HeldStays ==
    ASSUME NEW v, Sound(v), NEW W, Held(v, W), NEW new,
           Grows(v, new), \A h \in DOMAIN v.objs : new.objs[h] = v.objs[h]
    PROVE  Held(new, W)
<1>1. ASSUME NEW w \in W, w.class \in Classes
      PROVE  Waiting(new, w.class, w.id, w.data)
  <2>1. Waiting(v, w.class, w.id, w.data)
    BY <1>1 DEF Held
  <2>2. Keeps(v, new, w.class, w.id)
    BY DEF Keeps
  <2> QED
    BY <2>1, <2>2, WaitingStays
<1> QED
  BY <1>1 DEF Held

(* Every step keeps what was written held by a pending object. *)
LEMMA HeldNext ==
    ASSUME Sound(u), Held(u, wrote), [Next]_vars
    PROVE  Held(u, wrote)'
<1>1. ASSUME NEW c \in Classes, NEW i \in DOMAIN u.store[c], Query(c, i)
      PROVE  Held(u, wrote)'
  <2> DEFINE o == [class |-> IF c \in Typed THEN c ELSE Generic,
                   id |-> i, tracked |-> TRUE, data |-> u.store[c][i]]
  <2>1. /\ u'.updates = Append(u.updates, Len(u.objs) + 1)
        /\ u'.objs = Append(u.objs, o)
        /\ wrote' = wrote
    BY <1>1 DEF Query, Load, Sound, Parts
  <2> HIDE DEF o
  <2>2. u.objs \in Seq(Objects) /\ o \in Objects \cup {o}
    BY DEF Sound, ObjectsSound
  <2>3. \A h \in DOMAIN u.objs : u'.objs[h] = u.objs[h]
    <3>1. u.objs \in Seq(Objects \cup {o}) /\ DOMAIN u.objs = 1..Len(u.objs)
      BY <2>2
    <3> QED
      BY <2>1, <2>2, <3>1, AppendProperties
  <2>4. Grows(u, u')
    BY <2>1 DEF Grows
  <2>5. Held(u', wrote)
    BY <2>3, <2>4, HeldStays
  <2> QED
    BY <2>1, <2>5
<1>2. ASSUME NEW c \in Classes, NEW data \in Values, Construct(c, data)
      PROVE  Held(u, wrote)'
  <2> DEFINE o == [class |-> c, id |-> u.counter[c], tracked |-> FALSE, data |-> data]
  <2>1. /\ u'.updates = u.updates
        /\ u'.objs = Append(u.objs, o)
        /\ wrote' = wrote
    BY <1>2 DEF Construct, Make, Sound, Parts
  <2> HIDE DEF o
  <2>2. u.objs \in Seq(Objects) /\ o \in Objects \cup {o}
    BY DEF Sound, ObjectsSound
  <2>3. \A h \in DOMAIN u.objs : u'.objs[h] = u.objs[h]
    <3>1. u.objs \in Seq(Objects \cup {o}) /\ DOMAIN u.objs = 1..Len(u.objs)
      BY <2>2
    <3> QED
      BY <2>1, <2>2, <3>1, AppendProperties
  <2>4. Grows(u, u')
    BY <2>1 DEF Grows
  <2>5. Held(u', wrote)
    BY <2>3, <2>4, HeldStays
  <2> QED
    BY <2>1, <2>5
<1> USE DEF Held
<1>3. ASSUME NEW h \in DOMAIN u.objs, NEW data \in Values, SetField(h, data)
      PROVE  Held(u, wrote)'
  <2> DEFINE o == u.objs[h]
  <2>1. o \in Objects
    BY DEF Sound, ObjectsSound
  <2>2. Grows(u, u') /\ u'.objs = [u.objs EXCEPT ![h].data = data]
    BY <1>3 DEF SetField, Assign, Sound, Parts, Grows
  <2>3. \A k \in DOMAIN u.objs :
          /\ u'.objs[k].class = u.objs[k].class
          /\ u'.objs[k].id = u.objs[k].id
          /\ k # h => u'.objs[k].data = u.objs[k].data
    BY <2>1, <2>2 DEF Objects
  <2>4. CASE o.tracked = FALSE
    <3>1. wrote' = wrote /\ u'.updates = u.updates
      BY <1>3, <2>4 DEF SetField, Assign, Sound, Parts
    <3>2. \A k \in DOMAIN u.updates : u.updates[k] \in DOMAIN u.objs /\ u.updates[k] # h
      BY <2>4 DEF Sound, Pending
    <3>3. ASSUME NEW w \in wrote, w.class \in Classes
          PROVE  Waiting(u', w.class, w.id, w.data)
      BY <2>3, <3>1, <3>2, <3>3 DEF Waiting, UpdatesOf
    <3> QED
      BY <3>1, <3>3
  <2>5. CASE o.tracked = TRUE
    <3>1. wrote' = Rewritten(h, data)
      BY <1>3, <2>5 DEF SetField
    <3>2. ASSUME NEW w \in wrote, w.class \in Classes,
                 ~(w.class = o.class /\ w.id = o.id)
          PROVE  Waiting(u', w.class, w.id, w.data)
      <4>1. Keeps(u, u', w.class, w.id)
        BY <2>3, <3>2 DEF Keeps
      <4>2. Waiting(u, w.class, w.id, w.data)
        BY <3>2
      <4> HIDE DEF o
      <4> QED
        BY <2>2, <4>1, <4>2, WaitingStays
    <3>3. Waiting(u', o.class, o.id, data)
      BY <1>3, <2>5, AssignedWaits DEF SetField
    <3> QED
      BY <3>1, <3>2, <3>3 DEF Rewritten
  <2> QED
    BY <2>1, <2>4, <2>5 DEF Objects
<1>4. ASSUME NEW h \in DOMAIN u.objs, AddObject(h) \/ DeleteObject(h)
      PROVE  Held(u, wrote)'
  <2>1. u'.updates = u.updates /\ u'.objs = u.objs /\ wrote' = wrote
    BY <1>4 DEF AddObject, DeleteObject, Add, Delete, Sound, Parts
  <2> QED
    BY <2>1 DEF Waiting, UpdatesOf
<1>5. ASSUME NEW h \in DOMAIN u.objs, RefreshObject(h)
      PROVE  Held(u, wrote)'
  <2> DEFINE o == u.objs[h]
             data == u.store[o.class][o.id]
  <2>1. /\ u'.updates = u.updates
        /\ u'.objs = [u.objs EXCEPT ![h].data = data] \/ u'.objs = u.objs
    BY <1>5 DEF RefreshObject, Refresh, Sound, Parts
  <2>2. o \in Objects
    BY DEF Sound, ObjectsSound
  <2> HIDE DEF data
  <2>3. \A k \in DOMAIN u.objs :
          /\ u'.objs[k].class = u.objs[k].class
          /\ u'.objs[k].id = u.objs[k].id
          /\ k # h => u'.objs[k].data = u.objs[k].data
    BY <2>1, <2>2 DEF Objects
  <2>4. Grows(u, u')
    BY <2>1 DEF Grows
  <2>5. ASSUME NEW w \in wrote', w.class \in Classes
        PROVE  Waiting(u', w.class, w.id, w.data)
    <3>1. w \in wrote /\ ~(w.class = o.class /\ w.id = o.id)
      BY <1>5, <2>5 DEF RefreshObject
    <3>2. Keeps(u, u', w.class, w.id)
      BY <2>3, <3>1 DEF Keeps
    <3>3. Waiting(u, w.class, w.id, w.data)
      BY <2>5, <3>1
    <3> HIDE DEF o
    <3> QED
      BY <2>4, <3>2, <3>3, WaitingStays
  <2> QED
    BY <2>5
<1>6. CASE RollbackUnit \/ CommitUnit \/ NextRequest
  BY <1>6 DEF RollbackUnit, CommitUnit, NextRequest
<1>7. CASE UNCHANGED vars
  BY <1>7 DEF vars
<1> QED
  BY <1>1, <1>2, <1>3, <1>4, <1>5, <1>6, <1>7 DEF Next

(* Every write of a unit of work to a record of which it holds no second   *)
(* pending object is in the store after its commit (memory_adapter.py:783).*)
THEOREM WritesAreCommitted == Spec => SoleCopyIsWritten
<1>1. Init => Held(u, wrote)
  BY DEF Init, Held
<1>2. Sound(u) /\ Held(u, wrote) /\ [Next]_vars => Held(u, wrote)'
  BY HeldNext
<1>3. Spec => []Held(u, wrote)
  BY <1>1, <1>2, UnitOfWorkIsSound, PTL DEF Spec
<1>4. Sound(u) /\ Held(u, wrote) =>
        [(u' = Commit(u)) =>
            \A w \in wrote :
              (/\ w.class \in Classes
               /\ Cardinality(PendingOf(w.class, w.id)) <= 1
               /\ w.id \in DOMAIN u.store[w.class] \ Gone(u, w.class))
                => u'.store[w.class][w.id] = w.data]_u
  BY SoleCopyCommitted DEF Held, PendingOf
<1> QED
  BY <1>3, <1>4, UnitOfWorkIsSound, PTL DEF SoleCopyIsWritten
=============================================================================
