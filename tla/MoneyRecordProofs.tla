-------------------------- MODULE MoneyRecordProofs --------------------------
(***************************************************************************)
(* The records of the money routes agree with each other: notifications    *)
(* with the transactions they name, balances with the transactions of the  *)
(* account, goals and credits with the contributions between them, and the *)
(* shares of an account's goals with each other.                           *)
(*                                                                         *)
(* The first part says what a unit of work carries to its commit, in terms *)
(* of the records a commit leaves; the second what each route does to the  *)
(* records (Effect); the third is the five inductive invariants, each      *)
(* proved from Effect alone.                                               *)
(***************************************************************************)
EXTENDS MoneyProofs

---------------------------------------------------------------------------
(* What a unit of work would store.  The theorems that relate records to   *)
(* each other need more than that every record is sound: which records a   *)
(* commit leaves.  Ahead(v, c) is what a commit of v, with nothing to      *)
(* delete, makes of the store of c, and each session call changes it as    *)
(* its name says.                                                          *)
Ahead(v, c) == Updated(v, c, Added(v, c))

(* A function on ids with one more record, under the next id. *)
NextId(f) == Largest(DOMAIN f) + 1

Extended(f, x) ==
    [i \in DOMAIN f \cup {NextId(f)} |-> IF i \in DOMAIN f THEN f[i] ELSE x]

(* The counter of c is one further in n. *)
Counted(v, n, c) == n.counter = [v.counter EXCEPT ![c] = @ + 1]

LEMMA RecordParts ==
    ASSUME NEW M \in Makes, NEW v, Sound(v, M), NEW c \in M, NEW data \in Records(c),
           NEW n, n = Record(v, c, data)
    PROVE  /\ n.store = v.store /\ n.deletes = v.deletes /\ n.updates = v.updates
           /\ n.adds = Append(v.adds, Len(v.objs) + 1)
           /\ Counted(v, n, c)
<1> DEFINE m == Make(v, c, data)
           o == [class |-> c, id |-> v.counter[c], tracked |-> FALSE, data |-> data]
<1>1. /\ DOMAIN m = Parts /\ m.store = v.store
      /\ m.counter = [v.counter EXCEPT ![c] = @ + 1]
      /\ m.objs = Append(v.objs, o)
      /\ m.adds = v.adds /\ m.updates = v.updates /\ m.deletes = v.deletes
  BY DEF Make, Sound, Parts
<1>2. n = [m EXCEPT !.adds = Append(@, Len(m.objs))]
  BY DEF Record, Add
<1>3. Len(m.objs) = Len(v.objs) + 1
  <2> HIDE DEF m, o
  <2>1. v.objs \in Seq(Objects)
    BY DEF Sound, ObjectsSound
  <2> QED
    BY <1>1, <2>1
<1> HIDE DEF m
<1> QED
  BY <1>1, <1>2, <1>3 DEF Parts, Counted

LEMMA LoadParts ==
    ASSUME NEW M, NEW v, Sound(v, M), NEW c, NEW i, NEW n, n = Load(v, c, i)
    PROVE  /\ n.store = v.store /\ n.deletes = v.deletes /\ n.adds = v.adds
           /\ n.updates = Append(v.updates, Len(v.objs) + 1)
           /\ n.counter = v.counter
BY DEF Load, Sound, Parts

LEMMA AssignParts ==
    ASSUME NEW M, NEW v, Sound(v, M), NEW h, NEW x, InSeq(h, v.updates),
           NEW n, n = Assign(v, h, x)
    PROVE  /\ n.store = v.store /\ n.deletes = v.deletes /\ n.adds = v.adds
           /\ n.updates = v.updates /\ n.counter = v.counter
BY DEF Assign, Sound, Parts

(* The additions of a class, as places in the list. *)
LEMMA AddsFinite ==
    ASSUME NEW M, NEW v, Sound(v, M), NEW c
    PROVE  /\ Len(v.adds) \in Nat /\ DOMAIN v.adds = 1..Len(v.adds)
           /\ AddsOf(v, c) \subseteq 1..Len(v.adds)
           /\ IsFiniteSet(AddsOf(v, c)) /\ Cardinality(AddsOf(v, c)) \in Nat
           /\ \A k \in DOMAIN v.adds : v.adds[k] \in 1..Len(v.objs)
<1>1. /\ Len(v.adds) \in Nat /\ DOMAIN v.adds = 1..Len(v.adds)
      /\ AddsOf(v, c) \subseteq 1..Len(v.adds)
      /\ \A k \in DOMAIN v.adds : v.adds[k] \in 1..Len(v.objs)
  BY DEF Sound, Pending, ObjectsSound, AddsOf
<1>2. IsFiniteSet(1..Len(v.adds))
  BY <1>1, FS_Interval
<1>3. IsFiniteSet(AddsOf(v, c)) /\ Cardinality(AddsOf(v, c)) \in Nat
  BY <1>1, <1>2, FS_Subset, FS_CardinalityType
<1> QED
  BY <1>1, <1>3

LEMMA AddsRecorded ==
    ASSUME NEW M \in Makes, NEW v, Sound(v, M), NEW c \in M, NEW data \in Records(c),
           NEW n, n = Record(v, c, data), NEW k, k = Len(v.adds) + 1
    PROVE  /\ AddsOf(n, c) = AddsOf(v, c) \cup {k}
           /\ \A e : e # c => AddsOf(n, e) = AddsOf(v, e)
           /\ \A e : \A j \in AddsOf(v, e) : Place(n, e, j) = Place(v, e, j)
           /\ Place(n, c, k) = Cardinality(AddsOf(v, c)) + 1
           /\ n.objs[n.adds[k]].data = data
           /\ \A j \in 1..Len(v.adds) : n.adds[j] = v.adds[j]
           /\ \A j \in 1..Len(v.adds) : n.objs[n.adds[j]] = v.objs[v.adds[j]]
<1> DEFINE o == [class |-> c, id |-> v.counter[c], tracked |-> FALSE, data |-> data]
<1>1. n.adds = Append(v.adds, Len(v.objs) + 1) /\ OneMore(v, n, o)
  <2>1. n.adds = Append(v.adds, Len(v.objs) + 1)
    BY RecordParts
  <2>2. OneMore(v, n, o)
    BY RecordFacts
  <2> QED
    BY <2>1, <2>2
<1>2. /\ v.adds \in Seq(DOMAIN v.objs) /\ Len(v.adds) \in Nat
      /\ \A j \in 1..Len(v.adds) : v.adds[j] \in 1..Len(v.objs)
      /\ Len(v.objs) \in Nat /\ DOMAIN v.adds = 1..Len(v.adds)
  BY DEF Sound, Pending, ObjectsSound
<1>3. /\ DOMAIN n.adds = 1..k /\ n.adds[k] = Len(v.objs) + 1
      /\ \A j \in 1..Len(v.adds) : n.adds[j] = v.adds[j]
  BY <1>1, <1>2
<1>4. n.objs[n.adds[k]] = o
  BY <1>1, <1>3 DEF OneMore
<1>5. \A j \in 1..Len(v.adds) : n.objs[n.adds[j]] = v.objs[v.adds[j]]
  BY <1>1, <1>2, <1>3 DEF OneMore
<1>6. 1..k = (1..Len(v.adds)) \cup {k} /\ k \notin 1..Len(v.adds)
  BY <1>2
<1>7. o.class = c /\ o.data = data
  OBVIOUS
<1> HIDE DEF o
<1>8. \A e : AddsOf(n, e) = IF e = c THEN AddsOf(v, e) \cup {k} ELSE AddsOf(v, e)
  <2> TAKE e
  <2>1. AddsOf(n, e) = {j \in (1..Len(v.adds)) \cup {k} : n.objs[n.adds[j]].class = e}
    BY <1>3, <1>6 DEF AddsOf
  <2>2. AddsOf(v, e) = {j \in 1..Len(v.adds) : n.objs[n.adds[j]].class = e}
    BY <1>2, <1>5 DEF AddsOf
  <2> QED
    BY <1>4, <1>7, <2>1, <2>2
<1>9. ASSUME NEW e, NEW j \in AddsOf(v, e)
      PROVE  Place(n, e, j) = Place(v, e, j)
  <2>1. AddsOf(v, e) \subseteq 1..Len(v.adds)
    BY AddsFinite
  <2>2. {i \in AddsOf(n, e) : i <= j} = {i \in AddsOf(v, e) : i <= j}
    BY <1>2, <1>8, <2>1
  <2> QED
    BY <2>2 DEF Place
<1>10. Place(n, c, k) = Cardinality(AddsOf(v, c)) + 1
  <2>1. AddsOf(v, c) \subseteq 1..Len(v.adds) /\ IsFiniteSet(AddsOf(v, c))
    BY AddsFinite
  <2>2. {i \in AddsOf(n, c) : i <= k} = AddsOf(v, c) \cup {k} /\ k \notin AddsOf(v, c)
    BY <1>2, <1>8, <2>1
  <2>3. Cardinality(AddsOf(v, c) \cup {k}) = Cardinality(AddsOf(v, c)) + 1
    BY <2>1, <2>2, FS_AddElement
  <2> QED
    BY <2>2, <2>3 DEF Place
<1>11. /\ AddsOf(n, c) = AddsOf(v, c) \cup {k}
       /\ \A e : e # c => AddsOf(n, e) = AddsOf(v, e)
       /\ n.objs[n.adds[k]].data = data
  BY <1>4, <1>7, <1>8
<1> QED
  BY <1>3, <1>5, <1>9, <1>10, <1>11

(* The records a unit of work adds, by their new ids. *)
NewIds(v, c) == {NewId(v, k) : k \in AddsOf(v, c)}

AddsAt(v, c) ==
    /\ DOMAIN Added(v, c) = DOMAIN v.store[c] \cup NewIds(v, c)
    /\ \A i \in DOMAIN v.store[c] : Added(v, c)[i] = v.store[c][i]
    /\ \A k \in AddsOf(v, c) : Added(v, c)[NewId(v, k)] = v.objs[v.adds[k]].data

LEMMA AddedAt ==
    ASSUME NEW M \in Makes, NEW v, Sound(v, M), NEW c \in Classes
    PROVE  AddsAt(v, c)
<1> DEFINE new == {NewId(v, k) : k \in AddsOf(v, c)}
           of(i) == CHOOSE k \in AddsOf(v, c) : NewId(v, k) = i
           records == v.store[c]
<1>1. Added(v, c) = [i \in DOMAIN records \cup new |->
                        IF i \in new THEN v.objs[v.adds[of(i)]].data ELSE records[i]]
  BY DEF Added
<1>2. \A i \in DOMAIN records : Added(v, c)[i] = records[i]
  BY AddedSound
<1>3. ASSUME NEW k \in AddsOf(v, c)
      PROVE  Added(v, c)[NewId(v, k)] = v.objs[v.adds[k]].data
  <2>1. of(NewId(v, k)) \in AddsOf(v, c) /\ NewId(v, of(NewId(v, k))) = NewId(v, k)
    OBVIOUS
  <2>2. \A j \in AddsOf(v, c) : NewId(v, j) = NewId(v, k) => j = k
    BY NewIdsAreFresh
  <2>3. of(NewId(v, k)) = k
    <3> HIDE DEF of
    <3> QED
      BY <2>1, <2>2
  <2>4. NewId(v, k) \in new
    OBVIOUS
  <2> HIDE DEF new, of
  <2> QED
    BY <1>1, <2>3, <2>4
<1> HIDE DEF of
<1>4. DOMAIN Added(v, c) = DOMAIN records \cup NewIds(v, c)
  BY <1>1 DEF NewIds
<1> QED
  BY <1>2, <1>3, <1>4 DEF AddsAt

LEMMA AddedTop ==
    ASSUME NEW M \in Makes, NEW v, Sound(v, M), NEW c \in Classes
    PROVE  LET top == Largest(DOMAIN v.store[c])
           IN /\ top \in Nat
              /\ Largest(DOMAIN Added(v, c)) = top + Cardinality(AddsOf(v, c))
<1> DEFINE top == Largest(DOMAIN v.store[c])
           S == DOMAIN Added(v, c)
           size == Cardinality(AddsOf(v, c))
<1>1. /\ top \in Nat
      /\ \A n \in DOMAIN v.store[c] : n \in Nat /\ n <= top
      /\ DOMAIN v.store[c] # {} => top \in DOMAIN v.store[c]
  <2>1. Bounded(DOMAIN v.store[c])
    BY DEF Sound, Stored
  <2> QED
    BY <2>1, LargestIsMax
<1>2. /\ IsFiniteSet(AddsOf(v, c)) /\ size \in Nat
      /\ AddsOf(v, c) \subseteq 1..Len(v.adds) /\ Len(v.adds) \in Nat
  BY AddsFinite
<1>3. S = DOMAIN v.store[c] \cup {NewId(v, k) : k \in AddsOf(v, c)}
  <2>1. AddsAt(v, c)
    BY AddedAt
  <2> QED
    BY <2>1 DEF AddsAt, NewIds
<1>4. ASSUME NEW k \in AddsOf(v, c)
      PROVE  /\ Place(v, c, k) \in Nat /\ Place(v, c, k) <= size
             /\ NewId(v, k) = top + Place(v, c, k)
  <2>1. NewId(v, k) = top + Place(v, c, k)
    BY NewIdsAreFresh
  <2>2. {j \in AddsOf(v, c) : j <= k} \subseteq AddsOf(v, c)
    OBVIOUS
  <2>3. Place(v, c, k) \in Nat /\ Place(v, c, k) <= size
    BY <1>2, <2>2, FS_Subset, FS_CardinalityType DEF Place
  <2> QED
    BY <2>1, <2>3
<1>5. Bounded(S) /\ \A n \in S : n <= top + size
  <2>1. Bounded(S)
    BY AddedSound
  <2> HIDE DEF top, size, S
  <2> QED
    BY <1>1, <1>2, <1>3, <1>4, <2>1
<1>6. CASE AddsOf(v, c) = {}
  <2>1. size = 0 /\ S = DOMAIN v.store[c]
    BY <1>3, <1>6, FS_EmptySet
  <2> QED
    BY <1>1, <2>1
<1>7. CASE AddsOf(v, c) # {}
  <2> DEFINE last == Largest(AddsOf(v, c))
  <2>1. last \in AddsOf(v, c) /\ \A k \in AddsOf(v, c) : k <= last
    BY <1>2, <1>7, LargestIsMax DEF Bounded
  <2>2. {j \in AddsOf(v, c) : j <= last} = AddsOf(v, c)
    BY <2>1
  <2>3. Place(v, c, last) = size
    BY <2>2 DEF Place
  <2> HIDE DEF last
  <2>4. NewId(v, last) = top + size /\ NewId(v, last) \in S
    BY <1>3, <1>4, <2>1, <2>3
  <2>5. top + size \in S
    BY <2>4
  <2> HIDE DEF top, size, S
  <2>6. S # {} /\ top + size \in Nat
    BY <1>1, <1>2, <2>5
  <2>7. Largest(S) \in S /\ \A n \in S : n \in Nat /\ n <= Largest(S)
    BY <1>5, <2>6, LargestIsMax
  <2>8. Largest(S) <= top + size /\ top + size <= Largest(S) /\ Largest(S) \in Nat
    BY <1>5, <2>5, <2>7
  <2>9. Largest(S) = top + size
    BY <1>1, <1>2, <2>6, <2>8
  <2> QED
    BY <1>1, <2>9 DEF S, top, size
<1> QED
  BY <1>6, <1>7

(* A record more is added under the next id. *)
LEMMA AddedRecord ==
    ASSUME NEW M \in Makes, NEW v, Sound(v, M), NEW c \in M, NEW data \in Records(c),
           NEW n, n = Record(v, c, data)
    PROVE  /\ Added(n, c) = Extended(Added(v, c), data)
           /\ \A e \in Classes \ {c} : Added(n, e) = Added(v, e)
<1> DEFINE k == Len(v.adds) + 1
<1>1. Sound(n, M) /\ n.store = v.store
  <2>1. Sound(n, M)
    BY RecordFacts
  <2>2. n.store = v.store
    BY RecordParts
  <2> QED
    BY <2>1, <2>2
<1>2. /\ AddsOf(n, c) = AddsOf(v, c) \cup {k}
      /\ \A e : e # c => AddsOf(n, e) = AddsOf(v, e)
      /\ \A e : \A j \in AddsOf(v, e) : Place(n, e, j) = Place(v, e, j)
      /\ Place(n, c, k) = Cardinality(AddsOf(v, c)) + 1
      /\ n.objs[n.adds[k]].data = data
      /\ \A j \in 1..Len(v.adds) : n.objs[n.adds[j]] = v.objs[v.adds[j]]
  BY AddsRecorded
<1> HIDE DEF k
<1>0. ASSUME NEW e \in Classes
      PROVE  /\ DOMAIN Added(v, e) = DOMAIN v.store[e] \cup NewIds(v, e)
             /\ DOMAIN Added(n, e) = DOMAIN v.store[e] \cup NewIds(n, e)
             /\ \A i \in DOMAIN v.store[e] : Added(n, e)[i] = Added(v, e)[i]
  <2>1. AddsAt(v, e) /\ AddsAt(n, e)
    BY <1>1, AddedAt
  <2> QED
    BY <1>1, <2>1 DEF AddsAt
<1>3. ASSUME NEW e \in Classes, NEW j \in AddsOf(v, e)
      PROVE  /\ j \in AddsOf(n, e) /\ j \in 1..Len(v.adds)
             /\ NewId(n, j) = NewId(v, j)
             /\ Added(n, e)[NewId(v, j)] = Added(v, e)[NewId(v, j)]
  <2>1. j \in AddsOf(n, e) /\ j \in 1..Len(v.adds)
    BY <1>2, AddsFinite
  <2>2. NewId(n, j) = NewId(v, j)
    BY <1>1, <1>2, <2>1, NewIdsAreFresh
  <2>3. AddsAt(v, e) /\ AddsAt(n, e)
    BY <1>1, AddedAt
  <2>4. /\ Added(n, e)[NewId(n, j)] = n.objs[n.adds[j]].data
        /\ Added(v, e)[NewId(v, j)] = v.objs[v.adds[j]].data
    BY <2>1, <2>3 DEF AddsAt
  <2> QED
    BY <1>2, <2>1, <2>2, <2>4
<1>4. ASSUME NEW e \in Classes
      PROVE  \A i \in DOMAIN Added(v, e) : Added(n, e)[i] = Added(v, e)[i]
  <2> TAKE i \in DOMAIN Added(v, e)
  <2>1. CASE i \in DOMAIN v.store[e]
    BY <1>0, <2>1
  <2>2. CASE i \notin DOMAIN v.store[e]
    <3>0. i \in NewIds(v, e)
      BY <1>0, <2>2
    <3>1. PICK j \in AddsOf(v, e) : i = NewId(v, j)
      BY <3>0 DEF NewIds
    <3> QED
      BY <1>3, <3>1
  <2> QED
    BY <2>1, <2>2
<1>5. ASSUME NEW e \in Classes
      PROVE  /\ Added(v, e) = [i \in DOMAIN Added(v, e) |-> Added(v, e)[i]]
             /\ Added(n, e) = [i \in DOMAIN Added(n, e) |-> Added(n, e)[i]]
  BY <1>1, AddedSound
<1>6. ASSUME NEW e \in Classes \ {c}
      PROVE  Added(n, e) = Added(v, e)
  <2>1. AddsOf(n, e) = AddsOf(v, e)
    BY <1>2
  <2>2. NewIds(n, e) = NewIds(v, e)
    BY <1>3, <2>1 DEF NewIds
  <2>3. DOMAIN Added(n, e) = DOMAIN Added(v, e)
    BY <1>0, <2>2
  <2> QED
    BY <1>4, <1>5, <2>3
<1>7. c \in Classes
  BY DEF Makes
<1>8. /\ k \in AddsOf(n, c)
      /\ NewId(n, k) = NextId(Added(v, c))
  <2>1. k \in AddsOf(n, c)
    BY <1>2
  <2>2. NewId(n, k) = Largest(DOMAIN v.store[c]) + Place(n, c, k)
    BY <1>1, <2>1, NewIdsAreFresh
  <2>3. Largest(DOMAIN Added(v, c)) = Largest(DOMAIN v.store[c]) + Cardinality(AddsOf(v, c))
        /\ Largest(DOMAIN v.store[c]) \in Nat
    BY <1>7, AddedTop
  <2>4. Cardinality(AddsOf(v, c)) \in Nat
    BY AddsFinite
  <2> QED
    BY <1>2, <2>1, <2>2, <2>3, <2>4 DEF NextId
<1>9. DOMAIN Added(n, c) = DOMAIN Added(v, c) \cup {NextId(Added(v, c))}
  <2>1. NewIds(n, c) = NewIds(v, c) \cup {NewId(n, k)}
    BY <1>2, <1>3, <1>7 DEF NewIds
  <2> QED
    BY <1>0, <1>7, <1>8, <2>1
<1>10. Added(n, c)[NextId(Added(v, c))] = data
  <2>1. AddsAt(n, c)
    BY <1>1, <1>7, AddedAt
  <2> QED
    BY <1>2, <1>8, <2>1 DEF AddsAt
<1>11. Added(n, c) = Extended(Added(v, c), data)
  <2>1. \A i \in DOMAIN Added(n, c) :
           Added(n, c)[i] = IF i \in DOMAIN Added(v, c) THEN Added(v, c)[i] ELSE data
    BY <1>4, <1>7, <1>9, <1>10
  <2> QED
    BY <1>5, <1>7, <1>9, <2>1 DEF Extended
<1> QED
  BY <1>6, <1>11

(* A call that makes and loads nothing of what is added leaves that as it is. *)
LEMMA AddedSame ==
    ASSUME NEW M \in Makes, NEW v, Sound(v, M), NEW n, Sound(n, M),
           n.store = v.store, n.adds = v.adds,
           \A k \in DOMAIN v.adds : n.objs[v.adds[k]] = v.objs[v.adds[k]]
    PROVE  \A c \in Classes : Added(n, c) = Added(v, c)
<1> TAKE c \in Classes
<1>1. \A e : AddsOf(n, e) = AddsOf(v, e)
  BY DEF AddsOf
<1>2. \A k \in AddsOf(v, c) : NewId(n, k) = NewId(v, k)
  <2> TAKE k \in AddsOf(v, c)
  <2>1. v.objs[v.adds[k]].class = c /\ n.objs[n.adds[k]].class = c
    BY <1>1 DEF AddsOf
  <2> QED
    BY <1>1, <2>1 DEF NewId
<1>3. NewIds(n, c) = NewIds(v, c)
  BY <1>1, <1>2 DEF NewIds
<1>4. AddsAt(n, c) /\ AddsAt(v, c)
  BY AddedAt
<1>5. DOMAIN Added(n, c) = DOMAIN Added(v, c)
  BY <1>3, <1>4 DEF AddsAt
<1>6. ASSUME NEW i \in DOMAIN Added(v, c)
      PROVE  Added(n, c)[i] = Added(v, c)[i]
  <2>1. CASE i \in DOMAIN v.store[c]
    BY <1>4, <2>1 DEF AddsAt
  <2>2. CASE i \in NewIds(v, c)
    <3>1. PICK k \in AddsOf(v, c) : i = NewId(v, k)
      BY <2>2 DEF NewIds
    <3>2. k \in DOMAIN v.adds
      BY DEF AddsOf
    <3> QED
      BY <1>1, <1>2, <1>4, <3>1, <3>2 DEF AddsAt
  <2> QED
    BY <1>4, <2>1, <2>2 DEF AddsAt
<1>7. /\ Added(v, c) = [i \in DOMAIN Added(v, c) |-> Added(v, c)[i]]
      /\ Added(n, c) = [i \in DOMAIN Added(n, c) |-> Added(n, c)[i]]
  BY AddedSound
<1> QED
  BY <1>5, <1>6, <1>7

(* A pending object of a stored record has the id of one. *)
Real(v) ==
    \A h \in 1..Len(v.objs) :
        v.objs[h].tracked /\ v.objs[h].class \in Classes
            => v.objs[h].id \in DOMAIN v.store[v.objs[h].class]

(* Object h is the last pending copy of record i of class c. *)
LastOf(v, c, i, k) ==
    k \in UpdatesOf(v, c, i) /\ \A j \in UpdatesOf(v, c, i) : j <= k

Latest(v, h, c, i) == \E k : LastOf(v, c, i, k) /\ v.updates[k] = h

LEMMA UpdatesFinite ==
    ASSUME NEW M, NEW v, Sound(v, M), NEW c, NEW i
    PROVE  /\ Len(v.updates) \in Nat /\ DOMAIN v.updates = 1..Len(v.updates)
           /\ UpdatesOf(v, c, i) \subseteq 1..Len(v.updates)
           /\ Bounded(UpdatesOf(v, c, i))
           /\ \A k \in DOMAIN v.updates : /\ v.updates[k] \in 1..Len(v.objs)
                                          /\ v.objs[v.updates[k]].tracked
<1>1. /\ Len(v.updates) \in Nat /\ DOMAIN v.updates = 1..Len(v.updates)
      /\ UpdatesOf(v, c, i) \subseteq 1..Len(v.updates)
      /\ \A k \in DOMAIN v.updates : /\ v.updates[k] \in 1..Len(v.objs)
                                     /\ v.objs[v.updates[k]].tracked
  BY DEF Sound, Pending, ObjectsSound, UpdatesOf
<1> QED
  BY <1>1 DEF Bounded

LEMMA LastIsLargest ==
    ASSUME NEW M, NEW v, Sound(v, M), NEW c, NEW i, NEW k, LastOf(v, c, i, k)
    PROVE  Largest(UpdatesOf(v, c, i)) = k
<1>1. Bounded(UpdatesOf(v, c, i)) /\ k \in UpdatesOf(v, c, i)
  BY UpdatesFinite DEF LastOf
<1>2. /\ Largest(UpdatesOf(v, c, i)) \in UpdatesOf(v, c, i)
      /\ \A j \in UpdatesOf(v, c, i) : j \in Nat /\ j <= Largest(UpdatesOf(v, c, i))
  BY <1>1, LargestIsMax
<1> QED
  BY <1>1, <1>2 DEF LastOf

(* What is ahead, record by record. *)
Stands(v, c, i) ==
    /\ UpdatesOf(v, c, i) = {} => Ahead(v, c)[i] = Added(v, c)[i]
    /\ \A k : LastOf(v, c, i, k) => Ahead(v, c)[i] = v.objs[v.updates[k]].data

Spread(v, c) ==
    /\ DOMAIN Ahead(v, c) = DOMAIN Added(v, c)
    /\ Ahead(v, c) = [i \in DOMAIN Ahead(v, c) |-> Ahead(v, c)[i]]
    /\ Bounded(DOMAIN Ahead(v, c)) /\ DOMAIN v.store[c] \subseteq DOMAIN Ahead(v, c)
    /\ \A i \in DOMAIN Ahead(v, c) : Stands(v, c, i)

LEMMA AheadAt ==
    ASSUME NEW M \in Makes, NEW v, Sound(v, M), NEW c \in Classes
    PROVE  Spread(v, c)
<1>1. /\ Added(v, c) \in [DOMAIN Added(v, c) -> Data] /\ Bounded(DOMAIN Added(v, c))
      /\ \A i \in DOMAIN Added(v, c) : Added(v, c)[i] \in Allowed(c, i)
      /\ \A i \in DOMAIN v.store[c] : i \in DOMAIN Added(v, c)
  BY AddedSound
<1>2. Ahead(v, c) = [i \in DOMAIN Added(v, c) |->
                        IF UpdatesOf(v, c, i) = {} THEN Added(v, c)[i]
                        ELSE v.objs[v.updates[Largest(UpdatesOf(v, c, i))]].data]
  BY DEF Ahead, Updated
<1>3. ASSUME NEW i \in DOMAIN Added(v, c)
      PROVE  Stands(v, c, i)
  <2>1. ASSUME NEW k, LastOf(v, c, i, k)
        PROVE  Ahead(v, c)[i] = v.objs[v.updates[k]].data
    <3>1. Largest(UpdatesOf(v, c, i)) = k /\ UpdatesOf(v, c, i) # {}
      BY <2>1, LastIsLargest DEF LastOf
    <3> QED
      BY <1>2, <3>1
  <2>2. UpdatesOf(v, c, i) = {} => Ahead(v, c)[i] = Added(v, c)[i]
    BY <1>2
  <2> QED
    BY <2>1, <2>2 DEF Stands
<1> QED
  BY <1>1, <1>2, <1>3 DEF Spread

LEMMA SomeLatest ==
    ASSUME NEW M, NEW v, Sound(v, M), NEW c, NEW i, UpdatesOf(v, c, i) # {}
    PROVE  \E k : LastOf(v, c, i, k)
<1>1. Bounded(UpdatesOf(v, c, i))
  BY UpdatesFinite
<1>2. LastOf(v, c, i, Largest(UpdatesOf(v, c, i)))
  BY <1>1, LargestIsMax DEF LastOf
<1> QED
  BY <1>2

(* Two units of work whose pending updates are the same and of the same    *)
(* objects.                                                                *)
SameUpdates(v, n) ==
    /\ n.updates = v.updates
    /\ \A k \in DOMAIN v.updates : n.objs[v.updates[k]] = v.objs[v.updates[k]]

LEMMA UpdatesSame ==
    ASSUME NEW v, NEW n, SameUpdates(v, n)
    PROVE  \A c, i : /\ UpdatesOf(n, c, i) = UpdatesOf(v, c, i)
                     /\ \A k : LastOf(n, c, i, k) <=> LastOf(v, c, i, k)
                     /\ \A k \in UpdatesOf(v, c, i) :
                           n.objs[n.updates[k]] = v.objs[v.updates[k]]
<1>1. \A c, i : UpdatesOf(n, c, i) = UpdatesOf(v, c, i)
  BY DEF UpdatesOf, SameUpdates
<1>2. \A c, i : \A k \in UpdatesOf(v, c, i) : n.objs[n.updates[k]] = v.objs[v.updates[k]]
  BY DEF UpdatesOf, SameUpdates
<1> QED
  BY <1>1, <1>2 DEF LastOf

LEMMA AheadSame ==
    ASSUME NEW M \in Makes, NEW v, Sound(v, M), NEW n, Sound(n, M), SameUpdates(v, n),
           NEW c \in Classes
    PROVE  /\ \A i \in DOMAIN Added(v, c) :
                 i \in DOMAIN Added(n, c) /\ Added(n, c)[i] = Added(v, c)[i]
                     => Ahead(n, c)[i] = Ahead(v, c)[i]
           /\ Added(n, c) = Added(v, c) => Ahead(n, c) = Ahead(v, c)
<1>1. Spread(v, c) /\ Spread(n, c)
  BY AheadAt
<1>2. ASSUME NEW i \in DOMAIN Added(v, c), i \in DOMAIN Added(n, c),
             Added(n, c)[i] = Added(v, c)[i]
      PROVE  Ahead(n, c)[i] = Ahead(v, c)[i]
  <2>1. Stands(v, c, i) /\ Stands(n, c, i)
    BY <1>1, <1>2 DEF Spread
  <2>2. CASE UpdatesOf(v, c, i) = {}
    <3>1. UpdatesOf(n, c, i) = {}
      BY <2>2, UpdatesSame
    <3> QED
      BY <1>2, <2>1, <2>2, <3>1 DEF Stands
  <2>3. CASE UpdatesOf(v, c, i) # {}
    <3>1. PICK k : LastOf(v, c, i, k)
      BY <2>3, SomeLatest
    <3>2. LastOf(n, c, i, k) /\ n.objs[n.updates[k]] = v.objs[v.updates[k]]
      BY <3>1, UpdatesSame DEF LastOf
    <3> QED
      BY <2>1, <3>1, <3>2 DEF Stands
  <2> QED
    BY <2>2, <2>3
<1>3. ASSUME Added(n, c) = Added(v, c)
      PROVE  Ahead(n, c) = Ahead(v, c)
  <2>1. DOMAIN Ahead(n, c) = DOMAIN Ahead(v, c)
    BY <1>1, <1>3 DEF Spread
  <2>2. \A i \in DOMAIN Ahead(v, c) : Ahead(n, c)[i] = Ahead(v, c)[i]
    BY <1>1, <1>2, <1>3 DEF Spread
  <2> QED
    BY <1>1, <2>1, <2>2 DEF Spread
<1> QED
  BY <1>2, <1>3

(* Recording puts one record under the next id. *)
Grows(v, n, c, data) ==
    /\ Ahead(n, c) = Extended(Ahead(v, c), data)
    /\ \A e \in Classes \ {c} : Ahead(n, e) = Ahead(v, e)

LEMMA AheadRecord ==
    ASSUME NEW M \in Makes, NEW v, Sound(v, M), Real(v),
           NEW c \in M, NEW data \in Records(c), NEW n, n = Record(v, c, data)
    PROVE  Real(n) /\ Grows(v, n, c, data) /\ SameUpdates(v, n)
<1> DEFINE o == [class |-> c, id |-> v.counter[c], tracked |-> FALSE, data |-> data]
           m == NextId(Added(v, c))
<1>0. Sound(n, M)
  BY RecordFacts
<1>1. Sound(n, M) /\ n.store = v.store /\ n.updates = v.updates
  BY <1>0, RecordParts
<1>2. OneMore(v, n, o) /\ o.tracked = FALSE
  BY RecordFacts
<1> HIDE DEF o
<1>3. Len(v.objs) \in Nat
  BY DEF Sound, ObjectsSound
<1>4. Real(n)
  BY <1>1, <1>2, <1>3 DEF Real, OneMore
<1>5. SameUpdates(v, n)
  <2>1. \A k \in DOMAIN v.updates : v.updates[k] \in 1..Len(v.objs)
    BY UpdatesFinite
  <2> QED
    BY <1>1, <1>2, <2>1 DEF SameUpdates, OneMore
<1>6. /\ Added(n, c) = Extended(Added(v, c), data)
      /\ \A e \in Classes \ {c} : Added(n, e) = Added(v, e)
  BY AddedRecord
<1>7. \A e \in Classes \ {c} : Ahead(n, e) = Ahead(v, e)
  BY <1>1, <1>5, <1>6, AheadSame
<1>8. c \in Classes
  BY DEF Makes
<1>9. Spread(v, c) /\ Spread(n, c)
  BY <1>1, <1>8, AheadAt
<1>10. m = NextId(Ahead(v, c)) /\ m \notin DOMAIN Added(v, c) /\ m \notin DOMAIN v.store[c]
  <2>1. m = NextId(Ahead(v, c))
    BY <1>9 DEF Spread, NextId
  <2>2. Bounded(DOMAIN Added(v, c)) /\ DOMAIN v.store[c] \subseteq DOMAIN Added(v, c)
    BY <1>9 DEF Spread
  <2>3. m \notin DOMAIN Added(v, c)
    BY <2>2, LargestIsMax DEF NextId
  <2> QED
    BY <2>1, <2>2, <2>3
<1>11. UpdatesOf(n, c, m) = {}
  <2>1. \A k \in DOMAIN v.updates : /\ v.updates[k] \in 1..Len(v.objs)
                                    /\ v.objs[v.updates[k]].tracked
    BY UpdatesFinite
  <2>2. UpdatesOf(v, c, m) = {}
    BY <1>8, <1>10, <2>1 DEF UpdatesOf, Real
  <2> QED
    BY <1>5, <2>2, UpdatesSame
<1> HIDE DEF m
<1>12. DOMAIN Added(n, c) = DOMAIN Added(v, c) \cup {m} /\ Added(n, c)[m] = data
       /\ \A i \in DOMAIN Added(v, c) : Added(n, c)[i] = Added(v, c)[i]
  BY <1>6, <1>10 DEF Extended, m
<1>13. Ahead(n, c)[m] = data
  <2>1. Stands(n, c, m)
    BY <1>9, <1>12 DEF Spread
  <2> QED
    BY <1>11, <1>12, <2>1 DEF Stands
<1>14. \A i \in DOMAIN Added(v, c) : Ahead(n, c)[i] = Ahead(v, c)[i]
  BY <1>1, <1>5, <1>8, <1>12, AheadSame
<1>15. /\ DOMAIN Ahead(n, c) = DOMAIN Ahead(v, c) \cup {m}
       /\ DOMAIN Ahead(v, c) = DOMAIN Added(v, c)
  BY <1>9, <1>12 DEF Spread
<1>16. Ahead(n, c) = Extended(Ahead(v, c), data)
  <2>1. \A i \in DOMAIN Ahead(n, c) :
           Ahead(n, c)[i] = IF i \in DOMAIN Ahead(v, c) THEN Ahead(v, c)[i] ELSE data
    BY <1>10, <1>13, <1>14, <1>15
  <2> QED
    BY <1>9, <1>10, <1>15, <2>1 DEF Spread, Extended
<1> QED
  BY <1>4, <1>5, <1>7, <1>16 DEF Grows

(* Loading puts the stored record ahead, over what was assigned to another *)
(* copy of it, and its object is the last copy.                            *)
Loads(v, n, c, i, h) ==
    /\ c \in Typed => /\ Latest(n, h, c, i)
                      /\ Ahead(n, c) = [Ahead(v, c) EXCEPT ![i] = v.store[c][i]]
    /\ \A e \in Classes : e # c \/ c \notin Typed => Ahead(n, e) = Ahead(v, e)
    /\ \A g, j : \A e \in Classes : Latest(v, g, e, j) /\ ~(e = c /\ j = i)
                                       => Latest(n, g, e, j)

LEMMA AheadLoad ==
    ASSUME NEW M \in Makes, NEW v, Sound(v, M), Real(v),
           NEW c \in Classes, NEW i \in DOMAIN v.store[c], NEW n, n = Load(v, c, i),
           NEW h, h = Len(v.objs) + 1
    PROVE  Real(n) /\ Loads(v, n, c, i, h) /\ InSeq(h, n.updates)
<1> DEFINE class == IF c \in Typed THEN c ELSE Generic
           o == [class |-> class, id |-> i, tracked |-> TRUE, data |-> v.store[c][i]]
           last == Len(v.updates) + 1
<1>0. Sound(n, M)
  BY LoadFacts
<1>1. OneMore(v, n, o)
  BY LoadFacts
<1>2. n.adds = v.adds /\ n.updates = Append(v.updates, h) /\ n.store = v.store
  BY LoadParts
<1>3. o.class = class /\ o.id = i /\ o.tracked = TRUE /\ o.data = v.store[c][i]
  OBVIOUS
<1>4. class \in Classes => c = class /\ c \in Typed
  BY ClassesAssumption
<1>5. c \in Typed => class = c
  OBVIOUS
<1> HIDE DEF o, class
<1>6. /\ Len(v.objs) \in Nat /\ Len(v.updates) \in Nat
      /\ \A k \in 1..Len(v.updates) : v.updates[k] \in 1..Len(v.objs)
      /\ \A k \in DOMAIN v.adds : v.adds[k] \in 1..Len(v.objs)
      /\ DOMAIN v.updates = 1..Len(v.updates)
  <2>1. Len(v.objs) \in Nat
    BY DEF Sound, ObjectsSound
  <2> QED
    BY <2>1, UpdatesFinite, AddsFinite
<1>7. Real(n)
  <2>1. /\ Len(n.objs) = Len(v.objs) + 1 /\ n.objs[h] = o
        /\ \A k \in 1..Len(v.objs) : n.objs[k] = v.objs[k]
    BY <1>1 DEF OneMore
  <2>2. ASSUME NEW k \in 1..Len(n.objs), n.objs[k].tracked, n.objs[k].class \in Classes
        PROVE  n.objs[k].id \in DOMAIN n.store[n.objs[k].class]
    <3>1. CASE k = h
      BY <1>2, <1>3, <1>4, <2>1, <2>2, <3>1
    <3>2. CASE k # h
      <4>1. k \in 1..Len(v.objs)
        BY <1>6, <2>1, <3>2
      <4> QED
        BY <1>2, <2>1, <2>2, <4>1 DEF Real
    <3> QED
      BY <3>1, <3>2
  <2> QED
    BY <2>2 DEF Real
<1>8. \A e \in Classes : Added(n, e) = Added(v, e)
  <2>1. \A k \in DOMAIN v.adds : n.objs[v.adds[k]] = v.objs[v.adds[k]]
    BY <1>1, <1>6 DEF OneMore
  <2> QED
    BY <1>0, <1>2, <2>1, AddedSame
<1>9. /\ DOMAIN n.updates = (1..Len(v.updates)) \cup {last}
      /\ n.updates[last] = h /\ last \notin 1..Len(v.updates)
      /\ \A k \in 1..Len(v.updates) : k < last /\ n.updates[k] = v.updates[k]
  <2>1. v.updates \in Seq(DOMAIN v.objs)
    BY DEF Sound, Pending
  <2> QED
    BY <1>2, <1>6, <2>1
<1>10. n.objs[h] = o /\ \A k \in 1..Len(v.updates) : n.objs[n.updates[k]] = v.objs[v.updates[k]]
  BY <1>1, <1>6, <1>9 DEF OneMore
<1>11. \A e, j : /\ UpdatesOf(v, e, j) \subseteq 1..Len(v.updates)
                 /\ UpdatesOf(n, e, j) = UpdatesOf(v, e, j) \cup
                       (IF e = class /\ j = i THEN {last} ELSE {})
  <2> HIDE DEF last
  <2> TAKE e, j
  <2>1. UpdatesOf(n, e, j) = {k \in (1..Len(v.updates)) \cup {last} :
                                 n.objs[n.updates[k]].class = e /\ n.objs[n.updates[k]].id = j}
    BY <1>9 DEF UpdatesOf
  <2>2. UpdatesOf(v, e, j) = {k \in 1..Len(v.updates) :
                                 n.objs[n.updates[k]].class = e /\ n.objs[n.updates[k]].id = j}
    BY <1>6, <1>10 DEF UpdatesOf
  <2> QED
    BY <1>3, <1>9, <1>10, <2>1, <2>2
<1> HIDE DEF last
<1>12. ASSUME NEW e \in Classes, NEW j, ~(e = class /\ j = i)
       PROVE  /\ UpdatesOf(n, e, j) = UpdatesOf(v, e, j)
              /\ \A k : LastOf(v, e, j, k) <=> LastOf(n, e, j, k)
              /\ \A g : Latest(v, g, e, j) => Latest(n, g, e, j)
  <2>1. UpdatesOf(n, e, j) = UpdatesOf(v, e, j)
    <3>1. UpdatesOf(n, e, j) = UpdatesOf(v, e, j) \cup
                                 (IF e = class /\ j = i THEN {last} ELSE {})
      BY <1>11
    <3> QED
      BY <1>12, <3>1
  <2>2. \A k : LastOf(v, e, j, k) <=> LastOf(n, e, j, k)
    BY <2>1 DEF LastOf
  <2>3. \A k : LastOf(v, e, j, k) => v.updates[k] = n.updates[k]
    BY <1>9, <1>11 DEF LastOf
  <2>4. \A g : Latest(v, g, e, j) => Latest(n, g, e, j)
    BY <2>2, <2>3 DEF Latest
  <2> QED
    BY <2>1, <2>2, <2>4
<1>13. ASSUME NEW e \in Classes, NEW j \in DOMAIN Ahead(v, e), ~(e = class /\ j = i)
       PROVE  Ahead(n, e)[j] = Ahead(v, e)[j]
  <2>1. Spread(v, e) /\ Spread(n, e)
    BY <1>0, AheadAt
  <2>2. Stands(v, e, j) /\ Stands(n, e, j)
    BY <1>8, <2>1 DEF Spread
  <2>3. CASE UpdatesOf(v, e, j) = {}
    <3>1. UpdatesOf(n, e, j) = {}
      BY <1>12, <1>13, <2>3
    <3> QED
      BY <1>8, <2>2, <2>3, <3>1 DEF Stands
  <2>4. CASE UpdatesOf(v, e, j) # {}
    <3>1. PICK k : LastOf(v, e, j, k)
      BY <2>4, SomeLatest
    <3>2. LastOf(n, e, j, k) /\ k \in 1..Len(v.updates)
      BY <1>11, <1>12, <1>13, <3>1 DEF LastOf
    <3> QED
      BY <1>10, <2>2, <3>1, <3>2 DEF Stands
  <2> QED
    BY <2>3, <2>4
<1>14. \A e \in Classes : /\ DOMAIN Ahead(n, e) = DOMAIN Ahead(v, e)
                          /\ Ahead(n, e) = [j \in DOMAIN Ahead(v, e) |-> Ahead(n, e)[j]]
                          /\ Ahead(v, e) = [j \in DOMAIN Ahead(v, e) |-> Ahead(v, e)[j]]
  <2> TAKE e \in Classes
  <2>1. Spread(v, e) /\ Spread(n, e)
    BY <1>0, AheadAt
  <2> QED
    BY <1>8, <2>1 DEF Spread
<1>15. ASSUME NEW e \in Classes, e # c \/ c \notin Typed
       PROVE  Ahead(n, e) = Ahead(v, e)
  <2>1. e # class
    BY <1>4, <1>15
  <2> QED
    BY <1>13, <1>14, <2>1
<1>16. ASSUME c \in Typed
       PROVE  /\ Latest(n, h, c, i)
              /\ Ahead(n, c) = [Ahead(v, c) EXCEPT ![i] = v.store[c][i]]
  <2>1. last \in UpdatesOf(n, c, i) /\ \A k \in UpdatesOf(n, c, i) : k <= last
    <3>1. last \in UpdatesOf(n, c, i)
      BY <1>5, <1>11, <1>16
    <3>2. UpdatesOf(n, c, i) \subseteq (1..Len(v.updates)) \cup {last}
      BY <1>11
    <3>3. last \in Nat
      BY <1>6 DEF last
    <3> QED
      BY <1>9, <3>1, <3>2, <3>3
  <2>2. LastOf(n, c, i, last)
    BY <2>1 DEF LastOf
  <2>3. Latest(n, h, c, i)
    BY <1>9, <2>2 DEF Latest
  <2>4. i \in DOMAIN Ahead(v, c) /\ Ahead(n, c)[i] = v.store[c][i]
    <3>1. Spread(v, c) /\ Spread(n, c)
      BY <1>0, AheadAt
    <3>2. i \in DOMAIN Ahead(v, c)
      BY <3>1 DEF Spread
    <3>3. Stands(n, c, i)
      BY <1>14, <3>1, <3>2 DEF Spread
    <3>4. n.objs[n.updates[last]].data = v.store[c][i]
      BY <1>3, <1>9, <1>10
    <3> QED
      BY <2>2, <3>2, <3>3, <3>4 DEF Stands
  <2>5. \A j \in DOMAIN Ahead(v, c) : j # i => Ahead(n, c)[j] = Ahead(v, c)[j]
    BY <1>13
  <2> QED
    BY <1>14, <2>3, <2>4, <2>5
<1>17. \A g, j : \A e \in Classes : Latest(v, g, e, j) /\ ~(e = c /\ j = i)
                                       => Latest(n, g, e, j)
  BY <1>4, <1>12
<1>18. InSeq(h, n.updates)
  BY <1>9 DEF InSeq
<1> QED
  BY <1>7, <1>15, <1>16, <1>17, <1>18 DEF Loads

(* Assigning to the last copy of a record puts the new record ahead;       *)
(* assigning to an earlier copy, or to an object without a store, is lost. *)
Assigns(v, n, h, x) ==
    /\ \A e \in Classes : \A i \in DOMAIN Ahead(v, e) :
          /\ Latest(v, h, e, i) => Ahead(n, e) = [Ahead(v, e) EXCEPT ![i] = x]
          /\ ~Latest(v, h, e, i) => Ahead(n, e)[i] = Ahead(v, e)[i]
    /\ \A e \in Classes : (\A i : ~Latest(v, h, e, i)) => Ahead(n, e) = Ahead(v, e)
    /\ \A g, e, i : Latest(v, g, e, i) => Latest(n, g, e, i)

LEMMA AheadAssign ==
    ASSUME NEW M \in Makes, NEW v, Sound(v, M), Real(v),
           NEW h \in 1..Len(v.objs), NEW x \in Data,
           v.objs[h].class \in Classes => x \in Allowed(v.objs[h].class, v.objs[h].id),
           InSeq(h, v.updates), NEW n, n = Assign(v, h, x)
    PROVE  Real(n) /\ Assigns(v, n, h, x) /\ n.updates = v.updates
<1>0. Sound(n, M)
  BY AssignFacts
<1>1. Differs(v, n, h, x)
  BY AssignFacts
<1>2. n.adds = v.adds /\ n.updates = v.updates /\ n.store = v.store
  BY AssignParts
<1>3. /\ v.objs[h] \in Objects /\ v.objs[h].tracked /\ DOMAIN v.objs = 1..Len(v.objs)
      /\ Len(n.objs) = Len(v.objs)
  <2>1. \A k \in DOMAIN v.updates : v.objs[v.updates[k]].tracked
    BY UpdatesFinite
  <2> QED
    BY <1>1, <2>1 DEF InSeq, Sound, ObjectsSound, Differs
<1>4. /\ n.objs[h].data = x /\ n.objs[h].tracked = v.objs[h].tracked
      /\ n.objs[h].class = v.objs[h].class /\ n.objs[h].id = v.objs[h].id
  <2>1. n.objs[h] = [v.objs[h] EXCEPT !.data = x]
    BY <1>1 DEF Differs
  <2> QED
    BY <1>3, <2>1 DEF Objects
<1>5. \A k \in 1..Len(v.objs) : k # h => n.objs[k] = v.objs[k]
  BY <1>1 DEF Differs
<1>6. \A k \in 1..Len(v.objs) : /\ n.objs[k].tracked = v.objs[k].tracked
                                /\ n.objs[k].class = v.objs[k].class
                                /\ n.objs[k].id = v.objs[k].id
  BY <1>4, <1>5
<1>7. Real(n)
  BY <1>2, <1>3, <1>6 DEF Real
<1>8. \A e \in Classes : Added(n, e) = Added(v, e)
  <2>1. \A k \in DOMAIN v.adds : v.adds[k] \in 1..Len(v.objs) /\ v.objs[v.adds[k]].tracked = FALSE
    BY AddsFinite DEF Sound, Pending
  <2>2. \A k \in DOMAIN v.adds : n.objs[v.adds[k]] = v.objs[v.adds[k]]
    BY <1>3, <1>5, <2>1
  <2> QED
    BY <1>0, <1>2, <2>2, AddedSame
<1>9. \A k \in DOMAIN v.updates : v.updates[k] \in 1..Len(v.objs)
  BY UpdatesFinite
<1>10. \A e, i : UpdatesOf(n, e, i) = UpdatesOf(v, e, i)
  BY <1>2, <1>6, <1>9 DEF UpdatesOf
<1>11. \A e, i, k : LastOf(n, e, i, k) <=> LastOf(v, e, i, k)
  BY <1>10 DEF LastOf
<1>12. \A g, e, i : Latest(v, g, e, i) => Latest(n, g, e, i)
  BY <1>2, <1>11 DEF Latest
<1>13. \A e \in Classes : /\ DOMAIN Ahead(n, e) = DOMAIN Ahead(v, e)
                          /\ Ahead(n, e) = [j \in DOMAIN Ahead(v, e) |-> Ahead(n, e)[j]]
                          /\ Ahead(v, e) = [j \in DOMAIN Ahead(v, e) |-> Ahead(v, e)[j]]
                          /\ \A i \in DOMAIN Ahead(v, e) : Stands(v, e, i) /\ Stands(n, e, i)
  <2> TAKE e \in Classes
  <2>1. Spread(v, e) /\ Spread(n, e)
    BY <1>0, AheadAt
  <2> QED
    BY <1>8, <2>1 DEF Spread
<1>14. ASSUME NEW e \in Classes, NEW i \in DOMAIN Ahead(v, e), ~Latest(v, h, e, i)
       PROVE  Ahead(n, e)[i] = Ahead(v, e)[i]
  <2>1. CASE UpdatesOf(v, e, i) = {}
    <3>1. UpdatesOf(n, e, i) = {} /\ Stands(v, e, i) /\ Stands(n, e, i)
      BY <1>10, <1>13, <2>1
    <3> QED
      BY <1>8, <2>1, <3>1 DEF Stands
  <2>2. CASE UpdatesOf(v, e, i) # {}
    <3>1. PICK k : LastOf(v, e, i, k)
      BY <2>2, SomeLatest
    <3>2. v.updates[k] # h /\ k \in DOMAIN v.updates
      BY <1>14, <3>1 DEF Latest, LastOf, UpdatesOf
    <3>3. n.objs[n.updates[k]] = v.objs[v.updates[k]]
      BY <1>2, <1>5, <1>9, <3>2
    <3> QED
      BY <1>11, <1>13, <3>1, <3>3 DEF Stands
  <2> QED
    BY <2>1, <2>2
<1>15. ASSUME NEW e \in Classes, NEW i \in DOMAIN Ahead(v, e), Latest(v, h, e, i)
       PROVE  Ahead(n, e) = [Ahead(v, e) EXCEPT ![i] = x]
  <2>1. PICK k : LastOf(v, e, i, k) /\ v.updates[k] = h
    BY <1>15 DEF Latest
  <2>2. Ahead(n, e)[i] = x
    BY <1>2, <1>4, <1>11, <1>13, <2>1 DEF Stands
  <2>3. ASSUME NEW j \in DOMAIN Ahead(v, e), j # i
        PROVE  Ahead(n, e)[j] = Ahead(v, e)[j]
    <3>1. v.objs[h].id = i
      BY <2>1 DEF LastOf, UpdatesOf
    <3>2. ~Latest(v, h, e, j)
      BY <2>3, <3>1 DEF Latest, LastOf, UpdatesOf
    <3> QED
      BY <1>14, <3>2
  <2> QED
    BY <1>13, <2>2, <2>3
<1>16. ASSUME NEW e \in Classes, \A i : ~Latest(v, h, e, i)
       PROVE  Ahead(n, e) = Ahead(v, e)
  BY <1>13, <1>14, <1>16
<1> QED
  BY <1>2, <1>7, <1>12, <1>14, <1>15, <1>16 DEF Assigns

(* A fresh unit of work has nothing ahead but the stores, and a commit     *)
(* with nothing to delete stores what is ahead.                            *)
LEMMA AheadOpen ==
    ASSUME NEW M \in Makes, NEW v, Sound(v, M), v.adds = <<>>, v.updates = <<>>
    PROVE  \A c \in Classes : Ahead(v, c) = v.store[c]
<1> TAKE c \in Classes
<1>1. Spread(v, c) /\ AddsAt(v, c)
  BY AheadAt, AddedAt
<1>2. AddsOf(v, c) = {} /\ \A i : UpdatesOf(v, c, i) = {}
  BY DEF AddsOf, UpdatesOf
<1>3. NewIds(v, c) = {}
  BY <1>2 DEF NewIds
<1>4. /\ DOMAIN Ahead(v, c) = DOMAIN v.store[c]
      /\ \A i \in DOMAIN v.store[c] : Ahead(v, c)[i] = v.store[c][i]
  BY <1>1, <1>2, <1>3 DEF Spread, Stands, AddsAt
<1>5. v.store[c] = [i \in DOMAIN v.store[c] |-> v.store[c][i]]
  BY DEF Sound, Stored
<1> QED
  BY <1>1, <1>4, <1>5 DEF Spread

LEMMA AheadCommit ==
    ASSUME NEW M \in Makes, NEW v, Sound(v, M)
    PROVE  /\ \A c \in Classes : Commit(v).store[c] = Kept(v, c, Ahead(v, c))
           /\ v.deletes = <<>> => \A c \in Classes : Commit(v).store[c] = Ahead(v, c)
           /\ Commit(v).adds = <<>> /\ Commit(v).updates = <<>>
           /\ Commit(v).counter = v.counter
<1>1. /\ Commit(v).store = [c \in Classes |-> Kept(v, c, Ahead(v, c))]
      /\ Commit(v).adds = <<>> /\ Commit(v).updates = <<>>
      /\ Commit(v).counter = v.counter
  BY DEF Commit, Sound, Parts, Ahead
<1>2. ASSUME v.deletes = <<>>, NEW c \in Classes
      PROVE  Commit(v).store[c] = Ahead(v, c)
  <2>1. Gone(v, c) = {}
    BY <1>2 DEF Gone
  <2>2. PICK A : A = Ahead(v, c) /\ A = [i \in DOMAIN A |-> A[i]]
    BY AheadAt DEF Spread
  <2>3. Kept(v, c, A) = [i \in DOMAIN A \ {} |-> A[i]] /\ DOMAIN A \ {} = DOMAIN A
    BY <2>1 DEF Kept
  <2>4. Commit(v).store[c] = Kept(v, c, A)
    BY <1>1, <2>2
  <2> QED
    BY <2>2, <2>3, <2>4
<1> QED
  BY <1>1, <1>2

---------------------------------------------------------------------------
(* A request's unit of work that would store a. *)
Carrying(v, M, n, store, a) ==
    /\ Working(v, M, n, store) /\ Real(v)
    /\ DOMAIN a = Classes /\ \A c \in Classes : a[c] = Ahead(v, c)

(* In a, with x as record i of class c, and with x as a new record of c. *)
Replaced(a, c, i, x) == [a EXCEPT ![c] = [@ EXCEPT ![i] = x]]

Appended(a, c, x) == [a EXCEPT ![c] = Extended(@, x)]

(* From v to n no object lost its place. *)
Keeps(v, n) ==
    /\ \A g, e, j : Latest(v, g, e, j) => Latest(n, g, e, j)
    /\ \A g : InSeq(g, v.updates) => InSeq(g, n.updates)

KeepsBut(v, n, c, i) ==
    /\ \A g, j : \A e \in Classes :
          Latest(v, g, e, j) /\ ~(e = c /\ j = i) => Latest(n, g, e, j)
    /\ \A g : InSeq(g, v.updates) => InSeq(g, n.updates)

LEMMA CarryOpen ==
    ASSUME BooksSound(db), NEW M \in Makes, NEW v, v = Open(db)
    PROVE  Carrying(v, M, 0, db.store, db.store) /\ v.counter = db.counter
<1>1. Working(v, M, 0, db.store)
  BY Opened
<1>2. v.adds = <<>> /\ v.updates = <<>> /\ v.objs = <<>> /\ v.counter = db.counter
  BY DEF Open
<1>3. Real(v)
  BY <1>2 DEF Real
<1>4. \A c \in Classes : Ahead(v, c) = db.store[c]
  BY <1>1, <1>2, AheadOpen DEF Working
<1>5. DOMAIN db.store = Classes
  BY DEF BooksSound, Stored
<1> QED
  BY <1>1, <1>2, <1>3, <1>4, <1>5 DEF Carrying

LEMMA CarryLoad ==
    ASSUME NEW M \in Makes, NEW v, NEW n, NEW store, NEW a, Carrying(v, M, n, store, a),
           NEW c \in Classes, NEW i \in DOMAIN store[c], a[c][i] = store[c][i],
           NEW k, After(n, k), NEW w, w = Load(v, c, i)
    PROVE  /\ Carrying(w, M, k, store, a) /\ KeepsBut(v, w, c, i)
           /\ c \in Typed => Latest(w, k, c, i)
           /\ InSeq(k, w.updates) /\ w.counter = v.counter
<1>1. /\ Working(v, M, n, store) /\ Real(v) /\ Sound(v, M) /\ v.store = store
      /\ Len(v.objs) = n /\ k = Len(v.objs) + 1
  BY DEF Carrying, Working, After
<1>2. Real(w) /\ Loads(v, w, c, i, k) /\ InSeq(k, w.updates)
  BY <1>1, AheadLoad
<1>3. Sound(w, M)
  BY <1>1, LoadFacts
<1>4. w.store = v.store /\ w.counter = v.counter /\ w.updates = Append(v.updates, k)
  BY <1>1, LoadParts
<1>5. Working(w, M, k, store)
  <2>1. Len(w.objs) = Len(v.objs) + 1 /\ w.deletes = v.deletes
    BY <1>1, LoadFacts DEF OneMore
  <2> QED
    BY <1>1, <1>3, <1>4, <2>1 DEF Working
<1>6. ASSUME NEW e \in Classes
      PROVE  Ahead(w, e) = Ahead(v, e)
  <2>1. CASE e # c \/ c \notin Typed
    BY <1>2, <2>1 DEF Loads
  <2>2. CASE e = c /\ c \in Typed
    <3>1. Ahead(w, c) = [Ahead(v, c) EXCEPT ![i] = store[c][i]]
      BY <1>1, <1>2, <2>2 DEF Loads
    <3>2. Spread(v, c)
      BY <1>1, AheadAt
    <3>3. Ahead(v, c) = a[c]
      BY DEF Carrying
    <3> QED
      BY <2>2, <3>1, <3>2, <3>3 DEF Spread
  <2> QED
    BY <2>1, <2>2
<1>7. \A g : InSeq(g, v.updates) => InSeq(g, w.updates)
  <2>1. v.updates \in Seq(DOMAIN v.objs)
    BY <1>1 DEF Sound, Pending
  <2> QED
    BY <1>4, <2>1 DEF InSeq
<1>8. KeepsBut(v, w, c, i)
  BY <1>2, <1>7 DEF KeepsBut, Loads
<1>9. c \in Typed => Latest(w, k, c, i)
  BY <1>2 DEF Loads
<1>10. DOMAIN a = Classes /\ \A e \in Classes : a[e] = Ahead(w, e)
  BY <1>6 DEF Carrying
<1> QED
  BY <1>2, <1>4, <1>5, <1>8, <1>9, <1>10 DEF Carrying

LEMMA CarryRecord ==
    ASSUME NEW M \in Makes, NEW v, NEW n, NEW store, NEW a, Carrying(v, M, n, store, a),
           NEW c \in M, NEW data \in Records(c),
           NEW k, After(n, k), NEW w, w = Record(v, c, data)
    PROVE  /\ Carrying(w, M, k, store, Appended(a, c, data)) /\ Keeps(v, w)
           /\ Counted(v, w, c) /\ w.objs[k].id = v.counter[c]
<1>1. /\ Working(v, M, n, store) /\ Real(v) /\ Sound(v, M) /\ Len(v.objs) = n
      /\ c \in Classes
  BY DEF Carrying, Working, Makes
<1>2. Real(w) /\ Grows(v, w, c, data) /\ SameUpdates(v, w)
  BY <1>1, AheadRecord
<1>3. Working(w, M, k, store) /\ w.objs[k].id = v.counter[c]
  <2>1. Working(w, M, k, store)
    BY <1>1, Recorded
  <2>2. w.objs[k] = [class |-> c, id |-> v.counter[c], tracked |-> FALSE, data |-> data]
    BY <1>1, Recorded
  <2> QED
    BY <2>1, <2>2
<1>4. Counted(v, w, c)
  BY <1>1, RecordParts
<1>5. Keeps(v, w)
  <2>1. \A e, i : \A j : LastOf(w, e, i, j) <=> LastOf(v, e, i, j)
    BY <1>2, UpdatesSame
  <2> QED
    BY <1>2, <2>1 DEF Keeps, Latest, SameUpdates
<1>6. /\ DOMAIN Appended(a, c, data) = Classes
      /\ \A e \in Classes : Appended(a, c, data)[e] = Ahead(w, e)
  <2>1. \A e \in Classes : a[e] = Ahead(v, e)
    BY DEF Carrying
  <2>2. DOMAIN a = Classes
    BY DEF Carrying
  <2> QED
    BY <1>1, <1>2, <2>1, <2>2 DEF Appended, Grows, Carrying
<1> QED
  BY <1>2, <1>3, <1>4, <1>5, <1>6 DEF Carrying

LEMMA CarryAssign ==
    ASSUME NEW M \in Makes, NEW v, NEW n, NEW store, NEW a, Carrying(v, M, n, store, a),
           NEW h, Within(h, n), NEW c \in Classes, NEW i \in DOMAIN store[c],
           Latest(v, h, c, i), v.objs[h].class = c, v.objs[h].id = i,
           NEW x \in Allowed(c, i), NEW w, w = Assign(v, h, x)
    PROVE  /\ Carrying(w, M, n, store, Replaced(a, c, i, x)) /\ Keeps(v, w)
           /\ w.counter = v.counter
<1>1. /\ Working(v, M, n, store) /\ Real(v) /\ Sound(v, M) /\ v.store = store
      /\ h \in 1..Len(v.objs)
  BY DEF Carrying, Working, Within
<1>2. x \in Data
  BY AllowedFacts
<1>3. InSeq(h, v.updates)
  BY DEF Latest, LastOf, UpdatesOf, InSeq
<1>4. Real(w) /\ Assigns(v, w, h, x) /\ w.updates = v.updates
  BY <1>1, <1>2, <1>3, AheadAssign
<1>5. Working(w, M, n, store)
  BY <1>1, Assigned
<1>6. w.counter = v.counter
  BY <1>1, <1>3, AssignParts
<1>7. Spread(v, c)
  BY <1>1, AheadAt
<1>8. Ahead(w, c) = [Ahead(v, c) EXCEPT ![i] = x]
  <2>1. i \in DOMAIN Ahead(v, c)
    BY <1>1, <1>7 DEF Spread
  <2> QED
    BY <1>4, <2>1 DEF Assigns
<1>9. \A e \in Classes : e # c => Ahead(w, e) = Ahead(v, e)
  <2>1. \A e, j : Latest(v, h, e, j) => e = c
    BY DEF Latest, LastOf, UpdatesOf
  <2> QED
    BY <1>4, <2>1 DEF Assigns
<1>10. /\ DOMAIN Replaced(a, c, i, x) = Classes
       /\ \A e \in Classes : Replaced(a, c, i, x)[e] = Ahead(w, e)
  <2>1. DOMAIN a = Classes /\ \A e \in Classes : a[e] = Ahead(v, e)
    BY DEF Carrying
  <2> QED
    BY <1>8, <1>9, <2>1 DEF Replaced, Carrying
<1>11. Keeps(v, w)
  BY <1>4 DEF Keeps, Assigns
<1> QED
  BY <1>4, <1>5, <1>6, <1>10, <1>11 DEF Carrying

(* Assigning to a generic object, such as a loaded rule, changes nothing.  *)
LEMMA CarryGeneric ==
    ASSUME NEW M \in Makes, NEW v, NEW n, NEW store, NEW a, Carrying(v, M, n, store, a),
           NEW h, Within(h, n), InSeq(h, v.updates), v.objs[h].class = Generic,
           NEW x \in Data, NEW w, w = Assign(v, h, x)
    PROVE  Carrying(w, M, n, store, a) /\ Keeps(v, w) /\ w.counter = v.counter
<1>1. /\ Working(v, M, n, store) /\ Real(v) /\ Sound(v, M) /\ v.store = store
      /\ h \in 1..Len(v.objs)
  BY DEF Carrying, Working, Within
<1>2. Real(w) /\ Assigns(v, w, h, x) /\ w.updates = v.updates
  BY <1>1, AheadAssign, ClassesAssumption
<1>3. Working(w, M, n, store)
  <2>1. Sound(w, M) /\ Differs(v, w, h, x)
    BY <1>1, AssignFacts, ClassesAssumption
  <2> QED
    BY <1>1, <2>1 DEF Working, Differs
<1>4. w.counter = v.counter
  BY <1>1, AssignParts
<1>5. \A e \in Classes : Ahead(w, e) = Ahead(v, e)
  <2>1. \A e \in Classes : \A j : ~Latest(v, h, e, j)
    BY ClassesAssumption DEF Latest, LastOf, UpdatesOf
  <2> QED
    BY <1>2, <2>1 DEF Assigns
<1>6. Keeps(v, w)
  BY <1>2 DEF Keeps, Assigns
<1> QED
  BY <1>2, <1>3, <1>4, <1>5, <1>6 DEF Carrying

(* Assigning to any copy changes no record but its own. *)
But(f, g, i) == DOMAIN f = DOMAIN g /\ \A j \in DOMAIN g : j # i => f[j] = g[j]

LEMMA CarryCopy ==
    ASSUME NEW M \in Makes, NEW v, NEW n, NEW store, NEW a, Carrying(v, M, n, store, a),
           NEW h, Within(h, n), InSeq(h, v.updates),
           NEW c \in Classes, NEW i, v.objs[h].class = c, v.objs[h].id = i,
           NEW x \in Allowed(c, i), NEW w, w = Assign(v, h, x)
    PROVE  \E b : /\ Carrying(w, M, n, store, b) /\ Keeps(v, w)
                  /\ w.counter = v.counter /\ But(b[c], a[c], i)
                  /\ \A e \in Classes : e # c => b[e] = a[e]
<1> DEFINE b == [e \in Classes |-> Ahead(w, e)]
<1>1. /\ Working(v, M, n, store) /\ Real(v) /\ Sound(v, M) /\ v.store = store
      /\ h \in 1..Len(v.objs)
  BY DEF Carrying, Working, Within
<1>2. x \in Data
  BY AllowedFacts
<1>3. Real(w) /\ Assigns(v, w, h, x) /\ w.updates = v.updates
  BY <1>1, <1>2, AheadAssign
<1>4. Working(w, M, n, store)
  BY <1>1, Assigned
<1>5. w.counter = v.counter
  BY <1>1, AssignParts
<1>6. Keeps(v, w)
  BY <1>3 DEF Keeps, Assigns
<1>7. DOMAIN b = Classes /\ \A e \in Classes : b[e] = Ahead(w, e) /\ a[e] = Ahead(v, e)
  BY DEF Carrying
<1>8. \A e, j : Latest(v, h, e, j) => e = c /\ j = i
  BY DEF Latest, LastOf, UpdatesOf
<1>9. \A e \in Classes : e # c => Ahead(w, e) = Ahead(v, e)
  BY <1>3, <1>8 DEF Assigns
<1>10. But(Ahead(w, c), Ahead(v, c), i)
  <2>1. \A j \in DOMAIN Ahead(v, c) : j # i => Ahead(w, c)[j] = Ahead(v, c)[j]
    BY <1>3, <1>8 DEF Assigns
  <2>2. DOMAIN Ahead(w, c) = DOMAIN Ahead(v, c)
    <3>1. CASE \E j \in DOMAIN Ahead(v, c) : Latest(v, h, c, j)
      BY <1>3, <3>1 DEF Assigns
    <3>2. CASE \A j : ~Latest(v, h, c, j)
      BY <1>3, <3>2 DEF Assigns
    <3>3. \A j : Latest(v, h, c, j) => j \in DOMAIN Ahead(v, c)
      <4> TAKE j
      <4> HAVE Latest(v, h, c, j)
      <4>1. v.objs[h].tracked
        BY UpdatesFinite, <1>1 DEF Latest, LastOf, UpdatesOf
      <4>2. j \in DOMAIN v.store[c]
        BY <1>1, <1>8, <4>1 DEF Real
      <4>3. Spread(v, c)
        BY <1>1, AheadAt
      <4> QED
        BY <4>2, <4>3 DEF Spread
    <3> QED
      BY <3>1, <3>2, <3>3
  <2> QED
    BY <2>1, <2>2 DEF But
<1> HIDE DEF b
<1>11. Carrying(w, M, n, store, b)
  BY <1>3, <1>4, <1>7 DEF Carrying
<1>12. But(b[c], a[c], i) /\ \A e \in Classes : e # c => b[e] = a[e]
  BY <1>7, <1>9, <1>10
<1> QED
  BY <1>5, <1>6, <1>11, <1>12

(* The end of a request, and a commit that the request goes on after. *)
LEMMA CarryClose ==
    ASSUME NEW M \in Makes, NEW v, NEW n, NEW store, NEW a, Carrying(v, M, n, store, a)
    PROVE  LET d == Close(Commit(v))
           IN /\ \A c \in Classes : d.store[c] = a[c]
              /\ DOMAIN d.store = Classes /\ d.counter = v.counter
<1>1. Sound(v, M) /\ v.deletes = <<>>
  BY DEF Carrying, Working
<1>2. /\ \A c \in Classes : Commit(v).store[c] = Ahead(v, c)
      /\ Commit(v).counter = v.counter
  BY <1>1, AheadCommit
<1>3. DOMAIN Commit(v).store = Classes
  <2>1. Stored(Commit(v).store)
    BY <1>1, CommitStored
  <2> QED
    BY <2>1 DEF Stored
<1> QED
  BY <1>2, <1>3 DEF Close, Carrying

LEMMA CarryCommit ==
    ASSUME NEW M \in Makes, NEW v, NEW n, NEW store, NEW a, Carrying(v, M, n, store, a),
           NEW w, w = Commit(v)
    PROVE  /\ Carrying(w, M, n, w.store, w.store) /\ w.counter = v.counter
           /\ \A c \in Classes : w.store[c] = a[c]
<1>1. /\ Sound(v, M) /\ v.deletes = <<>> /\ Len(v.objs) = n /\ v.store = store /\ Real(v)
      /\ DOMAIN store["Account"] = Owned
  BY DEF Carrying, Working
<1>2. /\ \A c \in Classes : w.store[c] = Ahead(v, c)
      /\ w.counter = v.counter /\ w.adds = <<>> /\ w.updates = <<>>
  BY <1>1, AheadCommit
<1>3. /\ Sound(w, M) /\ w.deletes = <<>> /\ Len(w.objs) = Len(v.objs)
  BY <1>1, CommitFacts
<1>4. \A h \in 1..Len(v.objs) : /\ w.objs[h].tracked = v.objs[h].tracked
                                /\ w.objs[h].class = v.objs[h].class
                                /\ v.objs[h].tracked => w.objs[h].id = v.objs[h].id
  <2> TAKE h \in 1..Len(v.objs)
  <2>1. /\ w.objs[h] = [v.objs[h] EXCEPT !.id = IdAfter(v, h)]
        /\ v.objs[h].tracked => IdAfter(v, h) = v.objs[h].id
    BY <1>1, CommitFacts
  <2>2. v.objs[h] \in Objects
    BY <1>1 DEF Sound, ObjectsSound
  <2> QED
    BY <2>1, <2>2 DEF Objects
<1>5. Real(w)
  <2>1. \A c \in Classes : DOMAIN v.store[c] \subseteq DOMAIN w.store[c]
    <3> TAKE c \in Classes
    <3>1. Spread(v, c)
      BY <1>1, AheadAt
    <3> QED
      BY <1>2, <3>1 DEF Spread
  <2> QED
    BY <1>1, <1>3, <1>4, <2>1 DEF Real
<1>6. Working(w, M, n, w.store)
  <2>1. DOMAIN w.store["Account"] = Owned
    <3>1. PICK c \in Classes \ M : c = "Account"
      BY ClassFacts DEF Makes
    <3>2. Gone(v, c) = {}
      BY <1>1 DEF Gone
    <3>3. DOMAIN w.store[c] = DOMAIN v.store[c]
      BY <1>1, <3>2, CommitStored
    <3> QED
      BY <1>1, <3>1, <3>3
  <2> QED
    BY <1>1, <1>3, <2>1 DEF Working
<1>7. \A c \in Classes : w.store[c] = Ahead(w, c)
  BY <1>2, <1>3, AheadOpen
<1>8. DOMAIN w.store = Classes
  BY <1>3 DEF Sound, Stored
<1> QED
  BY <1>2, <1>5, <1>6, <1>7, <1>8 DEF Carrying

LEMMA AppendedAt ==
    ASSUME NEW a, DOMAIN a = Classes, NEW c \in Classes, NEW x, NEW b, b = Appended(a, c, x)
    PROVE  b[c] = Extended(a[c], x) /\ \A e \in Classes : e # c => b[e] = a[e]
BY DEF Appended

(* The function g with x for i. *)
With(g, i, x) == [g EXCEPT ![i] = x]

LEMMA ReplacedAt ==
    ASSUME NEW a, DOMAIN a = Classes, NEW c \in Classes, NEW i, NEW x,
           NEW b, b = Replaced(a, c, i, x)
    PROVE  b[c] = With(a[c], i, x) /\ \A e \in Classes : e # c => b[e] = a[e]
BY DEF Replaced, With

LEMMA CarryDomain ==
    ASSUME NEW M, NEW v, NEW n, NEW store, NEW a, Carrying(v, M, n, store, a)
    PROVE  DOMAIN a = Classes /\ Working(v, M, n, store)
BY DEF Carrying

LEMMA AccountReplaced ==
    ASSUME NEW a, DOMAIN a = Classes, NEW i, NEW x, NEW b, b = Replaced(a, "Account", i, x)
    PROVE  /\ b["Account"] = With(a["Account"], i, x)
           /\ \A e \in Classes : e # "Account" => b[e] = a[e]
<1>1. PICK c \in Classes : c = "Account"
  BY ClassFacts
<1>2. b = Replaced(a, c, i, x)
  BY <1>1
<1>3. b[c] = With(a[c], i, x) /\ \A e \in Classes : e # c => b[e] = a[e]
  BY <1>2, ReplacedAt
<1> QED
  BY <1>1, <1>3

(* The units of work of the account requests. *)
LEMMA CarryHolding ==
    ASSUME BooksSound(db), NEW a \in Accounts, NEW M \in Makes, NEW v, v = Holding(a)
    PROVE  /\ Carrying(v, M, 1, db.store, db.store) /\ Holds(v, 1, a)
           /\ Latest(v, 1, "Account", a) /\ InSeq(1, v.updates) /\ v.counter = db.counter
<1>1. PICK u : u = Open(db)
  OBVIOUS
<1>2. Carrying(u, M, 0, db.store, db.store) /\ u.counter = db.counter
  BY <1>1, CarryOpen
<1>3. PICK c \in Typed : c = "Account" /\ c \in Classes
  BY ClassFacts
<1>4. v = Load(u, c, a) /\ a \in DOMAIN db.store[c]
  BY <1>1, <1>3 DEF Holding, Accounts
<1>5. /\ Carrying(v, M, 1, db.store, db.store)
      /\ Latest(v, 1, c, a) /\ InSeq(1, v.updates) /\ v.counter = u.counter
  BY <1>2, <1>3, <1>4, Counting, CarryLoad
<1>6. Holds(v, 1, a)
  BY HoldingFacts
<1> QED
  BY <1>2, <1>3, <1>5, <1>6

(* Account b is loaded as a further object. *)
LEMMA CarryAccount ==
    ASSUME NEW M \in Makes, NEW v, NEW n, NEW store, NEW a, Carrying(v, M, n, store, a),
           a["Account"] = store["Account"], NEW b \in Owned,
           NEW k, After(n, k), NEW w, w = Load(v, "Account", b)
    PROVE  /\ Carrying(w, M, k, store, a) /\ KeepsBut(v, w, "Account", b)
           /\ Latest(w, k, "Account", b) /\ InSeq(k, w.updates) /\ Holds(w, k, b)
           /\ w.counter = v.counter /\ \A h \in 1..n : w.objs[h] = v.objs[h]
<1>1. PICK c \in Typed : c = "Account" /\ c \in Classes
  BY ClassFacts
<1>2. Working(v, M, n, store) /\ b \in DOMAIN store[c]
  BY <1>1 DEF Carrying, Working
<1>3. w = Load(v, c, b) /\ a[c][b] = store[c][b]
  BY <1>1
<1>4. /\ Carrying(w, M, k, store, a) /\ KeepsBut(v, w, c, b)
      /\ Latest(w, k, c, b) /\ InSeq(k, w.updates) /\ w.counter = v.counter
  BY <1>1, <1>2, <1>3, CarryLoad
<1>5. /\ w.objs[k] = [class |-> c, id |-> b, tracked |-> TRUE, data |-> store[c][b]]
      /\ \A h \in 1..n : w.objs[h] = v.objs[h] /\ Working(w, M, k, store)
  BY <1>2, <1>3, Loaded
<1>6. Working(w, M, k, store)
  BY <1>4, CarryDomain
<1>7. Holds(w, k, b)
  BY <1>1, <1>5, <1>6 DEF Holds, Working
<1> QED
  BY <1>1, <1>4, <1>5, <1>7

LEMMA CarryTwo ==
    ASSUME BooksSound(db), NEW a \in Accounts, NEW b \in Accounts, NEW M \in Makes,
           NEW v, v = Load(Holding(a), "Account", b)
    PROVE  /\ Carrying(v, M, 2, db.store, db.store) /\ v.counter = db.counter
           /\ Holds(v, 1, a) /\ Holds(v, 2, b) /\ InSeq(1, v.updates) /\ InSeq(2, v.updates)
           /\ Latest(v, 2, "Account", b) /\ (a # b => Latest(v, 1, "Account", a))
<1>1. PICK u : u = Holding(a)
  OBVIOUS
<1>2. /\ Carrying(u, M, 1, db.store, db.store) /\ Holds(u, 1, a)
      /\ Latest(u, 1, "Account", a) /\ InSeq(1, u.updates) /\ u.counter = db.counter
  BY <1>1, CarryHolding
<1>3. b \in Owned /\ v = Load(u, "Account", b)
  BY <1>1, BalanceTyped
<1>4. /\ Carrying(v, M, 2, db.store, db.store) /\ KeepsBut(u, v, "Account", b)
      /\ Latest(v, 2, "Account", b) /\ InSeq(2, v.updates) /\ Holds(v, 2, b)
      /\ v.counter = u.counter /\ \A h \in 1..1 : v.objs[h] = u.objs[h]
  BY <1>2, <1>3, Counting, CarryAccount
<1>5. InSeq(1, v.updates) /\ (a # b => Latest(v, 1, "Account", a))
  BY <1>2, <1>4, ClassFacts DEF KeepsBut
<1>6. v.store = u.store /\ v.objs[1] = u.objs[1]
  <2>1. 1 \in 1..1
    OBVIOUS
  <2>2. v.store = u.store
    BY <1>2, <1>4 DEF Carrying, Working
  <2> QED
    BY <1>4, <2>1, <2>2
<1>7. Holds(v, 1, a)
  BY <1>2, <1>6 DEF Holds
<1> QED
  BY <1>2, <1>4, <1>5, <1>7

(* The balance of the object's account, changed. *)
LEMMA ChangeAssigns ==
    ASSUME NEW M, NEW v, NEW n, NEW store, Working(v, M, n, store),
           NEW h, NEW a \in Owned, Holds(v, h, a), NEW d \in Int, Covers(store, a, d)
    PROVE  /\ store["Account"][a] \in Int
           /\ Rounded(store["Account"][a] + d) \in Allowed("Account", a)
           /\ Change(v, h, d) = Assign(v, h, Rounded(store["Account"][a] + d))
           /\ v.objs[h].class = "Account" /\ v.objs[h].id = a
           /\ a \in DOMAIN store["Account"]
<1>1. /\ v.objs[h].class = "Account" /\ v.objs[h].id = a
      /\ v.objs[h].data = store["Account"][a] /\ a \in DOMAIN store["Account"]
  BY DEF Holds, Working
<1>2. store["Account"][a] \in Int
  <2>1. store["Account"][a] \in Allowed("Account", a)
    BY ClassFacts DEF Working, Sound, Stored
  <2> QED
    BY <2>1, CentsTyped DEF Allowed
<1>3. PICK y \in Int : y = store["Account"][a] + d
  BY <1>2
<1>4. Rounded(y) \in Cents /\ (Guarded(a) => Rounded(y) >= 0)
  BY <1>3, RoundedTyped, RoundedNatural DEF Covers
<1> QED
  BY <1>1, <1>2, <1>3, <1>4 DEF Allowed, Change

LEMMA CarryChange ==
    ASSUME NEW M \in Makes, NEW v, NEW n, NEW store, NEW s, Carrying(v, M, n, store, s),
           NEW h, Within(h, n), NEW a \in Owned, Holds(v, h, a), Latest(v, h, "Account", a),
           NEW d \in Int, Covers(store, a, d), NEW w, w = Change(v, h, d),
           NEW x, x = Rounded(store["Account"][a] + d)
    PROVE  /\ Carrying(w, M, n, store, Replaced(s, "Account", a, x)) /\ Keeps(v, w)
           /\ w.counter = v.counter /\ \A k \in 1..n : k # h => w.objs[k] = v.objs[k]
<1>1. PICK c \in Classes : c = "Account"
  BY ClassFacts
<1>2. Working(v, M, n, store)
  BY CarryDomain
<1>3. /\ x \in Allowed(c, a) /\ w = Assign(v, h, x) /\ a \in DOMAIN store[c]
      /\ v.objs[h].class = c /\ v.objs[h].id = a /\ Latest(v, h, c, a)
  BY <1>1, <1>2, ChangeAssigns
<1>4. /\ Carrying(w, M, n, store, Replaced(s, c, a, x)) /\ Keeps(v, w)
      /\ w.counter = v.counter
  BY <1>3, CarryAssign
<1>5. \A k \in 1..n : k # h => w.objs[k] = v.objs[k]
  BY <1>2, <1>3, Assigned
<1> QED
  BY <1>1, <1>4, <1>5

(* The same of a copy that need not be the last. *)
LEMMA CarryChangeCopy ==
    ASSUME NEW M \in Makes, NEW v, NEW n, NEW store, NEW s, Carrying(v, M, n, store, s),
           NEW h, Within(h, n), NEW a \in Owned, Holds(v, h, a), InSeq(h, v.updates),
           NEW d \in Int, Covers(store, a, d), NEW w, w = Change(v, h, d)
    PROVE  /\ \E b : /\ Carrying(w, M, n, store, b) /\ But(b["Account"], s["Account"], a)
                     /\ \A e \in Classes : e # "Account" => b[e] = s[e]
           /\ Keeps(v, w) /\ w.counter = v.counter
           /\ \A k \in 1..n : k # h => w.objs[k] = v.objs[k]
<1>1. PICK c \in Classes : c = "Account"
  BY ClassFacts
<1>2. Working(v, M, n, store)
  BY CarryDomain
<1>3. PICK x : x = Rounded(store["Account"][a] + d)
  OBVIOUS
<1>4. /\ x \in Allowed(c, a) /\ w = Assign(v, h, x)
      /\ v.objs[h].class = c /\ v.objs[h].id = a
  BY <1>1, <1>2, <1>3, ChangeAssigns
<1>5. \E b : /\ Carrying(w, M, n, store, b) /\ Keeps(v, w)
             /\ w.counter = v.counter /\ But(b[c], s[c], a)
             /\ \A e \in Classes : e # c => b[e] = s[e]
  BY <1>4, CarryCopy
<1>6. \A k \in 1..n : k # h => w.objs[k] = v.objs[k]
  BY <1>2, <1>4, Assigned
<1> QED
  BY <1>1, <1>5, <1>6

(* What a request's bookings make of the stores db.store: s and the        *)
(* counter come from the unit of work before the commit or from the        *)
(* database after it.                                                      *)
Spared(s, C) == \A c \in Classes \ C : s[c] = db.store[c]

Posted(s, counter, a, d, p) ==
    /\ s["Transaction"] = Extended(Transactions, p)
    /\ counter["Transaction"] = db.counter["Transaction"] + 1
    /\ s["Account"] = [db.store["Account"] EXCEPT ![a] = Rounded(db.store["Account"][a] + d)]

PostedTwo(s, counter, a, d, b, e, p, q) ==
    /\ s["Transaction"] = Extended(Extended(Transactions, p), q)
    /\ counter["Transaction"] = db.counter["Transaction"] + 2
    /\ a # b => s["Account"] = [db.store["Account"] EXCEPT
                                   ![a] = Rounded(db.store["Account"][a] + d),
                                   ![b] = Rounded(db.store["Account"][b] + e)]
    /\ a = b => But(s["Account"], db.store["Account"], a)

LEMMA BookingClasses ==
    /\ "Account" \in Classes /\ "Transaction" \in Classes /\ "Notification" \in Classes
    /\ "Goal" \in Classes /\ "GoalContribution" \in Classes /\ "RecurringRule" \in Classes
    /\ "Transaction" \in Booking /\ "Notification" \in Booking /\ Booking \in Makes
BY StoreMaps, BookingFacts

(* A transaction recorded in a unit of work. *)
LEMMA CarryPosting ==
    ASSUME NEW v, NEW n, NEW store, NEW s, Carrying(v, Booking, n, store, s),
           NEW p \in Records("Transaction"), NEW k, After(n, k),
           NEW w, w = Record(v, "Transaction", p)
    PROVE  /\ Carrying(w, Booking, k, store, Appended(s, "Transaction", p)) /\ Keeps(v, w)
           /\ w.counter["Transaction"] = v.counter["Transaction"] + 1
           /\ v.counter["Transaction"] \in Positive
           /\ w.objs[k].id = v.counter["Transaction"] /\ w.objs[k].data = p
           /\ w.objs[k].class = "Transaction"
           /\ \A h \in 1..n : w.objs[h] = v.objs[h]
<1>1. PICK c \in Booking : c = "Transaction" /\ c \in Classes
  BY BookingClasses
<1>2. w = Record(v, c, p) /\ p \in Records(c) /\ Booking \in Makes
  BY <1>1, BookingClasses
<1>3. /\ Carrying(w, Booking, k, store, Appended(s, c, p)) /\ Keeps(v, w)
      /\ Counted(v, w, c) /\ w.objs[k].id = v.counter[c]
  BY <1>2, CarryRecord
<1>4. Working(v, Booking, n, store) /\ v.counter \in [Classes -> Positive]
  BY DEF Carrying, Working, Sound
<1>5. /\ w.objs[k] = [class |-> c, id |-> v.counter[c], tracked |-> FALSE, data |-> p]
      /\ \A h \in 1..n : w.objs[h] = v.objs[h]
  BY <1>2, <1>4, Recorded
<1>6. w.counter[c] = v.counter[c] + 1 /\ v.counter[c] \in Positive
  BY <1>1, <1>3, <1>4 DEF Counted
<1>7. w.objs[k].data = p /\ w.objs[k].class = c
  BY <1>5
<1> QED
  BY <1>1, <1>3, <1>5, <1>6, <1>7

LEMMA CarryBooked ==
    ASSUME BooksSound(db), NEW a \in Accounts, NEW d \in Int, Covers(db.store, a, d),
           NEW p \in Records("Transaction"),
           NEW w, w = Record(Change(Holding(a), 1, d), "Transaction", p)
    PROVE  \E s : /\ Carrying(w, Booking, 2, db.store, s)
                  /\ Posted(s, w.counter, a, d, p) /\ Spared(s, {"Account", "Transaction"})
                  /\ w.objs[2].id = db.counter["Transaction"]
                  /\ w.objs[2].data = p /\ w.objs[2].class = "Transaction"
<1>1. PICK u : u = Holding(a)
  OBVIOUS
<1>2. PICK v : v = Change(u, 1, d)
  OBVIOUS
<1>3. PICK x : x = Rounded(db.store["Account"][a] + d)
  OBVIOUS
<1>4. PICK s1 : s1 = Replaced(db.store, "Account", a, x)
  OBVIOUS
<1>5. PICK s2 : s2 = Appended(s1, "Transaction", p)
  OBVIOUS
<1>6. /\ Carrying(u, Booking, 1, db.store, db.store) /\ Holds(u, 1, a)
      /\ Latest(u, 1, "Account", a) /\ u.counter = db.counter
  BY <1>1, BookingClasses, CarryHolding
<1>7. a \in Owned
  BY BalanceTyped
<1>8. Carrying(v, Booking, 1, db.store, s1) /\ v.counter = u.counter
  BY <1>2, <1>3, <1>4, <1>6, <1>7, BookingClasses, Counting, CarryChange
<1>9. /\ Carrying(w, Booking, 2, db.store, s2)
      /\ w.counter["Transaction"] = v.counter["Transaction"] + 1
      /\ w.objs[2].id = v.counter["Transaction"] /\ w.objs[2].data = p
      /\ w.objs[2].class = "Transaction"
  BY <1>1, <1>2, <1>5, <1>8, Counting, CarryPosting
<1>10. DOMAIN db.store = Classes /\ DOMAIN s1 = Classes
  BY <1>6, <1>8, CarryDomain
<1>11. /\ s1["Account"] = With(db.store["Account"], a, x)
       /\ \A c \in Classes : c # "Account" => s1[c] = db.store[c]
  BY <1>4, <1>10, AccountReplaced
<1>12. /\ s2["Transaction"] = Extended(s1["Transaction"], p)
       /\ \A c \in Classes : c # "Transaction" => s2[c] = s1[c]
  BY <1>5, <1>10, BookingClasses, AppendedAt
<1>13. Posted(s2, w.counter, a, d, p)
  BY <1>3, <1>6, <1>8, <1>9, <1>11, <1>12, BookingClasses DEF Posted, With, Transactions
<1>14. Spared(s2, {"Account", "Transaction"})
  BY <1>11, <1>12 DEF Spared
<1> QED
  BY <1>6, <1>8, <1>9, <1>13, <1>14

LEMMA CarryBothSides ==
    ASSUME NEW v, Carrying(v, Booking, 2, db.store, db.store), v.counter = db.counter,
           NEW a \in Owned, NEW b \in Owned, Holds(v, 1, a), Holds(v, 2, b),
           InSeq(1, v.updates), Latest(v, 2, "Account", b),
           a # b => Latest(v, 1, "Account", a),
           NEW d \in Int, NEW e \in Int, Covers(db.store, a, d), Covers(db.store, b, e),
           NEW p \in Records("Transaction"), NEW q \in Records("Transaction"),
           NEW out, -out = d, NEW w, w = BothSides(v, p, q, out, e)
    PROVE  \E s : /\ Carrying(w, Booking, 4, db.store, s)
                  /\ PostedTwo(s, w.counter, a, d, b, e, p, q)
                  /\ Spared(s, {"Account", "Transaction"})
                  /\ w.objs[3].id = db.counter["Transaction"]
                  /\ w.objs[4].id = db.counter["Transaction"] + 1
                  /\ w.objs[4].data = q /\ db.counter["Transaction"] \in Positive
<1> DEFINE acc == db.store["Account"]
<1>1. PICK v1 : v1 = Change(v, 1, d)
  OBVIOUS
<1>2. PICK v2 : v2 = Record(v1, "Transaction", p)
  OBVIOUS
<1>3. PICK v3 : v3 = Change(v2, 2, e)
  OBVIOUS
<1>4. w = Record(v3, "Transaction", q)
  BY <1>1, <1>2, <1>3 DEF BothSides
<1>5. \E s : /\ Carrying(v1, Booking, 2, db.store, s)
             /\ (a # b => s["Account"] = [acc EXCEPT ![a] = Rounded(acc[a] + d)])
             /\ (a = b => But(s["Account"], acc, a))
             /\ \A c \in Classes : c # "Account" => s[c] = db.store[c]
  <2>1. CASE a # b
    <3>1. PICK x : x = Rounded(acc[a] + d)
      OBVIOUS
    <3>2. PICK s : s = Replaced(db.store, "Account", a, x)
      OBVIOUS
    <3>3. Carrying(v1, Booking, 2, db.store, s)
      BY <1>1, <2>1, <3>1, <3>2, BookingClasses, Counting, CarryChange
    <3>5. DOMAIN db.store = Classes
      BY CarryDomain
    <3>4. /\ s["Account"] = With(acc, a, x)
          /\ \A c \in Classes : c # "Account" => s[c] = db.store[c]
      BY <3>2, <3>5, AccountReplaced
    <3> QED
      BY <2>1, <3>1, <3>3, <3>4 DEF With
  <2>2. CASE a = b
    <3>1. \E s : /\ Carrying(v1, Booking, 2, db.store, s) /\ But(s["Account"], acc, a)
                 /\ \A c \in Classes : c # "Account" => s[c] = db.store[c]
      BY <1>1, BookingClasses, Counting, CarryChangeCopy
    <3> QED
      BY <2>2, <3>1
  <2> QED
    BY <2>1, <2>2
<1>6. PICK s1 : /\ Carrying(v1, Booking, 2, db.store, s1)
                /\ (a # b => s1["Account"] = [acc EXCEPT ![a] = Rounded(acc[a] + d)])
                /\ (a = b => But(s1["Account"], acc, a))
                /\ \A c \in Classes : c # "Account" => s1[c] = db.store[c]
  BY <1>5
<1>7. Keeps(v, v1) /\ v1.counter = v.counter /\ v1.objs[2] = v.objs[2]
  <2>1. /\ Keeps(v, v1) /\ v1.counter = v.counter
        /\ \A k \in 1..2 : k # 1 => v1.objs[k] = v.objs[k]
    BY <1>1, BookingClasses, Counting, CarryChangeCopy
  <2> QED
    BY <2>1
<1>8. PICK s2 : s2 = Appended(s1, "Transaction", p)
  OBVIOUS
<1>9. /\ Carrying(v2, Booking, 3, db.store, s2) /\ Keeps(v1, v2)
      /\ v2.counter["Transaction"] = v1.counter["Transaction"] + 1
      /\ v1.counter["Transaction"] \in Positive
      /\ v2.objs[3].id = v1.counter["Transaction"]
      /\ v2.objs[2] = v1.objs[2]
  <2>1. /\ Carrying(v2, Booking, 3, db.store, s2) /\ Keeps(v1, v2)
        /\ v2.counter["Transaction"] = v1.counter["Transaction"] + 1
        /\ v1.counter["Transaction"] \in Positive
        /\ v2.objs[3].id = v1.counter["Transaction"]
        /\ \A h \in 1..2 : v2.objs[h] = v1.objs[h]
    BY <1>2, <1>6, <1>8, Counting, CarryPosting
  <2> QED
    BY <2>1
<1>10. Holds(v2, 2, b) /\ Latest(v2, 2, "Account", b)
  <2>1. v2.store = v.store
    BY <1>9 DEF Carrying, Working
  <2> QED
    BY <1>7, <1>9, <2>1 DEF Holds, Keeps
<1>11. PICK y : y = Rounded(acc[b] + e)
  OBVIOUS
<1>12. PICK s3 : s3 = Replaced(s2, "Account", b, y)
  OBVIOUS
<1>13. /\ Carrying(v3, Booking, 3, db.store, s3) /\ v3.counter = v2.counter
       /\ v3.objs[3] = v2.objs[3]
  <2>1. /\ Carrying(v3, Booking, 3, db.store, s3) /\ v3.counter = v2.counter
        /\ \A k \in 1..3 : k # 2 => v3.objs[k] = v2.objs[k]
    BY <1>3, <1>9, <1>10, <1>11, <1>12, BookingClasses, Counting, CarryChange
  <2> QED
    BY <2>1
<1>14. PICK s4 : s4 = Appended(s3, "Transaction", q)
  OBVIOUS
<1>15. /\ Carrying(w, Booking, 4, db.store, s4)
       /\ w.counter["Transaction"] = v3.counter["Transaction"] + 1
       /\ w.objs[4].id = v3.counter["Transaction"] /\ w.objs[4].data = q
       /\ w.objs[3] = v3.objs[3]
  <2>1. /\ Carrying(w, Booking, 4, db.store, s4)
        /\ w.counter["Transaction"] = v3.counter["Transaction"] + 1
        /\ w.objs[4].id = v3.counter["Transaction"] /\ w.objs[4].data = q
        /\ \A h \in 1..3 : w.objs[h] = v3.objs[h]
    BY <1>4, <1>13, <1>14, Counting, CarryPosting
  <2> QED
    BY <2>1
<1>16. DOMAIN s1 = Classes /\ DOMAIN s2 = Classes /\ DOMAIN s3 = Classes
  BY <1>6, <1>9, <1>13, CarryDomain
<1>17. /\ s2["Transaction"] = Extended(s1["Transaction"], p)
       /\ \A c \in Classes : c # "Transaction" => s2[c] = s1[c]
  BY <1>8, <1>16, BookingClasses, AppendedAt
<1>18. /\ s3["Account"] = With(s2["Account"], b, y)
       /\ \A c \in Classes : c # "Account" => s3[c] = s2[c]
  BY <1>12, <1>16, AccountReplaced
<1>19. /\ s4["Transaction"] = Extended(s3["Transaction"], q)
       /\ \A c \in Classes : c # "Transaction" => s4[c] = s3[c]
  BY <1>14, <1>16, BookingClasses, AppendedAt
<1>20. /\ s4["Transaction"] = Extended(Extended(Transactions, p), q)
       /\ s4["Account"] = [s1["Account"] EXCEPT ![b] = y]
  BY <1>6, <1>17, <1>18, <1>19, BookingClasses DEF Transactions, With
<1>21. w.counter["Transaction"] = db.counter["Transaction"] + 2
  BY <1>7, <1>9, <1>13, <1>15 DEF Positive
<1>22. a # b => s4["Account"] = [acc EXCEPT ![a] = Rounded(acc[a] + d),
                                           ![b] = Rounded(acc[b] + e)]
  BY <1>6, <1>11, <1>20
<1>23. a = b => But(s4["Account"], acc, a)
  BY <1>6, <1>20 DEF But
<1>24. PostedTwo(s4, w.counter, a, d, b, e, p, q)
  BY <1>20, <1>21, <1>22, <1>23 DEF PostedTwo
<1>25. Spared(s4, {"Account", "Transaction"})
  BY <1>6, <1>17, <1>18, <1>19 DEF Spared
<1> QED
  BY <1>7, <1>9, <1>13, <1>15, <1>24, <1>25

---------------------------------------------------------------------------
(* What the requests do to the books: accounts, transactions, notes.       *)
(* d is the database after the request.                                    *)
Notifications == db.store["Notification"]

Note(a, x, t) == [account |-> a, amount |-> x, tx |-> t]

QuietBooks(d) ==
    /\ d.store["Account"] = db.store["Account"]
    /\ d.store["Transaction"] = Transactions
    /\ d.counter["Transaction"] = db.counter["Transaction"]
    /\ d.store["Notification"] = Notifications

(* A credit brings something. *)
Worthy(p) == p.type = "credit" => p.amount \in Nat

(* p is what was posted of the change x of a balance. *)
Means(p, x) ==
    /\ x \in Int /\ Net(p) = Rounded(x) /\ p.half = Halfway(x)
    /\ p.status = "pending" => ~p.half

OneBooked(d, p) ==
    /\ \E x : Means(p, x) /\ Posted(d.store, d.counter, p.account, x, p)
    /\ p.party = 0 /\ Worthy(p)
    /\ \/ d.store["Notification"] = Notifications
       \/ /\ p.status = "completed"
          /\ \E x \in Int : d.store["Notification"] =
                Extended(Notifications, Note(p.account, x, db.counter["Transaction"]))

TwoNotes(d, p, q) ==
    \E x \in Int :
        d.store["Notification"] =
            Extended(Extended(Notifications,
                              Note(p.account, x, db.counter["Transaction"])),
                     Note(q.account, x, db.counter["Transaction"] + 1))

TwoBooked(d, p, q) ==
    /\ \E x, y : /\ Means(p, x) /\ Means(q, y)
                 /\ PostedTwo(d.store, d.counter, p.account, x, q.account, y, p, q)
    /\ p.party = q.account /\ q.party = p.account
    /\ p.status = "completed" /\ q.status = "completed" /\ Worthy(p) /\ Worthy(q)
    /\ d.store["Notification"] = Notifications \/ TwoNotes(d, p, q)

OneGone(d, t) ==
    /\ Transactions[t].status = "pending"
    /\ d.store["Account"] = db.store["Account"]
    /\ d.store["Transaction"] = [i \in DOMAIN Transactions \ {t} |-> Transactions[i]]
    /\ d.counter["Transaction"] = db.counter["Transaction"]
    /\ d.store["Notification"] = Notifications

BooksEffect(d) ==
    \/ QuietBooks(d)
    \/ \E p \in Postings : OneBooked(d, p)
    \/ \E p, q \in Postings : TwoBooked(d, p, q)
    \/ \E t \in DOMAIN Transactions : OneGone(d, t)

GoalsKept(d) ==
    /\ d.store["Goal"] = Goals
    /\ d.store["GoalContribution"] = Contributions

LEMMA CarryNotified ==
    ASSUME NEW v, NEW n, NEW store, NEW s, Carrying(v, Booking, n, store, s),
           NEW t, Within(t, n), NEW i, v.objs[t].id = i, i \in Nat, NEW a \in Owned,
           NEW x, x \in Int, NEW note, note = Note(a, x, i),
           NEW k, After(n, k), NEW w, w = Notified(v, t, a, x)
    PROVE  /\ Carrying(w, Booking, k, store, Appended(s, "Notification", note))
           /\ w.counter["Transaction"] = v.counter["Transaction"]
           /\ \A h \in 1..n : w.objs[h] = v.objs[h]
<1>1. PICK c \in Booking : c = "Notification" /\ c \in Classes
  BY BookingClasses
<1>3. note \in Records(c)
  <2>1. note \in Notes
    BY DEF Note, Notes
  <2> QED
    BY <1>1, <2>1 DEF Records
<1>4. w = Record(v, c, note)
  BY <1>1 DEF Notified, Note
<1>5. /\ Carrying(w, Booking, k, store, Appended(s, c, note)) /\ Counted(v, w, c)
  BY <1>3, <1>4, BookingClasses, CarryRecord
<1>6. Working(v, Booking, n, store) /\ v.counter \in [Classes -> Positive]
  BY DEF Carrying, Working, Sound
<1>7. \A h \in 1..n : w.objs[h] = v.objs[h]
  <2>1. /\ w.objs[k] = [class |-> c, id |-> v.counter[c], tracked |-> FALSE, data |-> note]
        /\ \A h \in 1..n : w.objs[h] = v.objs[h]
    BY <1>3, <1>4, <1>6, BookingClasses, Recorded
  <2> QED
    BY <2>1
<1>8. w.counter["Transaction"] = v.counter["Transaction"]
  BY <1>1, <1>5, <1>6 DEF Counted
<1> QED
  BY <1>1, <1>5, <1>7, <1>8

LEMMA CarryEnd ==
    ASSUME NEW M \in Makes, NEW v, NEW n, NEW store, NEW s, Carrying(v, M, n, store, s),
           NEW d, d = Close(Commit(v))
    PROVE  (\A c \in Classes : d.store[c] = s[c]) /\ d.counter = v.counter
BY CarryClose

(* One transaction, with a notification or without. *)
LEMMA PostingParts ==
    ASSUME NEW a \in Owned, NEW x \in Int, NEW type \in TransactionTypes,
           NEW party \in Owned \cup {0}, NEW p, p = Posting(a, x, type, party)
    PROVE  /\ p \in Postings /\ p.account = a /\ p.party = party /\ p.status = "completed"
           /\ p.type = type /\ p.amount = Rounded(x)
           /\ Means(p, IF type = "debit" THEN -x ELSE x)
<1>1. /\ p.account = a /\ p.party = party /\ p.status = "completed" /\ p.type = type
      /\ p.amount = Rounded(x) /\ p.half = Halfway(x)
  BY DEF Posting
<1>2. p \in Postings
  BY PostingTyped DEF Records
<1>3. PICK d : d = -x /\ d \in Int
  OBVIOUS
<1>4. Rounded(d) = -Rounded(x) /\ Halfway(d) = Halfway(x)
  BY <1>3, RoundedNegated, HalfwayNegated
<1>5. CASE type = "debit"
  BY <1>1, <1>2, <1>3, <1>4, <1>5 DEF Means, Net
<1>6. CASE type # "debit"
  BY <1>1, <1>2, <1>6 DEF Means, Net
<1> QED
  BY <1>5, <1>6

(* The one of what was at least nothing has an amount of that kind. *)
LEMMA PostingWorthy ==
    ASSUME NEW a, NEW x \in Nat, NEW type, NEW party, NEW p, p = Posting(a, x, type, party)
    PROVE  Worthy(p) /\ p.amount \in Nat
<1>1. Rounded(x) \in Nat
  BY RoundedNatural
<1> QED
  BY <1>1 DEF Posting, Worthy

LEMMA BookedEffect ==
    ASSUME BooksSound(db), NEW p \in Postings, p.account \in Accounts, p.party = 0,
           Worthy(p),
           NEW d, Means(p, d), d \in Int, Covers(db.store, p.account, d),
           db' = Close(Booked(p.account, d, p))
    PROVE  OneBooked(db', p) /\ GoalsKept(db')
<1>1. PICK v : v = Record(Change(Holding(p.account), 1, d), "Transaction", p)
  OBVIOUS
<1>2. p \in Records("Transaction")
  BY DEF Records
<1>3. PICK s : /\ Carrying(v, Booking, 2, db.store, s)
               /\ Posted(s, v.counter, p.account, d, p)
               /\ Spared(s, {"Account", "Transaction"})
  BY <1>1, <1>2, CarryBooked
<1>4. db' = Close(Commit(v))
  BY <1>1 DEF Booked
<1>5. (\A c \in Classes : db'.store[c] = s[c]) /\ db'.counter = v.counter
  BY <1>3, <1>4, BookingClasses, CarryEnd
<1>6. Posted(db'.store, db'.counter, p.account, d, p)
  BY <1>3, <1>5, BookingClasses DEF Posted
<1>7. db'.store["Notification"] = Notifications /\ GoalsKept(db')
  BY <1>3, <1>5, BookingClasses DEF Spared, Notifications, GoalsKept, Goals, Contributions
<1> QED
  BY <1>6, <1>7 DEF OneBooked

LEMMA TransferExternalEffect ==
    ASSUME BooksSound(db), NEW a \in Accounts, NEW x \in Amounts, TransferExternal(a, x)
    PROVE  BooksEffect(db') /\ GoalsKept(db')
<1>1. x \in Int /\ -x \in Int /\ a \in Owned /\ Balance(a) >= x
  BY AmountFacts, BalanceTyped DEF TransferExternal
<1>2. PICK p : p = Posting(a, x, "debit", 0)
  OBVIOUS
<1>3. /\ p \in Postings /\ p.account = a /\ p.party = 0 /\ p.status = "completed"
      /\ Means(p, -x) /\ Worthy(p)
  BY <1>1, <1>2, PostingParts, TypeFacts DEF Worthy
<1>4. PICK v : v = Record(Change(Holding(a), 1, -x), "Transaction", p)
  OBVIOUS
<1>5. p \in Records("Transaction") /\ Covers(db.store, a, -x)
  BY <1>1, <1>3, TakesLess DEF Records
<1>6. PICK s : /\ Carrying(v, Booking, 2, db.store, s)
               /\ Posted(s, v.counter, a, -x, p)
               /\ Spared(s, {"Account", "Transaction"})
               /\ v.objs[2].id = db.counter["Transaction"]
  BY <1>1, <1>4, <1>5, CarryBooked
<1>7. PICK w : w = Notified(v, 2, a, x)
  OBVIOUS
<1>8. PICK i : i = db.counter["Transaction"] /\ i \in Nat
  BY BookingClasses DEF BooksSound, Positive
<1>20. PICK note : note = Note(a, x, i)
  OBVIOUS
<1>9. PICK r : r = Appended(s, "Notification", note)
  OBVIOUS
<1>10. /\ Carrying(w, Booking, 3, db.store, r)
       /\ w.counter["Transaction"] = v.counter["Transaction"]
  <2>1. PICK t : t = 2
    OBVIOUS
  <2>2. Within(t, 2) /\ After(2, 3) /\ v.objs[t].id = i /\ w = Notified(v, t, a, x)
    BY <1>6, <1>7, <1>8, <2>1, Counting
  <2>3. /\ Carrying(w, Booking, 3, db.store, Appended(s, "Notification", note))
        /\ w.counter["Transaction"] = v.counter["Transaction"]
        /\ \A h \in 1..2 : w.objs[h] = v.objs[h]
    BY <1>1, <1>6, <1>8, <1>20, <2>2, CarryNotified
  <2> QED
    BY <1>9, <2>3
<1>11. db' = Close(Commit(w))
  BY <1>2, <1>4, <1>7 DEF TransferExternal
<1>12. (\A c \in Classes : db'.store[c] = r[c]) /\ db'.counter = w.counter
  BY <1>10, <1>11, BookingClasses, CarryEnd
<1>13. /\ r["Notification"] = Extended(s["Notification"], note)
       /\ \A c \in Classes : c # "Notification" => r[c] = s[c]
  <2>1. DOMAIN s = Classes
    BY <1>6, CarryDomain
  <2> QED
    BY <1>9, <2>1, BookingClasses, AppendedAt
<1>14. Posted(db'.store, db'.counter, a, -x, p)
  BY <1>6, <1>10, <1>12, <1>13, BookingClasses DEF Posted
<1>15. /\ db'.store["Notification"] = Extended(Notifications, Note(a, x, i))
       /\ GoalsKept(db')
  BY <1>6, <1>12, <1>13, <1>20, BookingClasses
     DEF Spared, Notifications, GoalsKept, Goals, Contributions
<1>16. OneBooked(db', p)
  BY <1>1, <1>3, <1>8, <1>14, <1>15 DEF OneBooked
<1> QED
  BY <1>3, <1>15, <1>16 DEF BooksEffect

(* A transfer between two accounts: p is the debit of out, q the credit of in. *)
Sides(p, q, out, in) ==
    /\ p \in Postings /\ q \in Postings
    /\ p.account \in Accounts /\ q.account \in Accounts
    /\ p.party = q.account /\ q.party = p.account
    /\ p.status = "completed" /\ q.status = "completed"
    /\ out \in Int /\ in \in Nat /\ Means(p, -out) /\ Means(q, in)
    /\ Worthy(p) /\ Worthy(q)

LEMMA SidesParts ==
    ASSUME NEW p, NEW q, NEW out, NEW in, Sides(p, q, out, in), BooksSound(db)
    PROVE  /\ p \in Records("Transaction") /\ q \in Records("Transaction")
           /\ out \in Int /\ in \in Nat /\ -out \in Int /\ Means(p, -out) /\ Means(q, in)
           /\ p.account \in Owned /\ q.account \in Owned
BY DEF Sides, Records, BooksSound, Accounts

LEMMA SidesMade ==
    ASSUME BooksSound(db), NEW a \in Accounts, NEW b \in Accounts,
           NEW out, out \in Int, NEW in, in \in Nat,
           NEW p, p = Posting(a, out, "debit", b), NEW q, q = Posting(b, in, "credit", a)
    PROVE  Sides(p, q, out, in) /\ p.account = a /\ q.account = b
<1>1. a \in Owned /\ b \in Owned /\ in \in Int
  BY BalanceTyped
<1>2. /\ p \in Postings /\ p.account = a /\ p.party = b /\ p.status = "completed"
      /\ p.type = "debit" /\ Means(p, -out)
  BY <1>1, PostingParts, TypeFacts
<1>3. /\ q \in Postings /\ q.account = b /\ q.party = a /\ q.status = "completed"
      /\ Means(q, in)
  BY <1>1, PostingParts, TypeFacts
<1>4. Worthy(p) /\ Worthy(q)
  BY <1>2, PostingWorthy DEF Worthy
<1> QED
  BY <1>1, <1>2, <1>3, <1>4 DEF Sides

LEMMA CarryMoved ==
    ASSUME BooksSound(db), NEW p, NEW q, NEW out, NEW in, Sides(p, q, out, in),
           Guarded(p.account) => Balance(p.account) >= out,
           NEW w, w = BothSides(Load(Holding(p.account), "Account", q.account), p, q,
                                out, in)
    PROVE  \E s : /\ Carrying(w, Booking, 4, db.store, s)
                  /\ PostedTwo(s, w.counter, p.account, -out, q.account, in, p, q)
                  /\ Spared(s, {"Account", "Transaction"})
                  /\ w.objs[3].id = db.counter["Transaction"]
                  /\ w.objs[4].id = db.counter["Transaction"] + 1
                  /\ w.objs[4].data = q /\ db.counter["Transaction"] \in Positive
<1>1. PICK a, b : a = p.account /\ b = q.account
  OBVIOUS
<1>2. PICK d, e : d = -out /\ e = in
  OBVIOUS
<1>3. /\ a \in Accounts /\ b \in Accounts /\ a \in Owned /\ b \in Owned
      /\ d \in Int /\ e \in Int /\ e \in Nat /\ out \in Int /\ -out = d
      /\ p \in Records("Transaction") /\ q \in Records("Transaction")
  <2>1. a \in Accounts /\ b \in Accounts
    BY <1>1 DEF Sides
  <2> QED
    BY <1>1, <1>2, <2>1, SidesParts
<1>4. Covers(db.store, a, d) /\ Covers(db.store, b, e)
  <2>1. Covers(db.store, a, -out)
    BY <1>1, <1>2, <1>3, TakesLess
  <2> QED
    BY <1>3, <2>1, BringsMore
<1>5. PICK v : v = Load(Holding(a), "Account", b)
  OBVIOUS
<1>6. /\ Carrying(v, Booking, 2, db.store, db.store) /\ v.counter = db.counter
      /\ Holds(v, 1, a) /\ Holds(v, 2, b) /\ InSeq(1, v.updates)
      /\ Latest(v, 2, "Account", b) /\ (a # b => Latest(v, 1, "Account", a))
  BY <1>3, <1>5, BookingClasses, CarryTwo
<1>7. w = BothSides(v, p, q, out, e)
  BY <1>1, <1>2, <1>3, <1>5
<1> QED
  BY <1>1, <1>2, <1>3, <1>4, <1>6, <1>7, CarryBothSides

(* Both sides, each with a notification of it. *)
LEMMA MovedEffect ==
    ASSUME BooksSound(db), NEW p, NEW q, NEW out, NEW in, Sides(p, q, out, in),
           Guarded(p.account) => Balance(p.account) >= out,
           NEW x, x \in Int, NEW w,
           w = BothSides(Load(Holding(p.account), "Account", q.account), p, q,
                         out, in),
           db' = Close(Commit(Notified(Notified(w, 3, p.account, x), 4, q.account, x)))
    PROVE  BooksEffect(db') /\ GoalsKept(db')
<1>1. PICK s : /\ Carrying(w, Booking, 4, db.store, s)
               /\ PostedTwo(s, w.counter, p.account, -out, q.account, in, p, q)
               /\ Spared(s, {"Account", "Transaction"})
               /\ w.objs[3].id = db.counter["Transaction"]
               /\ w.objs[4].id = db.counter["Transaction"] + 1
               /\ db.counter["Transaction"] \in Positive
  BY CarryMoved
<1>2. PICK a, b : a = p.account /\ b = q.account
  OBVIOUS
<1>3. a \in Owned /\ b \in Owned
  BY <1>2, SidesParts
<1>4. PICK i, j : i = db.counter["Transaction"] /\ j = i + 1 /\ i \in Nat /\ j \in Nat
  BY <1>1 DEF Positive
<1>5. PICK n1, n2 : n1 = Note(a, x, i) /\ n2 = Note(b, x, j)
  OBVIOUS
<1>6. PICK w1 : w1 = Notified(w, 3, a, x)
  OBVIOUS
<1>7. PICK w2 : w2 = Notified(w1, 4, b, x)
  OBVIOUS
<1>8. PICK s1 : s1 = Appended(s, "Notification", n1)
  OBVIOUS
<1>9. PICK s2 : s2 = Appended(s1, "Notification", n2)
  OBVIOUS
<1>10. PICK t3, t4 : t3 = 3 /\ t4 = 4
  OBVIOUS
<1>11. /\ Carrying(w1, Booking, 5, db.store, s1)
       /\ w1.counter["Transaction"] = w.counter["Transaction"]
       /\ w1.objs[t4].id = j
  <2>1. Within(t3, 4) /\ After(4, 5) /\ w.objs[t3].id = i /\ w1 = Notified(w, t3, a, x)
    BY <1>1, <1>4, <1>6, <1>10, Counting
  <2>2. /\ Carrying(w1, Booking, 5, db.store, Appended(s, "Notification", n1))
        /\ w1.counter["Transaction"] = w.counter["Transaction"]
        /\ \A h \in 1..4 : w1.objs[h] = w.objs[h]
    BY <1>1, <1>3, <1>4, <1>5, <2>1, CarryNotified
  <2>3. t4 \in 1..4
    BY <1>10
  <2> QED
    BY <1>1, <1>4, <1>8, <1>10, <2>2, <2>3
<1>12. /\ Carrying(w2, Booking, 6, db.store, s2)
       /\ w2.counter["Transaction"] = w.counter["Transaction"]
  <2>1. Within(t4, 5) /\ After(5, 6) /\ w2 = Notified(w1, t4, b, x)
    BY <1>7, <1>10, Counting
  <2>2. /\ Carrying(w2, Booking, 6, db.store, Appended(s1, "Notification", n2))
        /\ w2.counter["Transaction"] = w1.counter["Transaction"]
        /\ \A h \in 1..5 : w2.objs[h] = w1.objs[h]
    BY <1>3, <1>4, <1>5, <1>11, <2>1, CarryNotified
  <2> QED
    BY <1>9, <1>11, <2>2
<1>13. DOMAIN s = Classes /\ DOMAIN s1 = Classes
  BY <1>1, <1>11, CarryDomain
<1>14. /\ s1["Notification"] = Extended(s["Notification"], n1)
       /\ \A c \in Classes : c # "Notification" => s1[c] = s[c]
  BY <1>8, <1>13, BookingClasses, AppendedAt
<1>15. /\ s2["Notification"] = Extended(s1["Notification"], n2)
       /\ \A c \in Classes : c # "Notification" => s2[c] = s1[c]
  BY <1>9, <1>13, BookingClasses, AppendedAt
<1>16. db' = Close(Commit(w2))
  BY <1>2, <1>6, <1>7
<1>17. (\A c \in Classes : db'.store[c] = s2[c]) /\ db'.counter = w2.counter
  BY <1>12, <1>16, BookingClasses, CarryEnd
<1>18. PostedTwo(db'.store, db'.counter, p.account, -out, q.account, in, p, q)
  BY <1>1, <1>12, <1>14, <1>15, <1>17, BookingClasses DEF PostedTwo
<1>19. TwoNotes(db', p, q)
  BY <1>1, <1>2, <1>4, <1>5, <1>14, <1>15, <1>17, BookingClasses
     DEF TwoNotes, Spared, Notifications
<1>20. GoalsKept(db')
  BY <1>1, <1>14, <1>15, <1>17, BookingClasses DEF Spared, GoalsKept, Goals, Contributions
<1>21. TwoBooked(db', p, q)
  BY <1>18, <1>19 DEF TwoBooked, Sides
<1> QED
  BY <1>20, <1>21 DEF BooksEffect, Sides

LEMMA TransferMoneyEffect ==
    ASSUME BooksSound(db), NEW a \in Accounts, NEW b \in Accounts, NEW x \in Amounts,
           TransferMoney(a, b, x)
    PROVE  BooksEffect(db') /\ GoalsKept(db')
<1>1. x \in Nat /\ x \in Int
  BY AmountFacts
<1>2. PICK p, q : p = Posting(a, x, "debit", b) /\ q = Posting(b, x, "credit", a)
  OBVIOUS
<1>3. Sides(p, q, x, x) /\ p.account = a /\ q.account = b
  BY <1>1, <1>2, SidesMade
<1>4. PICK w : w = BothSides(Load(Holding(a), "Account", b), p, q, x, x)
  OBVIOUS
<1>5. /\ Balance(a) >= x
      /\ db' = Close(Commit(Notified(Notified(w, 3, a, x), 4, b, x)))
  BY <1>2, <1>4 DEF TransferMoney
<1> QED
  BY <1>1, <1>3, <1>4, <1>5, MovedEffect

LEMMA SendMoneyEffect ==
    ASSUME BooksSound(db), NEW a \in Accounts, NEW u \in Users, NEW x \in Amounts,
           NEW fee \in Fees, SendMoney(a, u, x, fee)
    PROVE  BooksEffect(db') /\ GoalsKept(db')
<1>1. x \in Nat /\ x \in Int /\ x + fee \in Int
  BY AmountFacts, RequestAssumption
<1>2. PICK b \in Accounts : b = DefaultAccount(u)
  <2>1. \E c \in Accounts : Owner[c] = u
    BY DEF SendMoney
  <2> DEFINE C == {c \in Accounts : Owner[c] = u}
  <2>2. C \subseteq Nat /\ C # {}
    <3>1. Accounts \subseteq Positive
      BY IdsArePositive, ClassFacts DEF Accounts, BooksSound
    <3> QED
      BY <2>1, <3>1 DEF Positive
  <2> HIDE DEF C
  <2>3. PICK c \in C : \A d \in C : c <= d
    BY <2>2, LeastNatural
  <2>4. \E c1 \in Accounts : Owner[c1] = u /\ \A d \in Accounts : Owner[d] = u => c1 <= d
    BY <2>3 DEF C
  <2> QED
    BY <2>4 DEF DefaultAccount
<1>3. PICK out : out = x + fee /\ out \in Int
  BY <1>1
<1>4. PICK p, q : p = Posting(a, out, "debit", b) /\ q = Posting(b, x, "credit", a)
  OBVIOUS
<1>5. Sides(p, q, out, x) /\ p.account = a /\ q.account = b
  BY <1>1, <1>2, <1>3, <1>4, SidesMade
<1>6. PICK w : w = BothSides(Load(Holding(a), "Account", b), p, q, out, x)
  OBVIOUS
<1>7. /\ Balance(a) >= out
      /\ db' = Close(Commit(Notified(Notified(w, 3, a, x), 4, b, x)))
  BY <1>2, <1>3, <1>4, <1>6 DEF SendMoney
<1> QED
  BY <1>1, <1>5, <1>6, <1>7, MovedEffect

(* The bookings of one transaction on one account. *)
LEMMA OneBookedEffect ==
    ASSUME BooksSound(db), NEW a \in Accounts, NEW d, d \in Int, Covers(db.store, a, d),
           NEW p, p \in Postings, p.account = a, p.party = 0, Means(p, d), Worthy(p),
           db' = Close(Booked(a, d, p))
    PROVE  BooksEffect(db') /\ GoalsKept(db')
BY BookedEffect DEF BooksEffect

LEMMA DebitEffect ==
    ASSUME BooksSound(db), NEW a \in Accounts, NEW x \in Int,
           Guarded(a) => Balance(a) >= x,
           db' = Close(Booked(a, -x, Posting(a, x, "debit", 0)))
    PROVE  BooksEffect(db') /\ GoalsKept(db')
<1>1. -x \in Int /\ a \in Owned
  BY BalanceTyped
<1>2. PICK p : p = Posting(a, x, "debit", 0)
  OBVIOUS
<1>3. p \in Postings /\ p.account = a /\ p.party = 0 /\ Means(p, -x) /\ Worthy(p)
  BY <1>1, <1>2, PostingParts, TypeFacts DEF Worthy
<1>4. db' = Close(Booked(a, -x, p))
  BY <1>2
<1>5. PICK d : d = -x /\ d \in Int /\ Covers(db.store, a, d)
  BY <1>1, TakesLess
<1> QED
  BY <1>3, <1>4, <1>5, OneBookedEffect

LEMMA DepositMoneyEffect ==
    ASSUME BooksSound(db), NEW a \in Accounts, NEW x \in Amounts, DepositMoney(a, x)
    PROVE  BooksEffect(db') /\ GoalsKept(db')
<1>1. x \in Int /\ x \in Nat /\ a \in Owned
  BY AmountFacts, BalanceTyped
<1>2. PICK p : p = Posting(a, x, "credit", 0)
  OBVIOUS
<1>3. p \in Postings /\ p.account = a /\ p.party = 0 /\ Means(p, x) /\ Worthy(p)
  BY <1>1, <1>2, PostingParts, PostingWorthy, TypeFacts
<1>4. db' = Close(Booked(a, x, p))
  BY <1>2 DEF DepositMoney
<1> QED
  BY <1>1, <1>3, <1>4, BringsMore, OneBookedEffect

LEMMA P2PEffect ==
    ASSUME BooksSound(db), NEW a \in Accounts, NEW x \in Amounts, NEW instant \in BOOLEAN,
           CreateP2PTransfer(a, x, instant)
    PROVE  BooksEffect(db') /\ GoalsKept(db')
<1>1. PICK total \in Int : total = IF instant THEN x + x \div 100 ELSE x
  <2>1. x \in Int
    BY AmountFacts
  <2> QED
    BY <2>1
<1>2. -total \in Int /\ a \in Owned /\ Balance(a) >= total
  BY <1>1, BalanceTyped DEF CreateP2PTransfer
<1>3. PICK p : p = [Posting(a, -total, "p2p_transfer", 0) EXCEPT
                       !.status = IF instant THEN "completed" ELSE "pending"]
  OBVIOUS
<1>7. PICK q : q = Posting(a, -total, "p2p_transfer", 0)
  OBVIOUS
<1>8. /\ q \in Postings /\ q.account = a /\ q.party = 0 /\ q.type = "p2p_transfer"
      /\ Means(q, -total)
  BY <1>2, <1>7, PostingParts DEF TransactionTypes
<1>9. PICK status \in {"completed", "pending"} :
         status = IF instant THEN "completed" ELSE "pending"
  OBVIOUS
<1>10. p = [q EXCEPT !.status = status]
  BY <1>3, <1>7, <1>9
<1>11. /\ p \in Postings /\ p.account = a /\ p.party = 0 /\ p.type = "p2p_transfer"
       /\ p.amount = q.amount /\ p.half = q.half /\ p.status = status
  BY <1>8, <1>10 DEF Postings
<1>12. status = "pending" => ~q.half
  <2>1. ASSUME status = "pending"
        PROVE  ~Halfway(-total)
    <3>1. total \in Int /\ Whole(total)
      BY <1>1, <1>9, <2>1 DEF CreateP2PTransfer
    <3> QED
      BY <3>1, RoundedWhole, HalfwayNegated
  <2> QED
    BY <1>8, <2>1 DEF Means
<1>4. p \in Postings /\ p.account = a /\ p.party = 0 /\ Means(p, -total) /\ Worthy(p)
  BY <1>8, <1>11, <1>12 DEF Means, Net, Worthy
<1>5. PICK d : d = -total /\ d \in Int /\ Covers(db.store, a, d)
  BY <1>2, TakesLess
<1>6. db' = Close(Booked(a, d, p))
  BY <1>1, <1>3, <1>5 DEF CreateP2PTransfer
<1> QED
  BY <1>4, <1>5, <1>6, OneBookedEffect

LEMMA CompanyEffect ==
    ASSUME BooksSound(db), NEW a \in Accounts, NEW x \in Charges,
           RecordExpense(a, x) \/ ProcessPayroll(a, x)
    PROVE  BooksEffect(db') /\ GoalsKept(db')
<1>1. a \in Business /\ db' = Close(Booked(a, -x, Posting(a, x, "debit", 0)))
  BY DEF RecordExpense, ProcessPayroll
<1>2. ~Guarded(a)
  BY <1>1 DEF Guarded
<1>3. x \in Int
  BY RequestAssumption
<1> QED
  BY <1>1, <1>2, <1>3, DebitEffect

LEMMA WithdrawMoneyEffect ==
    ASSUME BooksSound(db), NEW a \in Accounts, NEW x \in Amounts, WithdrawMoney(a, x)
    PROVE  BooksEffect(db') /\ GoalsKept(db')
BY DebitEffect, AmountFacts DEF WithdrawMoney

(* The card's account is object 1 and the paying account object 2. *)
LEMMA PayCardEffect ==
    ASSUME BooksSound(db), NEW a \in Accounts, NEW b \in Accounts, NEW x \in Amounts,
           PayCard(b, a, x)
    PROVE  BooksEffect(db') /\ GoalsKept(db')
<1> DEFINE acc == db.store["Account"]
<1>1. /\ x \in Nat /\ x \in Int /\ a \in Owned /\ b \in Owned
      /\ Covers(db.store, a, -x) /\ Covers(db.store, b, x)
  <2>1. Balance(a) >= x
    BY DEF PayCard
  <2> QED
    BY <2>1, AmountFacts, BalanceTyped, TakesLess, BringsMore
<1>2. PICK p, q : p = Posting(a, x, "debit", b) /\ q = Posting(b, x, "credit", a)
  OBVIOUS
<1>3. /\ Sides(p, q, x, x) /\ p.account = a /\ q.account = b
      /\ p \in Records("Transaction") /\ q \in Records("Transaction")
  <2>1. Sides(p, q, x, x) /\ p.account = a /\ q.account = b
    BY <1>1, <1>2, SidesMade
  <2> QED
    BY <2>1, SidesParts
<1>4. PICK d : d = -x /\ d \in Int
  BY <1>1
<1>5. PICK v : v = Load(Holding(b), "Account", a)
  OBVIOUS
<1>6. PICK v1 : v1 = Change(v, 2, d)
  OBVIOUS
<1>7. PICK v2 : v2 = Change(v1, 1, x)
  OBVIOUS
<1>8. PICK v3 : v3 = Record(v2, "Transaction", p)
  OBVIOUS
<1>9. PICK v4 : v4 = Record(v3, "Transaction", q)
  OBVIOUS
<1>10. /\ Carrying(v, Booking, 2, db.store, db.store) /\ v.counter = db.counter
       /\ Holds(v, 1, b) /\ Holds(v, 2, a) /\ InSeq(1, v.updates)
       /\ Latest(v, 2, "Account", a) /\ (b # a => Latest(v, 1, "Account", b))
  BY <1>5, BookingClasses, CarryTwo
<1>11. PICK y : y = Rounded(acc[a] + d)
  OBVIOUS
<1>12. PICK s1 : s1 = Replaced(db.store, "Account", a, y)
  OBVIOUS
<1>13. /\ Carrying(v1, Booking, 2, db.store, s1) /\ Keeps(v, v1) /\ v1.counter = v.counter
       /\ v1.objs[1] = v.objs[1]
  <2>1. Covers(db.store, a, d)
    BY <1>1, <1>4
  <2>2. /\ Carrying(v1, Booking, 2, db.store, s1) /\ Keeps(v, v1) /\ v1.counter = v.counter
        /\ \A k \in 1..2 : k # 2 => v1.objs[k] = v.objs[k]
    BY <1>1, <1>4, <1>6, <1>10, <1>11, <1>12, <2>1, BookingClasses, Counting, CarryChange
  <2> QED
    BY <2>2
<1>14. s1["Account"] = With(acc, a, y) /\ \A c \in Classes : c # "Account" => s1[c] = db.store[c]
  <2>1. DOMAIN db.store = Classes
    BY <1>10, CarryDomain
  <2> QED
    BY <1>12, <2>1, AccountReplaced
<1>15. Holds(v1, 1, b) /\ InSeq(1, v1.updates) /\ (b # a => Latest(v1, 1, "Account", b))
  <2>1. v1.store = v.store
    BY <1>10, <1>13 DEF Carrying, Working
  <2> QED
    BY <1>10, <1>13, <2>1 DEF Holds, Keeps
<1>16. v2.counter = v1.counter /\
       \E s : /\ Carrying(v2, Booking, 2, db.store, s)
              /\ (a # b => s["Account"] = [acc EXCEPT ![a] = Rounded(acc[a] + d),
                                                 ![b] = Rounded(acc[b] + x)])
              /\ (a = b => But(s["Account"], acc, a))
              /\ \A c \in Classes : c # "Account" => s[c] = db.store[c]
  <2>1. CASE a # b
    <3>1. PICK z : z = Rounded(acc[b] + x)
      OBVIOUS
    <3>2. PICK s : s = Replaced(s1, "Account", b, z)
      OBVIOUS
    <3>3. Carrying(v2, Booking, 2, db.store, s) /\ v2.counter = v1.counter
      BY <1>1, <1>7, <1>13, <1>15, <2>1, <3>1, <3>2, BookingClasses, Counting, CarryChange
    <3>4. DOMAIN s1 = Classes
      BY <1>13, CarryDomain
    <3>5. /\ s["Account"] = With(s1["Account"], b, z)
          /\ \A c \in Classes : c # "Account" => s[c] = s1[c]
      BY <3>2, <3>4, AccountReplaced
    <3>6. s["Account"] = [acc EXCEPT ![a] = Rounded(acc[a] + d),
                                                 ![b] = Rounded(acc[b] + x)]
      BY <1>11, <1>14, <3>1, <3>5 DEF With
    <3> QED
      BY <1>14, <2>1, <3>3, <3>5, <3>6
  <2>2. CASE a = b
    <3>1. /\ \E s : /\ Carrying(v2, Booking, 2, db.store, s)
                    /\ But(s["Account"], s1["Account"], b)
                    /\ \A c \in Classes : c # "Account" => s[c] = s1[c]
          /\ v2.counter = v1.counter
      BY <1>1, <1>7, <1>13, <1>15, BookingClasses, Counting, CarryChangeCopy
    <3> QED
      BY <1>14, <2>2, <3>1 DEF But, With
  <2> QED
    BY <2>1, <2>2
<1>17. PICK s2 : /\ Carrying(v2, Booking, 2, db.store, s2)
                 /\ (a # b => s2["Account"] = [acc EXCEPT ![a] = Rounded(acc[a] + d),
                                                          ![b] = Rounded(acc[b] + x)])
                 /\ (a = b => But(s2["Account"], acc, a))
                 /\ \A c \in Classes : c # "Account" => s2[c] = db.store[c]
  BY <1>16
<1>18. PICK s3 : s3 = Appended(s2, "Transaction", p)
  OBVIOUS
<1>19. PICK s4 : s4 = Appended(s3, "Transaction", q)
  OBVIOUS
<1>20. /\ Carrying(v3, Booking, 3, db.store, s3)
       /\ v3.counter["Transaction"] = v2.counter["Transaction"] + 1
       /\ v2.counter["Transaction"] \in Positive
  BY <1>3, <1>8, <1>17, <1>18, Counting, CarryPosting
<1>21. /\ Carrying(v4, Booking, 4, db.store, s4)
       /\ v4.counter["Transaction"] = v3.counter["Transaction"] + 1
  BY <1>3, <1>9, <1>19, <1>20, Counting, CarryPosting
<1>22. DOMAIN s2 = Classes /\ DOMAIN s3 = Classes
  BY <1>17, <1>20, CarryDomain
<1>23. /\ s3["Transaction"] = Extended(s2["Transaction"], p)
       /\ \A c \in Classes : c # "Transaction" => s3[c] = s2[c]
  BY <1>18, <1>22, BookingClasses, AppendedAt
<1>24. /\ s4["Transaction"] = Extended(s3["Transaction"], q)
       /\ \A c \in Classes : c # "Transaction" => s4[c] = s3[c]
  BY <1>19, <1>22, BookingClasses, AppendedAt
<1>25. db' = Close(Commit(v4))
  BY <1>2, <1>4, <1>5, <1>6, <1>7, <1>8, <1>9 DEF PayCard
<1>26. (\A c \in Classes : db'.store[c] = s4[c]) /\ db'.counter = v4.counter
  BY <1>21, <1>25, BookingClasses, CarryEnd
<1>27. /\ db'.store["Transaction"] = Extended(Extended(Transactions, p), q)
       /\ db'.store["Account"] = s2["Account"]
       /\ db'.store["Notification"] = Notifications /\ GoalsKept(db')
  BY <1>17, <1>23, <1>24, <1>26, BookingClasses
     DEF Transactions, Notifications, GoalsKept, Goals, Contributions
<1>28. db'.counter["Transaction"] = db.counter["Transaction"] + 2
  <2>1. v2.counter = db.counter
    BY <1>10, <1>13, <1>16
  <2> QED
    BY <1>20, <1>21, <1>26, <2>1 DEF Positive
<1>29. PostedTwo(db'.store, db'.counter, a, -x, b, x, p, q)
  BY <1>3, <1>4, <1>17, <1>27, <1>28 DEF PostedTwo
<1>30. TwoBooked(db', p, q)
  BY <1>3, <1>27, <1>29 DEF TwoBooked, Sides
<1> QED
  BY <1>3, <1>27, <1>30 DEF BooksEffect, Sides

(* The credit side of a transfer has a party: the goals are not seen to. *)
LEMMA PassedOver ==
    ASSUME NEW u, NEW t, u.objs[t].data.party # 0
    PROVE  ProcessTransactionForGoals(u, t) = u
BY Zenon DEF ProcessTransactionForGoals

LEMMA CreateTransferEffect ==
    ASSUME BooksSound(db), NEW a \in Accounts, NEW b \in Accounts, NEW x \in Amounts,
           CreateTransfer(a, b, x)
    PROVE  BooksEffect(db') /\ GoalsKept(db')
<1>1. x \in Nat /\ x \in Int
  BY AmountFacts
<1>2. PICK p, q : p = Posting(a, x, "debit", b) /\ q = Posting(b, x, "credit", a)
  OBVIOUS
<1>3. Sides(p, q, x, x) /\ p.account = a /\ q.account = b
  BY <1>1, <1>2, SidesMade
<1>4. PICK w : w = BothSides(Load(Holding(a), "Account", b), p, q, x, x)
  OBVIOUS
<1>5. /\ Guarded(a) => Balance(a) >= x
      /\ db' = Close(ProcessTransactionForGoals(Commit(w), 4))
  BY <1>2, <1>4 DEF CreateTransfer, SufficientFunds, Guarded
<1>6. PICK s : /\ Carrying(w, Booking, 4, db.store, s)
               /\ PostedTwo(s, w.counter, p.account, -x, q.account, x, p, q)
               /\ Spared(s, {"Account", "Transaction"})
               /\ w.objs[4].data = q
  BY <1>3, <1>4, <1>5, CarryMoved
<1>7. PICK u : u = Commit(w)
  OBVIOUS
<1>8. u.objs[4].data.party # 0
  <2>1. PICK t \in 1..4 : t = 4
    OBVIOUS
  <2>2. Working(w, Booking, 4, db.store)
    BY <1>6, CarryDomain
  <2>3. Sound(w, Booking) /\ t \in 1..Len(w.objs) /\ w.objs[t] \in Objects
    <3>1. Sound(w, Booking) /\ Len(w.objs) = 4
      BY <2>2 DEF Working
    <3>2. w.objs \in Seq(Objects)
      BY <3>1 DEF Sound, ObjectsSound
    <3> QED
      BY <2>1, <3>1, <3>2
  <2>4. u.objs[t] = [w.objs[t] EXCEPT !.id = IdAfter(w, t)]
    BY <1>7, <2>3, BookingClasses, CommitFacts
  <2>5. u.objs[t].data = q
    BY <1>6, <2>1, <2>3, <2>4 DEF Objects
  <2>6. Accounts \subseteq Positive
    BY IdsArePositive, ClassFacts DEF Accounts, BooksSound
  <2>7. q.party # 0
    BY <1>2, <2>6 DEF Posting, Positive
  <2> QED
    BY <2>1, <2>5, <2>7
<1>9. db' = Close(Commit(w))
  BY <1>5, <1>7, <1>8, PassedOver
<1>10. (\A c \in Classes : db'.store[c] = s[c]) /\ db'.counter = w.counter
  BY <1>6, <1>9, BookingClasses, CarryEnd
<1>11. PostedTwo(db'.store, db'.counter, p.account, -x, q.account, x, p, q)
  BY <1>6, <1>10, BookingClasses DEF PostedTwo
<1>12. db'.store["Notification"] = Notifications /\ GoalsKept(db')
  BY <1>6, <1>10, BookingClasses DEF Spared, Notifications, GoalsKept, Goals, Contributions
<1>13. TwoBooked(db', p, q)
  BY <1>3, <1>11, <1>12 DEF TwoBooked, Sides
<1> QED
  BY <1>3, <1>12, <1>13 DEF BooksEffect, Sides

(* The deletion of object 1, the record i of class c, commits the stores   *)
(* as they were ahead, without that record.                                *)
Taken(d, s, c, i) ==
    /\ d.store[c] = [j \in DOMAIN s[c] \ {i} |-> s[c][j]]
    /\ \A e \in Classes : e # c => d.store[e] = s[e]

LEMMA CarryDelete ==
    ASSUME NEW v, NEW n, NEW store, NEW s, Carrying(v, Booking, n, store, s), 1 \in 1..n,
           v.objs[1].tracked = TRUE, NEW c \in Classes, v.objs[1].class = c,
           NEW i, v.objs[1].id = i, NEW d, d = Close(Commit(Delete(v, 1)))
    PROVE  Taken(d, s, c, i) /\ d.counter = v.counter
<1>1. PICK w : w = Delete(v, 1)
  OBVIOUS
<1>2. /\ Sound(v, Booking) /\ Len(v.objs) = n /\ v.deletes = <<>>
      /\ \A e \in Classes : s[e] = Ahead(v, e)
  BY DEF Carrying, Working
<1>3. /\ Sound(w, Booking) /\ w.objs = v.objs /\ w.deletes = Append(<<>>, 1)
      /\ w.store = v.store
  <2>2. PICK h \in 1..Len(v.objs) : h = 1
    BY <1>2
  <2>3. v.objs[h].tracked = TRUE /\ w = Delete(v, h)
    BY <1>1, <2>2
  <2>4. /\ Sound(w, Booking) /\ w.store = v.store
        /\ w.objs = v.objs /\ w.deletes = Append(v.deletes, h)
    <3>1. Sound(v, Booking)
      BY <1>2
    <3> QED
      BY <2>3, <3>1, DeleteFacts, Zenon
  <2> QED
    BY <1>2, <2>2, <2>4, Zenon
<1>4. w.adds = v.adds /\ w.updates = v.updates /\ w.counter = v.counter
  BY <1>1, <1>2 DEF Delete, Sound, Parts
<1>5. DOMAIN w.deletes = {1} /\ w.deletes[1] = 1
  <2>0. <<>> \in Seq({1}) /\ 1 \in {1} /\ Len(<<>>) = 0
    OBVIOUS
  <2>1. PICK list \in Seq({1}) : list = <<>> /\ Len(list) = 0
    BY <2>0
  <2>2. PICK more : more = Append(list, 1)
    OBVIOUS
  <2>3. DOMAIN more = 1..1 /\ more[1] = 1
    BY <2>1, <2>2
  <2>4. 1..1 = {1}
    OBVIOUS
  <2> QED
    BY <1>3, <2>1, <2>2, <2>3, <2>4
<1>6. \A e \in Classes : Gone(w, e) = IF e = c THEN {i} ELSE {}
  BY <1>3, <1>5 DEF Gone
<1>7. \A e \in Classes : Ahead(w, e) = Ahead(v, e)
  BY <1>3, <1>4 DEF Ahead, Updated, UpdatesOf, Added, AddsOf, NewId
<1>8. /\ \A e \in Classes : Commit(w).store[e] = Kept(w, e, Ahead(w, e))
      /\ Commit(w).counter = w.counter
  <2>1. Booking \in Makes /\ Sound(w, Booking)
    BY <1>3, BookingClasses
  <2> QED
    BY <2>1, AheadCommit, Zenon
<1>9. \A e \in Classes : Ahead(w, e) = [j \in DOMAIN Ahead(w, e) |-> Ahead(w, e)[j]]
  BY <1>3, BookingClasses, AheadAt DEF Spread
<1>10. Commit(w).store[c] = [j \in DOMAIN s[c] \ {i} |-> s[c][j]]
  <2>1. PICK B : B = s[c] /\ B = Ahead(w, c)
    BY <1>2, <1>7
  <2>2. Gone(w, c) = {i}
    BY <1>6
  <2>3. Kept(w, c, B) = [j \in DOMAIN B \ {i} |-> B[j]]
    BY <2>2 DEF Kept
  <2> QED
    BY <1>8, <2>1, <2>3
<1>11. ASSUME NEW e \in Classes, e # c
       PROVE  Commit(w).store[e] = s[e]
  <2>1. Gone(w, e) = {} /\ DOMAIN s[e] \ {} = DOMAIN s[e] /\ s[e] = Ahead(w, e)
    BY <1>2, <1>6, <1>7, <1>11
  <2> QED
    BY <1>8, <1>9, <2>1 DEF Kept
<1>12. d.store = Commit(w).store /\ d.counter = Commit(w).counter
  BY <1>1 DEF Close
<1> QED
  BY <1>4, <1>8, <1>10, <1>11, <1>12 DEF Taken

LEMMA DeleteTransactionEffect ==
    ASSUME BooksSound(db), NEW t \in DOMAIN Transactions, DeleteTransaction(t)
    PROVE  BooksEffect(db') /\ GoalsKept(db')
<1>1. PICK c \in Typed : c = "Transaction" /\ c \in Classes
  BY ClassFacts
<1>2. t \in DOMAIN db.store[c] /\ Transactions[t].account \in Owned
  <2>1. Transactions[t] \in Allowed("Transaction", t)
    BY ClassFacts DEF BooksSound, Stored, Transactions
  <2>2. Transactions[t] \in Postings
    BY <2>1 DEF Allowed, Records
  <2> QED
    BY <1>1, <2>2 DEF Postings, Transactions
<1>3. PICK u : u = Open(db)
  OBVIOUS
<1>4. PICK v : v = Load(u, c, t)
  OBVIOUS
<1>5. PICK w : w = Load(v, "Account", Transactions[t].account)
  OBVIOUS
<1>6. Carrying(u, Booking, 0, db.store, db.store) /\ u.counter = db.counter
  BY <1>3, BookingClasses, CarryOpen
<1>7. Carrying(v, Booking, 1, db.store, db.store) /\ v.counter = u.counter
  BY <1>1, <1>2, <1>4, <1>6, BookingClasses, Counting, CarryLoad
<1>8. v.objs[1] = [class |-> c, id |-> t, tracked |-> TRUE, data |-> db.store[c][t]]
  <2>1. Working(u, Booking, 0, db.store)
    BY <1>6, CarryDomain
  <2> QED
    BY <1>2, <1>4, <2>1, Counting, Loaded
<1>9. /\ Carrying(w, Booking, 2, db.store, db.store) /\ w.counter = v.counter
      /\ \A h \in 1..1 : w.objs[h] = v.objs[h]
  BY <1>2, <1>5, <1>7, BookingClasses, Counting, CarryAccount
<1>10. w.objs[1].tracked = TRUE /\ w.objs[1].class = c /\ w.objs[1].id = t
  <2>1. 1 \in 1..1
    OBVIOUS
  <2>2. w.objs[1] = v.objs[1]
    BY <1>9, <2>1
  <2> QED
    BY <1>8, <2>2
<1>11. db' = Close(Commit(Delete(w, 1)))
  BY <1>1, <1>3, <1>4, <1>5 DEF DeleteTransaction
<1>12. Taken(db', db.store, c, t) /\ db'.counter = w.counter
  <2>1. 1 \in 1..2
    OBVIOUS
  <2> QED
    BY <1>1, <1>9, <1>10, <1>11, <2>1, CarryDelete
<1>13. Transactions[t].status = "pending"
  BY DEF DeleteTransaction
<1>14. OneGone(db', t)
  BY <1>1, <1>6, <1>7, <1>9, <1>12, <1>13, BookingClasses
     DEF OneGone, Taken, Transactions, Notifications
<1>15. GoalsKept(db')
  BY <1>1, <1>12, BookingClasses DEF GoalsKept, Taken, Goals, Contributions
<1> QED
  BY <1>14, <1>15 DEF BooksEffect

---------------------------------------------------------------------------
(* What the requests do to the goals and their contributions. *)
GoalPut(d, g, x) ==
    /\ d.store["Goal"] = With(Goals, g, x)
    /\ d.store["GoalContribution"] = Contributions

ByHand(g, x) == [goal |-> g, amount |-> Rounded(x), source |-> 0]

GoalGiven(d, g, goal, x) ==
    /\ d.store["Goal"] = With(Goals, g, goal)
    /\ d.store["GoalContribution"] = Extended(Contributions, ByHand(g, x))

GoalMade(d, goal) ==
    /\ d.store["Goal"] = Extended(Goals, goal)
    /\ d.store["GoalContribution"] = Contributions

GoalGone(d, g) ==
    /\ d.store["Goal"] = [h \in DOMAIN Goals \ {g} |-> Goals[h]]
    /\ d.store["GoalContribution"] = Contributions

(* The goal g as object h, its last copy. *)
HasGoal(v, h, g) ==
    /\ Latest(v, h, "Goal", g) /\ v.objs[h].class = "Goal" /\ v.objs[h].id = g
    /\ v.objs[h].tracked = TRUE

LEMMA CarryHoldingGoal ==
    ASSUME BooksSound(db), NEW g \in DOMAIN Goals, NEW v, v = HoldingGoal(g)
    PROVE  /\ Carrying(v, Booking, 1, db.store, db.store) /\ HasGoal(v, 1, g)
           /\ v.counter = db.counter
<1>1. PICK u : u = Open(db)
  OBVIOUS
<1>2. Carrying(u, Booking, 0, db.store, db.store) /\ u.counter = db.counter
  BY <1>1, BookingClasses, CarryOpen
<1>3. PICK c \in Typed : c = "Goal" /\ c \in Classes
  BY ClassFacts
<1>4. v = Load(u, c, g) /\ g \in DOMAIN db.store[c]
  BY <1>1, <1>3 DEF HoldingGoal, Goals
<1>5. /\ Carrying(v, Booking, 1, db.store, db.store)
      /\ Latest(v, 1, c, g) /\ InSeq(1, v.updates) /\ v.counter = u.counter
  BY <1>2, <1>3, <1>4, BookingClasses, Counting, CarryLoad
<1>6. v.objs[1] = [class |-> c, id |-> g, tracked |-> TRUE, data |-> db.store[c][g]]
  <2>1. Working(u, Booking, 0, db.store)
    BY <1>2, CarryDomain
  <2> QED
    BY <1>3, <1>4, <2>1, Counting, Loaded
<1>7. v.objs[1].class = c /\ v.objs[1].id = g /\ v.objs[1].tracked = TRUE
  BY <1>6
<1> QED
  BY <1>2, <1>3, <1>5, <1>7 DEF HasGoal

LEMMA CarryAssignGoal ==
    ASSUME NEW v, NEW n, NEW store, NEW s, Carrying(v, Booking, n, store, s),
           NEW h, Within(h, n), NEW g \in DOMAIN store["Goal"], HasGoal(v, h, g),
           NEW x, x \in GoalRecords, NEW w, w = Assign(v, h, x)
    PROVE  /\ Carrying(w, Booking, n, store, Replaced(s, "Goal", g, x)) /\ Keeps(v, w)
           /\ w.counter = v.counter
<1>1. PICK c \in Classes : c = "Goal"
  BY ClassFacts
<1>2. /\ x \in Allowed(c, g) /\ g \in DOMAIN store[c]
      /\ v.objs[h].class = c /\ v.objs[h].id = g /\ Latest(v, h, c, g)
  BY <1>1, AllowedLoosely DEF Records, HasGoal
<1>3. /\ Carrying(w, Booking, n, store, Replaced(s, c, g, x)) /\ Keeps(v, w)
      /\ w.counter = v.counter
  BY <1>2, BookingClasses, CarryAssign
<1> QED
  BY <1>1, <1>3

LEMMA GoalWith ==
    ASSUME NEW a, DOMAIN a = Classes, NEW i, NEW x, NEW b, b = Replaced(a, "Goal", i, x)
    PROVE  /\ b["Goal"] = With(a["Goal"], i, x)
           /\ \A e \in Classes : e # "Goal" => b[e] = a[e]
<1>1. PICK c \in Classes : c = "Goal"
  BY ClassFacts
<1>2. b = Replaced(a, c, i, x)
  BY <1>1
<1>3. b[c] = With(a[c], i, x) /\ \A e \in Classes : e # c => b[e] = a[e]
  BY <1>2, ReplacedAt
<1> QED
  BY <1>1, <1>3

(* A contribution recorded. *)
LEMMA CarryGift ==
    ASSUME NEW v, NEW n, NEW store, NEW s, Carrying(v, Booking, n, store, s),
           NEW gift, gift \in Gifts, NEW k, After(n, k),
           NEW w, w = Record(v, "GoalContribution", gift)
    PROVE  /\ Carrying(w, Booking, k, store, Appended(s, "GoalContribution", gift))
           /\ Keeps(v, w)
           /\ w.counter["Transaction"] = v.counter["Transaction"]
           /\ \A h \in 1..n : w.objs[h] = v.objs[h]
<1>1. PICK c \in Booking : c = "GoalContribution" /\ c \in Classes
  BY BookingFacts, BookingClasses
<1>2. gift \in Records(c) /\ w = Record(v, c, gift)
  BY <1>1 DEF Records
<1>3. /\ Carrying(w, Booking, k, store, Appended(s, c, gift)) /\ Keeps(v, w)
      /\ Counted(v, w, c)
  BY <1>2, BookingClasses, CarryRecord
<1>4. Working(v, Booking, n, store) /\ v.counter \in [Classes -> Positive]
  BY DEF Carrying, Working, Sound
<1>5. \A h \in 1..n : w.objs[h] = v.objs[h]
  <2>1. /\ w.objs[k] = [class |-> c, id |-> v.counter[c], tracked |-> FALSE, data |-> gift]
        /\ \A h \in 1..n : w.objs[h] = v.objs[h]
    BY <1>2, <1>4, BookingClasses, Recorded
  <2> QED
    BY <2>1
<1>6. w.counter["Transaction"] = v.counter["Transaction"]
  BY <1>1, <1>3, <1>4, BookingClasses DEF Counted
<1> QED
  BY <1>1, <1>3, <1>5, <1>6

LEMMA GoalPutEffect ==
    ASSUME BooksSound(db), NEW g \in DOMAIN Goals, NEW x, x \in GoalRecords,
           db' = Close(Commit(Assign(HoldingGoal(g), 1, x)))
    PROVE  QuietBooks(db') /\ GoalPut(db', g, x)
<1>1. PICK v : v = HoldingGoal(g)
  OBVIOUS
<1>2. PICK w : w = Assign(v, 1, x)
  OBVIOUS
<1>3. PICK s : s = Replaced(db.store, "Goal", g, x)
  OBVIOUS
<1>4. Carrying(v, Booking, 1, db.store, db.store) /\ HasGoal(v, 1, g) /\ v.counter = db.counter
  BY <1>1, CarryHoldingGoal
<1>5. Carrying(w, Booking, 1, db.store, s) /\ w.counter = v.counter
  <2>1. g \in DOMAIN db.store["Goal"]
    BY DEF Goals
  <2> QED
    BY <1>2, <1>3, <1>4, <2>1, Counting, CarryAssignGoal
<1>6. /\ s["Goal"] = With(db.store["Goal"], g, x)
      /\ \A c \in Classes : c # "Goal" => s[c] = db.store[c]
  <2>1. DOMAIN db.store = Classes
    BY <1>4, CarryDomain
  <2> QED
    BY <1>3, <2>1, GoalWith
<1>7. (\A c \in Classes : db'.store[c] = s[c]) /\ db'.counter = w.counter
  BY <1>1, <1>2, <1>5, BookingClasses, CarryEnd
<1> QED
  BY <1>4, <1>5, <1>6, <1>7, BookingClasses
     DEF QuietBooks, GoalPut, Transactions, Notifications, Goals, Contributions

LEMMA GoalMadeEffect ==
    ASSUME BooksSound(db), NEW goal \in NewGoals, CreateGoal(goal) \/ CreateSavingsGoal(goal)
    PROVE  QuietBooks(db') /\ GoalMade(db', goal)
<1>1. PICK c \in Booking : c = "Goal" /\ c \in Classes
  BY BookingFacts, ClassFacts
<1>2. PICK u : u = Open(db)
  OBVIOUS
<1>3. PICK w : w = Record(u, c, goal)
  OBVIOUS
<1>4. PICK s : s = Appended(db.store, c, goal)
  OBVIOUS
<1>5. Carrying(u, Booking, 0, db.store, db.store) /\ u.counter = db.counter
  BY <1>2, BookingClasses, CarryOpen
<1>6. goal \in Records(c)
  BY <1>1, RequestAssumption DEF Records
<1>7. Carrying(w, Booking, 1, db.store, s) /\ Counted(u, w, c)
  BY <1>3, <1>4, <1>5, <1>6, BookingClasses, Counting, CarryRecord
<1>8. DOMAIN db.store = Classes /\ u.counter \in [Classes -> Positive]
  BY <1>5 DEF Carrying, Working, Sound
<1>9. s[c] = Extended(db.store[c], goal) /\ \A e \in Classes : e # c => s[e] = db.store[e]
  BY <1>1, <1>4, <1>8, AppendedAt
<1>10. w.counter["Transaction"] = u.counter["Transaction"]
  BY <1>1, <1>7, <1>8 DEF Counted
<1>11. db' = Close(Commit(w))
  BY <1>1, <1>2, <1>3 DEF CreateGoal, CreateSavingsGoal
<1>12. (\A e \in Classes : db'.store[e] = s[e]) /\ db'.counter = w.counter
  BY <1>7, <1>11, BookingClasses, CarryEnd
<1> QED
  BY <1>1, <1>5, <1>9, <1>10, <1>12, BookingClasses
     DEF QuietBooks, GoalMade, Transactions, Notifications, Goals, Contributions

LEMMA GiftTyped ==
    ASSUME NEW g \in Positive, NEW x \in Positive
    PROVE  ByHand(g, x) \in Gifts
BY BroughtTyped DEF ByHand, Gifts

LEMMA GivenEffect ==
    ASSUME BooksSound(db), NEW g \in DOMAIN Goals, NEW goal, goal \in GoalRecords,
           NEW x \in Amounts, db' = Close(Commit(Gift(Assign(HoldingGoal(g), 1, goal), g, x)))
    PROVE  QuietBooks(db') /\ GoalGiven(db', g, goal, x)
<1>1. PICK v : v = HoldingGoal(g)
  OBVIOUS
<1>2. PICK v1 : v1 = Assign(v, 1, goal)
  OBVIOUS
<1>3. PICK gift : gift = ByHand(g, x)
  OBVIOUS
<1>4. gift \in Gifts
  BY <1>3, GoalTyped, AmountFacts, GiftTyped
<1>5. PICK w : w = Record(v1, "GoalContribution", gift)
  OBVIOUS
<1>6. PICK s1 : s1 = Replaced(db.store, "Goal", g, goal)
  OBVIOUS
<1>7. PICK s2 : s2 = Appended(s1, "GoalContribution", gift)
  OBVIOUS
<1>8. Carrying(v, Booking, 1, db.store, db.store) /\ HasGoal(v, 1, g) /\ v.counter = db.counter
  BY <1>1, CarryHoldingGoal
<1>9. Carrying(v1, Booking, 1, db.store, s1) /\ v1.counter = v.counter
  <2>1. g \in DOMAIN db.store["Goal"]
    BY DEF Goals
  <2> QED
    BY <1>2, <1>6, <1>8, <2>1, Counting, CarryAssignGoal
<1>10. /\ Carrying(w, Booking, 2, db.store, s2)
       /\ w.counter["Transaction"] = v1.counter["Transaction"]
  BY <1>4, <1>5, <1>7, <1>9, Counting, CarryGift
<1>11. DOMAIN db.store = Classes /\ DOMAIN s1 = Classes
  BY <1>8, <1>9, CarryDomain
<1>12. /\ s1["Goal"] = With(db.store["Goal"], g, goal)
       /\ \A c \in Classes : c # "Goal" => s1[c] = db.store[c]
  BY <1>6, <1>11, GoalWith
<1>13. /\ s2["GoalContribution"] = Extended(s1["GoalContribution"], gift)
       /\ \A c \in Classes : c # "GoalContribution" => s2[c] = s1[c]
  BY <1>7, <1>11, BookingClasses, AppendedAt
<1>14. db' = Close(Commit(w))
  BY <1>1, <1>2, <1>3, <1>5 DEF Gift, ByHand
<1>15. (\A c \in Classes : db'.store[c] = s2[c]) /\ db'.counter = w.counter
  BY <1>10, <1>14, BookingClasses, CarryEnd
<1> QED
  BY <1>3, <1>8, <1>9, <1>10, <1>12, <1>13, <1>15, BookingClasses
     DEF QuietBooks, GoalGiven, Transactions, Notifications, Goals, Contributions

LEMMA GoalGoneEffect ==
    ASSUME BooksSound(db), NEW g \in DOMAIN Goals, DeleteSavingsGoal(g)
    PROVE  QuietBooks(db') /\ GoalGone(db', g)
<1>1. PICK v : v = HoldingGoal(g)
  OBVIOUS
<1>2. Carrying(v, Booking, 1, db.store, db.store) /\ HasGoal(v, 1, g) /\ v.counter = db.counter
  BY <1>1, CarryHoldingGoal
<1>3. PICK c \in Classes : c = "Goal"
  BY ClassFacts
<1>4. db' = Close(Commit(Delete(v, 1)))
  BY <1>1 DEF DeleteSavingsGoal
<1>5. Taken(db', db.store, c, g) /\ db'.counter = v.counter
  <2>1. v.objs[1].tracked = TRUE /\ v.objs[1].class = c /\ v.objs[1].id = g /\ 1 \in 1..1
    BY <1>2, <1>3 DEF HasGoal
  <2> QED
    BY <1>2, <1>4, <2>1, CarryDelete
<1> QED
  BY <1>2, <1>3, <1>5, BookingClasses
     DEF Taken, QuietBooks, GoalGone, Transactions, Notifications, Goals, Contributions

(* An amount moved between a goal and an account, with its transaction. *)
LEMMA CarryFunded ==
    ASSUME BooksSound(db), NEW g \in DOMAIN Goals, NEW a \in Accounts,
           NEW d \in Int, Covers(db.store, a, d), NEW goal, goal \in GoalRecords,
           NEW p \in Records("Transaction"),
           NEW w, w = Record(Assign(Change(Load(HoldingGoal(g), "Account", a), 2, d), 1, goal),
                             "Transaction", p)
    PROVE  \E s : /\ Carrying(w, Booking, 3, db.store, s) /\ Posted(s, w.counter, a, d, p)
                  /\ Spared(s, {"Account", "Transaction", "Goal"})
                  /\ s["Goal"] = With(Goals, g, goal)
<1>1. PICK u : u = HoldingGoal(g)
  OBVIOUS
<1>2. PICK v : v = Load(u, "Account", a)
  OBVIOUS
<1>3. PICK v1 : v1 = Change(v, 2, d)
  OBVIOUS
<1>4. PICK v2 : v2 = Assign(v1, 1, goal)
  OBVIOUS
<1>5. w = Record(v2, "Transaction", p)
  BY <1>1, <1>2, <1>3, <1>4
<1>6. Carrying(u, Booking, 1, db.store, db.store) /\ HasGoal(u, 1, g) /\ u.counter = db.counter
  BY <1>1, CarryHoldingGoal
<1>7. a \in Owned /\ g \in DOMAIN db.store["Goal"]
  BY BalanceTyped DEF Goals
<1>8. /\ Carrying(v, Booking, 2, db.store, db.store) /\ KeepsBut(u, v, "Account", a)
      /\ Latest(v, 2, "Account", a) /\ Holds(v, 2, a)
      /\ v.counter = u.counter /\ \A h \in 1..1 : v.objs[h] = u.objs[h]
  BY <1>2, <1>6, <1>7, BookingClasses, Counting, CarryAccount
<1>9. HasGoal(v, 1, g)
  <2>1. 1 \in 1..1
    OBVIOUS
  <2>2. v.objs[1] = u.objs[1]
    BY <1>8, <2>1
  <2>3. Latest(v, 1, "Goal", g)
    BY <1>6, <1>8, BookingClasses DEF KeepsBut, HasGoal
  <2> QED
    BY <1>6, <2>2, <2>3 DEF HasGoal
<1>10. PICK x : x = Rounded(db.store["Account"][a] + d)
  OBVIOUS
<1>11. PICK s1 : s1 = Replaced(db.store, "Account", a, x)
  OBVIOUS
<1>12. /\ Carrying(v1, Booking, 2, db.store, s1) /\ Keeps(v, v1) /\ v1.counter = v.counter
       /\ \A k \in 1..2 : k # 2 => v1.objs[k] = v.objs[k]
  BY <1>3, <1>7, <1>8, <1>10, <1>11, BookingClasses, Counting, CarryChange
<1>13. HasGoal(v1, 1, g)
  <2>1. 1 \in 1..2 /\ 1 # 2
    OBVIOUS
  <2>2. v1.objs[1] = v.objs[1]
    BY <1>12, <2>1
  <2>3. Latest(v1, 1, "Goal", g)
    BY <1>9, <1>12 DEF Keeps, HasGoal
  <2> QED
    BY <1>9, <2>2, <2>3 DEF HasGoal
<1>14. PICK s2 : s2 = Replaced(s1, "Goal", g, goal)
  OBVIOUS
<1>15. Carrying(v2, Booking, 2, db.store, s2) /\ v2.counter = v1.counter
  BY <1>4, <1>7, <1>12, <1>13, <1>14, Counting, CarryAssignGoal
<1>16. PICK s3 : s3 = Appended(s2, "Transaction", p)
  OBVIOUS
<1>17. /\ Carrying(w, Booking, 3, db.store, s3)
       /\ w.counter["Transaction"] = v2.counter["Transaction"] + 1
  BY <1>5, <1>15, <1>16, Counting, CarryPosting
<1>18. DOMAIN db.store = Classes /\ DOMAIN s1 = Classes /\ DOMAIN s2 = Classes
  BY <1>6, <1>12, <1>15, CarryDomain
<1>19. /\ s1["Account"] = With(db.store["Account"], a, x)
       /\ \A c \in Classes : c # "Account" => s1[c] = db.store[c]
  BY <1>11, <1>18, AccountReplaced
<1>20. /\ s2["Goal"] = With(s1["Goal"], g, goal)
       /\ \A c \in Classes : c # "Goal" => s2[c] = s1[c]
  BY <1>14, <1>18, GoalWith
<1>21. /\ s3["Transaction"] = Extended(s2["Transaction"], p)
       /\ \A c \in Classes : c # "Transaction" => s3[c] = s2[c]
  BY <1>16, <1>18, BookingClasses, AppendedAt
<1>22. Posted(s3, w.counter, a, d, p)
  BY <1>6, <1>8, <1>10, <1>12, <1>15, <1>17, <1>19, <1>20, <1>21, BookingClasses
     DEF Posted, With, Transactions
<1>23. Spared(s3, {"Account", "Transaction", "Goal"})
  BY <1>19, <1>20, <1>21 DEF Spared
<1>24. s3["Goal"] = With(Goals, g, goal)
  BY <1>19, <1>20, <1>21, BookingClasses DEF Goals
<1> QED
  BY <1>17, <1>22, <1>23, <1>24

LEMMA FundedEffect ==
    ASSUME BooksSound(db), NEW g \in DOMAIN Goals, NEW a \in Accounts, NEW x \in Amounts,
           ContributeFromAccount(g, a, x)
    PROVE  /\ \E p \in Postings : OneBooked(db', p)
           /\ GoalGiven(db', g, Saved(Goals[g], x), x)
<1>1. PICK goal : goal = Saved(Goals[g], x)
  OBVIOUS
<1>2. x \in Int /\ -x \in Int /\ a \in Owned /\ x \in Positive /\ Balance(a) >= x
  BY AmountFacts, BalanceTyped DEF ContributeFromAccount
<1>3. goal \in GoalRecords
  BY <1>1, <1>2, GoalTyped, SavedTyped
<1>4. PICK p : p = Posting(a, x, "debit", 0)
  OBVIOUS
<1>5. p \in Postings /\ p.account = a /\ p.party = 0 /\ Means(p, -x) /\ Worthy(p)
  BY <1>2, <1>4, PostingParts, TypeFacts DEF Worthy
<1>6. PICK d : d = -x /\ d \in Int /\ Covers(db.store, a, d)
  BY <1>2, TakesLess
<1>7. PICK v : v = Record(Assign(Change(Load(HoldingGoal(g), "Account", a), 2, d), 1, goal),
                          "Transaction", p)
  OBVIOUS
<1>8. PICK s : /\ Carrying(v, Booking, 3, db.store, s) /\ Posted(s, v.counter, a, d, p)
               /\ Spared(s, {"Account", "Transaction", "Goal"})
               /\ s["Goal"] = With(Goals, g, goal)
  <2>1. p \in Records("Transaction")
    BY <1>5 DEF Records
  <2> QED
    BY <1>3, <1>6, <1>7, <2>1, CarryFunded
<1>9. PICK gift : gift = ByHand(g, x)
  OBVIOUS
<1>10. gift \in Gifts
  BY <1>2, <1>9, GoalTyped, GiftTyped
<1>11. PICK w : w = Record(v, "GoalContribution", gift)
  OBVIOUS
<1>12. PICK s2 : s2 = Appended(s, "GoalContribution", gift)
  OBVIOUS
<1>13. /\ Carrying(w, Booking, 4, db.store, s2)
       /\ w.counter["Transaction"] = v.counter["Transaction"]
  BY <1>8, <1>10, <1>11, <1>12, Counting, CarryGift
<1>14. DOMAIN s = Classes
  BY <1>8, CarryDomain
<1>15. /\ s2["GoalContribution"] = Extended(s["GoalContribution"], gift)
       /\ \A c \in Classes : c # "GoalContribution" => s2[c] = s[c]
  BY <1>12, <1>14, BookingClasses, AppendedAt
<1>16. db' = Close(Commit(w))
  BY <1>1, <1>4, <1>6, <1>7, <1>9, <1>11 DEF ContributeFromAccount, Gift, ByHand
<1>17. (\A c \in Classes : db'.store[c] = s2[c]) /\ db'.counter = w.counter
  BY <1>13, <1>16, BookingClasses, CarryEnd
<1>18. Posted(db'.store, db'.counter, a, d, p)
  BY <1>8, <1>13, <1>15, <1>17, BookingClasses DEF Posted
<1>19. db'.store["Notification"] = Notifications
  BY <1>8, <1>15, <1>17, BookingClasses DEF Spared, Notifications
<1>20. OneBooked(db', p)
  BY <1>5, <1>6, <1>18, <1>19 DEF OneBooked
<1>21. s["GoalContribution"] = Contributions
  BY <1>8, BookingClasses DEF Spared, Contributions
<1>22. GoalGiven(db', g, goal, x)
  BY <1>8, <1>9, <1>15, <1>17, <1>21, BookingClasses DEF GoalGiven
<1> QED
  BY <1>1, <1>5, <1>20, <1>22

(* What a withdrawal of x leaves of the goal. *)
Less(goal, x) == [goal EXCEPT !.current = Rounded(@ - x)]

LEMMA LessTyped ==
    ASSUME NEW goal \in GoalRecords, NEW x \in Int
    PROVE  Less(goal, x) \in GoalRecords
<1>1. PICK c \in Cents : c = Rounded(goal.current - x)
  <2>1. goal.current - x \in Int
    BY GoalNumbers
  <2> QED
    BY <2>1, RoundedTyped
<1>2. Less(goal, x) = [goal EXCEPT !.current = c]
  BY <1>1 DEF Less
<1> QED
  BY <1>2, GoalChanged

LEMMA WithdrawFromGoalEffect ==
    ASSUME BooksSound(db), NEW g \in DOMAIN Goals, NEW a \in {0} \cup Accounts,
           NEW x \in Amounts, WithdrawFromGoal(g, a, x)
    PROVE  /\ QuietBooks(db') \/ \E p \in Postings : OneBooked(db', p)
           /\ GoalPut(db', g, Less(Goals[g], x))
<1>1. PICK goal : goal = Less(Goals[g], x)
  OBVIOUS
<1>2. x \in Int /\ x \in Nat
  BY AmountFacts
<1>3. goal \in GoalRecords
  BY <1>1, <1>2, GoalTyped, LessTyped
<1>4. CASE a = 0
  <2>1. db' = Close(Commit(Assign(HoldingGoal(g), 1, goal)))
    BY <1>1, <1>4 DEF WithdrawFromGoal, Less
  <2> QED
    BY <1>1, <1>3, <2>1, GoalPutEffect
<1>5. CASE a # 0
  <2>1. a \in Accounts /\ a \in Owned /\ Covers(db.store, a, x)
    BY <1>2, <1>5, BalanceTyped, BringsMore
  <2>2. PICK p : p = Posting(a, x, "credit", 0)
    OBVIOUS
  <2>3. p \in Postings /\ p.account = a /\ p.party = 0 /\ Means(p, x) /\ Worthy(p)
    BY <1>2, <2>1, <2>2, PostingParts, PostingWorthy, TypeFacts
  <2>4. PICK w : w = Record(Assign(Change(Load(HoldingGoal(g), "Account", a), 2, x), 1, goal),
                            "Transaction", p)
    OBVIOUS
  <2>5. PICK s : /\ Carrying(w, Booking, 3, db.store, s) /\ Posted(s, w.counter, a, x, p)
                 /\ Spared(s, {"Account", "Transaction", "Goal"})
                 /\ s["Goal"] = With(Goals, g, goal)
    <3>1. p \in Records("Transaction")
      BY <2>3 DEF Records
    <3> QED
      BY <1>2, <1>3, <2>1, <2>4, <3>1, CarryFunded
  <2>6. db' = Close(Commit(w))
    BY <1>1, <1>5, <2>2, <2>4 DEF WithdrawFromGoal, Less
  <2>7. (\A c \in Classes : db'.store[c] = s[c]) /\ db'.counter = w.counter
    BY <2>5, <2>6, BookingClasses, CarryEnd
  <2>8. Posted(db'.store, db'.counter, a, x, p)
    BY <2>5, <2>7, BookingClasses DEF Posted
  <2>9. db'.store["Notification"] = Notifications
    BY <2>5, <2>7, BookingClasses DEF Spared, Notifications
  <2>10. OneBooked(db', p)
    BY <2>3, <2>8, <2>9 DEF OneBooked
  <2>11. GoalPut(db', g, goal)
    BY <2>5, <2>7, BookingClasses DEF GoalPut, Spared, Contributions
  <2> QED
    BY <1>1, <2>3, <2>10, <2>11
<1> QED
  BY <1>4, <1>5

---------------------------------------------------------------------------
(* What the requests on rules do to the books: a rule is loaded into a     *)
(* generic object, whose assignments reach no store.                       *)
LEMMA CarryHoldingRule ==
    ASSUME BooksSound(db), NEW r \in DOMAIN Rules, NEW v, v = HoldingRule(r)
    PROVE  /\ Carrying(v, Booking, 1, db.store, db.store) /\ InSeq(1, v.updates)
           /\ v.objs[1].class = Generic /\ v.counter = db.counter
<1>1. PICK u : u = Open(db)
  OBVIOUS
<1>2. Carrying(u, Booking, 0, db.store, db.store) /\ u.counter = db.counter
  BY <1>1, BookingClasses, CarryOpen
<1>3. PICK c \in Classes : c = "RecurringRule"
  BY BookingClasses
<1>4. v = Load(u, c, r) /\ r \in DOMAIN db.store[c]
  BY <1>1, <1>3 DEF HoldingRule, Rules
<1>5. /\ Carrying(v, Booking, 1, db.store, db.store) /\ KeepsBut(u, v, c, r)
      /\ c \in Typed => Latest(v, 1, c, r)
      /\ InSeq(1, v.updates) /\ v.counter = u.counter
  BY <1>2, <1>4, BookingClasses, Counting, CarryLoad
<1> QED
  BY <1>2, <1>5, HoldingRuleFacts

LEMMA RuleIsData ==
    ASSUME NEW rule \in RuleRecords
    PROVE  rule \in Data
<1>1. PICK c \in Classes : c = "RecurringRule"
  BY ClassFacts
<1>2. rule \in Records(c)
  BY <1>1 DEF Records
<1> QED
  BY <1>2 DEF Data

LEMMA QuietEffect ==
    ASSUME QuietBooks(db')
    PROVE  BooksEffect(db')
BY DEF BooksEffect

LEMMA SwitchRuleEffect ==
    ASSUME BooksSound(db), NEW r \in DOMAIN Rules, NEW on \in BOOLEAN, SwitchRule(r, on)
    PROVE  QuietBooks(db') /\ GoalsKept(db')
<1>1. PICK x \in RuleRecords : x = [Rules[r] EXCEPT !.active = on]
  BY RuleTyped, RuleChanged
<1>2. PICK v : v = HoldingRule(r)
  OBVIOUS
<1>3. PICK w : w = Assign(v, 1, x)
  OBVIOUS
<1>4. /\ Carrying(v, Booking, 1, db.store, db.store) /\ InSeq(1, v.updates)
      /\ v.objs[1].class = Generic /\ v.counter = db.counter
  BY <1>2, CarryHoldingRule
<1>5. Carrying(w, Booking, 1, db.store, db.store) /\ w.counter = v.counter
  BY <1>3, <1>4, RuleIsData, BookingClasses, Counting, CarryGeneric
<1>6. db' = Close(Commit(w))
  BY <1>1, <1>2, <1>3 DEF SwitchRule
<1>7. (\A c \in Classes : db'.store[c] = db.store[c]) /\ db'.counter = w.counter
  BY <1>5, <1>6, BookingClasses, CarryEnd
<1> QED
  BY <1>4, <1>5, <1>7, BookingClasses
     DEF QuietBooks, GoalsKept, Transactions, Notifications, Goals, Contributions

LEMMA CreateRecurringRuleEffect ==
    ASSUME BooksSound(db), NEW a \in Accounts, NEW x \in Amounts,
           NEW type \in TransactionTypes, CreateRecurringRule(a, x, type)
    PROVE  QuietBooks(db') /\ GoalsKept(db')
<1>1. PICK M \in Makes : M = {"RecurringRule"}
  BY StoreMaps DEF Makes
<1>2. PICK c \in M : c = "RecurringRule" /\ c \in Classes
  BY <1>1, BookingClasses
<1>3. PICK data : data = [account |-> a, amount |-> x, type |-> type,
                          active |-> TRUE, moved |-> FALSE]
  OBVIOUS
<1>4. data \in Records(c)
  <2>1. data \in RuleRecords
    BY <1>3, BalanceTyped, AmountFacts DEF RuleRecords
  <2> QED
    BY <1>2, <2>1 DEF Records
<1>5. PICK u : u = Open(db)
  OBVIOUS
<1>6. Carrying(u, M, 0, db.store, db.store) /\ u.counter = db.counter
  BY <1>5, CarryOpen
<1>7. PICK v : v = Record(u, c, data)
  OBVIOUS
<1>8. PICK s : s = Appended(db.store, c, data)
  OBVIOUS
<1>9. Carrying(v, M, 1, db.store, s) /\ Counted(u, v, c)
  BY <1>4, <1>6, <1>7, <1>8, Counting, CarryRecord
<1>10. DOMAIN db.store = Classes /\ u.counter \in [Classes -> Positive]
  BY <1>6 DEF Carrying, Working, Sound
<1>11. s[c] = Extended(db.store[c], data) /\ \A e \in Classes : e # c => s[e] = db.store[e]
  BY <1>2, <1>8, <1>10, AppendedAt
<1>12. v.counter["Transaction"] = u.counter["Transaction"]
  BY <1>2, <1>9, <1>10, BookingClasses DEF Counted
<1>13. db' = Close(Commit(v))
  BY <1>2, <1>3, <1>5, <1>7 DEF CreateRecurringRule
<1>14. (\A e \in Classes : db'.store[e] = s[e]) /\ db'.counter = v.counter
  BY <1>9, <1>13, CarryEnd
<1> QED
  BY <1>2, <1>6, <1>11, <1>12, <1>14, BookingClasses
     DEF QuietBooks, GoalsKept, Transactions, Notifications, Goals, Contributions

LEMMA ExecuteRecurringRuleEffect ==
    ASSUME BooksSound(db), NEW r \in DOMAIN Rules, ExecuteRecurringRule(r)
    PROVE  BooksEffect(db') /\ GoalsKept(db')
<1>1. PICK rule \in RuleRecords : rule = Rules[r]
  BY RuleTyped
<1>2. PICK a \in Accounts : a = rule.account
  BY <1>1, RuleChanged DEF BooksSound, Accounts
<1>3. PICK x \in Nat : x = rule.amount
  BY RuleChanged DEF Positive
<1>4. PICK d \in Int : d = IF rule.type = "debit" THEN -x ELSE x
  OBVIOUS
<1>5. Covers(db.store, a, d)
  <2>1. CASE rule.type = "debit"
    <3>1. Guarded(a) => Balance(a) >= x
      BY <1>1, <1>2, <1>3, <2>1 DEF ExecuteRecurringRule, SufficientFunds, Guarded
    <3>2. x \in Int
      OBVIOUS
    <3> QED
      BY <1>4, <2>1, <3>1, <3>2, TakesLess
  <2>2. CASE rule.type # "debit"
    BY <1>4, <2>2, BringsMore
  <2> QED
    BY <2>1, <2>2
<1>6. PICK u : u = HoldingRule(r)
  OBVIOUS
<1>7. /\ Carrying(u, Booking, 1, db.store, db.store) /\ InSeq(1, u.updates)
      /\ u.objs[1].class = Generic /\ u.counter = db.counter
  BY <1>6, CarryHoldingRule
<1>8. PICK v : v = Load(u, "Account", a)
  OBVIOUS
<1>9. a \in Owned
  BY BalanceTyped
<1>10. /\ Carrying(v, Booking, 2, db.store, db.store) /\ KeepsBut(u, v, "Account", a)
       /\ Latest(v, 2, "Account", a) /\ Holds(v, 2, a)
       /\ v.counter = u.counter /\ \A h \in 1..1 : v.objs[h] = u.objs[h]
  BY <1>7, <1>8, <1>9, BookingClasses, Counting, CarryAccount
<1>11. v.objs[1].class = Generic /\ InSeq(1, v.updates)
  <2>1. 1 \in 1..1
    OBVIOUS
  <2>2. v.objs[1] = u.objs[1]
    BY <1>10, <2>1
  <2> QED
    BY <1>7, <1>10, <2>2 DEF KeepsBut
<1>12. PICK v1 : v1 = Change(v, 2, d)
  OBVIOUS
<1>13. PICK y : y = Rounded(db.store["Account"][a] + d)
  OBVIOUS
<1>14. PICK s1 : s1 = Replaced(db.store, "Account", a, y)
  OBVIOUS
<1>15. /\ Carrying(v1, Booking, 2, db.store, s1) /\ Keeps(v, v1) /\ v1.counter = v.counter
       /\ \A k \in 1..2 : k # 2 => v1.objs[k] = v.objs[k]
  BY <1>5, <1>9, <1>10, <1>12, <1>13, <1>14, BookingClasses, Counting, CarryChange
<1>16. v1.objs[1].class = Generic /\ InSeq(1, v1.updates)
  <2>1. 1 \in 1..2 /\ 1 # 2
    OBVIOUS
  <2>2. v1.objs[1] = v.objs[1]
    BY <1>15, <2>1
  <2> QED
    BY <1>11, <1>15, <2>2 DEF Keeps
<1>17. PICK x1 \in RuleRecords : x1 = [rule EXCEPT !.moved = TRUE]
  BY RuleChanged
<1>18. PICK v2 : v2 = Assign(v1, 1, x1)
  OBVIOUS
<1>19. Carrying(v2, Booking, 2, db.store, s1) /\ v2.counter = v1.counter
  BY <1>15, <1>16, <1>18, RuleIsData, BookingClasses, Counting, CarryGeneric
<1>20. PICK p : p = [Posting(a, x, rule.type, 0) EXCEPT !.rule = r]
  OBVIOUS
<1>21. /\ p \in Postings /\ p.account = a /\ p.party = 0 /\ Means(p, d) /\ Worthy(p)
  <2>1. rule.type \in TransactionTypes /\ r \in Nat /\ x \in Int
    <3>1. rule.type \in TransactionTypes
      BY <1>1, RuleChanged
    <3>2. r \in Nat
      BY RuleTyped DEF Positive
    <3>3. x \in Int
      OBVIOUS
    <3> QED
      BY <3>1, <3>2, <3>3
  <2>2. PICK q : q = Posting(a, x, rule.type, 0)
    OBVIOUS
  <2>3. /\ q \in Postings /\ q.account = a /\ q.party = 0 /\ q.status = "completed"
        /\ Means(q, d) /\ Worthy(q)
    BY <1>4, <1>9, <2>1, <2>2, PostingParts, PostingWorthy
  <2>4. p = [q EXCEPT !.rule = r]
    BY <1>20, <2>2
  <2>5. /\ p \in Postings /\ p.account = a /\ p.party = 0 /\ p.type = q.type
        /\ p.amount = q.amount /\ p.half = q.half /\ p.status = q.status
    BY <2>1, <2>3, <2>4 DEF Postings
  <2> QED
    BY <2>3, <2>5 DEF Means, Net, Worthy
<1>22. PICK w : w = Record(v2, "Transaction", p)
  OBVIOUS
<1>23. PICK s2 : s2 = Appended(s1, "Transaction", p)
  OBVIOUS
<1>24. /\ Carrying(w, Booking, 3, db.store, s2)
       /\ w.counter["Transaction"] = v2.counter["Transaction"] + 1
  <2>1. p \in Records("Transaction")
    BY <1>21 DEF Records
  <2> QED
    BY <1>19, <1>22, <1>23, <2>1, Counting, CarryPosting
<1>25. db' = Close(Commit(w))
  <2>1. db' = Close(Commit(Record(
           Assign(Change(Load(HoldingRule(r), "Account", rule.account), 2,
                         IF rule.type = "debit" THEN -rule.amount ELSE rule.amount),
                  1, [rule EXCEPT !.moved = TRUE]),
           "Transaction",
           [Posting(rule.account, rule.amount, rule.type, 0) EXCEPT !.rule = r])))
    BY <1>1 DEF ExecuteRecurringRule
  <2>2. PICK z \in Int : z = IF rule.type = "debit" THEN -rule.amount ELSE rule.amount
    BY <1>3
  <2>3. z = d
    BY <1>3, <1>4, <2>2
  <2>4. p = [Posting(rule.account, rule.amount, rule.type, 0) EXCEPT !.rule = r]
    BY <1>2, <1>3, <1>20
  <2>5. v2 = Assign(Change(Load(HoldingRule(r), "Account", rule.account), 2, z),
                    1, [rule EXCEPT !.moved = TRUE])
    BY <1>2, <1>6, <1>8, <1>12, <1>17, <1>18, <2>3
  <2>6. db' = Close(Commit(Record(
           Assign(Change(Load(HoldingRule(r), "Account", rule.account), 2, z),
                  1, [rule EXCEPT !.moved = TRUE]), "Transaction", p)))
    BY <2>1, <2>2, <2>4
  <2> QED
    BY <1>22, <2>5, <2>6
<1>26. (\A c \in Classes : db'.store[c] = s2[c]) /\ db'.counter = w.counter
  BY <1>24, <1>25, BookingClasses, CarryEnd
<1>27. DOMAIN db.store = Classes /\ DOMAIN s1 = Classes
  BY <1>7, <1>15, CarryDomain
<1>28. /\ s1["Account"] = With(db.store["Account"], a, y)
       /\ \A c \in Classes : c # "Account" => s1[c] = db.store[c]
  BY <1>14, <1>27, AccountReplaced
<1>29. /\ s2["Transaction"] = Extended(s1["Transaction"], p)
       /\ \A c \in Classes : c # "Transaction" => s2[c] = s1[c]
  BY <1>23, <1>27, BookingClasses, AppendedAt
<1>30. Posted(db'.store, db'.counter, a, d, p)
  BY <1>7, <1>10, <1>13, <1>15, <1>19, <1>24, <1>26, <1>28, <1>29, BookingClasses
     DEF Posted, With, Transactions
<1>31. db'.store["Notification"] = Notifications /\ GoalsKept(db')
  BY <1>26, <1>28, <1>29, BookingClasses DEF Notifications, GoalsKept, Goals, Contributions
<1>32. OneBooked(db', p)
  BY <1>21, <1>30, <1>31 DEF OneBooked
<1> QED
  BY <1>21, <1>31, <1>32 DEF BooksEffect

---------------------------------------------------------------------------
(* Totals.  f[i], or nothing where f has no i. *)
Worth(f, i) == IF i \in DOMAIN f THEN f[i] ELSE 0

(* The recursion of Total, up to any n. *)
Summing(s, n, f) ==
    s = [i \in 0..n |-> IF i = 0 THEN 0
                        ELSE IF i \in DOMAIN f THEN s[i - 1] + f[i] ELSE s[i - 1]]

Sums(s, n, f) ==
    /\ s[0] = 0
    /\ \A i \in 1..n : s[i] = IF i \in DOMAIN f THEN s[i - 1] + f[i] ELSE s[i - 1]

LEMMA SummingSums ==
    ASSUME NEW n \in Nat, NEW f, NEW s, Summing(s, n, f)
    PROVE  Sums(s, n, f)
<1>1. \A i \in 0..n : s[i] = IF i = 0 THEN 0
                             ELSE IF i \in DOMAIN f THEN s[i - 1] + f[i] ELSE s[i - 1]
  BY Zenon DEF Summing
<1>2. s[0] = 0
  <2>1. 0 \in 0..n
    OBVIOUS
  <2> QED
    BY <1>1, <2>1
<1>3. ASSUME NEW i \in 1..n
      PROVE  s[i] = IF i \in DOMAIN f THEN s[i - 1] + f[i] ELSE s[i - 1]
  <2>1. i \in 0..n /\ i # 0
    OBVIOUS
  <2> QED
    BY <1>1, <2>1
<1> QED
  BY <1>2, <1>3, Zenon DEF Sums

LEMMA SummingExists ==
    ASSUME NEW n \in Nat, NEW f
    PROVE  \E s : Summing(s, n, f)
<1> DEFINE G == {m \in 0..n : \E s : Summing(s, m, f)}
<1>1. 0 \in G
  <2> DEFINE z == [k \in 0..0 |-> 0]
  <2>1. Summing(z, 0, f)
    BY DEF Summing
  <2> QED
    BY <2>1
<1>2. ASSUME NEW m \in 1..n, m - 1 \in G
      PROVE  m \in G
  <2>1. PICK s : Summing(s, m - 1, f)
    BY <1>2
  <2> DEFINE Step(x, k) == IF k \in DOMAIN f THEN x + f[k] ELSE x
             g == [k \in 0..m |-> IF k = m THEN Step(s[m - 1], m) ELSE s[k]]
  <2>2. \A k \in 0..(m - 1) : s[k] = IF k = 0 THEN 0 ELSE Step(s[k - 1], k)
    <3> HIDE DEF g
    <3> QED
      BY <2>1, Zenon DEF Summing
  <2>3. \A k \in 0..m : g[k] = IF k = 0 THEN 0 ELSE Step(g[k - 1], k)
    <3> TAKE k \in 0..m
    <3> HIDE DEF Step
    <3>1. CASE k = m
      <4>1. g[m] = Step(s[m - 1], m) /\ g[m - 1] = s[m - 1]
        OBVIOUS
      <4> HIDE DEF g
      <4> QED
        BY <3>1, <4>1
    <3>2. CASE k # m
      <4>1. k \in 0..(m - 1) /\ g[k] = s[k]
        BY <3>2
      <4>2. k # 0 => g[k - 1] = s[k - 1]
        BY <3>2
      <4> HIDE DEF g
      <4> QED
        BY <2>2, <4>1, <4>2
    <3> QED
      BY <3>1, <3>2
  <2>4. g = [k \in 0..m |-> g[k]]
    OBVIOUS
  <2> HIDE DEF g
  <2>5. Summing(g, m, f)
    BY <2>3, <2>4, Zenon DEF Summing
  <2> QED
    BY <2>5
<1> HIDE DEF G
<1>3. \A m \in 0..n : m \in G
  BY <1>1, <1>2, UpTo
<1>4. n \in G
  BY <1>3
<1> QED
  BY <1>4 DEF G

LEMMA TotalSums ==
    ASSUME NEW f, Bounded(DOMAIN f)
    PROVE  \E s : Sums(s, Largest(DOMAIN f), f) /\ Total(f) = s[Largest(DOMAIN f)]
<1> DEFINE n == Largest(DOMAIN f)
           Is(s) == s = [i \in 0..n |-> IF i = 0 THEN 0
                                        ELSE IF i \in DOMAIN f THEN s[i - 1] + f[i]
                                        ELSE s[i - 1]]
           sum == CHOOSE s : Is(s)
<1>1. n \in Nat
  BY LargestIsMax
<1>2. Total(f) = sum[n]
  BY Zenon DEF Total
<1> HIDE DEF n
<1>3. Is(sum)
  <2>1. PICK s : Summing(s, n, f)
    BY <1>1, SummingExists
  <2>2. Is(s)
    BY <2>1, Zenon DEF Summing
  <2> HIDE DEF Is
  <2> QED
    BY <2>2
<1>4. Summing(sum, n, f)
  BY <1>3, Zenon DEF Summing
<1> HIDE DEF sum
<1>5. Sums(sum, n, f)
  BY <1>1, <1>4, SummingSums
<1> QED
  BY <1>2, <1>5 DEF n

(* What f holds are integers, under positive numbers. *)
Countable(f) == Bounded(DOMAIN f) /\ \A i \in DOMAIN f : f[i] \in Int

LEMMA WorthTyped ==
    ASSUME NEW f, Countable(f), NEW i
    PROVE  Worth(f, i) \in Int
BY DEF Countable, Worth

LEMMA SumsTyped ==
    ASSUME NEW f, Countable(f), NEW n \in Nat, NEW s, Sums(s, n, f)
    PROVE  /\ \A k \in 0..n : s[k] \in Int
           /\ \A k \in 1..n : s[k] = s[k - 1] + Worth(f, k)
<1> DEFINE G == {k \in 0..n : s[k] \in Int}
<1>1. 0 \in G
  <2>1. 0 \in 0..n /\ 0 \in Int /\ s[0] = 0
    BY DEF Sums
  <2> QED
    BY <2>1
<1>2. ASSUME NEW k \in 1..n, s[k - 1] \in Int
      PROVE  s[k] \in Int /\ s[k] = s[k - 1] + Worth(f, k)
  <2>1. s[k] = IF k \in DOMAIN f THEN s[k - 1] + f[k] ELSE s[k - 1]
    BY Zenon DEF Sums
  <2>2. k \in DOMAIN f => f[k] \in Int
    BY DEF Countable
  <2> QED
    BY <1>2, <2>1, <2>2 DEF Worth
<1>3. \A k \in 1..n : k - 1 \in G => k \in G
  BY <1>2
<1>4. \A k \in 0..n : k \in G
  <2> HIDE DEF G
  <2> QED
    BY <1>1, <1>3, UpTo
<1>5. \A k \in 1..n : s[k - 1] \in Int
  <2> TAKE k \in 1..n
  <2>1. k - 1 \in 0..n
    OBVIOUS
  <2> QED
    BY <1>4, <2>1
<1> QED
  BY <1>2, <1>4, <1>5

(* A sum may as well run further than the largest number of f. *)
LEMMA SumsFurther ==
    ASSUME NEW f, Countable(f), NEW n \in Nat, Largest(DOMAIN f) <= n,
           NEW s, Sums(s, n, f)
    PROVE  Total(f) = s[n]
<1>1. PICK m \in Nat : m = Largest(DOMAIN f)
  BY LargestIsMax DEF Countable
<1>2. PICK r : Sums(r, m, f) /\ Total(f) = r[m]
  BY <1>1, TotalSums DEF Countable
<1>3. /\ \A k \in 0..n : s[k] \in Int
      /\ \A k \in 1..n : s[k] = s[k - 1] + Worth(f, k)
  BY SumsTyped
<1>4. \A k \in 1..m : r[k] = r[k - 1] + Worth(f, k)
  BY <1>2, SumsTyped
<1> DEFINE G == {k \in 0..n : s[k] = IF k <= m THEN r[k] ELSE r[m]}
<1>5. 0 \in G
  BY <1>2 DEF Sums
<1>6. ASSUME NEW k \in 1..n, k - 1 \in G
      PROVE  k \in G
  <2>1. CASE k <= m
    <3>1. k \in 1..m /\ k - 1 <= m
      BY <2>1
    <3>2. s[k - 1] = r[k - 1]
      BY <1>6, <3>1
    <3> QED
      BY <1>3, <1>4, <2>1, <3>1, <3>2
  <2>2. CASE ~(k <= m)
    <3>1. k \notin DOMAIN f
      BY <1>1, <2>2, LargestIsMax DEF Countable
    <3>2. s[k] = s[k - 1] + 0 /\ s[k - 1] \in Int
      <4>1. k - 1 \in 0..n
        OBVIOUS
      <4> QED
        BY <1>3, <3>1, <4>1 DEF Worth
    <3>3. s[k - 1] = r[m]
      <4>1. k - 1 <= m => k - 1 = m
        BY <2>2
      <4> QED
        BY <1>6, <4>1
    <3> QED
      BY <2>2, <3>2, <3>3
  <2> QED
    BY <2>1, <2>2
<1>7. \A k \in 0..n : k \in G
  <2> HIDE DEF G
  <2> QED
    BY <1>5, <1>6, UpTo
<1>8. n \in G
  <2> HIDE DEF G
  <2> QED
    BY <1>7
<1>9. n <= m => n = m
  BY <1>1
<1> QED
  BY <1>2, <1>8, <1>9

LEMMA TotalTyped ==
    ASSUME NEW f, Countable(f)
    PROVE  Total(f) \in Int
<1>1. PICK n \in Nat : n = Largest(DOMAIN f)
  BY LargestIsMax DEF Countable
<1>2. PICK s : Sums(s, n, f) /\ Total(f) = s[n]
  BY <1>1, TotalSums DEF Countable
<1>3. \A k \in 0..n : s[k] \in Int
  BY <1>2, SumsTyped
<1> QED
  BY <1>2, <1>3

(* Two that differ in one place have totals that differ by that much. *)
LEMMA TotalDiffers ==
    ASSUME NEW f, Countable(f), NEW g, Countable(g), NEW i \in Positive,
           \A j \in Positive : j # i => Worth(g, j) = Worth(f, j)
    PROVE  Total(g) = Total(f) - Worth(f, i) + Worth(g, i)
<1>1. PICK n \in Nat : Largest(DOMAIN f) <= n /\ Largest(DOMAIN g) <= n /\ i <= n
  <2>1. PICK a \in Nat : a = Largest(DOMAIN f)
    BY LargestIsMax DEF Countable
  <2>2. PICK b \in Nat : b = Largest(DOMAIN g)
    BY LargestIsMax DEF Countable
  <2>3. i \in Nat
    BY DEF Positive
  <2>4. a + b + i \in Nat /\ a <= a + b + i /\ b <= a + b + i /\ i <= a + b + i
    BY <2>3
  <2> QED
    BY <2>1, <2>2, <2>4
<1>2. PICK s : Sums(s, n, f)
  BY SummingExists, SummingSums
<1>3. PICK r : Sums(r, n, g)
  BY SummingExists, SummingSums
<1>4. Total(f) = s[n] /\ Total(g) = r[n]
  BY <1>1, <1>2, <1>3, SumsFurther
<1>5. /\ \A k \in 0..n : s[k] \in Int
      /\ \A k \in 1..n : s[k] = s[k - 1] + Worth(f, k)
  BY <1>2, SumsTyped
<1>6. /\ \A k \in 0..n : r[k] \in Int
      /\ \A k \in 1..n : r[k] = r[k - 1] + Worth(g, k)
  BY <1>3, SumsTyped
<1>7. PICK d \in Int : d = Worth(g, i) - Worth(f, i)
  BY WorthTyped
<1> DEFINE G == {k \in 0..n : r[k] = IF k < i THEN s[k] ELSE s[k] + d}
<1>8. 0 \in G
  BY <1>2, <1>3 DEF Sums, Positive
<1>9. ASSUME NEW k \in 1..n, k - 1 \in G
      PROVE  k \in G
  <2>1. PICK x \in Int, y \in Int : x = s[k - 1] /\ y = r[k - 1]
    <3>1. k - 1 \in 0..n
      OBVIOUS
    <3> QED
      BY <1>5, <1>6, <3>1
  <2>2. s[k] = x + Worth(f, k) /\ r[k] = y + Worth(g, k)
    BY <1>5, <1>6, <2>1
  <2>3. Worth(f, k) \in Int /\ Worth(g, k) \in Int /\ Worth(f, i) \in Int /\ Worth(g, i) \in Int
    BY WorthTyped
  <2>4. y = IF k - 1 < i THEN x ELSE x + d
    BY <1>9, <2>1
  <2>5. CASE k = i
    <3>1. y = x
      BY <2>4, <2>5
    <3>2. r[k] = s[k] + d
      BY <1>7, <2>2, <2>3, <2>5, <3>1
    <3> QED
      BY <2>5, <3>2
  <2>6. CASE k # i
    <3>1. Worth(g, k) = Worth(f, k)
      BY <2>6 DEF Positive
    <3>2. i \in Nat
      BY DEF Positive
    <3>3. k - 1 < i <=> k < i
      BY <2>6, <3>2
    <3>4. y = IF k < i THEN x ELSE x + d
      BY <2>4, <3>3
    <3>5. r[k] = IF k < i THEN s[k] ELSE s[k] + d
      BY <2>2, <2>3, <3>1, <3>4
    <3> QED
      BY <3>5
  <2> QED
    BY <2>5, <2>6
<1>10. \A k \in 0..n : k \in G
  <2> HIDE DEF G
  <2> QED
    BY <1>8, <1>9, UpTo
<1>11. n \in G
  <2> HIDE DEF G
  <2> QED
    BY <1>10
<1>12. ~(n < i) /\ s[n] \in Int /\ Worth(f, i) \in Int /\ Worth(g, i) \in Int
  BY <1>1, <1>5, WorthTyped DEF Positive
<1>13. r[n] = s[n] + d
  BY <1>11, <1>12
<1> QED
  BY <1>4, <1>7, <1>12, <1>13

LEMMA TotalNothing ==
    ASSUME NEW f, DOMAIN f = {}
    PROVE  Total(f) = 0
<1>1. Largest(DOMAIN f) = 0
  BY DEF Largest
<1>2. 1..0 = {} /\ 0 \in Nat
  OBVIOUS
<1>3. Bounded(DOMAIN f)
  BY <1>2 DEF Bounded
<1>4. PICK s : Sums(s, 0, f) /\ Total(f) = s[0]
  BY <1>1, <1>3, TotalSums
<1> QED
  BY <1>4 DEF Sums

---------------------------------------------------------------------------
(* A record added to those of a class. *)
LEMMA ExtendedParts ==
    ASSUME NEW f, Bounded(DOMAIN f), NEW x, NEW g, g = Extended(f, x), NEW i, i = NextId(f)
    PROVE  /\ i \in Positive /\ i \notin DOMAIN f /\ DOMAIN g = DOMAIN f \cup {i}
           /\ g[i] = x /\ (\A j \in DOMAIN f : g[j] = f[j])
           /\ Bounded(DOMAIN g) /\ Largest(DOMAIN g) = i
<1>1. PICK n \in Nat : n = Largest(DOMAIN f)
  BY LargestIsMax
<1>2. \A j \in DOMAIN f : j \in Nat /\ j <= n
  BY <1>1, LargestIsMax
<1>3. i = n + 1 /\ i \in Positive /\ i \in Nat
  BY <1>1 DEF NextId, Positive
<1>4. i \notin DOMAIN f
  BY <1>2, <1>3
<1>5. g = [j \in DOMAIN f \cup {i} |-> IF j \in DOMAIN f THEN f[j] ELSE x]
  BY DEF Extended
<1>6. DOMAIN g = DOMAIN f \cup {i} /\ g[i] = x /\ \A j \in DOMAIN f : g[j] = f[j]
  BY <1>4, <1>5
<1>7. Bounded(DOMAIN g)
  <2>1. PICK m \in Nat : DOMAIN f \subseteq 1..m
    BY DEF Bounded
  <2>2. PICK k \in Nat : k = m + i
    BY <1>3
  <2>3. DOMAIN g \subseteq 1..k
    BY <1>3, <1>6, <2>1, <2>2 DEF Positive
  <2> QED
    BY <2>3 DEF Bounded
<1>8. Largest(DOMAIN g) = i
  <2>1. PICK m \in Nat : m = Largest(DOMAIN g)
    BY <1>7, LargestIsMax
  <2>2. m \in DOMAIN g /\ i <= m
    BY <1>6, <1>7, <2>1, LargestIsMax
  <2>3. m <= i
    BY <1>2, <1>3, <1>6, <2>2
  <2> QED
    BY <1>3, <2>1, <2>2, <2>3
<1> QED
  BY <1>3, <1>4, <1>6, <1>7, <1>8

(* The same, named: U is T and p, under the id i. *)
Longer(T, p, U, i) ==
    /\ i \in Positive /\ i \notin DOMAIN T /\ DOMAIN U = DOMAIN T \cup {i}
    /\ U[i] = p /\ (\A j \in DOMAIN T : U[j] = T[j])
    /\ Bounded(DOMAIN U) /\ Largest(DOMAIN U) = i

LEMMA ExtendedLonger ==
    ASSUME NEW T, Bounded(DOMAIN T), NEW p, NEW U, U = Extended(T, p), NEW i, i = NextId(T)
    PROVE  Longer(T, p, U, i)
BY ExtendedParts DEF Longer

(* What the transactions of T come to for account a is Total(Lines(T, a)). *)
PostingsIn(T) == Bounded(DOMAIN T) /\ \A t \in DOMAIN T : T[t] \in Postings

Brings(p, a) == IF p.account = a THEN Net(p) ELSE 0

LEMMA NetTyped ==
    ASSUME NEW p \in Postings, NEW a
    PROVE  Net(p) \in Int /\ Brings(p, a) \in Int /\ p.amount \in Int
<1>1. p.amount \in Int
  BY CentsTyped DEF Postings
<1>2. Net(p) \in Int
  BY <1>1 DEF Net
<1> QED
  BY <1>1, <1>2 DEF Brings

LEMMA LinesFacts ==
    ASSUME NEW T, PostingsIn(T), NEW a
    PROVE  /\ Countable(Lines(T, a))
           /\ \A t : Worth(Lines(T, a), t) = IF t \in DOMAIN T THEN Brings(T[t], a) ELSE 0
<1>1. DOMAIN Lines(T, a) = {s \in DOMAIN T : T[s].account = a}
  BY DEF Lines
<1>2. \A t \in DOMAIN Lines(T, a) : Lines(T, a)[t] = Net(T[t])
  BY DEF Lines
<1>3. \A t \in DOMAIN Lines(T, a) : Lines(T, a)[t] \in Int
  BY <1>1, <1>2, NetTyped DEF PostingsIn
<1>4. Bounded(DOMAIN Lines(T, a))
  BY <1>1 DEF PostingsIn, Bounded
<1>5. \A t : Worth(Lines(T, a), t) = IF t \in DOMAIN T THEN Brings(T[t], a) ELSE 0
  BY <1>1, <1>2 DEF Worth, Brings
<1> QED
  BY <1>3, <1>4, <1>5 DEF Countable

LEMMA PostingsExtended ==
    ASSUME NEW T, PostingsIn(T), NEW p \in Postings, NEW U, U = Extended(T, p)
    PROVE  PostingsIn(U)
<1>1. PICK i : i = NextId(T)
  OBVIOUS
<1>2. /\ DOMAIN U = DOMAIN T \cup {i} /\ U[i] = p /\ (\A j \in DOMAIN T : U[j] = T[j])
      /\ Bounded(DOMAIN U)
  BY <1>1, ExtendedParts DEF PostingsIn
<1> QED
  BY <1>2 DEF PostingsIn

LEMMA LinesExtended ==
    ASSUME NEW T, PostingsIn(T), NEW p \in Postings, NEW U, U = Extended(T, p), NEW a
    PROVE  Total(Lines(U, a)) = Total(Lines(T, a)) + Brings(p, a)
<1>1. PICK i \in Positive : i = NextId(T)
  BY ExtendedParts DEF PostingsIn
<1>2. /\ DOMAIN U = DOMAIN T \cup {i} /\ U[i] = p /\ (\A j \in DOMAIN T : U[j] = T[j])
      /\ i \notin DOMAIN T
  BY <1>1, ExtendedParts DEF PostingsIn
<1>3. PostingsIn(U)
  BY PostingsExtended
<1>4. PICK f : f = Lines(T, a)
  OBVIOUS
<1>5. PICK g : g = Lines(U, a)
  OBVIOUS
<1>6. /\ Countable(f) /\ \A t : Worth(f, t) = IF t \in DOMAIN T THEN Brings(T[t], a) ELSE 0
  BY <1>4, LinesFacts
<1>7. /\ Countable(g) /\ \A t : Worth(g, t) = IF t \in DOMAIN U THEN Brings(U[t], a) ELSE 0
  BY <1>3, <1>5, LinesFacts
<1>8. \A j \in Positive : j # i => Worth(g, j) = Worth(f, j)
  BY <1>2, <1>6, <1>7
<1>9. Worth(f, i) = 0 /\ Worth(g, i) = Brings(p, a)
  BY <1>2, <1>6, <1>7
<1>10. Total(g) = Total(f) - Worth(f, i) + Worth(g, i)
  BY <1>6, <1>7, <1>8, TotalDiffers
<1>11. Total(f) \in Int /\ Brings(p, a) \in Int
  BY <1>6, TotalTyped, NetTyped
<1> QED
  BY <1>4, <1>5, <1>9, <1>10, <1>11

Without(T, t) == [i \in DOMAIN T \ {t} |-> T[i]]

LEMMA LinesWithout ==
    ASSUME NEW T, PostingsIn(T), NEW t \in DOMAIN T, NEW U, U = Without(T, t), NEW a
    PROVE  /\ PostingsIn(U)
           /\ Total(Lines(U, a)) = Total(Lines(T, a)) - Brings(T[t], a)
<1>1. DOMAIN U = DOMAIN T \ {t} /\ \A i \in DOMAIN U : U[i] = T[i]
  BY DEF Without
<1>2. t \in Positive
  BY DEF PostingsIn, Bounded, Positive
<1>3. PostingsIn(U)
  BY <1>1 DEF PostingsIn, Bounded
<1>4. PICK f : f = Lines(T, a)
  OBVIOUS
<1>5. PICK g : g = Lines(U, a)
  OBVIOUS
<1>6. /\ Countable(f) /\ \A s : Worth(f, s) = IF s \in DOMAIN T THEN Brings(T[s], a) ELSE 0
  BY <1>4, LinesFacts
<1>7. /\ Countable(g) /\ \A s : Worth(g, s) = IF s \in DOMAIN U THEN Brings(U[s], a) ELSE 0
  BY <1>3, <1>5, LinesFacts
<1>8. \A j \in Positive : j # t => Worth(g, j) = Worth(f, j)
  BY <1>1, <1>6, <1>7
<1>9. Worth(f, t) = Brings(T[t], a) /\ Worth(g, t) = 0
  BY <1>1, <1>6, <1>7
<1>10. Total(g) = Total(f) - Worth(f, t) + Worth(g, t)
  BY <1>2, <1>6, <1>7, <1>8, TotalDiffers
<1>11. Total(f) \in Int /\ Brings(T[t], a) \in Int
  BY <1>6, TotalTyped, NetTyped DEF PostingsIn
<1> QED
  BY <1>3, <1>4, <1>5, <1>9, <1>10, <1>11

(* One line alone. *)
LEMMA OneLine ==
    ASSUME NEW T, PostingsIn(T), NEW t \in DOMAIN T, NEW a,
           NEW f, f = [s \in {r \in {t} : T[r].account = a} |-> Net(T[s])]
    PROVE  Total(f) = Brings(T[t], a)
<1>1. t \in Positive /\ Net(T[t]) \in Int
  BY NetTyped DEF PostingsIn, Bounded, Positive
<1>2. CASE T[t].account # a
  <2>1. DOMAIN f = {}
    BY <1>2
  <2> QED
    BY <1>2, <2>1, TotalNothing DEF Brings
<1>3. CASE T[t].account = a
  <2>1. DOMAIN f = {t} /\ f[t] = Net(T[t])
    BY <1>3
  <2>2. PICK e : DOMAIN e = {} 
    <3> DEFINE z == [s \in {} |-> 0]
    <3>1. DOMAIN z = {}
      OBVIOUS
    <3> QED
      BY <3>1
  <2>3. Countable(e) /\ Total(e) = 0
    <3>1. DOMAIN e \subseteq 1..0 /\ 0 \in Nat
      BY <2>2
    <3> QED
      BY <2>2, <3>1, TotalNothing DEF Countable, Bounded
  <2>4. Countable(f)
    <3>1. DOMAIN f \subseteq 1..t /\ t \in Nat
      BY <1>1, <2>1 DEF Positive
    <3> QED
      BY <1>1, <2>1, <3>1 DEF Countable, Bounded
  <2>5. /\ \A j \in Positive : j # t => Worth(f, j) = Worth(e, j)
        /\ Worth(e, t) = 0 /\ Worth(f, t) = Net(T[t])
    BY <2>1, <2>2 DEF Worth
  <2>6. Total(f) = Total(e) - Worth(e, t) + Worth(f, t)
    BY <1>1, <2>3, <2>4, <2>5, TotalDiffers
  <2> QED
    BY <1>1, <1>3, <2>3, <2>5, <2>6 DEF Brings
<1> QED
  BY <1>2, <1>3

GiftsIn(C) == Bounded(DOMAIN C) /\ \A c \in DOMAIN C : C[c] \in Gifts

LEMMA GiftsExtended ==
    ASSUME NEW C, GiftsIn(C), NEW x \in Gifts, NEW D, D = Extended(C, x)
    PROVE  GiftsIn(D)
<1>1. PICK i : i = NextId(C)
  OBVIOUS
<1>2. /\ DOMAIN D = DOMAIN C \cup {i} /\ D[i] = x /\ (\A j \in DOMAIN C : D[j] = C[j])
      /\ Bounded(DOMAIN D)
  BY <1>1, ExtendedParts DEF GiftsIn
<1> QED
  BY <1>2 DEF GiftsIn

LEMMA CentFacts == Cent \in Int /\ Cent > 0
BY CentAssumption

LEMMA GiftNumbers ==
    ASSUME NEW gift \in Gifts
    PROVE  gift.amount \in Nat /\ gift.amount \in Int
BY DEF Gifts

LEMMA ToGoalFacts ==
    ASSUME NEW C, GiftsIn(C), NEW g
    PROVE  /\ Countable(ToGoal(C, g))
           /\ \A c : Worth(ToGoal(C, g), c) =
                     IF c \in DOMAIN C /\ C[c].goal = g THEN C[c].amount ELSE 0
<1>1. DOMAIN ToGoal(C, g) = {d \in DOMAIN C : C[d].goal = g}
  BY DEF ToGoal
<1>2. \A c \in DOMAIN ToGoal(C, g) : ToGoal(C, g)[c] = C[c].amount
  BY DEF ToGoal
<1>3. \A c \in DOMAIN ToGoal(C, g) : ToGoal(C, g)[c] \in Int
  BY <1>1, <1>2, GiftNumbers DEF GiftsIn
<1>4. Bounded(DOMAIN ToGoal(C, g))
  BY <1>1 DEF GiftsIn, Bounded
<1>5. \A c : Worth(ToGoal(C, g), c) =
             IF c \in DOMAIN C /\ C[c].goal = g THEN C[c].amount ELSE 0
  BY <1>1, <1>2 DEF Worth
<1> QED
  BY <1>3, <1>4, <1>5 DEF Countable

LEMMA ToGoalExtended ==
    ASSUME NEW C, GiftsIn(C), NEW x \in Gifts, NEW D, D = Extended(C, x), NEW g
    PROVE  /\ Total(ToGoal(C, g)) \in Int
           /\ Total(ToGoal(D, g)) = Total(ToGoal(C, g))
                                       + (IF x.goal = g THEN x.amount ELSE 0)
<1>1. PICK i \in Positive : i = NextId(C)
  BY ExtendedParts DEF GiftsIn
<1>2. /\ DOMAIN D = DOMAIN C \cup {i} /\ D[i] = x /\ (\A j \in DOMAIN C : D[j] = C[j])
      /\ i \notin DOMAIN C
  BY <1>1, ExtendedParts DEF GiftsIn
<1>3. GiftsIn(D)
  BY GiftsExtended
<1>4. PICK f : f = ToGoal(C, g)
  OBVIOUS
<1>5. PICK h : h = ToGoal(D, g)
  OBVIOUS
<1>6. /\ Countable(f)
      /\ \A c : Worth(f, c) = IF c \in DOMAIN C /\ C[c].goal = g THEN C[c].amount ELSE 0
  BY <1>4, ToGoalFacts
<1>7. /\ Countable(h)
      /\ \A c : Worth(h, c) = IF c \in DOMAIN D /\ D[c].goal = g THEN D[c].amount ELSE 0
  BY <1>3, <1>5, ToGoalFacts
<1>8. \A j \in Positive : j # i => Worth(h, j) = Worth(f, j)
  BY <1>2, <1>6, <1>7
<1>9. Worth(f, i) = 0 /\ Worth(h, i) = IF x.goal = g THEN x.amount ELSE 0
  BY <1>2, <1>6, <1>7
<1>10. Total(h) = Total(f) - Worth(f, i) + Worth(h, i)
  BY <1>6, <1>7, <1>8, TotalDiffers
<1>11. Total(f) \in Int /\ Worth(h, i) \in Int
  BY <1>6, <1>7, TotalTyped, WorthTyped
<1> QED
  BY <1>4, <1>5, <1>9, <1>10, <1>11

LEMMA OfCreditFacts ==
    ASSUME NEW C, GiftsIn(C), NEW g
    PROVE  /\ Countable(OfCredit(C, g))
           /\ \A c : Worth(OfCredit(C, g), c) =
                     IF c \in DOMAIN C /\ C[c].source = g THEN C[c].amount ELSE 0
<1>1. DOMAIN OfCredit(C, g) = {d \in DOMAIN C : C[d].source = g}
  BY DEF OfCredit
<1>2. \A c \in DOMAIN OfCredit(C, g) : OfCredit(C, g)[c] = C[c].amount
  BY DEF OfCredit
<1>3. \A c \in DOMAIN OfCredit(C, g) : OfCredit(C, g)[c] \in Int
  BY <1>1, <1>2, GiftNumbers DEF GiftsIn
<1>4. Bounded(DOMAIN OfCredit(C, g))
  BY <1>1 DEF GiftsIn, Bounded
<1>5. \A c : Worth(OfCredit(C, g), c) =
             IF c \in DOMAIN C /\ C[c].source = g THEN C[c].amount ELSE 0
  BY <1>1, <1>2 DEF Worth
<1> QED
  BY <1>3, <1>4, <1>5 DEF Countable

LEMMA OfCreditExtended ==
    ASSUME NEW C, GiftsIn(C), NEW x \in Gifts, NEW D, D = Extended(C, x), NEW g
    PROVE  /\ Total(OfCredit(C, g)) \in Int
           /\ Total(OfCredit(D, g)) = Total(OfCredit(C, g))
                                       + (IF x.source = g THEN x.amount ELSE 0)
<1>1. PICK i \in Positive : i = NextId(C)
  BY ExtendedParts DEF GiftsIn
<1>2. /\ DOMAIN D = DOMAIN C \cup {i} /\ D[i] = x /\ (\A j \in DOMAIN C : D[j] = C[j])
      /\ i \notin DOMAIN C
  BY <1>1, ExtendedParts DEF GiftsIn
<1>3. GiftsIn(D)
  BY GiftsExtended
<1>4. PICK f : f = OfCredit(C, g)
  OBVIOUS
<1>5. PICK h : h = OfCredit(D, g)
  OBVIOUS
<1>6. /\ Countable(f)
      /\ \A c : Worth(f, c) = IF c \in DOMAIN C /\ C[c].source = g THEN C[c].amount ELSE 0
  BY <1>4, OfCreditFacts
<1>7. /\ Countable(h)
      /\ \A c : Worth(h, c) = IF c \in DOMAIN D /\ D[c].source = g THEN D[c].amount ELSE 0
  BY <1>3, <1>5, OfCreditFacts
<1>8. \A j \in Positive : j # i => Worth(h, j) = Worth(f, j)
  BY <1>2, <1>6, <1>7
<1>9. Worth(f, i) = 0 /\ Worth(h, i) = IF x.source = g THEN x.amount ELSE 0
  BY <1>2, <1>6, <1>7
<1>10. Total(h) = Total(f) - Worth(f, i) + Worth(h, i)
  BY <1>6, <1>7, <1>8, TotalDiffers
<1>11. Total(f) \in Int /\ Worth(h, i) \in Int
  BY <1>6, <1>7, TotalTyped, WorthTyped
<1> QED
  BY <1>4, <1>5, <1>9, <1>10, <1>11

(* The same of the excess. *)
LEMMA ExcessFacts ==
    ASSUME NEW C, GiftsIn(C), NEW g
    PROVE  /\ Countable(Excess(C, g))
           /\ \A c : Worth(Excess(C, g), c) =
                     IF c \in DOMAIN C /\ C[c].source = g THEN 2 * C[c].amount - Cent ELSE 0
<1>1. DOMAIN Excess(C, g) = {d \in DOMAIN C : C[d].source = g}
  BY DEF Excess
<1>2. \A c \in DOMAIN Excess(C, g) : Excess(C, g)[c] = 2 * C[c].amount - Cent
  BY DEF Excess
<1>3. \A c \in DOMAIN Excess(C, g) : Excess(C, g)[c] \in Int
  BY <1>1, <1>2, GiftNumbers, CentFacts DEF GiftsIn
<1>4. Bounded(DOMAIN Excess(C, g))
  BY <1>1 DEF GiftsIn, Bounded
<1>5. \A c : Worth(Excess(C, g), c) =
             IF c \in DOMAIN C /\ C[c].source = g THEN 2 * C[c].amount - Cent ELSE 0
  BY <1>1, <1>2 DEF Worth
<1> QED
  BY <1>3, <1>4, <1>5 DEF Countable

LEMMA ExcessExtended ==
    ASSUME NEW C, GiftsIn(C), NEW x \in Gifts, NEW D, D = Extended(C, x), NEW g
    PROVE  /\ Total(Excess(C, g)) \in Int
           /\ Total(Excess(D, g)) = Total(Excess(C, g))
                                       + (IF x.source = g THEN 2 * x.amount - Cent ELSE 0)
<1>1. PICK i \in Positive : i = NextId(C)
  BY ExtendedParts DEF GiftsIn
<1>2. /\ DOMAIN D = DOMAIN C \cup {i} /\ D[i] = x /\ (\A j \in DOMAIN C : D[j] = C[j])
      /\ i \notin DOMAIN C
  BY <1>1, ExtendedParts DEF GiftsIn
<1>3. GiftsIn(D)
  BY GiftsExtended
<1>4. PICK f : f = Excess(C, g)
  OBVIOUS
<1>5. PICK h : h = Excess(D, g)
  OBVIOUS
<1>6. /\ Countable(f)
      /\ \A c : Worth(f, c) = IF c \in DOMAIN C /\ C[c].source = g THEN 2 * C[c].amount - Cent ELSE 0
  BY <1>4, ExcessFacts
<1>7. /\ Countable(h)
      /\ \A c : Worth(h, c) = IF c \in DOMAIN D /\ D[c].source = g THEN 2 * D[c].amount - Cent ELSE 0
  BY <1>3, <1>5, ExcessFacts
<1>8. \A j \in Positive : j # i => Worth(h, j) = Worth(f, j)
  BY <1>2, <1>6, <1>7
<1>9. Worth(f, i) = 0 /\ Worth(h, i) = IF x.source = g THEN 2 * x.amount - Cent ELSE 0
  BY <1>2, <1>6, <1>7
<1>10. Total(h) = Total(f) - Worth(f, i) + Worth(h, i)
  BY <1>6, <1>7, <1>8, TotalDiffers
<1>11. Total(f) \in Int /\ Worth(h, i) \in Int
  BY <1>6, <1>7, TotalTyped, WorthTyped
<1> QED
  BY <1>4, <1>5, <1>9, <1>10, <1>11

---------------------------------------------------------------------------
(* What a credit's contributions make of the goals G and contributions C.  *)
GoalsIn(G) == Bounded(DOMAIN G) /\ \A g \in DOMAIN G : G[g] \in GoalRecords

Grown(old, new) ==
    /\ new.account = old.account /\ new.percent = old.percent
    /\ new.current >= old.current
    /\ new.status = "active" => old.status = "active"

Even(G, C, H, D, g) ==
    H[g].current - Total(ToGoal(D, g)) = G[g].current - Total(ToGoal(C, g))

(* Together the contributions of the source came to spent, but for half a  *)
(* cent each.                                                              *)
Fed(G, C, H, D, source, spent) ==
    /\ GoalsIn(H) /\ GiftsIn(D) /\ DOMAIN H = DOMAIN G
    /\ \A g \in DOMAIN G : Grown(G[g], H[g]) /\ Even(G, C, H, D, g)
    /\ Total(Excess(D, source)) <= Total(Excess(C, source)) + 2 * spent
    /\ \A t : t # source => /\ Total(OfCredit(D, t)) = Total(OfCredit(C, t))
                            /\ Total(Excess(D, t)) = Total(Excess(C, t))
    /\ \A c \in DOMAIN D : \/ c \in DOMAIN C /\ D[c] = C[c]
                           \/ D[c].source = source /\ D[c].goal \in DOMAIN G

GiftOf(g, x, source) == [goal |-> g, amount |-> Rounded(x), source |-> source]

LEMMA CreditedParts ==
    ASSUME NEW goal \in GoalRecords, NEW y \in Nat, NEW c \in Cents, c = goal.current + y,
           NEW new, new = Credited(goal, c)
    PROVE  /\ new \in GoalRecords /\ new.current = goal.current + y
           /\ Grown(goal, new) /\ goal.current \in Int
<1>1. new \in GoalRecords
  BY CreditedTyped
<1>2. c \in Int /\ goal.current \in Int
  BY CentsTyped, GoalNumbers
<1>3. PICK s \in GoalStatuses :
         s = IF c >= goal.target THEN "completed" ELSE goal.status
  <2>1. goal.status \in GoalStatuses /\ "completed" \in GoalStatuses
    BY GoalChanged DEF GoalStatuses
  <2> QED
    BY <2>1
<1>4. new = [goal EXCEPT !.current = c, !.status = s]
  BY <1>3 DEF Credited
<1>5. /\ new.account = goal.account /\ new.percent = goal.percent
      /\ new.current = c /\ new.status = s
  BY <1>4 DEF GoalRecords
<1>6. s = "active" => goal.status = "active"
  BY <1>3
<1>7. c >= goal.current
  BY <1>2
<1> QED
  BY <1>1, <1>2, <1>5, <1>6, <1>7 DEF Grown

LEMMA TotalsTyped ==
    ASSUME NEW C, GiftsIn(C), NEW g
    PROVE  /\ Total(ToGoal(C, g)) \in Int /\ Total(OfCredit(C, g)) \in Int
           /\ Total(Excess(C, g)) \in Int
BY ToGoalFacts, OfCreditFacts, ExcessFacts, TotalTyped

LEMMA FedStart ==
    ASSUME NEW G, GoalsIn(G), NEW C, GiftsIn(C), NEW source
    PROVE  Fed(G, C, G, C, source, 0)
<1>1. ASSUME NEW g \in DOMAIN G
      PROVE  Grown(G[g], G[g]) /\ Even(G, C, G, C, g)
  <2>1. G[g].current \in Int
    BY GoalNumbers DEF GoalsIn
  <2> QED
    BY <2>1 DEF Grown, Even
<1>2. PICK n \in Int : n = Total(Excess(C, source))
  BY TotalsTyped
<1>3. n <= n + 2 * 0
  OBVIOUS
<1> QED
  BY <1>1, <1>2, <1>3 DEF Fed

LEMMA FedStep ==
    ASSUME NEW G, GoalsIn(G), NEW C, GiftsIn(C), NEW H, NEW D,
           NEW source \in Nat, NEW spent \in Int, Fed(G, C, H, D, source, spent),
           NEW g \in DOMAIN G, g \in Positive, NEW x \in Positive,
           NEW goal, goal = Credited(H[g], SafeAdd(H[g].current, x)),
           NEW gift, gift = GiftOf(g, x, source),
           NEW I, I = With(H, g, goal), NEW E, E = Extended(D, gift)
    PROVE  Fed(G, C, I, E, source, spent + x)
<1>1. GoalsIn(H) /\ GiftsIn(D) /\ DOMAIN H = DOMAIN G /\ x \in Int
  BY DEF Fed, Positive
<1>0. PICK y \in Nat : y = Rounded(x) /\ y \in Cents
  BY BroughtTyped
<1>2. /\ goal \in GoalRecords /\ goal.current = H[g].current + y
      /\ Grown(H[g], goal) /\ H[g].current \in Int
  <2>1. H[g] \in GoalRecords
    BY <1>1 DEF GoalsIn
  <2>2. PICK old \in GoalRecords : old = H[g]
    BY <2>1
  <2>3. old.current \in Cents
    BY GoalNumbers
  <2>4. PICK c \in Cents : c = SafeAdd(old.current, x) /\ c = old.current + y
    BY <1>0, <1>1, <2>3, SafeAddFacts
  <2>5. goal = Credited(old, c)
    BY <2>2, <2>4
  <2> QED
    BY <2>2, <2>4, <2>5, CreditedParts
<1>3. DOMAIN I = DOMAIN H /\ I[g] = goal /\ \A h \in DOMAIN H : h # g => I[h] = H[h]
  BY <1>1 DEF With
<1>4. GoalsIn(I) /\ DOMAIN I = DOMAIN G
  BY <1>1, <1>2, <1>3 DEF GoalsIn
<1>5. gift \in Gifts /\ gift.goal = g /\ gift.amount = y /\ gift.source = source
  BY <1>0 DEF GiftOf, Gifts
<1>6. GiftsIn(E)
  BY <1>1, <1>5, GiftsExtended
<1>7. ASSUME NEW h \in DOMAIN G
      PROVE  Grown(G[h], I[h]) /\ Even(G, C, I, E, h)
  <2>1. Grown(G[h], H[h]) /\ Even(G, C, H, D, h)
    BY DEF Fed
  <2>2. PICK old \in Int : old = Total(ToGoal(D, h))
    BY <1>1, TotalsTyped
  <2>3. Total(ToGoal(E, h)) = old + (IF g = h THEN y ELSE 0)
    BY <1>1, <1>5, <2>2, ToGoalExtended
  <2>4. CASE h = g
    <3>1. Grown(G[h], I[h])
      <4>1. G[h].current \in Int /\ I[h].current \in Int
        BY <1>2, <1>3, <2>4, GoalNumbers DEF GoalsIn
      <4> QED
        BY <1>2, <1>3, <2>1, <2>4, <4>1 DEF Grown
    <3>2. PICK c \in Int : c = H[g].current
      BY <1>2
    <3>3. I[h].current = c + y /\ Total(ToGoal(E, h)) = old + y
      BY <1>2, <1>3, <2>3, <2>4, <3>2
    <3>4. (c + y) - (old + y) = c - old
      BY <1>1
    <3> QED
      BY <2>1, <2>2, <2>4, <3>1, <3>2, <3>3, <3>4 DEF Even
  <2>5. CASE h # g
    <3>1. I[h] = H[h] /\ Total(ToGoal(E, h)) = old
      BY <1>1, <1>3, <2>3, <2>5
    <3> QED
      BY <2>1, <2>2, <3>1 DEF Even
  <2> QED
    BY <2>4, <2>5
<1>8. Total(Excess(E, source)) <= Total(Excess(C, source)) + 2 * (spent + x)
  <2>1. PICK old \in Int : old = Total(Excess(C, source))
    BY TotalsTyped
  <2>2. PICK now \in Int : now = Total(Excess(D, source)) /\ now <= old + 2 * spent
    BY <1>1, <2>1, TotalsTyped DEF Fed
  <2>3. Total(Excess(E, source)) = now + (2 * y - Cent)
    BY <1>1, <1>5, <2>2, ExcessExtended
  <2>4. PICK cent \in Int : cent = Cent
    BY CentFacts
  <2>5. 2 * y - cent <= 2 * x
    BY <1>0, <1>1, <2>4, RoundedClose
  <2>6. now + (2 * y - cent) <= old + 2 * (spent + x)
    BY <1>1, <2>2, <2>5
  <2> QED
    BY <2>1, <2>3, <2>4, <2>6
<1>9. ASSUME NEW t, t # source
      PROVE  /\ Total(OfCredit(E, t)) = Total(OfCredit(C, t))
             /\ Total(Excess(E, t)) = Total(Excess(C, t))
  <2>1. PICK old \in Int : old = Total(OfCredit(C, t))
    BY TotalsTyped
  <2>2. PICK more \in Int : more = Total(Excess(C, t))
    BY TotalsTyped
  <2>3. Total(OfCredit(D, t)) = old /\ Total(Excess(D, t)) = more
    BY <1>9, <2>1, <2>2 DEF Fed
  <2>4. Total(OfCredit(E, t)) = Total(OfCredit(D, t)) + 0
    BY <1>1, <1>5, <1>9, OfCreditExtended
  <2>5. Total(Excess(E, t)) = Total(Excess(D, t)) + 0
    BY <1>1, <1>5, <1>9, ExcessExtended
  <2> QED
    BY <2>1, <2>2, <2>3, <2>4, <2>5
<1>10. ASSUME NEW c \in DOMAIN E
       PROVE  \/ c \in DOMAIN C /\ E[c] = C[c]
              \/ E[c].source = source /\ E[c].goal \in DOMAIN G
  <2>1. PICK i : i = NextId(D)
    OBVIOUS
  <2>2. /\ i \in Positive /\ i \notin DOMAIN D /\ DOMAIN E = DOMAIN D \cup {i}
        /\ E[i] = gift /\ (\A j \in DOMAIN D : E[j] = D[j])
        /\ Bounded(DOMAIN E) /\ Largest(DOMAIN E) = i
    <3>1. Bounded(DOMAIN D)
      BY <1>1 DEF GiftsIn
    <3>2. Longer(D, gift, E, i)
      BY <2>1, <3>1, ExtendedLonger
    <3> QED
      BY <3>2 DEF Longer
  <2>3. CASE c = i
    BY <1>5, <2>2, <2>3
  <2>4. CASE c # i
    BY <2>2, <2>4 DEF Fed
  <2> QED
    BY <2>3, <2>4
<1> QED
  BY <1>4, <1>6, <1>7, <1>8, <1>9, <1>10 DEF Fed

---------------------------------------------------------------------------
(* The loop over the linked goals, in the unit of work.  Object h is the   *)
(* last copy of goal g and holds x; the goals after the first k of the     *)
(* list wait as objects first + k + 1 and on.                              *)
Ready(v, h, g, x) == HasGoal(v, h, g) /\ v.objs[h].data = x

Waiting(v, first, goals, k, n, store) ==
    \A j \in (k + 1)..n : Ready(v, first + j, goals[j], store["Goal"][goals[j]])

LEMMA CarryGoalsLoaded ==
    ASSUME NEW store, NEW u, NEW first \in Nat, Carrying(u, Booking, first, store, store),
           NEW n \in Nat, NEW goals, Distinct(goals, n),
           \A k \in 1..n : goals[k] \in DOMAIN store["Goal"],
           NEW f, Loading(f, n, u, goals)
    PROVE  /\ Carrying(f[n], Booking, first + n, store, store)
           /\ f[n].counter = u.counter /\ Waiting(f[n], first, goals, 0, n, store)
<1> DEFINE Good(k) == /\ Carrying(f[k], Booking, first + k, store, store)
                      /\ f[k].counter = u.counter
                      /\ Waiting(f[k], first, goals, 0, k, store)
           G == {k \in 0..n : Good(k)}
<1>1. \A k \in 0..n : f[k] = IF k = 0 THEN u ELSE Load(f[k - 1], "Goal", goals[k])
  BY Zenon DEF Loading
<1>2. Good(0)
  <2>1. PICK z \in 0..n : z = 0
    OBVIOUS
  <2>2. f[z] = u
    BY <1>1, <2>1
  <2>3. first + 0 = first
    OBVIOUS
  <2> QED
    BY <2>1, <2>2, <2>3 DEF Waiting
<1>3. ASSUME NEW k \in 1..n, Good(k - 1)
      PROVE  Good(k)
  <2>1. PICK v : v = f[k - 1]
    OBVIOUS
  <2>2. PICK w : w = f[k]
    OBVIOUS
  <2>3. PICK m \in Nat : m = first + (k - 1)
    OBVIOUS
  <2>4. PICK l : l = first + k
    OBVIOUS
  <2>5. After(m, l)
    BY <2>3, <2>4 DEF After
  <2>6. PICK c \in Typed : c = "Goal" /\ c \in Classes
    BY ClassFacts
  <2>7. w = Load(v, c, goals[k]) /\ goals[k] \in DOMAIN store[c]
    <3>1. k \in 0..n /\ k # 0
      OBVIOUS
    <3> QED
      BY <1>1, <2>1, <2>2, <2>6, <3>1
  <2>8. /\ Carrying(v, Booking, m, store, store) /\ v.counter = u.counter
        /\ Waiting(v, first, goals, 0, k - 1, store)
    BY <1>3, <2>1, <2>3
  <2>9. /\ Carrying(w, Booking, l, store, store) /\ KeepsBut(v, w, c, goals[k])
        /\ Latest(w, l, c, goals[k]) /\ w.counter = v.counter
    <3>1. /\ Carrying(w, Booking, l, store, store) /\ KeepsBut(v, w, c, goals[k])
          /\ c \in Typed => Latest(w, l, c, goals[k])
          /\ InSeq(l, w.updates) /\ w.counter = v.counter
      BY <2>5, <2>6, <2>7, <2>8, BookingClasses, CarryLoad
    <3> QED
      BY <2>6, <3>1
  <2>10. /\ w.objs[l] = [class |-> c, id |-> goals[k], tracked |-> TRUE,
                         data |-> store[c][goals[k]]]
         /\ \A h \in 1..m : w.objs[h] = v.objs[h]
    <3>1. Working(v, Booking, m, store)
      BY <2>8, CarryDomain
    <3> QED
      BY <2>5, <2>6, <2>7, <3>1, Loaded
  <2>11. Ready(w, l, goals[k], store["Goal"][goals[k]])
    BY <2>6, <2>9, <2>10 DEF Ready, HasGoal
  <2>12. Waiting(w, first, goals, 0, k, store)
    <3> SUFFICES ASSUME NEW j \in 1..k
                 PROVE  Ready(w, first + j, goals[j], store["Goal"][goals[j]])
      BY DEF Waiting
    <3>1. CASE j = k
      BY <2>4, <2>11, <3>1
    <3>2. CASE j # k
      <4>1. j \in (0 + 1)..(k - 1) /\ first + j \in 1..m
        BY <2>3, <3>2
      <4>2. PICK h : h = first + j
        OBVIOUS
      <4>3. PICK g : g = goals[j]
        OBVIOUS
      <4>4. HasGoal(v, h, g) /\ v.objs[h].data = store["Goal"][g]
        BY <2>8, <4>1, <4>2, <4>3 DEF Waiting, Ready
      <4>5. g # goals[k]
        <5>1. j \in 1..n /\ k \in 1..n /\ j < k
          BY <3>2
        <5> QED
          BY <4>3, <5>1 DEF Distinct
      <4>6. w.objs[h] = v.objs[h]
        BY <2>10, <4>1, <4>2
      <4>7. Latest(w, h, "Goal", g)
        BY <2>6, <2>9, <4>4, <4>5 DEF KeepsBut, HasGoal
      <4> QED
        BY <4>2, <4>3, <4>4, <4>6, <4>7 DEF Ready, HasGoal
    <3> QED
      BY <3>1, <3>2
  <2> QED
    BY <2>2, <2>4, <2>8, <2>9, <2>12
<1>4. \A k \in 0..n : k \in G
  <2>1. 0 \in G
    BY <1>2
  <2>2. \A k \in 1..n : k - 1 \in G => k \in G
    BY <1>3
  <2> HIDE DEF G
  <2> QED
    BY <2>1, <2>2, UpTo
<1>5. n \in G
  <2> HIDE DEF G
  <2> QED
    BY <1>4
<1> QED
  BY <1>5

(* What the first k goals of the list have made of the stores: a, ahead.   *)
Aside(a, store) ==
    \A c \in Classes : c # "Goal" /\ c # "GoalContribution" => a[c] = store[c]

Untouched(a, goals, k, n, store) ==
    \A j \in (k + 1)..n : a["Goal"][goals[j]] = store["Goal"][goals[j]]

FedAhead(a, store, source, spent) ==
    /\ Aside(a, store)
    /\ Fed(store["Goal"], store["GoalContribution"],
           a["Goal"], a["GoalContribution"], source, spent)

Carried(v, first, goals, k, n, store, source, spent) ==
    \E l, a : /\ Carrying(v, Booking, l, store, a) /\ l \in Nat /\ first + n <= l
              /\ FedAhead(a, store, source, spent) /\ Untouched(a, goals, k, n, store)

Feeding(r, k, first, goals, n, store, source, amount, count) ==
    /\ Carried(r.unit, first, goals, k, n, store, source, amount - r.left)
    /\ Waiting(r.unit, first, goals, k, n, store)
    /\ r.unit.counter["Transaction"] = count
    /\ DOMAIN r = {"unit", "left", "made", "raised"}
    /\ r.left \in Nat /\ r.made \in BOOLEAN /\ r.raised \in BOOLEAN

(* Goal k of the list is next, object h holds it and x more makes it fed.  *)
Turn(first, n, k, m, h, amount, left, x, fed) ==
    /\ k \in 1..n /\ m \in Int /\ x \in Positive
    /\ m = k - 1 /\ h = first + k /\ fed = amount - (left - x)

(* The list of linked goals that a credit of amount is shared out over.    *)
Lined(store, first, n, goals, source, amount) ==
    /\ GoalsIn(store["Goal"]) /\ GiftsIn(store["GoalContribution"])
    /\ first \in Nat /\ n \in Nat /\ Distinct(goals, n)
    /\ \A j \in 1..n : goals[j] \in DOMAIN store["Goal"] /\ goals[j] \in Positive
    /\ source \in Nat /\ amount \in Int

(* The loop has passed a goal over. *)
Passed(r, s) ==
    /\ s.unit = r.unit /\ s.left = r.left /\ s.made \in BOOLEAN /\ s.raised \in BOOLEAN
    /\ DOMAIN s = {"unit", "left", "made", "raised"}

LEMMA FeedingSame ==
    ASSUME NEW r, NEW first, NEW goals, NEW n, NEW store, NEW source, NEW amount,
           NEW count, NEW k, NEW m, NEW h, Turn(first, n, k, m, h, 0, 0, 1, 1),
           Feeding(r, m, first, goals, n, store, source, amount, count),
           NEW s, Passed(r, s)
    PROVE  Feeding(s, k, first, goals, n, store, source, amount, count)
<1>1. /\ s.unit = r.unit /\ s.left = r.left /\ s.made \in BOOLEAN /\ s.raised \in BOOLEAN
      /\ DOMAIN s = {"unit", "left", "made", "raised"}
  BY Zenon DEF Passed
<1>2. \A j \in (k + 1)..n : j \in (m + 1)..n
  BY DEF Turn
<1>3. PICK l, a : /\ Carrying(r.unit, Booking, l, store, a) /\ l \in Nat /\ first + n <= l
                  /\ FedAhead(a, store, source, amount - r.left)
                  /\ Untouched(a, goals, m, n, store)
  BY DEF Feeding, Carried
<1>4. Untouched(a, goals, k, n, store)
  BY <1>2, <1>3 DEF Untouched
<1>5. Carried(s.unit, first, goals, k, n, store, source, amount - s.left)
  BY <1>1, <1>3, <1>4 DEF Carried
<1>6. Waiting(s.unit, first, goals, k, n, store)
  BY <1>1, <1>2 DEF Feeding, Waiting
<1> QED
  BY <1>1, <1>5, <1>6, Zenon DEF Feeding

Counts(v, count) == v.counter["Transaction"] = count

LEMMA FeedContributed ==
    ASSUME NEW store, NEW first, NEW n, NEW goals, NEW source, NEW amount, NEW count,
           Lined(store, first, n, goals, source, amount), NEW k, NEW m, NEW r,
           Feeding(r, m, first, goals, n, store, source, amount, count),
           NEW v, v = r.unit, NEW left, left = r.left, NEW g, g = goals[k],
           NEW h, NEW x, NEW fed, Turn(first, n, k, m, h, amount, left, x, fed),
           NEW w, w = Contributed(v, h, g, x, source)
    PROVE  /\ Carried(w, first, goals, k, n, store, source, fed)
           /\ Waiting(w, first, goals, k, n, store) /\ Counts(w, count)
<1>0. /\ GoalsIn(store["Goal"]) /\ GiftsIn(store["GoalContribution"])
      /\ first \in Nat /\ n \in Nat /\ Distinct(goals, n)
      /\ \A j \in 1..n : goals[j] \in DOMAIN store["Goal"] /\ goals[j] \in Positive
      /\ source \in Nat /\ amount \in Int /\ k \in 1..n /\ m \in Int /\ x \in Positive
  BY DEF Lined, Turn
<1>1. /\ m = k - 1 /\ h = first + k /\ fed = amount - (left - x)
      /\ Feeding(r, m, first, goals, n, store, source, amount, count)
  BY DEF Turn
<1>2. v = r.unit /\ left = r.left /\ g = goals[k]
  BY <1>0
<1>3. PICK spent \in Int : spent = amount - left /\ left \in Nat
  BY <1>0, <1>1, <1>2 DEF Feeding
<1>4. PICK l \in Nat : \E a : /\ Carrying(v, Booking, l, store, a) /\ first + n <= l
                              /\ FedAhead(a, store, source, spent)
                              /\ Untouched(a, goals, m, n, store)
  BY <1>0, <1>1, <1>2, <1>3 DEF Feeding, Carried
<1>5. PICK a : /\ Carrying(v, Booking, l, store, a) /\ first + n <= l
               /\ FedAhead(a, store, source, spent) /\ Untouched(a, goals, m, n, store)
  BY <1>0, <1>4
<1>6. g = goals[k] /\ g \in DOMAIN store["Goal"] /\ g \in Positive
  BY <1>0
<1>7. Within(h, l) /\ h \in 1..l
  BY <1>0, <1>1, <1>5 DEF Within
<1>8. k \in (m + 1)..n
  BY <1>0, <1>1
<1>9. HasGoal(v, h, g) /\ v.objs[h].data = store["Goal"][g] /\ a["Goal"][g] = store["Goal"][g]
  BY <1>0, <1>1, <1>2, <1>5, <1>6, <1>8 DEF Feeding, Waiting, Ready, Untouched
<1>10. x \in Int /\ store["Goal"][g] \in GoalRecords
  BY <1>0, <1>6 DEF Positive, GoalsIn
<1>11. PICK goal : /\ goal = Credited(store["Goal"][g], SafeAdd(store["Goal"][g].current, x))
                   /\ goal \in GoalRecords
  BY <1>0, <1>10, GoalNumbers, SafeAddFacts, CreditedTyped
<1>12. PICK w1 : w1 = Assign(v, h, goal)
  BY <1>0
<1>13. PICK s1 : s1 = Replaced(a, "Goal", g, goal)
  BY <1>0
<1>14. Carrying(w1, Booking, l, store, s1) /\ Keeps(v, w1) /\ w1.counter = v.counter
  BY <1>0, <1>5, <1>6, <1>7, <1>9, <1>11, <1>12, <1>13, CarryAssignGoal
<1>15. \A j \in 1..l : j # h => w1.objs[j] = v.objs[j]
  <2>1. PICK c \in Classes : c = "Goal"
    BY ClassFacts
  <2>2. v.objs[h].class = c /\ goal \in Allowed(c, v.objs[h].id)
    BY <1>0, <1>9, <1>11, <2>1, AllowedLoosely DEF HasGoal, Records
  <2>3. Working(v, Booking, l, store)
    BY <1>0, <1>5, CarryDomain
  <2>4. /\ Working(Assign(v, h, goal), Booking, l, store)
        /\ Put(v, Assign(v, h, goal), h, goal)
        /\ \A j \in 1..l : j # h => Assign(v, h, goal).objs[j] = v.objs[j]
    <3>1. Within(h, l)
      BY <1>0, <1>7
    <3> QED
      BY <1>0, <2>2, <2>3, <3>1, Assigned
  <2> QED
    BY <1>0, <1>12, <2>4
<1>16. PICK gift : gift = GiftOf(g, x, source) /\ gift \in Gifts
  <2>1. g \in Positive /\ x \in Positive /\ source \in Nat
    BY <1>0, <1>6
  <2>2. PICK y \in Cents \cap Nat : y = Rounded(x)
    BY <2>1, BroughtTyped
  <2>3. [goal |-> g, amount |-> y, source |-> source] \in Gifts
    BY <2>1 DEF Gifts
  <2>4. GiftOf(g, x, source) \in Gifts
    BY <2>2, <2>3 DEF GiftOf
  <2> QED
    BY <1>0, <2>4
<1>17. w = Record(w1, "GoalContribution", gift)
  BY <1>0, <1>2, <1>6, <1>9, <1>11, <1>12, <1>16 DEF Contributed, GiftOf
<1>18. PICK s2 : s2 = Appended(s1, "GoalContribution", gift)
  BY <1>0
<1>19. PICK o \in Nat : o = l + 1 /\ After(l, o)
  BY DEF After
<1>20. /\ Carrying(w, Booking, o, store, s2) /\ Keeps(w1, w)
       /\ w.counter["Transaction"] = w1.counter["Transaction"]
       /\ \A j \in 1..l : w.objs[j] = w1.objs[j]
  BY <1>0, <1>14, <1>16, <1>17, <1>18, <1>19, CarryGift
<1>21. DOMAIN a = Classes /\ DOMAIN s1 = Classes
  BY <1>0, <1>5, <1>14, CarryDomain
<1>22. /\ s1["Goal"] = With(a["Goal"], g, goal)
       /\ \A c \in Classes : c # "Goal" => s1[c] = a[c]
  BY <1>0, <1>13, <1>21, GoalWith
<1>23. /\ s2["GoalContribution"] = Extended(s1["GoalContribution"], gift)
       /\ \A c \in Classes : c # "GoalContribution" => s2[c] = s1[c]
  BY <1>0, <1>18, <1>21, BookingClasses, AppendedAt
<1>24. /\ s2["Goal"] = With(a["Goal"], g, goal)
       /\ s2["GoalContribution"] = Extended(a["GoalContribution"], gift)
  BY <1>0, <1>22, <1>23, BookingClasses
<1>25. Aside(s2, store)
  BY <1>0, <1>5, <1>22, <1>23 DEF Aside, FedAhead
<1>26. Fed(store["Goal"], store["GoalContribution"],
           a["Goal"], a["GoalContribution"], source, spent)
  BY <1>0, <1>5 DEF FedAhead
<1>27. Fed(store["Goal"], store["GoalContribution"],
           s2["Goal"], s2["GoalContribution"], source, spent + x)
  BY <1>0, <1>6, <1>9, <1>11, <1>16, <1>24, <1>26, FedStep
<1>28. Untouched(s2, goals, k, n, store)
  <2> SUFFICES ASSUME NEW j \in (k + 1)..n
               PROVE  s2["Goal"][goals[j]] = store["Goal"][goals[j]]
    BY DEF Untouched
  <2>1. j \in 1..n /\ k < j /\ j \in (m + 1)..n
    BY <1>0, <1>1
  <2>2. goals[j] # g /\ goals[j] \in DOMAIN store["Goal"]
    BY <1>0, <1>6, <2>1 DEF Distinct
  <2>3. DOMAIN a["Goal"] = DOMAIN store["Goal"]
    BY <1>0, <1>26 DEF Fed
  <2>4. a["Goal"][goals[j]] = store["Goal"][goals[j]]
    BY <1>0, <1>5, <2>1 DEF Untouched
  <2> QED
    BY <1>0, <1>24, <2>2, <2>3, <2>4 DEF With
<1>29. Waiting(w, first, goals, k, n, store)
  <2> SUFFICES ASSUME NEW j \in (k + 1)..n
               PROVE  Ready(w, first + j, goals[j], store["Goal"][goals[j]])
    BY DEF Waiting
  <2>1. j \in 1..n /\ k < j /\ j \in (m + 1)..n
    BY <1>0, <1>1
  <2>2. PICK i : i = first + j
    BY <1>0
  <2>3. i \in 1..l /\ i # h
    BY <1>0, <1>1, <1>5, <2>1, <2>2
  <2>4. HasGoal(v, i, goals[j]) /\ v.objs[i].data = store["Goal"][goals[j]]
    BY <1>0, <1>1, <1>2, <2>1, <2>2 DEF Feeding, Waiting, Ready
  <2>5. w.objs[i] = v.objs[i]
    BY <1>0, <1>15, <1>20, <2>3
  <2>6. Latest(w, i, "Goal", goals[j])
    BY <1>0, <1>14, <1>20, <2>4 DEF Keeps, HasGoal
  <2> QED
    BY <1>0, <2>2, <2>4, <2>5, <2>6 DEF Ready, HasGoal
<1>30. spent + x = fed
  BY <1>0, <1>1, <1>3, <1>10
<1>31. first + n <= o
  BY <1>0, <1>5, <1>19
<1>32. FedAhead(s2, store, source, fed)
  BY <1>0, <1>25, <1>27, <1>30 DEF FedAhead
<1>33. Carried(w, first, goals, k, n, store, source, fed)
  BY <1>0, <1>20, <1>28, <1>31, <1>32 DEF Carried
<1>34. w.counter["Transaction"] = count
  BY <1>0, <1>1, <1>2, <1>14, <1>20 DEF Feeding
<1> QED
  BY <1>0, <1>29, <1>33, <1>34 DEF Counts

LEMMA FeedingStep ==
    ASSUME NEW store, NEW first, NEW n, NEW goals, NEW source, NEW amount, NEW count,
           Lined(store, first, n, goals, source, amount), NEW k, NEW m, NEW r,
           Feeding(r, m, first, goals, n, store, source, amount, count),
           NEW h, Turn(first, n, k, m, h, 0, 0, 1, 1),
           NEW g, g = goals[k], NEW s, s = Allocate(r, h, g, source)
    PROVE  Feeding(s, k, first, goals, n, store, source, amount, count)
<1>1. /\ GoalsIn(store["Goal"]) /\ first \in Nat /\ n \in Nat /\ amount \in Int
      /\ k \in 1..n /\ m \in Int /\ m = k - 1 /\ h = first + k
      /\ \A j \in 1..n : goals[j] \in DOMAIN store["Goal"]
      /\ Feeding(r, m, first, goals, n, store, source, amount, count) /\ g = goals[k]
  BY DEF Lined, Turn
<1>2. h = first + k
  BY <1>1
<1>3. /\ DOMAIN r = {"unit", "left", "made", "raised"}
      /\ r.left \in Nat /\ r.made \in BOOLEAN /\ r.raised \in BOOLEAN
  BY <1>1, Zenon DEF Feeding
<1>4. PICK v : v = r.unit
  OBVIOUS
<1>5. v.objs[h].data \in GoalRecords
  <2>1. k \in (m + 1)..n
    BY <1>1
  <2>2. v.objs[h].data = store["Goal"][goals[k]]
    BY <1>1, <1>2, <1>4, <2>1 DEF Feeding, Waiting, Ready
  <2> QED
    BY <1>1, <2>2 DEF GoalsIn
<1>6. PICK x : x = Share(v.objs[h].data, r.left)
  OBVIOUS
<1>7. CASE s = r
  <2>1. Passed(r, s)
    BY <1>3, <1>7, Zenon DEF Passed
  <2> QED
    BY <2>1, FeedingSame
<1>8. CASE s = [r EXCEPT !.raised = TRUE]
  <2>1. /\ s.unit = r.unit /\ s.left = r.left /\ s.made = r.made /\ s.raised = TRUE
        /\ DOMAIN s = {"unit", "left", "made", "raised"}
    BY <1>3, <1>8
  <2>2. s.made \in BOOLEAN /\ s.raised \in BOOLEAN
    BY <1>3, <2>1, Zenon
  <2>3. Passed(r, s)
    BY <2>1, <2>2, Zenon DEF Passed
  <2> QED
    BY <2>3, FeedingSame
<1>9. CASE /\ x > 0 /\ r.left > 0
           /\ s = [r EXCEPT !.unit = Contributed(@, h, g, x, source),
                            !.left = @ - x, !.made = TRUE]
  <2>1. x \in Positive /\ x <= r.left /\ r.left \in Int
    <3>1. r.left \in Int
      BY <1>3
    <3>2. x \in Int /\ x <= r.left
      BY <1>5, <1>6, <1>9, <3>1, ShareFacts
    <3> QED
      BY <1>9, <3>1, <3>2 DEF Positive
  <2>2. PICK w : w = Contributed(v, h, g, x, source)
    OBVIOUS
  <2>9. PICK left : left = r.left
    OBVIOUS
  <2>3. PICK fed : fed = amount - (left - x)
    OBVIOUS
  <2>8. /\ Carried(w, first, goals, k, n, store, source, fed)
        /\ Waiting(w, first, goals, k, n, store) /\ Counts(w, count)
    <3>1. x \in Positive
      BY <2>1
    <3>2. Turn(first, n, k, m, h, amount, left, x, fed)
      BY <1>1, <1>2, <2>3, <3>1 DEF Turn
    <3> QED
      BY <1>1, <1>4, <2>2, <2>9, <3>2, FeedContributed
  <2>4. /\ s.unit = w /\ s.left = r.left - x /\ s.made = TRUE /\ s.raised = r.raised
        /\ DOMAIN s = {"unit", "left", "made", "raised"}
    BY <1>3, <1>4, <1>9, <2>2
  <2>5. s.left \in Nat
    BY <2>1, <2>4 DEF Positive
  <2>6. s.made \in BOOLEAN /\ s.raised \in BOOLEAN
    BY <1>3, <2>4, Zenon
  <2>7. Carried(s.unit, first, goals, k, n, store, source, amount - s.left)
    BY <2>3, <2>4, <2>8, <2>9
  <2> QED
    BY <2>4, <2>5, <2>6, <2>7, <2>8, Zenon DEF Feeding, Counts
<1>10. \/ s = r
       \/ s = [r EXCEPT !.raised = TRUE]
       \/ /\ x > 0 /\ r.left > 0
          /\ s = [r EXCEPT !.unit = Contributed(@, h, g, x, source),
                           !.left = @ - x, !.made = TRUE]
  <2>1. r.left \in Int
    BY <1>3
  <2>2. r.left > 0 => x \in Int
    BY <1>5, <1>6, <2>1, ShareFacts
  <2>3. /\ ~(r.left <= 0) => r.left > 0
        /\ r.left > 0 => (~(x <= 0) => x > 0)
    BY <2>1, <2>2
  <2>4. s = Allocate(r, h, g, source)
    BY <1>2
  <2> QED
    BY <1>4, <1>6, <2>3, <2>4 DEF Allocate
<1> QED
  BY <1>7, <1>8, <1>9, <1>10

LEMMA FeedingAll ==
    ASSUME NEW store, NEW first \in Nat, NEW n \in Nat, NEW goals,
           NEW source, NEW amount, NEW count,
           Lined(store, first, n, goals, source, amount), NEW start,
           Feeding(start, 0, first, goals, n, store, source, amount, count),
           NEW f, Allocating(f, n, start, first, goals, source)
    PROVE  Feeding(f[n], n, first, goals, n, store, source, amount, count)
<1> DEFINE G == {k \in 0..n : Feeding(f[k], k, first, goals, n, store, source, amount, count)}
<1>1. \A k \in 0..n : f[k] = IF k = 0 THEN start
                             ELSE Allocate(f[k - 1], first + k, goals[k], source)
  BY Zenon DEF Allocating
<1>2. 0 \in G
  <2>1. PICK z \in 0..n : z = 0
    OBVIOUS
  <2>2. f[z] = start
    BY <1>1, <2>1
  <2> QED
    BY <2>1, <2>2
<1>3. ASSUME NEW k \in 1..n, k - 1 \in G
      PROVE  k \in G
  <2>1. f[k] = Allocate(f[k - 1], first + k, goals[k], source) /\ k \in 0..n
    <3>1. k \in 0..n /\ k # 0
      OBVIOUS
    <3> QED
      BY <1>1, <3>1
  <2>2. PICK r : r = f[k - 1]
    OBVIOUS
  <2>3. PICK s : s = f[k]
    OBVIOUS
  <2>4. Feeding(s, k, first, goals, n, store, source, amount, count)
    <3>1. PICK m, h : m = k - 1 /\ h = first + k
      OBVIOUS
    <3>2. Turn(first, n, k, m, h, 0, 0, 1, 1)
      BY <3>1 DEF Turn, Positive
    <3>3. Feeding(r, m, first, goals, n, store, source, amount, count)
      BY <1>3, <2>2, <3>1
    <3>4. PICK g : g = goals[k]
      OBVIOUS
    <3>5. s = Allocate(r, h, g, source)
      BY <2>1, <2>2, <2>3, <3>1, <3>4
    <3> QED
      BY <3>2, <3>3, <3>4, <3>5, FeedingStep
  <2> QED
    BY <2>1, <2>3, <2>4
<1>4. \A k \in 0..n : k \in G
  <2> HIDE DEF G
  <2> QED
    BY <1>2, <1>3, UpTo
<1>5. n \in G
  <2> HIDE DEF G
  <2> QED
    BY <1>4
<1> QED
  BY <1>5
(* What seeing to the goals made of a credit of amount booked as source.   *)
Fostered(d, store, count, type, amount, source) ==
    /\ Aside(d.store, store) /\ Counts(d, count)
    /\ \/ /\ d.store["Goal"] = store["Goal"]
          /\ d.store["GoalContribution"] = store["GoalContribution"]
       \/ \E left \in Nat :
             type = "credit" /\ Fed(store["Goal"], store["GoalContribution"],
                                    d.store["Goal"], d.store["GoalContribution"],
                                    source, amount - left)

LEMMA FosteredNot ==
    ASSUME NEW v, NEW n, NEW store, NEW a, Carrying(v, Booking, n, store, a),
           NEW count, Counts(v, count), NEW type, NEW amount, NEW source,
           NEW d, d = Close(v)
    PROVE  Fostered(d, store, count, type, amount, source)
<1>1. d.store = store /\ d.counter = v.counter
  BY DEF Carrying, Working, Close
<1> QED
  BY <1>1 DEF Fostered, Aside, Counts

LEMMA FosteredSome ==
    ASSUME NEW v, NEW first, NEW goals, NEW n, NEW store, NEW source, NEW amount,
           NEW left \in Nat, NEW fed, fed = amount - left,
           Carried(v, first, goals, n, n, store, source, fed), NEW count, Counts(v, count),
           NEW type, type = "credit", NEW d, d = Close(Commit(v))
    PROVE  Fostered(d, store, count, type, amount, source)
<1>1. PICK l, a : /\ Carrying(v, Booking, l, store, a) /\ FedAhead(a, store, source, fed)
  BY DEF Carried
<1>2. (\A c \in Classes : d.store[c] = a[c]) /\ d.counter = v.counter
  BY <1>1, BookingClasses, CarryEnd
<1>3. Aside(d.store, store) /\ Counts(d, count)
  BY <1>1, <1>2 DEF FedAhead, Aside, Counts
<1>4. Fed(store["Goal"], store["GoalContribution"],
          d.store["Goal"], d.store["GoalContribution"], source, fed)
  BY <1>1, <1>2, BookingClasses DEF FedAhead
<1> QED
  BY <1>3, <1>4 DEF Fostered

(* process_transaction_for_goals for a transaction of that content and id. *)
Seen(u, type, party, b, amount, source) ==
    LET goals == LinkedGoals(u, b)
        account == Load(u, "Account", b)
        first == Len(account.objs)
        loaded[k \in 0..Len(goals)] ==
            IF k = 0 THEN account ELSE Load(loaded[k - 1], "Goal", goals[k])
        after[k \in 0..Len(goals)] ==
            IF k = 0 THEN [unit |-> loaded[Len(goals)], left |-> amount,
                           made |-> FALSE, raised |-> FALSE]
            ELSE Allocate(after[k - 1], first + k, goals[k], source)
        result == after[Len(goals)]
    IN IF type # "credit" \/ party # 0 THEN u
       ELSE IF result.made /\ ~result.raised THEN Commit(result.unit) ELSE result.unit

LEMMA SeenTo ==
    ASSUME NEW u, NEW t
    PROVE  ProcessTransactionForGoals(u, t) =
              Seen(u, u.objs[t].data.type, u.objs[t].data.party, u.objs[t].data.account,
                   u.objs[t].data.amount, u.objs[t].id)
BY Zenon DEF ProcessTransactionForGoals, Seen

LEMMA ProcessEffect ==
    ASSUME NEW store, NEW n \in Nat, NEW u, Carrying(u, Booking, n, store, store),
           GoalsIn(store["Goal"]), GiftsIn(store["GoalContribution"]),
           NEW t, NEW p \in Postings, u.objs[t].data = p, p.amount \in Nat,
           NEW source \in Nat, source = u.objs[t].id, NEW count, Counts(u, count),
           NEW d, d = Close(ProcessTransactionForGoals(u, t))
    PROVE  Fostered(d, store, count, p.type, p.amount, source)
<1>1. PICK b \in Owned : b = p.account
  BY DEF Postings
<1>2. PICK amount \in Nat : amount = p.amount
  OBVIOUS
<1> DEFINE goals == LinkedGoals(u, b)
           account == Load(u, "Account", b)
           first == Len(account.objs)
           m == Len(goals)
           IsLoaded(f) == f = [k \in 0..m |-> IF k = 0 THEN account
                                              ELSE Load(f[k - 1], "Goal", goals[k])]
           loaded == CHOOSE f : IsLoaded(f)
           start == [unit |-> loaded[m], left |-> amount, made |-> FALSE, raised |-> FALSE]
           IsAfter(f) == f = [k \in 0..m |->
                                 IF k = 0 THEN [unit |-> loaded[m], left |-> amount,
                                                made |-> FALSE, raised |-> FALSE]
                                 ELSE Allocate(f[k - 1], first + k, goals[k], source)]
           after == CHOOSE f : IsAfter(f)
           result == after[m]
<1>3. ProcessTransactionForGoals(u, t) =
         IF p.type # "credit" \/ p.party # 0 THEN u
         ELSE IF result.made /\ ~result.raised THEN Commit(result.unit) ELSE result.unit
  <2>1. ProcessTransactionForGoals(u, t) = Seen(u, p.type, p.party, b, amount, source)
    BY <1>1, <1>2, SeenTo
  <2>2. Seen(u, p.type, p.party, b, amount, source) =
           IF p.type # "credit" \/ p.party # 0 THEN u
           ELSE IF result.made /\ ~result.raised THEN Commit(result.unit) ELSE result.unit
    BY Zenon DEF Seen
  <2> HIDE DEF result
  <2> QED
    BY <2>1, <2>2
<1>4. \/ ProcessTransactionForGoals(u, t) = u
      \/ ProcessTransactionForGoals(u, t) = result.unit
      \/ p.type = "credit" /\ ProcessTransactionForGoals(u, t) = Commit(result.unit)
  <2> HIDE DEF result
  <2> QED
    BY <1>3
<1>5. Working(u, Booking, n, store)
  BY CarryDomain
<1>6. /\ m \in Nat /\ Distinct(goals, m)
      /\ \A k \in 1..m : goals[k] \in DOMAIN store["Goal"] /\ goals[k] \in Positive
  <2>1. Stored(u.store) /\ u.store = store
    BY <1>5 DEF Working, Sound
  <2>2. DOMAIN store["Goal"] \subseteq Positive
    BY <2>1, ClassFacts, IdsArePositive
  <2> QED
    BY <2>1, <2>2, LinkedFacts
<1>7. /\ Carrying(account, Booking, first, store, store) /\ first \in Nat
      /\ account.counter = u.counter
  <2>1. PICK l \in Nat : After(n, l)
    BY DEF After
  <2>2. PICK w : w = account
    OBVIOUS
  <2>3. Carrying(w, Booking, l, store, store) /\ w.counter = u.counter
    BY <2>1, <2>2, BookingClasses, CarryAccount
  <2>4. Len(w.objs) = l
    BY <2>3 DEF Carrying, Working
  <2> QED
    BY <2>1, <2>2, <2>3, <2>4
<1> HIDE DEF account, goals, m, first
<1>8. IsLoaded(loaded)
  <2>1. PICK f : Loading(f, m, account, goals)
    BY <1>6, LoadingExists
  <2>2. IsLoaded(f)
    BY <2>1, Zenon DEF Loading
  <2> HIDE DEF IsLoaded
  <2> QED
    BY <2>2
<1>9. /\ Carrying(loaded[m], Booking, first + m, store, store)
      /\ loaded[m].counter = u.counter /\ Waiting(loaded[m], first, goals, 0, m, store)
  <2>1. Loading(loaded, m, account, goals)
    BY <1>8, Zenon DEF Loading
  <2> HIDE DEF loaded
  <2>2. PICK v : v = loaded[m]
    OBVIOUS
  <2>3. /\ Carrying(loaded[m], Booking, first + m, store, store)
        /\ loaded[m].counter = account.counter /\ Waiting(loaded[m], first, goals, 0, m, store)
    BY <1>6, <1>7, <2>1, CarryGoalsLoaded
  <2> QED
    BY <1>7, <2>3
<1> HIDE DEF loaded
<1>10. Lined(store, first, m, goals, source, amount)
  BY <1>2, <1>6, <1>7 DEF Lined
<1>11. Feeding(start, 0, first, goals, m, store, source, amount, count)
  <2>1. /\ start.unit = loaded[m] /\ start.left = amount
        /\ start.made = FALSE /\ start.raised = FALSE
        /\ DOMAIN start = {"unit", "left", "made", "raised"}
    OBVIOUS
  <2> HIDE DEF start
  <2>2. FedAhead(store, store, source, 0)
    BY FedStart DEF FedAhead, Aside
  <2>3. first + m \in Nat /\ first + m <= first + m /\ amount - amount = 0
    BY <1>6, <1>7
  <2>4. Untouched(store, goals, 0, m, store)
    BY DEF Untouched
  <2>5. PICK v, l : v = loaded[m] /\ l = first + m
    OBVIOUS
  <2>6. Carried(v, first, goals, 0, m, store, source, 0)
    BY <1>9, <2>2, <2>3, <2>4, <2>5 DEF Carried
  <2>7. PICK fed : fed = amount - start.left /\ fed = 0
    BY <2>1, <2>3
  <2>8. Carried(start.unit, first, goals, 0, m, store, source, amount - start.left)
    BY <2>1, <2>5, <2>6, <2>7
  <2>9. Waiting(start.unit, first, goals, 0, m, store) /\ start.unit.counter["Transaction"] = count
    BY <1>9, <2>1 DEF Counts
  <2>10. start.left \in Nat /\ start.made \in BOOLEAN /\ start.raised \in BOOLEAN
    BY <2>1
  <2> QED
    BY <2>1, <2>8, <2>9, <2>10, Zenon DEF Feeding
<1>12. IsAfter(after)
  <2>1. PICK f : Allocating(f, m, start, first, goals, source)
    BY <1>6, <1>7, AllocatingExists
  <2>2. IsAfter(f)
    BY <2>1, Zenon DEF Allocating
  <2> HIDE DEF IsAfter
  <2> QED
    BY <2>2
<1>13. PICK r : r = result
  OBVIOUS
<1>14. Feeding(r, m, first, goals, m, store, source, amount, count)
  <2>1. Allocating(after, m, start, first, goals, source)
    BY <1>12, Zenon DEF Allocating
  <2> HIDE DEF after, start
  <2>2. Feeding(after[m], m, first, goals, m, store, source, amount, count)
    BY <1>6, <1>7, <1>10, <1>11, <2>1, FeedingAll
  <2> QED
    BY <1>13, <2>2
<1> HIDE DEF result
<1>15. PICK v, left, fed : v = r.unit /\ left = r.left /\ fed = amount - left
  OBVIOUS
<1>16. /\ Carried(v, first, goals, m, m, store, source, fed)
       /\ Counts(v, count) /\ left \in Nat
  BY <1>14, <1>15 DEF Feeding, Counts
<1>17. PICK l, a : Carrying(v, Booking, l, store, a)
  BY <1>16 DEF Carried
<1>18. PICK type : type = p.type
  OBVIOUS
<1>19. \/ d = Close(u)
       \/ d = Close(v)
       \/ type = "credit" /\ d = Close(Commit(v))
  BY <1>4, <1>13, <1>15, <1>18
<1>20. Fostered(d, store, count, type, amount, source)
  <2>1. CASE d = Close(u)
    BY <2>1, FosteredNot
  <2>2. CASE d = Close(v)
    BY <1>16, <1>17, <2>2, FosteredNot
  <2>3. CASE type = "credit" /\ d = Close(Commit(v))
    BY <1>15, <1>16, <2>3, FosteredSome
  <2> QED
    BY <1>19, <2>1, <2>2, <2>3
<1> QED
  BY <1>2, <1>18, <1>20

(* The id a posting gets: it is the only addition of its unit of work.     *)
LEMMA PostedId ==
    ASSUME BooksSound(db), NEW a \in Accounts, NEW d \in Int, Covers(db.store, a, d),
           NEW p \in Records("Transaction"),
           NEW w, w = Record(Change(Holding(a), 1, d), "Transaction", p), NEW t, t = 2
    PROVE  IdAfter(w, t) = NextId(Transactions)
<1>1. PICK c \in Booking : c = "Transaction" /\ c \in Classes
  BY BookingClasses
<1>2. PICK u : u = Holding(a)
  OBVIOUS
<1>3. PICK x : x = Rounded(u.objs[1].data + d)
  OBVIOUS
<1>4. PICK v : v = Change(u, 1, d) /\ v = Assign(u, 1, x)
  BY <1>3 DEF Change
<1>5. /\ Carrying(u, Booking, 1, db.store, db.store) /\ Holds(u, 1, a)
      /\ Latest(u, 1, "Account", a)
  BY <1>2, BookingClasses, CarryHolding
<1>6. u.adds = <<>> /\ Len(u.objs) = 1
  <2>1. u.adds = <<>>
    BY <1>2 DEF Holding, Load, Open
  <2> QED
    BY <1>5, <2>1 DEF Carrying, Working
<1>7. PICK s : /\ Carrying(w, Booking, 2, db.store, s)
               /\ w.objs[t].data = p /\ w.objs[t].class = c
  BY <1>1, CarryBooked
<1>8. v.adds = <<>> /\ Sound(v, Booking) /\ Len(v.objs) = 1
  <2>1. a \in Owned
    BY BalanceTyped
  <2>2. PICK y : y = Rounded(db.store["Account"][a] + d)
    OBVIOUS
  <2>3. PICK s1 : s1 = Replaced(db.store, "Account", a, y)
    OBVIOUS
  <2>4. Carrying(v, Booking, 1, db.store, s1)
    BY <1>4, <1>5, <2>1, <2>2, <2>3, BookingClasses, Counting, CarryChange
  <2>5. InSeq(1, u.updates) /\ Sound(u, Booking)
    BY <1>5 DEF Latest, LastOf, UpdatesOf, InSeq, Carrying, Working
  <2>6. v.adds = u.adds
    BY <1>4, <2>5, AssignParts
  <2> QED
    BY <1>6, <2>4, <2>6 DEF Carrying, Working
<1>9. w.adds = Append(<<>>, t)
  <2>1. w = Record(v, c, p) /\ p \in Records(c)
    BY <1>1, <1>2, <1>4
  <2>2. w.adds = Append(v.adds, Len(v.objs) + 1)
    <3>1. Booking \in Makes /\ Sound(v, Booking)
      BY <1>8, BookingClasses
    <3> QED
      BY <2>1, <3>1, RecordParts, Zenon
  <2>3. 1 + 1 = t
    OBVIOUS
  <2> QED
    BY <1>8, <2>2, <2>3
<1>10. DOMAIN w.adds = {1} /\ w.adds[1] = t
  <2>1. <<>> \in Seq({t}) /\ t \in {t} /\ Len(<<>>) = 0
    OBVIOUS
  <2>2. PICK list \in Seq({t}) : list = <<>> /\ Len(list) = 0
    BY <2>1
  <2>3. PICK added : added = Append(list, t)
    OBVIOUS
  <2>4. DOMAIN added = 1..1 /\ added[1] = t
    BY <2>2, <2>3
  <2>5. 1..1 = {1}
    OBVIOUS
  <2> QED
    BY <1>9, <2>2, <2>3, <2>4, <2>5
<1>11. AddsOf(w, c) = {1}
  BY <1>7, <1>10 DEF AddsOf
<1>12. IdAfter(w, t) = NewId(w, 1)
  <2>1. InSeq(t, w.adds) /\ (CHOOSE k \in DOMAIN w.adds : w.adds[k] = t) = 1
    BY <1>10 DEF InSeq
  <2> QED
    BY <2>1 DEF IdAfter
<1>13. {j \in AddsOf(w, c) : j <= 1} = {1}
  BY <1>11
<1>14. Cardinality({1}) = 1
  BY FS_Singleton
<1>15. NewId(w, 1) = Largest(DOMAIN w.store[c]) + 1
  BY <1>7, <1>10, <1>13, <1>14 DEF NewId
<1>16. w.store = db.store
  BY <1>7 DEF Carrying, Working
<1> QED
  BY <1>1, <1>12, <1>15, <1>16 DEF NextId, Transactions

LEMMA GoalsSound ==
    ASSUME BooksSound(db)
    PROVE  GoalsIn(Goals) /\ GiftsIn(Contributions)
<1>1. "Goal" \in Classes /\ "GoalContribution" \in Classes
  BY ClassFacts
<1>2. /\ Bounded(DOMAIN Goals) /\ Bounded(DOMAIN Contributions)
      /\ \A i \in DOMAIN Goals : Goals[i] \in Allowed("Goal", i)
      /\ \A i \in DOMAIN Contributions : Contributions[i] \in Allowed("GoalContribution", i)
  BY <1>1 DEF BooksSound, Stored, Goals, Contributions
<1>3. \A i : Allowed("Goal", i) = GoalRecords /\ Allowed("GoalContribution", i) = Gifts
  BY DEF Allowed, Records
<1> QED
  BY <1>2, <1>3 DEF GoalsIn, GiftsIn

(* What came to the goals of a credit, booked under the next id.           *)
Credit(d, p) ==
    \/ GoalsKept(d)
    \/ \E left \in Nat : /\ p.type = "credit"
                         /\ Fed(Goals, Contributions, d.store["Goal"],
                                d.store["GoalContribution"], NextId(Transactions),
                                p.amount - left)

LEMMA CreateTransactionEffect ==
    ASSUME BooksSound(db), NEW a \in Accounts, NEW x \in Amounts,
           NEW type \in TransactionTypes, CreateTransaction(a, x, type)
    PROVE  \E p \in Postings : /\ OneBooked(db', p) /\ p.status = "completed"
                               /\ p.amount \in Nat /\ Credit(db', p)
<1>1. x \in Int /\ x \in Nat /\ -x \in Int /\ a \in Owned
  <2>1. x \in Positive
    BY AmountFacts
  <2> QED
    BY <2>1, AmountFacts, BalanceTyped DEF Positive
<1>2. PICK p : p = Posting(a, x, type, 0)
  OBVIOUS
<1>3. PICK d : d = IF type = "debit" THEN -x ELSE x
  OBVIOUS
<1>4. /\ p \in Postings /\ p.account = a /\ p.party = 0 /\ p.status = "completed"
      /\ Means(p, d) /\ p.type = type /\ p.amount \in Nat /\ d \in Int /\ Worthy(p)
  BY <1>1, <1>2, <1>3, PostingParts, PostingWorthy
<1>5. Covers(db.store, a, d)
  <2>1. CASE type = "debit"
    <3>1. Guarded(a) => Balance(a) >= x
      BY <2>1 DEF CreateTransaction, SufficientFunds, Guarded
    <3> QED
      BY <1>1, <1>3, <2>1, <3>1, TakesLess
  <2>2. CASE type # "debit"
    BY <1>1, <1>3, <2>2, BringsMore
  <2> QED
    BY <2>1, <2>2
<1>6. PICK v : v = Record(Change(Holding(a), 1, d), "Transaction", p)
  OBVIOUS
<1>7. PICK t : t = 2
  OBVIOUS
<1>8. p \in Records("Transaction")
  BY <1>4 DEF Records
<1>9. PICK s : /\ Carrying(v, Booking, 2, db.store, s) /\ Posted(s, v.counter, a, d, p)
               /\ Spared(s, {"Account", "Transaction"}) /\ v.objs[t].data = p
  BY <1>4, <1>5, <1>6, <1>7, <1>8, CarryBooked
<1>10. PICK w : w = Commit(v)
  OBVIOUS
<1>11. PICK store : store = w.store
  OBVIOUS
<1>12. /\ Carrying(w, Booking, 2, store, store) /\ w.counter = v.counter
       /\ \A c \in Classes : store[c] = s[c]
  BY <1>9, <1>10, <1>11, BookingClasses, CarryCommit
<1>13. w.objs[t] = [v.objs[t] EXCEPT !.id = IdAfter(v, t)] /\ v.objs[t] \in Objects
  <2>1. Sound(v, Booking) /\ Len(v.objs) = 2
    BY <1>9 DEF Carrying, Working
  <2>2. PICK h \in 1..Len(v.objs) : h = t
    BY <1>7, <2>1
  <2>3. v.objs[h] \in Objects
    BY <2>1 DEF Sound, ObjectsSound
  <2>4. w.objs[h] = [v.objs[h] EXCEPT !.id = IdAfter(v, h)]
    BY <1>10, <2>1, BookingClasses, CommitFacts
  <2> QED
    BY <2>2, <2>3, <2>4
<1>14. PICK source : source = NextId(Transactions)
  OBVIOUS
<1>15. IdAfter(v, t) = source
  BY <1>4, <1>5, <1>6, <1>7, <1>8, <1>14, PostedId
<1>16. w.objs[t].data = p /\ w.objs[t].id = source
  BY <1>9, <1>13, <1>15 DEF Objects
<1>17. source \in Nat
  <2>1. Sound(v, Booking) /\ Len(v.objs) = 2
    BY <1>9 DEF Carrying, Working
  <2>2. PICK h \in 1..Len(v.objs) : h = t
    BY <1>7, <2>1
  <2>3. IdAfter(v, h) \in Positive
    BY <2>1, BookingClasses, CommitFacts
  <2> QED
    BY <1>15, <2>2, <2>3 DEF Positive
<1>18. /\ store["Goal"] = Goals /\ store["GoalContribution"] = Contributions
       /\ store["Notification"] = Notifications
       /\ store["Account"] = s["Account"] /\ store["Transaction"] = s["Transaction"]
  BY <1>9, <1>12, BookingClasses DEF Spared, Goals, Contributions, Notifications
<1>19. PICK count : count = v.counter["Transaction"] /\ Counts(w, count)
  BY <1>12 DEF Counts
<1>20. db' = Close(ProcessTransactionForGoals(w, t))
  BY <1>2, <1>3, <1>6, <1>7, <1>10 DEF CreateTransaction, Booked
<1>21. PICK d1 : d1 = db'
  OBVIOUS
<1>22. Fostered(d1, store, count, type, p.amount, source)
  <2>1. GoalsIn(store["Goal"]) /\ GiftsIn(store["GoalContribution"])
    BY <1>18, GoalsSound
  <2>2. PICK n \in Nat : n = 2
    OBVIOUS
  <2>3. Carrying(w, Booking, n, store, store)
    BY <1>12, <2>2
  <2>4. p.amount \in Nat /\ d1 = Close(ProcessTransactionForGoals(w, t))
    BY <1>1, <1>4, <1>20, <1>21
  <2>5. Fostered(d1, store, count, p.type, p.amount, source)
    BY <1>4, <1>16, <1>17, <1>19, <2>1, <2>3, <2>4, ProcessEffect
  <2> QED
    BY <1>4, <2>5
<1>23. /\ \A c \in Classes : c # "Goal" /\ c # "GoalContribution" => d1.store[c] = store[c]
       /\ d1.counter["Transaction"] = count
  BY <1>22 DEF Fostered, Aside, Counts
<1>24. /\ d1.store["Account"] = s["Account"] /\ d1.store["Transaction"] = s["Transaction"]
       /\ d1.store["Notification"] = Notifications
  BY <1>18, <1>23, BookingClasses
<1>25. OneBooked(d1, p)
  BY <1>4, <1>9, <1>19, <1>23, <1>24 DEF OneBooked, Posted
<1>26. Credit(d1, p)
  BY <1>4, <1>14, <1>18, <1>22 DEF Fostered, Credit, GoalsKept
<1> QED
  BY <1>1, <1>4, <1>21, <1>25, <1>26

---------------------------------------------------------------------------
(* What a request makes of the books, and of the goals. *)
CreditBooked(d, p) ==
    OneBooked(d, p) /\ p.status = "completed" /\ p.amount \in Nat /\ Credit(d, p)

(* What the validation lets through: the share of a new goal, and the one  *)
(* an update names.                                                        *)
Vetted(goal) ==
    goal.account # 0 /\ goal.percent > 0
        => Percent(ActiveGoals(goal.account)) + goal.percent <= 100

Reshared(g, goal) ==
    \/ goal.percent = Goals[g].percent
    \/ /\ goal.percent \in Nat
       /\ goal.account # 0
             => Percent(ActiveGoals(goal.account) \ {g}) + goal.percent <= 100

(* What a goal is replaced by, and what is in it then. *)
Swapped(old, new, current) == new.account = old.account /\ new.current = current

GoalsEffect(d) ==
    \/ GoalsKept(d)
    \/ \E p \in Postings : CreditBooked(d, p)
    \/ \E goal \in NewGoals : GoalMade(d, goal) /\ Vetted(goal)
    \/ \E g \in DOMAIN Goals : GoalGone(d, g)
    \/ \E g \in DOMAIN Goals, goal \in GoalRecords, x \in Nat :
          /\ GoalPut(d, g, goal) /\ Swapped(Goals[g], goal, Goals[g].current - x)
          /\ Reshared(g, goal) /\ (x = 0 \/ goal.current >= 0)
    \/ \E g \in DOMAIN Goals, goal \in GoalRecords, x \in Amounts :
          /\ GoalGiven(d, g, goal, x)
          /\ Swapped(Goals[g], goal, Rounded(Goals[g].current + x))
          /\ goal.percent = Goals[g].percent

Effect(d) == BooksEffect(d) /\ GoalsEffect(d)

LEMMA GoalsAside ==
    ASSUME NEW d, BooksEffect(d), GoalsKept(d)
    PROVE  Effect(d)
BY DEF Effect, GoalsEffect

LEMMA AccountEffect ==
    ASSUME BooksSound(db), AccountRequest
    PROVE  Effect(db')
<1>1. CASE \E t \in DOMAIN Transactions : DeleteTransaction(t)
  BY <1>1, DeleteTransactionEffect, GoalsAside
<1>2. ASSUME NEW a \in Accounts, NEW x \in Amounts, NEW b \in Accounts,
             TransferMoney(a, b, x) \/ CreateTransfer(a, b, x) \/ PayCard(b, a, x)
      PROVE  Effect(db')
  BY <1>2, TransferMoneyEffect, CreateTransferEffect, PayCardEffect, GoalsAside
<1>3. ASSUME NEW a \in Accounts, NEW x \in Amounts,
             \/ TransferExternal(a, x) \/ DepositMoney(a, x)
             \/ WithdrawMoney(a, x) \/ PayBill(a, x)
      PROVE  Effect(db')
  BY <1>3, TransferExternalEffect, DepositMoneyEffect, WithdrawMoneyEffect, GoalsAside
     DEF PayBill
<1>7. ASSUME NEW a \in Accounts, NEW x \in Charges,
             ProcessPayroll(a, x) \/ RecordExpense(a, x)
      PROVE  Effect(db')
  BY <1>7, CompanyEffect, GoalsAside
<1>4. ASSUME NEW a \in Accounts, NEW x \in Amounts, NEW w \in Users, NEW fee \in Fees,
             SendMoney(a, w, x, fee)
      PROVE  Effect(db')
  BY <1>4, SendMoneyEffect, GoalsAside
<1>5. ASSUME NEW a \in Accounts, NEW x \in Amounts, NEW type \in TransactionTypes,
             CreateTransaction(a, x, type)
      PROVE  Effect(db')
  <2>1. PICK p \in Postings : CreditBooked(db', p)
    BY <1>5, CreateTransactionEffect DEF CreditBooked
  <2>2. OneBooked(db', p)
    BY <2>1 DEF CreditBooked
  <2> QED
    BY <2>1, <2>2 DEF Effect, BooksEffect, GoalsEffect
<1>6. ASSUME NEW a \in Accounts, NEW x \in Amounts, NEW instant \in BOOLEAN,
             CreateP2PTransfer(a, x, instant)
      PROVE  Effect(db')
  BY <1>6, P2PEffect, GoalsAside
<1> QED
  BY <1>1, <1>2, <1>3, <1>4, <1>5, <1>6, <1>7 DEF AccountRequest

LEMMA RuleEffect ==
    ASSUME BooksSound(db), RuleRequest
    PROVE  Effect(db')
<1>1. ASSUME NEW a \in Accounts, NEW x \in Amounts, NEW type \in TransactionTypes,
             CreateRecurringRule(a, x, type)
      PROVE  Effect(db')
  BY <1>1, CreateRecurringRuleEffect, QuietEffect, GoalsAside
<1>2. ASSUME NEW r \in DOMAIN Rules, ToggleRecurringRule(r) \/ DeleteRecurringRule(r)
      PROVE  Effect(db')
  <2>1. PICK on \in BOOLEAN : SwitchRule(r, on)
    <3>1. (~Rules[r].active) \in BOOLEAN /\ FALSE \in BOOLEAN
      BY Zenon
    <3> QED
      BY <1>2, <3>1, Zenon DEF ToggleRecurringRule, DeleteRecurringRule
  <2> QED
    BY <2>1, SwitchRuleEffect, QuietEffect, GoalsAside
<1>3. ASSUME NEW r \in DOMAIN Rules, ExecuteRecurringRule(r)
      PROVE  Effect(db')
  BY <1>3, ExecuteRecurringRuleEffect, GoalsAside
<1> QED
  BY <1>1, <1>2, <1>3 DEF RuleRequest

(* The updates of a goal. *)
LEMMA SwapEffect ==
    ASSUME QuietBooks(db'), NEW g \in DOMAIN Goals, NEW goal \in GoalRecords,
           GoalPut(db', g, goal), Reshared(g, goal), NEW x \in Nat, x = 0,
           Swapped(Goals[g], goal, Goals[g].current - x)
    PROVE  Effect(db')
BY QuietEffect DEF Effect, GoalsEffect

LEMMA RelabelEffect ==
    ASSUME BooksSound(db), NEW g \in DOMAIN Goals, NEW goal \in GoalRecords,
           goal.account = Goals[g].account, goal.current = Goals[g].current,
           Reshared(g, goal),
           db' = Close(Commit(Assign(HoldingGoal(g), 1, goal)))
    PROVE  Effect(db')
<1>1. QuietBooks(db') /\ GoalPut(db', g, goal)
  BY GoalPutEffect
<1>2. PICK x \in Nat : x = 0
  OBVIOUS
<1>3. Goals[g].current \in Int
  BY GoalTyped, GoalNumbers
<1>4. Swapped(Goals[g], goal, Goals[g].current - x)
  BY <1>2, <1>3 DEF Swapped
<1> QED
  BY <1>1, <1>2, <1>4, SwapEffect

LEMMA UpdateEffect ==
    ASSUME BooksSound(db), NEW g \in DOMAIN Goals, NEW goal \in GoalRecords,
           goal.account = Goals[g].account, goal.current = Goals[g].current,
           Reshared(g, goal),
           UpdateGoal(g, goal)
    PROVE  Effect(db')
<1>1. PICK s \in GoalStatuses :
         s = IF goal.current >= goal.target /\ goal.status = "active"
             THEN "completed" ELSE goal.status
  <2>1. goal.status \in GoalStatuses /\ "completed" \in GoalStatuses
    BY DEF GoalRecords, GoalStatuses
  <2> QED
    BY <2>1
<1>2. PICK new : new = [goal EXCEPT !.status = s]
  OBVIOUS
<1>3. /\ new \in GoalRecords /\ new.account = goal.account /\ new.current = goal.current
      /\ new.percent = goal.percent
  BY <1>1, <1>2 DEF GoalRecords
<1>5. Reshared(g, new)
  BY <1>3 DEF Reshared
<1>4. db' = Close(Commit(Assign(HoldingGoal(g), 1, new)))
  BY <1>1, <1>2 DEF UpdateGoal
<1> QED
  BY <1>3, <1>4, <1>5, RelabelEffect

LEMMA StatusEffect ==
    ASSUME BooksSound(db), NEW g \in DOMAIN Goals, NEW status \in GoalStatuses,
           NEW goal, goal = [Goals[g] EXCEPT !.status = status]
    PROVE  /\ goal \in GoalRecords
           /\ goal.account = Goals[g].account /\ goal.current = Goals[g].current
           /\ Reshared(g, goal)
<1>1. Goals[g] \in GoalRecords
  BY GoalTyped
<1> QED
  BY <1>1 DEF GoalRecords, Reshared

LEMMA PercentEffect ==
    ASSUME BooksSound(db), NEW g \in DOMAIN Goals, NEW percent \in Nat,
           NEW goal, goal = [Goals[g] EXCEPT !.percent = percent]
    PROVE  /\ goal \in GoalRecords
           /\ goal.account = Goals[g].account /\ goal.current = Goals[g].current
           /\ goal.percent = percent
<1>1. Goals[g] \in GoalRecords
  BY GoalTyped
<1> QED
  BY <1>1 DEF GoalRecords

LEMMA GivingParts ==
    ASSUME BooksSound(db), NEW g \in DOMAIN Goals, NEW x \in Amounts, NEW goal,
           \/ goal = Saved(Goals[g], x)
           \/ goal = Credited(Goals[g], Rounded(Goals[g].current + x))
    PROVE  /\ goal \in GoalRecords
           /\ Swapped(Goals[g], goal, Rounded(Goals[g].current + x))
           /\ goal.percent = Goals[g].percent
<1>1. PICK old \in GoalRecords : old = Goals[g]
  BY GoalTyped
<1>2. PICK c \in Cents : c = Rounded(old.current + x)
  <2>1. old.current + x \in Int
    BY AmountFacts, GoalNumbers
  <2> QED
    BY <2>1, RoundedTyped
<1>3. goal \in GoalRecords
  BY <1>1, <1>2, AmountFacts, CreditedTyped, SavedTyped
<1>4. PICK status : goal = [old EXCEPT !.current = c, !.status = status]
  BY <1>1, <1>2 DEF Saved, Credited
<1>5. /\ goal.account = old.account /\ goal.percent = old.percent /\ goal.current = c
  BY <1>4 DEF GoalRecords
<1> QED
  BY <1>1, <1>2, <1>3, <1>5 DEF Swapped

(* Taking from a goal what it holds leaves it no more, and no debt. *)
LEMMA OverBelow ==
    ASSUME NEW x \in Nat
    PROVE  Over(x) <= x
BY CentAssumption DEF Over

LEMMA TakenParts ==
    ASSUME NEW c \in Cents, NEW x \in Nat, c >= x
    PROVE  \E y \in Nat : Rounded(c - x) = c - y /\ c - y >= 0
<1>1. c \in Int /\ Whole(c)
  BY CentsTyped
<1>2. PICK d \in Int : d = c - x /\ d >= 0
  BY <1>1
<1>3. Rounded(d) \in Nat /\ Rounded(d) = Nearest(d)
  BY <1>2, RoundedNatural DEF Rounded
<1>4. PICK e \in Int : e = -x
  OBVIOUS
<1>5. Over(c + e) = Over(e)
  BY <1>1, <1>4, OverShifted
<1>6. c + e = d
  BY <1>1, <1>2, <1>4
<1>7. Over(e) = IF Over(x) = 0 THEN 0 ELSE Cent - Over(x)
  <2>1. x \in Int
    OBVIOUS
  <2> QED
    BY <1>4, <2>1, OverNegated
<1>8. PICK o \in Int : o = Over(x) /\ o <= x /\ 0 <= o
  <2>1. x \in Int
    OBVIOUS
  <2> QED
    BY <2>1, OverRange, OverBelow
<1>9. PICK cent \in Int : cent = Cent /\ cent > 0
  BY CentFacts
<1>10. PICK f \in Int : f = Over(d) /\ f = IF o = 0 THEN 0 ELSE cent - o
  BY <1>5, <1>6, <1>7, <1>8, <1>9
<1>11. PICK z \in Int : z = Nearest(d) /\ z = IF 2 * f < cent THEN d - f ELSE (d - f) + cent
  BY <1>2, <1>9, <1>10 DEF Nearest
<1>12. 0 <= f /\ z <= c
  <2>1. 0 <= f
    BY <1>2, <1>10, OverRange
  <2>2. CASE 2 * f < cent
    BY <1>1, <1>2, <1>11, <2>1, <2>2
  <2>3. CASE ~(2 * f < cent)
    <3>1. o # 0 /\ f = cent - o
      BY <1>9, <1>10, <2>3
    <3> QED
      BY <1>1, <1>2, <1>8, <1>9, <1>11, <2>3, <3>1
  <2> QED
    BY <2>2, <2>3
<1>13. PICK y \in Nat : y = c - z
  BY <1>1, <1>12
<1>14. Rounded(c - x) = z /\ z >= 0 /\ z = c - y
  <2>1. z = Rounded(d)
    BY <1>3, <1>11
  <2>2. z \in Nat
    BY <1>3, <2>1
  <2>3. z = c - y
    BY <1>1, <1>13
  <2> QED
    BY <1>2, <2>1, <2>2, <2>3
<1> QED
  BY <1>14

LEMMA GiveEffect ==
    ASSUME BooksSound(db), NEW g \in DOMAIN Goals, NEW x \in Amounts, NEW goal \in GoalRecords,
           Swapped(Goals[g], goal, Rounded(Goals[g].current + x)),
           GoalGiven(db', g, goal, x),
           goal.percent = Goals[g].percent
    PROVE  GoalsEffect(db')
BY DEF GoalsEffect

LEMMA GoalEffect ==
    ASSUME BooksSound(db), GoalRequest
    PROVE  Effect(db')
<1>1. ASSUME NEW goal \in NewGoals, CreateGoal(goal) \/ CreateSavingsGoal(goal)
      PROVE  Effect(db')
  <2>1. QuietBooks(db') /\ GoalMade(db', goal)
    BY <1>1, GoalMadeEffect
  <2>2. Vetted(goal)
    <3>1. goal \in GoalRecords
      BY RequestAssumption
    <3> QED
      BY <1>1, <3>1 DEF CreateGoal, CreateSavingsGoal, ValidAllocation, Vetted
  <2> QED
    BY <2>1, <2>2, QuietEffect DEF Effect, GoalsEffect
<1>2. ASSUME NEW g \in DOMAIN Goals, NEW status \in NewStatuses,
             \/ UpdateGoalStatus(g, status)
             \/ UpdateSavingsGoal(g, [Goals[g] EXCEPT !.status = status])
      PROVE  Effect(db')
  <2>1. PICK goal : goal = [Goals[g] EXCEPT !.status = status]
    OBVIOUS
  <2>2. status \in GoalStatuses
    BY RequestAssumption
  <2>3. /\ goal \in GoalRecords
        /\ goal.account = Goals[g].account /\ goal.current = Goals[g].current
        /\ Reshared(g, goal)
    BY <2>1, <2>2, StatusEffect
  <2>4. \/ UpdateGoal(g, goal)
        \/ db' = Close(Commit(Assign(HoldingGoal(g), 1, goal)))
    BY <1>2, <2>1 DEF UpdateGoalStatus, UpdateSavingsGoal
  <2> QED
    BY <2>3, <2>4, UpdateEffect, RelabelEffect
<1>3. ASSUME NEW g \in DOMAIN Goals, NEW percent \in NewPercents,
             UpdateGoalPercent(g, percent)
      PROVE  Effect(db')
  <2>1. PICK goal : goal = [Goals[g] EXCEPT !.percent = percent]
    OBVIOUS
  <2>2. percent \in Nat
    BY RequestAssumption
  <2>3. /\ goal \in GoalRecords
        /\ goal.account = Goals[g].account /\ goal.current = Goals[g].current
        /\ goal.percent = percent
    BY <2>1, <2>2, PercentEffect
  <2>4. UpdateGoal(g, goal)
    BY <1>3, <2>1 DEF UpdateGoalPercent
  <2>5. Reshared(g, goal)
    BY <1>3, <2>2, <2>3 DEF UpdateGoalPercent, ValidAllocation, Reshared
  <2> QED
    BY <2>3, <2>4, <2>5, UpdateEffect
<1>4. ASSUME NEW g \in DOMAIN Goals, CancelGoal(g)
      PROVE  Effect(db')
  <2>1. PICK status \in GoalStatuses : status = "cancelled"
    BY DEF GoalStatuses
  <2>2. PICK goal : goal = [Goals[g] EXCEPT !.status = status]
    OBVIOUS
  <2>3. /\ goal \in GoalRecords
        /\ goal.account = Goals[g].account /\ goal.current = Goals[g].current
        /\ Reshared(g, goal)
    BY <2>1, <2>2, StatusEffect
  <2>4. db' = Close(Commit(Assign(HoldingGoal(g), 1, goal)))
    BY <1>4, <2>1, <2>2 DEF CancelGoal
  <2> QED
    BY <2>3, <2>4, RelabelEffect
<1>5. ASSUME NEW g \in DOMAIN Goals, DeleteSavingsGoal(g)
      PROVE  Effect(db')
  <2>1. QuietBooks(db') /\ GoalGone(db', g)
    BY <1>5, GoalGoneEffect
  <2> QED
    BY <2>1, QuietEffect DEF Effect, GoalsEffect
<1>6. ASSUME NEW g \in DOMAIN Goals, NEW x \in Amounts,
             ContributeToGoal(g, x) \/ ContributeUnfunded(g, x)
      PROVE  Effect(db')
  <2>1. PICK goal : /\ \/ goal = Saved(Goals[g], x)
                       \/ goal = Credited(Goals[g], Rounded(Goals[g].current + x))
                    /\ db' = Close(Commit(Gift(Assign(HoldingGoal(g), 1, goal), g, x)))
    BY <1>6 DEF ContributeToGoal, ContributeUnfunded
  <2>2. /\ goal \in GoalRecords
        /\ Swapped(Goals[g], goal, Rounded(Goals[g].current + x))
        /\ goal.percent = Goals[g].percent
    BY <2>1, GivingParts
  <2>3. QuietBooks(db') /\ GoalGiven(db', g, goal, x)
    BY <2>1, <2>2, GivenEffect
  <2> QED
    BY <2>2, <2>3, QuietEffect, GiveEffect DEF Effect
<1>7. ASSUME NEW g \in DOMAIN Goals, NEW x \in Amounts, NEW a \in Accounts,
             ContributeFromAccount(g, a, x)
      PROVE  Effect(db')
  <2>1. PICK goal : goal = Saved(Goals[g], x)
    OBVIOUS
  <2>2. /\ goal \in GoalRecords
        /\ Swapped(Goals[g], goal, Rounded(Goals[g].current + x))
        /\ goal.percent = Goals[g].percent
    BY <2>1, GivingParts
  <2>3. (\E p \in Postings : OneBooked(db', p)) /\ GoalGiven(db', g, goal, x)
    BY <1>7, <2>1, FundedEffect
  <2> QED
    BY <2>2, <2>3, GiveEffect DEF Effect, BooksEffect
<1>8. ASSUME NEW g \in DOMAIN Goals, NEW x \in Amounts, NEW a \in {0} \cup Accounts,
             WithdrawFromGoal(g, a, x)
      PROVE  Effect(db')
  <2>1. Goals[g] \in GoalRecords /\ x \in Nat /\ x \in Int
    BY GoalTyped, AmountFacts
  <2>2. PICK goal : goal = Less(Goals[g], x)
    OBVIOUS
  <2>3. PICK old \in GoalRecords : old = Goals[g] /\ old.current >= x
    BY <1>8, <2>1 DEF WithdrawFromGoal
  <2>4. PICK c \in Cents : c = old.current
    BY GoalNumbers
  <2>5. PICK y \in Nat : Rounded(c - x) = c - y /\ c - y >= 0
    BY <2>1, <2>3, <2>4, TakenParts
  <2>6. goal \in GoalRecords
    BY <2>1, <2>2, LessTyped
  <2>7. goal = [old EXCEPT !.current = c - y]
    BY <2>2, <2>3, <2>4, <2>5 DEF Less
  <2>8. goal.account = old.account /\ goal.percent = old.percent /\ goal.current = c - y
    BY <2>7 DEF GoalRecords
  <2>9. /\ Swapped(Goals[g], goal, Goals[g].current - y) /\ Reshared(g, goal)
        /\ goal.current >= 0
    BY <2>3, <2>4, <2>5, <2>8 DEF Swapped, Reshared
  <2>10. /\ QuietBooks(db') \/ \E p \in Postings : OneBooked(db', p)
         /\ GoalPut(db', g, goal)
    BY <1>8, <2>2, WithdrawFromGoalEffect
  <2>11. GoalsEffect(db')
    BY <2>6, <2>9, <2>10 DEF GoalsEffect
  <2> QED
    BY <2>10, <2>11 DEF Effect, BooksEffect
<1> QED
  BY <1>1, <1>2, <1>3, <1>4, <1>5, <1>6, <1>7, <1>8 DEF GoalRequest, OwnAccounts

LEMMA OwnedPositive ==
    Owned \subseteq Positive
<1>1. "Account" \in Classes
  BY ClassFacts
<1>2. PICK n \in Nat : n = Largest(DOMAIN Seed["Account"]) /\ Owned \subseteq 1..n
  BY <1>1, SeedAssumption DEF Owned
<1> QED
  BY <1>2 DEF Positive

(* Linking a goal to another account. *)
LEMMA RelinkParts ==
    ASSUME BooksSound(db), NEW g \in DOMAIN Goals, RelinkGoal(g) \/ ConfigureAutoTransfer(g)
    PROVE  \E goal \in GoalRecords :
              /\ UpdateSavingsGoal(g, goal) /\ goal.current = Goals[g].current
              /\ goal.percent = Goals[g].percent /\ goal.status = Goals[g].status
<1>1. PICK a \in Nat : UpdateSavingsGoal(g, [Goals[g] EXCEPT !.account = a])
  <2>1. CASE RelinkGoal(g)
    BY <2>1, RequestAssumption DEF RelinkGoal
  <2>2. CASE ConfigureAutoTransfer(g)
    <3>1. \A a \in OwnAccounts(g) : a \in Nat
      BY OwnedPositive, BalanceTyped DEF OwnAccounts, Positive
    <3> QED
      BY <2>2, <3>1 DEF ConfigureAutoTransfer, UpdateSavingsGoal
  <2> QED
    BY <2>1, <2>2
<1>2. PICK old \in GoalRecords : old = Goals[g]
  BY GoalTyped
<1>3. PICK goal \in GoalRecords : goal = [old EXCEPT !.account = a]
  BY GoalChanged
<1>4. goal.current = old.current /\ goal.percent = old.percent /\ goal.status = old.status
  BY <1>3 DEF GoalRecords
<1> QED
  BY <1>1, <1>2, <1>3, <1>4

(* Every step: one of the above, or an overwrite. *)
LEMMA StepEffect ==
    ASSUME BooksSound(db), [Next]_vars
    PROVE  BooksEffect(db')
<1>1. CASE AccountRequest
  BY <1>1, AccountEffect DEF Effect
<1>2. CASE GoalRequest
  BY <1>2, GoalEffect DEF Effect
<1>3. CASE RuleRequest
  BY <1>3, RuleEffect DEF Effect
<1>4. CASE db' = db
  BY <1>4, QuietEffect DEF QuietBooks, Transactions, Notifications
<1>5. ASSUME NEW g \in DOMAIN Goals, NEW goal \in GoalRecords, UpdateSavingsGoal(g, goal)
      PROVE  BooksEffect(db')
  BY <1>5, GoalPutEffect, QuietEffect DEF UpdateSavingsGoal
<1>6. ASSUME NEW g \in DOMAIN Goals, OverwriteAmount(g)
      PROVE  BooksEffect(db')
  <2>1. PICK x \in Amounts : UpdateSavingsGoal(g, [Goals[g] EXCEPT !.current = Rounded(x)])
    BY <1>6 DEF OverwriteAmount
  <2>2. PICK goal : goal = [Goals[g] EXCEPT !.current = Rounded(x)]
    OBVIOUS
  <2>3. goal \in GoalRecords
    BY <2>2, GoalTyped, AmountFacts, RoundedTyped, GoalChanged
  <2> QED
    BY <1>5, <2>1, <2>2, <2>3
<1>7. ASSUME NEW g \in DOMAIN Goals, OverwritePercent(g)
      PROVE  BooksEffect(db')
  <2>1. PICK percent \in NewPercents :
           UpdateSavingsGoal(g, [Goals[g] EXCEPT !.percent = percent])
    BY <1>7 DEF OverwritePercent
  <2>2. PICK goal : goal = [Goals[g] EXCEPT !.percent = percent]
    OBVIOUS
  <2>3. goal \in GoalRecords
    BY <2>2, RequestAssumption, PercentEffect
  <2> QED
    BY <1>5, <2>1, <2>2, <2>3
<1>8. ASSUME NEW g \in DOMAIN Goals, RelinkGoal(g) \/ ConfigureAutoTransfer(g)
      PROVE  BooksEffect(db')
  <2>1. PICK goal \in GoalRecords : UpdateSavingsGoal(g, goal)
    BY <1>8, RelinkParts
  <2> QED
    BY <1>5, <2>1
<1> QED
  BY <1>1, <1>2, <1>3, <1>4, <1>6, <1>7, <1>8 DEF Next, RefuseRequest, vars

---------------------------------------------------------------------------
(* Notifications and the transactions they name. *)
Names(note, T) ==
    /\ note.tx \in DOMAIN T /\ T[note.tx].account = note.account
    /\ T[note.tx].status = "completed"

Named(N, T) == \A n \in DOMAIN N : Names(N[n], T)

Abreast(count, N, T) == NextId(T) <= count /\ (count = NextId(T) => Named(N, T))

NotesInv == Abreast(db.counter["Transaction"], Notifications, Transactions)

LEMMA NamesMore ==
    ASSUME NEW N, NEW T, Bounded(DOMAIN T), Named(N, T), NEW p, NEW U, U = Extended(T, p)
    PROVE  Named(N, U)
<1>1. PICK i : i = NextId(T)
  OBVIOUS
<1>2. DOMAIN U = DOMAIN T \cup {i} /\ U[i] = p /\ (\A j \in DOMAIN T : U[j] = T[j])
  <2>1. Longer(T, p, U, i)
    BY <1>1, ExtendedLonger
  <2> QED
    BY <2>1 DEF Longer
<1> QED
  BY <1>2 DEF Named, Names

LEMMA NamedMore ==
    ASSUME NEW N, Bounded(DOMAIN N), NEW T, Named(N, T), NEW note, Names(note, T),
           NEW M, M = Extended(N, note)
    PROVE  Named(M, T) /\ Bounded(DOMAIN M)
<1>1. PICK i : i = NextId(N)
  OBVIOUS
<1>2. /\ DOMAIN M = DOMAIN N \cup {i} /\ M[i] = note /\ (\A j \in DOMAIN N : M[j] = N[j])
      /\ Bounded(DOMAIN M)
  <2>1. Longer(N, note, M, i)
    BY <1>1, ExtendedLonger
  <2> QED
    BY <2>1 DEF Longer
<1> QED
  BY <1>2 DEF Named

(* The notification of a posting under its id. *)
LEMMA NoteNames ==
    ASSUME NEW U, NEW i, i \in DOMAIN U, NEW p, U[i] = p, p.status = "completed",
           NEW a, a = p.account, NEW x, NEW note, note = Note(a, x, i)
    PROVE  Names(note, U)
BY DEF Note, Names

LEMMA TransactionsBounded ==
    ASSUME BooksSound(db)
    PROVE  /\ Bounded(DOMAIN Transactions) /\ Bounded(DOMAIN Notifications)
           /\ PostingsIn(Transactions) /\ db.counter["Transaction"] \in Nat
<1>1. "Transaction" \in Classes /\ "Notification" \in Classes
  BY ClassFacts
<1>2. /\ Bounded(DOMAIN Transactions) /\ Bounded(DOMAIN Notifications)
      /\ \A i \in DOMAIN Transactions : Transactions[i] \in Allowed("Transaction", i)
      /\ db.counter["Transaction"] \in Positive
  BY <1>1 DEF BooksSound, Stored, Transactions, Notifications
<1>3. \A i : Allowed("Transaction", i) = Postings
  BY DEF Allowed, Records
<1> QED
  BY <1>2, <1>3 DEF PostingsIn, Positive

LEMMA NotesOne ==
    ASSUME BooksSound(db), NotesInv, NEW d, NEW p \in Postings, OneBooked(d, p)
    PROVE  Abreast(d.counter["Transaction"], d.store["Notification"], d.store["Transaction"])
<1>0. PICK T, N, count :
         T = Transactions /\ N = Notifications /\ count = db.counter["Transaction"]
  OBVIOUS
<1>1. /\ T = Transactions /\ N = Notifications /\ count = db.counter["Transaction"]
      /\ Bounded(DOMAIN T) /\ Bounded(DOMAIN N) /\ count \in Nat
  BY <1>0, TransactionsBounded
<1>2. PICK U, M, new :
         U = d.store["Transaction"] /\ M = d.store["Notification"]
         /\ new = d.counter["Transaction"]
  OBVIOUS
<1>3. U = Extended(T, p) /\ new = count + 1
  BY <1>1, <1>2 DEF OneBooked, Posted
<1>40. PICK i : i = NextId(T)
  OBVIOUS
<1>41. /\ i \in Positive /\ Bounded(DOMAIN U) /\ Largest(DOMAIN U) = i
       /\ DOMAIN U = DOMAIN T \cup {i} /\ U[i] = p
  <2>1. Longer(T, p, U, i)
    BY <1>1, <1>3, <1>40, ExtendedLonger
  <2> QED
    BY <2>1 DEF Longer
<1>4. i \in Nat /\ i = NextId(T) /\ i <= count /\ (count = i => Named(N, T))
  BY <1>1, <1>40, <1>41 DEF NotesInv, Abreast, Positive
<1>5. NextId(U) = i + 1
  BY <1>41 DEF NextId
<1>6. ASSUME count = i
      PROVE  Named(M, U)
  <2>1. Named(N, U)
    BY <1>1, <1>3, <1>4, <1>6, NamesMore
  <2>2. CASE M = N
    BY <2>1, <2>2
  <2>3. ASSUME p.status = "completed", NEW x \in Int, M = Extended(N, Note(p.account, x, count))
        PROVE  Named(M, U)
    <3>1. PICK a, note : a = p.account /\ note = Note(a, x, i)
      OBVIOUS
    <3>2. Names(note, U)
      BY <1>4, <1>41, <2>3, <3>1, NoteNames
    <3>3. M = Extended(N, note)
      BY <1>6, <2>3, <3>1
    <3> QED
      BY <1>1, <2>1, <3>2, <3>3, NamedMore
  <2> QED
    BY <1>1, <1>2, <2>2, <2>3 DEF OneBooked
<1>7. i + 1 <= new /\ (new = i + 1 => count = i)
  BY <1>1, <1>3, <1>4
<1> QED
  BY <1>2, <1>5, <1>6, <1>7 DEF Abreast

LEMMA NotesTwo ==
    ASSUME BooksSound(db), NotesInv, NEW d, NEW p \in Postings, NEW q \in Postings,
           TwoBooked(d, p, q)
    PROVE  Abreast(d.counter["Transaction"], d.store["Notification"], d.store["Transaction"])
<1>0. PICK T, N, count :
         T = Transactions /\ N = Notifications /\ count = db.counter["Transaction"]
  OBVIOUS
<1>1. /\ T = Transactions /\ N = Notifications /\ count = db.counter["Transaction"]
      /\ Bounded(DOMAIN T) /\ Bounded(DOMAIN N) /\ count \in Nat
  BY <1>0, TransactionsBounded
<1>2. PICK V, M, new :
         V = d.store["Transaction"] /\ M = d.store["Notification"]
         /\ new = d.counter["Transaction"]
  OBVIOUS
<1>3. PICK U : U = Extended(T, p)
  OBVIOUS
<1>4. V = Extended(U, q) /\ new = count + 2 /\ p.status = "completed" /\ q.status = "completed"
  BY <1>1, <1>2, <1>3 DEF TwoBooked, PostedTwo
<1>50. PICK i : i = NextId(T)
  OBVIOUS
<1>52. Bounded(DOMAIN T)
  BY <1>1
<1>51. /\ i \in Positive /\ i \notin DOMAIN T /\ DOMAIN U = DOMAIN T \cup {i}
       /\ U[i] = p /\ (\A j \in DOMAIN T : U[j] = T[j])
       /\ Bounded(DOMAIN U) /\ Largest(DOMAIN U) = i
  <2>1. Longer(T, p, U, i)
    BY <1>3, <1>50, <1>52, ExtendedLonger
  <2> QED
    BY <2>1 DEF Longer
<1>5. i \in Nat /\ i = NextId(T) /\ i <= count /\ (count = i => Named(N, T))
  BY <1>1, <1>50, <1>51 DEF NotesInv, Abreast, Positive
<1>6. NextId(U) = i + 1 /\ Bounded(DOMAIN U)
  BY <1>51 DEF NextId
<1>60. PICK k : k = NextId(U)
  OBVIOUS
<1>61. /\ k \in Positive /\ k \notin DOMAIN U /\ DOMAIN V = DOMAIN U \cup {k}
       /\ V[k] = q /\ (\A j \in DOMAIN U : V[j] = U[j])
       /\ Bounded(DOMAIN V) /\ Largest(DOMAIN V) = k
  <2>1. Longer(U, q, V, k)
    BY <1>4, <1>6, <1>60, ExtendedLonger
  <2> QED
    BY <2>1 DEF Longer
<1>7. NextId(V) = NextId(U) + 1
  BY <1>60, <1>61 DEF NextId
<1>8. ASSUME count = i
      PROVE  Named(M, V)
  <2>1. Named(N, U)
    BY <1>1, <1>3, <1>5, <1>8, NamesMore
  <2>2. Named(N, V)
    BY <1>4, <1>6, <2>1, NamesMore
  <2>3. CASE M = N
    BY <2>2, <2>3
  <2>4. ASSUME NEW x \in Int,
               M = Extended(Extended(N, Note(p.account, x, count)), Note(q.account, x, count + 1))
        PROVE  Named(M, V)
    <3>1. PICK a, one : a = p.account /\ one = Note(a, x, i)
      OBVIOUS
    <3>2. PICK b, j, two : b = q.account /\ j = i + 1 /\ two = Note(b, x, j)
      OBVIOUS
    <3>3. Names(one, U)
      BY <1>4, <1>51, <3>1, NoteNames
    <3>4. PICK L : L = Extended(N, one)
      OBVIOUS
    <3>5. Named(L, U) /\ Bounded(DOMAIN L)
      BY <1>1, <2>1, <3>3, <3>4, NamedMore
    <3>6. Named(L, V)
      BY <1>4, <1>6, <3>5, NamesMore
    <3>7. j = k
      BY <1>6, <1>60, <3>2
    <3>8. Names(two, V)
      BY <1>4, <1>61, <3>2, <3>7, NoteNames
    <3>9. M = Extended(L, two)
      BY <1>8, <2>4, <3>1, <3>2, <3>4
    <3> QED
      BY <3>5, <3>6, <3>8, <3>9, NamedMore
  <2> QED
    BY <1>1, <1>2, <2>3, <2>4 DEF TwoBooked, TwoNotes
<1>9. i + 2 <= new /\ (new = i + 2 => count = i) /\ (i + 1) + 1 = i + 2
  BY <1>1, <1>4, <1>5
<1> QED
  BY <1>2, <1>6, <1>7, <1>8, <1>9 DEF Abreast

LEMMA NotesGone ==
    ASSUME BooksSound(db), NotesInv, NEW d, NEW t \in DOMAIN Transactions, OneGone(d, t)
    PROVE  Abreast(d.counter["Transaction"], d.store["Notification"], d.store["Transaction"])
<1>0. PICK T, N, count :
         T = Transactions /\ N = Notifications /\ count = db.counter["Transaction"]
  OBVIOUS
<1>1. /\ T = Transactions /\ N = Notifications /\ count = db.counter["Transaction"]
      /\ Bounded(DOMAIN T) /\ count \in Nat
  BY <1>0, TransactionsBounded
<1>2. PICK U, M : U = d.store["Transaction"] /\ M = d.store["Notification"]
  OBVIOUS
<1>3. /\ DOMAIN U = DOMAIN T \ {t} /\ (\A i \in DOMAIN U : U[i] = T[i]) /\ M = N
      /\ d.counter["Transaction"] = count /\ T[t].status = "pending"
  BY <1>1, <1>2 DEF OneGone
<1>4. Bounded(DOMAIN U)
  BY <1>1, <1>3 DEF Bounded
<1>5. PICK m \in Nat, n \in Nat : m = Largest(DOMAIN T) /\ n = Largest(DOMAIN U) /\ n <= m
  <2>1. PICK m \in Nat : m = Largest(DOMAIN T) /\ \A i \in DOMAIN T : i <= m
    BY <1>1, LargestIsMax
  <2>2. PICK n \in Nat : n = Largest(DOMAIN U) /\ (DOMAIN U # {} => n \in DOMAIN U)
    BY <1>4, LargestIsMax
  <2>3. DOMAIN U = {} => n = 0
    BY <2>2 DEF Largest
  <2> QED
    BY <1>3, <2>1, <2>2, <2>3
<1>6. m + 1 <= count /\ (count = m + 1 => Named(N, T))
  BY <1>1, <1>5 DEF NotesInv, Abreast, NextId
<1>7. ASSUME count = n + 1
      PROVE  Named(N, U)
  <2>1. Named(N, T)
    BY <1>5, <1>6, <1>7
  <2> QED
    BY <1>3, <2>1 DEF Named, Names
<1>8. n + 1 <= count
  BY <1>1, <1>5, <1>6
<1> QED
  BY <1>2, <1>3, <1>5, <1>7, <1>8 DEF Abreast, NextId

LEMMA NotesNext ==
    ASSUME BooksSound(db), NotesInv, [Next]_vars
    PROVE  NotesInv'
<1>1. PICK d : d = db'
  OBVIOUS
<1>2. BooksEffect(d)
  BY <1>1, StepEffect
<1>3. Abreast(d.counter["Transaction"], d.store["Notification"], d.store["Transaction"])
  <2>1. CASE QuietBooks(d)
    BY <2>1 DEF QuietBooks, NotesInv
  <2>2. ASSUME NEW p \in Postings, OneBooked(d, p)
        PROVE  Abreast(d.counter["Transaction"], d.store["Notification"],
                       d.store["Transaction"])
    BY <2>2, NotesOne
  <2>3. ASSUME NEW p \in Postings, NEW q \in Postings, TwoBooked(d, p, q)
        PROVE  Abreast(d.counter["Transaction"], d.store["Notification"],
                       d.store["Transaction"])
    BY <2>3, NotesTwo
  <2>4. ASSUME NEW t \in DOMAIN Transactions, OneGone(d, t)
        PROVE  Abreast(d.counter["Transaction"], d.store["Notification"],
                       d.store["Transaction"])
    BY <2>4, NotesGone
  <2> QED
    BY <1>2, <2>1, <2>2, <2>3, <2>4 DEF BooksEffect
<1> QED
  BY <1>1, <1>3 DEF NotesInv, Notifications, Transactions

(* A seeded notification of a transfer names a completed transaction of    *)
(* its account; the repository seeds none that name one                    *)
(* (data_manager.py:869).                                                  *)
SeedNotesTrue == Named(Seed["Notification"], Seed["Transaction"])

LEMMA NotesInit ==
    ASSUME SeedNotesTrue, Init
    PROVE  NotesInv
<1>1. "Transaction" \in Classes /\ "Transaction" \notin Untracked
  BY StoreMaps
<1>2. db.counter["Transaction"] = NextId(Seed["Transaction"])
  BY <1>1 DEF Init, InitialCounter, NextId
<1>3. NextId(Seed["Transaction"]) \in Int
  BY <1>1, SeedAssumption DEF NextId
<1>4. Transactions = Seed["Transaction"] /\ Notifications = Seed["Notification"]
  BY DEF Init, Transactions, Notifications
<1> QED
  BY <1>2, <1>3, <1>4 DEF NotesInv, Abreast, SeedNotesTrue

(* As long as the newest transaction was never deleted, every notification *)
(* carries the id of a stored transaction of its account, though the id is *)
(* read before the commit gives the transaction the one it is stored under *)
(* (transfers.py:130, memory_adapter.py:769): the class counter is never   *)
(* behind the store, and when it is not ahead either, it never was.        *)
THEOREM NotificationsAreTrue ==
    ASSUME SeedNotesTrue
    PROVE  Spec => []NotificationsNameTheirTransaction
<1>1. Init => Inv /\ NotesInv
  BY InitInv, NotesInit
<1>2. (Inv /\ NotesInv) /\ [Next]_vars => (Inv /\ NotesInv)'
  BY NextInv, NotesNext DEF Inv
<1>3. Inv /\ NotesInv => NotificationsNameTheirTransaction
  BY DEF NotesInv, Abreast, Named, Names, NotificationsNameTheirTransaction,
         Undisturbed, NextId, Notifications
<1> QED
  BY <1>1, <1>2, <1>3, PTL DEF Spec

---------------------------------------------------------------------------
(* Balances and the transactions behind them. *)
Clear(T, a) ==
    \A t \in DOMAIN T : T[t].account = a => T[t].party # a /\ ~T[t].half

Reconciled(acc, T, gone, a) ==
    Clear(T, a) => acc[a] = Opening(a) + gone[a] + Total(Lines(T, a))

(* What is pending can be deleted, and then no longer tells that the       *)
(* account was party to its own transfer or saw half a cent.               *)
Apart(T) ==
    \A t \in DOMAIN T : T[t].status = "pending"
                            => T[t].party # T[t].account /\ ~T[t].half

Balanced(acc, T, gone) ==
    /\ Apart(T) /\ DOMAIN gone = Owned /\ \A a \in Owned : gone[a] \in Int
    /\ \A a \in Owned : Reconciled(acc, T, gone, a)

BalancesInv == Balanced(db.store["Account"], Transactions, erased)

(* What Remember makes of erased when the transactions of lost go. *)
Erases(gone, new, T, lost) ==
    new = [a \in DOMAIN gone |-> gone[a] +
              Total([t \in {s \in lost : T[s].account = a} |-> Net(T[t])])]

LEMMA ErasesNone ==
    ASSUME NEW gone, DOMAIN gone = Owned, \A a \in Owned : gone[a] \in Int,
           NEW T, NEW lost, lost = {}, NEW new, Erases(gone, new, T, lost)
    PROVE  DOMAIN new = Owned /\ \A a \in Owned : new[a] = gone[a]
<1>1. DOMAIN new = Owned
  BY DEF Erases
<1>2. ASSUME NEW a \in Owned
      PROVE  new[a] = gone[a]
  <2>1. PICK f : f = [t \in {s \in lost : T[s].account = a} |-> Net(T[t])]
    OBVIOUS
  <2>2. new[a] = gone[a] + Total(f)
    BY <2>1 DEF Erases
  <2>3. DOMAIN f = {}
    BY <2>1
  <2>4. Total(f) = 0
    BY <2>3, TotalNothing
  <2> QED
    BY <2>2, <2>4
<1> QED
  BY <1>1, <1>2

LEMMA ErasesOne ==
    ASSUME NEW gone, DOMAIN gone = Owned, NEW T, PostingsIn(T), NEW t \in DOMAIN T,
           NEW new, Erases(gone, new, T, {t})
    PROVE  DOMAIN new = Owned /\ \A a \in Owned : new[a] = gone[a] + Brings(T[t], a)
<1>1. DOMAIN new = Owned
  BY DEF Erases
<1>2. ASSUME NEW a \in Owned
      PROVE  new[a] = gone[a] + Brings(T[t], a)
  <2>1. PICK f : f = [s \in {r \in {t} : T[r].account = a} |-> Net(T[s])]
    OBVIOUS
  <2>2. new[a] = gone[a] + Total(f)
    BY <2>1 DEF Erases
  <2>3. Total(f) = Brings(T[t], a)
    BY <2>1, OneLine
  <2> QED
    BY <2>2, <2>3
<1> QED
  BY <1>1, <1>2

LEMMA ClearLess ==
    ASSUME NEW T, Bounded(DOMAIN T), NEW p, NEW U, U = Extended(T, p), NEW a, Clear(U, a)
    PROVE  Clear(T, a) /\ (p.account = a => p.party # a /\ ~p.half)
<1>1. PICK i : i = NextId(T)
  OBVIOUS
<1>2. /\ i \in Positive /\ i \notin DOMAIN T /\ DOMAIN U = DOMAIN T \cup {i}
      /\ U[i] = p /\ (\A j \in DOMAIN T : U[j] = T[j])
      /\ Bounded(DOMAIN U) /\ Largest(DOMAIN U) = i
  <2>1. Longer(T, p, U, i)
    BY <1>1, ExtendedLonger
  <2> QED
    BY <2>1 DEF Longer
<1> QED
  BY <1>2 DEF Clear

LEMMA ApartMore ==
    ASSUME NEW T, Bounded(DOMAIN T), Apart(T), NEW p,
           p.status = "pending" => p.party # p.account /\ ~p.half,
           NEW U, U = Extended(T, p)
    PROVE  Apart(U)
<1>1. PICK i : i = NextId(T)
  OBVIOUS
<1>2. /\ i \in Positive /\ i \notin DOMAIN T /\ DOMAIN U = DOMAIN T \cup {i}
      /\ U[i] = p /\ (\A j \in DOMAIN T : U[j] = T[j])
      /\ Bounded(DOMAIN U) /\ Largest(DOMAIN U) = i
  <2>1. Longer(T, p, U, i)
    BY <1>1, ExtendedLonger
  <2> QED
    BY <2>1 DEF Longer
<1> QED
  BY <1>2 DEF Apart

(* A balance of whole cents takes what was posted, unless that is rounded. *)
LEMMA BalanceAfter ==
    ASSUME NEW b \in Cents, NEW p, NEW x, Means(p, x)
    PROVE  Rounded(b + x) \in Int /\ (p.half \/ Rounded(b + x) = b + Net(p))
<1>1. b \in Int /\ x \in Int /\ Net(p) = Rounded(x) /\ p.half = Halfway(x)
  BY CentsTyped DEF Means
<1>2. Rounded(b + x) \in Int
  <2>1. b + x \in Int
    BY <1>1
  <2> QED
    BY <2>1, RoundedTyped
<1>3. CASE Halfway(x)
  BY <1>1, <1>2, <1>3
<1>4. CASE ~Halfway(x)
  BY <1>1, <1>2, <1>4, RoundedShifted
<1> QED
  BY <1>3, <1>4

(* One more transaction, and what it brings added to the balance. *)
LEMMA ReconciledMore ==
    ASSUME NEW T, PostingsIn(T), NEW p \in Postings, NEW U, U = Extended(T, p),
           NEW a \in Owned, Opening(a) \in Int, NEW acc, NEW gone, gone[a] \in Int,
           acc[a] \in Int, Reconciled(acc, T, gone, a),
           NEW new, (p.account = a /\ p.half) \/ new[a] = acc[a] + Brings(p, a)
    PROVE  Reconciled(new, U, gone, a)
<1>1. Brings(p, a) \in Int
  BY NetTyped
<1>2. Total(Lines(T, a)) \in Int
  BY LinesFacts, TotalTyped
<1>3. Total(Lines(U, a)) = Total(Lines(T, a)) + Brings(p, a)
  BY LinesExtended
<1>4. Bounded(DOMAIN T)
  BY DEF PostingsIn
<1>5. ASSUME Clear(U, a)
      PROVE  new[a] = Opening(a) + gone[a] + Total(Lines(U, a))
  <2>1. Clear(T, a) /\ new[a] = acc[a] + Brings(p, a)
    BY <1>4, <1>5, ClearLess
  <2>2. acc[a] = Opening(a) + gone[a] + Total(Lines(T, a))
    BY <2>1 DEF Reconciled
  <2>3. PICK b, o, g, x, y : /\ b = Brings(p, a) /\ o = Opening(a) /\ g = gone[a]
                             /\ x = Total(Lines(T, a)) /\ y = acc[a]
    OBVIOUS
  <2>4. b \in Int /\ o \in Int /\ g \in Int /\ x \in Int
    BY <1>1, <1>2, <2>3
  <2>5. (o + g + x) + b = o + g + (x + b)
    BY <2>4
  <2> QED
    BY <1>3, <2>1, <2>2, <2>3, <2>5
<1> QED
  BY <1>5 DEF Reconciled

LEMMA OpeningTyped ==
    ASSUME NEW a \in Owned
    PROVE  Opening(a) \in Int /\ PostingsIn(Seed["Transaction"])
<1>1. PICK c \in Classes : c = "Transaction"
  BY ClassFacts
<1>2. PICK e \in Classes : e = "Account"
  BY ClassFacts
<1>3. Seed[e][a] \in Int
  <2>1. Seed[e] \in [DOMAIN Seed[e] -> Records(e)] /\ a \in DOMAIN Seed[e]
    BY <1>2, SeedAssumption DEF Owned
  <2>2. Seed[e][a] \in Cents
    BY <1>2, <2>1 DEF Records
  <2> QED
    BY <2>2, CentsTyped
<1>4. PostingsIn(Seed[c])
  <2>1. /\ Largest(DOMAIN Seed[c]) \in Nat /\ DOMAIN Seed[c] \subseteq 1..Largest(DOMAIN Seed[c])
        /\ Seed[c] \in [DOMAIN Seed[c] -> Records(c)]
    BY SeedAssumption
  <2>2. Records(c) = Postings
    BY <1>1 DEF Records
  <2> QED
    BY <2>1, <2>2 DEF PostingsIn, Bounded
<1>5. PICK T : T = Seed["Transaction"]
  OBVIOUS
<1>6. Total(Lines(T, a)) \in Int
  BY <1>1, <1>4, <1>5, LinesFacts, TotalTyped
<1> QED
  BY <1>1, <1>2, <1>3, <1>4, <1>5, <1>6 DEF Opening

(* No account of the seed is account 0, the party of a posting with one side. *)
LEMMA BalancesAre ==
    ASSUME BooksSound(db)
    PROVE  /\ DOMAIN db.store["Account"] = Owned
           /\ \A a \in Owned : /\ db.store["Account"][a] \in Int
                              /\ db.store["Account"][a] \in Cents
BY BalanceTyped DEF BooksSound, Accounts, Balance

(* The same with another erased that says the same. *)
LEMMA BalancedAlike ==
    ASSUME NEW acc, NEW T, NEW gone, Balanced(acc, T, gone),
           NEW new, DOMAIN new = Owned, \A a \in Owned : new[a] = gone[a]
    PROVE  Balanced(acc, T, new)
BY DEF Balanced, Reconciled

LEMMA BalancesOne ==
    ASSUME BooksSound(db), BalancesInv, NEW d, NEW p \in Postings, OneBooked(d, p)
    PROVE  Balanced(d.store["Account"], d.store["Transaction"], erased)
<1>1. PICK acc, T, gone : acc = db.store["Account"] /\ T = Transactions /\ gone = erased
  OBVIOUS
<1>2. PICK new, U : new = d.store["Account"] /\ U = d.store["Transaction"]
  OBVIOUS
<1>3. PostingsIn(T) /\ Bounded(DOMAIN T) /\ Balanced(acc, T, gone)
  BY <1>1, TransactionsBounded DEF BalancesInv
<1>4. DOMAIN acc = Owned /\ \A a \in Owned : acc[a] \in Int /\ acc[a] \in Cents
  BY <1>1, BalancesAre
<1>5. U = Extended(T, p) /\ p.party = 0
  BY <1>1, <1>2 DEF OneBooked, Posted
<1>6. p.account \in Owned /\ Net(p) \in Int
  BY NetTyped DEF Postings
<1>7. PICK x : Means(p, x) /\ new = [acc EXCEPT ![p.account] = Rounded(acc[p.account] + x)]
  BY <1>1, <1>2 DEF OneBooked, Posted
<1>8. ASSUME NEW a \in Owned
      PROVE  Reconciled(new, U, gone, a)
  <2>1. (p.account = a /\ p.half) \/ new[a] = acc[a] + Brings(p, a)
    <3>1. CASE a = p.account
      <4>1. new[a] = Rounded(acc[a] + x) /\ Brings(p, a) = Net(p)
        BY <1>4, <1>7, <3>1 DEF Brings
      <4>2. p.half \/ Rounded(acc[a] + x) = acc[a] + Net(p)
        BY <1>4, <1>7, BalanceAfter
      <4> QED
        BY <3>1, <4>1, <4>2
    <3>2. CASE a # p.account
      <4>1. new[a] = acc[a] /\ Brings(p, a) = 0 /\ acc[a] \in Int
        BY <1>4, <1>6, <1>7, <3>2 DEF Brings
      <4> QED
        BY <4>1
    <3> QED
      BY <3>1, <3>2
  <2>2. gone[a] \in Int /\ acc[a] \in Int /\ Reconciled(acc, T, gone, a)
    BY <1>3, <1>4 DEF Balanced
  <2> QED
    BY <1>3, <1>5, <2>1, <2>2, OpeningTyped, ReconciledMore
<1>9. Apart(U)
  <2>1. p.status = "pending" => p.party # p.account /\ ~p.half
    BY <1>5, <1>6, <1>7, OwnedPositive DEF Positive, Means
  <2>2. Apart(T)
    BY <1>3 DEF Balanced
  <2> QED
    BY <1>3, <1>5, <2>1, <2>2, ApartMore
<1>10. Balanced(new, U, gone)
  BY <1>3, <1>8, <1>9 DEF Balanced
<1> QED
  BY <1>1, <1>2, <1>10

(* One step of two: the second posting over what the first one left.       *)
LEMMA BalancesTwo ==
    ASSUME BooksSound(db), BalancesInv, NEW d, NEW p \in Postings, NEW q \in Postings,
           TwoBooked(d, p, q)
    PROVE  Balanced(d.store["Account"], d.store["Transaction"], erased)
<1>1. PICK acc, T, gone : acc = db.store["Account"] /\ T = Transactions /\ gone = erased
  OBVIOUS
<1>2. PICK new, V : new = d.store["Account"] /\ V = d.store["Transaction"]
  OBVIOUS
<1>3. PostingsIn(T) /\ Bounded(DOMAIN T) /\ Balanced(acc, T, gone)
  BY <1>1, TransactionsBounded DEF BalancesInv
<1>4. DOMAIN acc = Owned /\ \A a \in Owned : acc[a] \in Int /\ acc[a] \in Cents
  BY <1>1, BalancesAre
<1>5. PICK U : U = Extended(T, p)
  OBVIOUS
<1>6. /\ V = Extended(U, q) /\ p.party = q.account
      /\ p.status = "completed" /\ q.status = "completed"
  BY <1>1, <1>2, <1>5 DEF TwoBooked, PostedTwo
<1>7. PostingsIn(U) /\ Bounded(DOMAIN U)
  BY <1>3, <1>5, PostingsExtended DEF PostingsIn
<1>8. p.account \in Owned /\ q.account \in Owned /\ Net(p) \in Int /\ Net(q) \in Int
  BY NetTyped DEF Postings
<1>15. PICK x, y : /\ Means(p, x) /\ Means(q, y)
                   /\ PostedTwo(d.store, d.counter, p.account, x, q.account, y, p, q)
  BY DEF TwoBooked
<1>9. PICK mid : mid = [b \in Owned |-> IF b = p.account THEN Rounded(acc[b] + x) ELSE acc[b]]
  OBVIOUS
<1>10. ASSUME NEW a \in Owned, (q.account = a /\ q.half) \/ new[a] = mid[a] + Brings(q, a)
       PROVE  Reconciled(new, V, gone, a)
  <2>1. gone[a] \in Int /\ acc[a] \in Int /\ Reconciled(acc, T, gone, a)
    BY <1>3, <1>4 DEF Balanced
  <2>2. mid[a] \in Int /\ ((p.account = a /\ p.half) \/ mid[a] = acc[a] + Brings(p, a))
    <3>1. CASE a = p.account
      <4>1. mid[a] = Rounded(acc[a] + x) /\ Brings(p, a) = Net(p)
        BY <1>9, <3>1 DEF Brings
      <4>2. /\ Rounded(acc[a] + x) \in Int
            /\ p.half \/ Rounded(acc[a] + x) = acc[a] + Net(p)
        BY <1>4, <1>15, BalanceAfter
      <4> QED
        BY <3>1, <4>1, <4>2
    <3>2. CASE a # p.account
      <4>1. mid[a] = acc[a] /\ Brings(p, a) = 0
        BY <1>9, <3>2 DEF Brings
      <4> QED
        BY <2>1, <4>1
    <3> QED
      BY <3>1, <3>2
  <2>3. Reconciled(mid, U, gone, a)
    BY <1>3, <1>5, <2>1, <2>2, OpeningTyped, ReconciledMore
  <2> QED
    BY <1>6, <1>7, <1>10, <2>1, <2>2, <2>3, OpeningTyped, ReconciledMore
<1>11. ASSUME p.account # q.account, NEW a \in Owned
       PROVE  (q.account = a /\ q.half) \/ new[a] = mid[a] + Brings(q, a)
  <2>1. new = [acc EXCEPT ![p.account] = Rounded(acc[p.account] + x),
                          ![q.account] = Rounded(acc[q.account] + y)]
    BY <1>1, <1>2, <1>11, <1>15 DEF PostedTwo
  <2>2. acc[a] \in Int
    BY <1>4
  <2>3. CASE a = p.account
    <3>1. new[a] = Rounded(acc[a] + x) /\ mid[a] = Rounded(acc[a] + x) /\ Brings(q, a) = 0
      BY <1>4, <1>8, <1>9, <1>11, <2>1, <2>3 DEF Brings
    <3>2. Rounded(acc[a] + x) \in Int
      BY <1>4, <1>15, BalanceAfter
    <3> QED
      BY <3>1, <3>2
  <2>4. CASE a = q.account
    <3>1. new[a] = Rounded(acc[a] + y) /\ mid[a] = acc[a] /\ Brings(q, a) = Net(q)
      BY <1>4, <1>8, <1>9, <1>11, <2>1, <2>4 DEF Brings
    <3>2. q.half \/ Rounded(acc[a] + y) = acc[a] + Net(q)
      BY <1>4, <1>15, BalanceAfter
    <3> QED
      BY <2>4, <3>1, <3>2
  <2>5. CASE a # p.account /\ a # q.account
    <3>1. new[a] = acc[a] /\ mid[a] = acc[a] /\ Brings(q, a) = 0
      BY <1>4, <1>8, <1>9, <2>1, <2>5 DEF Brings
    <3> QED
      BY <2>2, <3>1
  <2> QED
    BY <2>3, <2>4, <2>5
<1>12. ASSUME p.account = q.account, NEW a \in Owned
       PROVE  Reconciled(new, V, gone, a)
  <2>1. CASE a = p.account
    <3>1. ASSUME Clear(V, a)
          PROVE  FALSE
      <4>1. Clear(U, a)
        BY <1>6, <1>7, <3>1, ClearLess
      <4>2. p.account = a => p.party # a
        BY <1>3, <1>5, <4>1, ClearLess
      <4> QED
        BY <1>6, <1>12, <2>1, <4>2
    <3> QED
      BY <3>1 DEF Reconciled
  <2>2. CASE a # p.account
    <3>1. But(new, acc, p.account)
      BY <1>1, <1>2, <1>12, <1>15 DEF PostedTwo
    <3>2. new[a] = acc[a] /\ acc[a] \in Int /\ mid[a] = acc[a]
      BY <1>4, <1>9, <2>2, <3>1 DEF But
    <3>3. Brings(q, a) = 0
      BY <1>12, <2>2 DEF Brings
    <3>4. new[a] = mid[a] + Brings(q, a)
      BY <3>2, <3>3
    <3> QED
      BY <1>10, <3>4
  <2> QED
    BY <2>1, <2>2
<1>13. Apart(V)
  <2>1. Apart(U)
    BY <1>3, <1>5, <1>6, ApartMore DEF Balanced
  <2> QED
    BY <1>6, <1>7, <2>1, ApartMore
<1>14. Balanced(new, V, gone)
  BY <1>3, <1>10, <1>11, <1>12, <1>13 DEF Balanced
<1> QED
  BY <1>1, <1>2, <1>14

(* A withdrawn pending transaction goes from the store into erased. *)
LEMMA BalancesGone ==
    ASSUME BooksSound(db), BalancesInv, NEW d, NEW t \in DOMAIN Transactions, OneGone(d, t),
           NEW new, Erases(erased, new, Transactions, {t})
    PROVE  Balanced(d.store["Account"], d.store["Transaction"], new)
<1>1. PICK acc, T, gone : acc = db.store["Account"] /\ T = Transactions /\ gone = erased
  OBVIOUS
<1>2. PICK U : U = d.store["Transaction"]
  OBVIOUS
<1>3. PostingsIn(T) /\ Balanced(acc, T, gone) /\ t \in DOMAIN T /\ T[t] \in Postings
  BY <1>1, TransactionsBounded DEF BalancesInv, PostingsIn
<1>4. d.store["Account"] = acc /\ T[t].status = "pending" /\ U = Without(T, t)
  BY <1>1, <1>2 DEF OneGone, Without
<1>5. DOMAIN U = DOMAIN T \ {t} /\ \A i \in DOMAIN U : U[i] = T[i]
  BY <1>4 DEF Without
<1>6. T[t].party # T[t].account /\ ~T[t].half /\ Apart(T)
  BY <1>3, <1>4 DEF Balanced, Apart
<1>7. Apart(U)
  BY <1>5, <1>6 DEF Apart
<1>8. DOMAIN new = Owned /\ \A a \in Owned : new[a] = gone[a] + Brings(T[t], a)
  BY <1>1, <1>3, ErasesOne DEF Balanced
<1>9. ASSUME NEW a \in Owned
      PROVE  new[a] \in Int /\ Reconciled(acc, U, new, a)
  <2>1. PICK b \in Int : b = Brings(T[t], a)
    BY <1>3, NetTyped
  <2>2. PICK g \in Int : g = gone[a]
    BY <1>3 DEF Balanced
  <2>3. PICK o \in Int : o = Opening(a)
    BY OpeningTyped
  <2>4. PICK x \in Int : x = Total(Lines(T, a))
    BY <1>3, LinesFacts, TotalTyped
  <2>5. Total(Lines(U, a)) = x - b
    BY <1>3, <1>4, <2>1, <2>4, LinesWithout
  <2>6. new[a] = g + b
    BY <1>8, <2>1, <2>2
  <2>7. ASSUME Clear(U, a)
        PROVE  acc[a] = o + new[a] + Total(Lines(U, a))
    <3>1. Clear(T, a)
      BY <1>5, <1>6, <2>7 DEF Clear
    <3>2. acc[a] = o + g + x
      BY <1>3, <2>2, <2>3, <2>4, <3>1 DEF Balanced, Reconciled
    <3>3. o + (g + b) + (x - b) = o + g + x
      OBVIOUS
    <3> QED
      BY <2>5, <2>6, <3>2, <3>3
  <2> QED
    BY <2>3, <2>6, <2>7 DEF Reconciled
<1>10. Balanced(acc, U, new)
  BY <1>7, <1>8, <1>9 DEF Balanced
<1> QED
  BY <1>2, <1>4, <1>10

LEMMA ErasedStep ==
    ASSUME [Next]_vars
    PROVE  \/ db' = db /\ erased' = erased
           \/ Erases(erased, erased', Transactions,
                     DOMAIN Transactions \ DOMAIN db'.store["Transaction"])
<1>1. ASSUME NEW A, NEW B, Remember(A, B)
      PROVE  Erases(erased, erased', Transactions,
                    DOMAIN Transactions \ DOMAIN db'.store["Transaction"])
  BY <1>1, Zenon DEF Remember, Erases
<1> QED
  BY <1>1 DEF Next, vars, history

LEMMA ExtendedFurther ==
    ASSUME NEW T, Bounded(DOMAIN T), NEW p, NEW U, U = Extended(T, p)
    PROVE  DOMAIN T \subseteq DOMAIN U /\ Bounded(DOMAIN U)
<1>1. PICK i : i = NextId(T)
  OBVIOUS
<1>2. /\ i \in Positive /\ i \notin DOMAIN T /\ DOMAIN U = DOMAIN T \cup {i}
      /\ U[i] = p /\ (\A j \in DOMAIN T : U[j] = T[j])
      /\ Bounded(DOMAIN U) /\ Largest(DOMAIN U) = i
  <2>1. Longer(T, p, U, i)
    BY <1>1, ExtendedLonger
  <2> QED
    BY <2>1 DEF Longer
<1> QED
  BY <1>2

LEMMA BalancesNext ==
    ASSUME BooksSound(db), BalancesInv, [Next]_vars
    PROVE  BalancesInv'
<1>1. PICK d, new : d = db' /\ new = erased'
  OBVIOUS
<1>2. PICK U : U = d.store["Transaction"]
  OBVIOUS
<1>3. PICK T, gone : T = Transactions /\ gone = erased
  OBVIOUS
<1>4. PICK lost : lost = DOMAIN T \ DOMAIN U
  OBVIOUS
<1>5. \/ d = db /\ new = gone
      \/ Erases(gone, new, T, lost)
  BY <1>1, <1>2, <1>3, <1>4, ErasedStep
<1>6. DOMAIN gone = Owned /\ \A a \in Owned : gone[a] \in Int
  BY <1>3 DEF BalancesInv, Balanced
<1>7. PostingsIn(T) /\ Bounded(DOMAIN T)
  BY <1>3, TransactionsBounded
<1>8. ASSUME DOMAIN T \subseteq DOMAIN U, Balanced(d.store["Account"], U, gone)
      PROVE  Balanced(d.store["Account"], U, new)
  <2>1. CASE new = gone
    BY <1>8, <2>1
  <2>2. CASE Erases(gone, new, T, lost)
    <3>1. lost = {}
      BY <1>4, <1>8
    <3>2. DOMAIN new = Owned /\ \A a \in Owned : new[a] = gone[a]
      BY <1>6, <2>2, <3>1, ErasesNone
    <3> QED
      BY <1>8, <3>2, BalancedAlike
  <2> QED
    BY <1>5, <2>1, <2>2
<1>9. Balanced(d.store["Account"], U, new)
  <2>1. CASE QuietBooks(d)
    BY <1>2, <1>3, <1>8, <2>1 DEF QuietBooks, BalancesInv
  <2>2. ASSUME NEW p \in Postings, OneBooked(d, p)
        PROVE  Balanced(d.store["Account"], U, new)
    <3>1. Balanced(d.store["Account"], U, gone)
      BY <1>2, <1>3, <2>2, BalancesOne
    <3>2. U = Extended(T, p)
      BY <1>2, <1>3, <2>2 DEF OneBooked, Posted
    <3>3. DOMAIN T \subseteq DOMAIN U
      BY <1>7, <3>2, ExtendedFurther
    <3> QED
      BY <1>8, <3>1, <3>3
  <2>3. ASSUME NEW p \in Postings, NEW q \in Postings, TwoBooked(d, p, q)
        PROVE  Balanced(d.store["Account"], U, new)
    <3>1. Balanced(d.store["Account"], U, gone)
      BY <1>2, <1>3, <2>3, BalancesTwo
    <3>2. PICK W : W = Extended(T, p)
      OBVIOUS
    <3>3. U = Extended(W, q)
      BY <1>2, <1>3, <2>3, <3>2 DEF TwoBooked, PostedTwo
    <3>4. DOMAIN T \subseteq DOMAIN W /\ Bounded(DOMAIN W)
      BY <1>7, <3>2, ExtendedFurther
    <3>5. DOMAIN W \subseteq DOMAIN U
      BY <3>3, <3>4, ExtendedFurther
    <3> QED
      BY <1>8, <3>1, <3>4, <3>5
  <2>4. ASSUME NEW t \in DOMAIN Transactions, OneGone(d, t)
        PROVE  Balanced(d.store["Account"], U, new)
    <3>1. DOMAIN U = DOMAIN T \ {t} /\ t \in DOMAIN T
      BY <1>2, <1>3, <2>4 DEF OneGone
    <3>2. lost = {t}
      BY <1>4, <3>1
    <3>3. d # db
      BY <1>2, <1>3, <3>1 DEF Transactions
    <3>4. Erases(gone, new, T, {t})
      BY <1>5, <3>2, <3>3
    <3> QED
      BY <1>2, <1>3, <2>4, <3>4, BalancesGone
  <2>5. BooksEffect(d)
    BY <1>1, StepEffect
  <2> QED
    BY <2>1, <2>2, <2>3, <2>4, <2>5 DEF BooksEffect
<1> QED
  BY <1>1, <1>2, <1>9 DEF BalancesInv, Transactions

(* What the seed has pending is no transfer of an account to itself and    *)
(* ends in no half a cent: the transactions of the repository start        *)
(* completed (data_manager.py:635).                                        *)
SeedPendingApart == Apart(Seed["Transaction"])

LEMMA BalancesInit ==
    ASSUME SeedPendingApart, Init
    PROVE  BalancesInv
<1>1. PICK acc, T, gone : acc = db.store["Account"] /\ T = Transactions /\ gone = erased
  OBVIOUS
<1>2. acc = Seed["Account"] /\ T = Seed["Transaction"] /\ gone = [a \in Owned |-> 0]
  BY <1>1 DEF Init, Transactions, Owned
<1>3. ASSUME NEW a \in Owned
      PROVE  gone[a] \in Int /\ Reconciled(acc, T, gone, a)
  <2>1. gone[a] = 0 /\ Opening(a) \in Int /\ PostingsIn(T)
    BY <1>2, OpeningTyped
  <2>2. PICK x \in Int : x = Total(Lines(T, a))
    BY <2>1, LinesFacts, TotalTyped
  <2>3. acc[a] \in Int
    <3>1. PICK c \in Classes : c = "Account"
      BY ClassFacts
    <3>2. Seed[c] \in [DOMAIN Seed[c] -> Records(c)] /\ a \in DOMAIN Seed[c]
      BY <3>1, SeedAssumption DEF Owned
    <3>3. acc[a] \in Cents
      BY <1>2, <3>1, <3>2 DEF Records
    <3> QED
      BY <3>3, CentsTyped
  <2>4. Opening(a) = acc[a] - x
    BY <1>2, <2>2 DEF Opening
  <2>5. acc[a] = Opening(a) + 0 + x
    BY <2>2, <2>3, <2>4
  <2> QED
    BY <2>1, <2>2, <2>5 DEF Reconciled
<1>4. Balanced(acc, T, gone)
  BY <1>2, <1>3 DEF Balanced, SeedPendingApart
<1> QED
  BY <1>1, <1>4 DEF BalancesInv

(* Whatever the requests and their order, the balance of an account that   *)
(* was never transferred to itself and saw no half a cent is its opening   *)
(* balance and what its stored and its deleted transactions came to,       *)
(* however the amounts between are rounded: no route writes a balance      *)
(* without the line that explains it, or another line than the one it      *)
(* wrote the balance for (transfers.py:94, :117, p2p.py:170), though a     *)
(* withdrawn pending payment stays debited (transactions.py:500).          *)
THEOREM BalancesAreReconciled ==
    ASSUME SeedPendingApart
    PROVE  Spec => []BalancesReconcile
<1>1. Init => Inv /\ BalancesInv
  BY InitInv, BalancesInit
<1>2. (Inv /\ BalancesInv) /\ [Next]_vars => (Inv /\ BalancesInv)'
  BY NextInv, BalancesNext DEF Inv
<1>3. Inv /\ BalancesInv => BalancesReconcile
  <2>1. Inv => Accounts = Owned
    BY DEF Inv, BooksSound, Accounts
  <2> QED
    BY <2>1 DEF BalancesInv, Balanced, Reconciled, Clear, BalancesReconcile, Balance
<1> QED
  BY <1>1, <1>2, <1>3, PTL DEF Spec

---------------------------------------------------------------------------
(* Goals and the contributions behind them. *)
Amounted(G, C, B, g) ==
    G[g].current >= 0 /\ G[g].current = B[g] + Total(ToGoal(C, g))

Accounted(G, C, B, D) ==
    /\ DOMAIN B = DOMAIN G /\ \A g \in DOMAIN G : B[g] \in Int
    /\ \A c \in DOMAIN C : C[c].goal \in DOMAIN G \cup D
    /\ \A g \in DOMAIN G \ D : Amounted(G, C, B, g)

GoalsInv == Accounted(Goals, Contributions, base, dropped)

Fallen(old, new) == IF new.current < old.current THEN old.current - new.current ELSE 0

(* What Remember makes of base and dropped when H replaces G. *)
Rebased(G, H, B, new, D, amount) ==
    new = [g \in DOMAIN H |-> IF g \in D \cup amount THEN 0
                              ELSE IF g \in DOMAIN G \cap DOMAIN H
                              THEN B[g] - Fallen(G[g], H[g])
                              ELSE H[g].current]

(* Goal g is a new one, or took what it was given, or lost some, or was in *)
(* debt.                                                                   *)
Moves(G, C, H, E, g) ==
    \/ g \notin DOMAIN G /\ E = C
    \/ g \in DOMAIN G /\ H[g].current >= G[g].current /\ Even(G, C, H, E, g)
    \/ /\ g \in DOMAIN G /\ H[g].current <= G[g].current
       /\ Total(ToGoal(E, g)) = Total(ToGoal(C, g))
       /\ H[g].current = G[g].current \/ H[g].current >= 0
    \/ g \in DOMAIN G /\ G[g].current < 0

Sourced(G, C, E) ==
    \A c \in DOMAIN E : (c \in DOMAIN C /\ E[c] = C[c]) \/ E[c].goal \in DOMAIN G

LEMMA RebasedAt ==
    ASSUME NEW G, NEW H, GoalsIn(G), GoalsIn(H), NEW B, DOMAIN B = DOMAIN G,
           \A g \in DOMAIN G : B[g] \in Int, NEW D, NEW amount, NEW new,
           Rebased(G, H, B, new, D, amount), NEW g \in DOMAIN H
    PROVE  /\ new[g] \in Int /\ DOMAIN new = DOMAIN H
           /\ g \notin D \cup amount => /\ g \in DOMAIN G => new[g] = B[g] - Fallen(G[g], H[g])
                                        /\ g \notin DOMAIN G => new[g] = H[g].current
<1>1. /\ DOMAIN new = DOMAIN H
      /\ new[g] = IF g \in D \cup amount THEN 0
                  ELSE IF g \in DOMAIN G \cap DOMAIN H THEN B[g] - Fallen(G[g], H[g])
                  ELSE H[g].current
  BY DEF Rebased
<1>2. H[g].current \in Int
  BY GoalNumbers DEF GoalsIn
<1>3. g \in DOMAIN G => G[g].current \in Int
  BY GoalNumbers DEF GoalsIn
<1>4. g \in DOMAIN G => Fallen(G[g], H[g]) \in Int
  BY <1>2, <1>3 DEF Fallen
<1> QED
  BY <1>1, <1>2, <1>4

LEMMA AccountedNext ==
    ASSUME NEW G, NEW C, NEW B, NEW D, Accounted(G, C, B, D), GoalsIn(G), GiftsIn(C),
           NEW H, NEW E, GoalsIn(H), GiftsIn(E), NEW amount, NEW new,
           Rebased(G, H, B, new, D, amount), Sourced(G, C, E),
           NEW gone, gone = D \cup amount \cup (DOMAIN G \ DOMAIN H)
                                \cup (Indebted(H) \ DOMAIN G),
           \A g \in DOMAIN H \ gone : Moves(G, C, H, E, g)
    PROVE  Accounted(H, E, new, gone)
<1>1. DOMAIN B = DOMAIN G /\ \A g \in DOMAIN G : B[g] \in Int
  BY DEF Accounted
<1>2. DOMAIN new = DOMAIN H
  BY DEF Rebased
<1>3. \A g \in DOMAIN H : new[g] \in Int
  BY <1>1, RebasedAt
<1>4. ASSUME NEW c \in DOMAIN E
      PROVE  E[c].goal \in DOMAIN H \cup gone
  <2>1. E[c].goal \in DOMAIN G \cup D
    BY DEF Sourced, Accounted
  <2> QED
    BY <2>1
<1>5. ASSUME NEW g \in DOMAIN H \ gone
      PROVE  Amounted(H, E, new, g)
  <2>1. PICK x \in Int, y \in Int : x = Total(ToGoal(C, g)) /\ y = Total(ToGoal(E, g))
    BY TotalsTyped
  <2>2. PICK n \in Int : n = H[g].current
    BY GoalNumbers DEF GoalsIn
  <2>3. PICK k : k = new[g]
    OBVIOUS
  <2>4. CASE g \notin DOMAIN G
    <3>1. E = C
      BY <2>4 DEF Moves
    <3>2. DOMAIN ToGoal(C, g) = {}
      BY <1>5, <2>4 DEF Accounted, ToGoal
    <3>3. x = 0 /\ y = x
      BY <2>1, <3>1, <3>2, TotalNothing
    <3>4. k = n
      BY <1>1, <1>5, <2>2, <2>3, <2>4, RebasedAt
    <3>5. n >= 0
      BY <1>5, <2>2, <2>4 DEF Indebted
    <3> QED
      BY <2>1, <2>2, <2>3, <3>3, <3>4, <3>5 DEF Amounted
  <2>5. CASE g \in DOMAIN G
    <3>1. PICK m \in Int : m = G[g].current
      BY <2>5, GoalNumbers DEF GoalsIn
    <3>2. PICK b \in Int : b = B[g]
      BY <1>1, <2>5
    <3>3. m = b + x /\ m >= 0
      BY <1>5, <2>1, <2>5, <3>1, <3>2 DEF Accounted, Amounted
    <3>4. (n < m /\ k = b - (m - n)) \/ (n >= m /\ k = b)
      <4>1. g \in DOMAIN H /\ g \notin D \cup amount
        BY <1>5
      <4>2. new[g] = B[g] - Fallen(G[g], H[g])
        BY <1>1, <2>5, <4>1, RebasedAt
      <4>3. PICK old, now : old = G[g] /\ now = H[g]
        OBVIOUS
      <4>4. (n < m /\ Fallen(old, now) = m - n) \/ (n >= m /\ Fallen(old, now) = 0)
        BY <2>2, <3>1, <4>3 DEF Fallen
      <4>5. k = b - Fallen(old, now)
        BY <2>3, <3>2, <4>2, <4>3
      <4>6. b - 0 = b
        OBVIOUS
      <4> QED
        BY <4>4, <4>5, <4>6
    <3>5. (n >= m /\ n - y = m - x) \/ (n <= m /\ y = x /\ (n = m \/ n >= 0))
      <4>1. ~(m < 0)
        BY <3>3
      <4> QED
        BY <1>5, <2>1, <2>2, <2>5, <3>1, <4>1 DEF Moves, Even
    <3>6. n = k + y /\ n >= 0
      BY <3>3, <3>4, <3>5
    <3> QED
      BY <2>1, <2>2, <2>3, <3>6 DEF Amounted
  <2> QED
    BY <2>4, <2>5
<1> QED
  BY <1>2, <1>3, <1>4, <1>5 DEF Accounted

LEMMA MovesNot ==
    ASSUME NEW G, GoalsIn(G), NEW C, GiftsIn(C), NEW g \in DOMAIN G, NEW H,
           H[g].current = G[g].current
    PROVE  Moves(G, C, H, C, g)
<1>1. G[g].current \in Int
  BY GoalNumbers DEF GoalsIn
<1> QED
  BY <1>1 DEF Moves

(* Every effect on the goals moves each of them one of these ways. *)
MovesAll(d, taken) ==
    /\ GoalsIn(d.store["Goal"]) /\ GiftsIn(d.store["GoalContribution"])
    /\ Sourced(Goals, Contributions, d.store["GoalContribution"])
    /\ \A g \in DOMAIN d.store["Goal"] \ taken :
          Moves(Goals, Contributions, d.store["Goal"], d.store["GoalContribution"], g)

LEMMA PutMoves ==
    ASSUME BooksSound(db), NEW d, NEW g \in DOMAIN Goals, NEW goal \in GoalRecords,
           GoalPut(d, g, goal), NEW taken,
           g \notin taken => /\ goal.current <= Goals[g].current
                             /\ goal.current = Goals[g].current \/ goal.current >= 0
    PROVE  MovesAll(d, taken)
<1>1. PICK G, C : G = Goals /\ C = Contributions /\ GoalsIn(G) /\ GiftsIn(C)
  BY GoalsSound
<1>2. PICK H : H = d.store["Goal"] /\ H = With(G, g, goal)
  BY <1>1 DEF GoalPut
<1>3. d.store["GoalContribution"] = C
  BY <1>1 DEF GoalPut
<1>4. DOMAIN H = DOMAIN G /\ H[g] = goal /\ \A h \in DOMAIN G : h # g => H[h] = G[h]
  BY <1>1, <1>2 DEF With
<1>5. GoalsIn(H)
  BY <1>1, <1>4 DEF GoalsIn
<1>6. ASSUME NEW h \in DOMAIN H \ taken
      PROVE  Moves(G, C, H, C, h)
  <2>1. CASE h = g
    BY <1>1, <1>4, <1>6, <2>1 DEF Moves
  <2>2. CASE h # g
    BY <1>1, <1>4, <2>2, MovesNot
  <2> QED
    BY <2>1, <2>2
<1> QED
  BY <1>1, <1>2, <1>3, <1>5, <1>6 DEF MovesAll, Sourced

LEMMA GivenMoves ==
    ASSUME BooksSound(db), NEW d, NEW g \in DOMAIN Goals, NEW goal \in GoalRecords,
           NEW x \in Amounts, GoalGiven(d, g, goal, x),
           goal.current = Rounded(Goals[g].current + x)
    PROVE  MovesAll(d, {})
<1>1. PICK G, C : G = Goals /\ C = Contributions /\ GoalsIn(G) /\ GiftsIn(C)
  BY GoalsSound
<1>2. PICK H, E : /\ H = d.store["Goal"] /\ H = With(G, g, goal)
                  /\ E = d.store["GoalContribution"] /\ E = Extended(C, ByHand(g, x))
  BY <1>1 DEF GoalGiven
<1>3. DOMAIN H = DOMAIN G /\ H[g] = goal /\ \A h \in DOMAIN G : h # g => H[h] = G[h]
  BY <1>1, <1>2 DEF With
<1>4. GoalsIn(H)
  BY <1>1, <1>3 DEF GoalsIn
<1>5. PICK gift \in Gifts : gift = ByHand(g, x)
  <2>1. g \in Positive /\ x \in Positive
    BY <1>1, AmountFacts DEF GoalsIn, Bounded, Positive
  <2> QED
    BY <2>1, GiftTyped
<1>6. gift.goal = g /\ gift.amount = Rounded(x)
  BY <1>5 DEF ByHand
<1>10. PICK y \in Nat : y = Rounded(x)
  BY AmountFacts, RoundedNatural
<1>7. GiftsIn(E)
  BY <1>1, <1>2, <1>5, GiftsExtended
<1>8. ASSUME NEW h \in DOMAIN H
      PROVE  Moves(G, C, H, E, h)
  <2>1. PICK old \in Int : old = Total(ToGoal(C, h))
    BY <1>1, TotalsTyped
  <2>2. Total(ToGoal(E, h)) = old + (IF g = h THEN y ELSE 0)
    BY <1>1, <1>2, <1>5, <1>6, <1>10, <2>1, ToGoalExtended
  <2>3. PICK m \in Int : m = G[h].current /\ m \in Cents
    BY <1>1, <1>3, GoalNumbers DEF GoalsIn
  <2>6. CASE h = g /\ m < 0
    BY <1>3, <2>3, <2>6 DEF Moves
  <2>4. CASE h = g /\ m >= 0
    <3>1. H[h].current = m + y
      <4>1. Rounded(m + x) = m + y
        BY <1>10, <2>3, <2>4, AmountFacts, RoundedAdded
      <4> QED
        BY <1>1, <1>3, <2>3, <2>4, <4>1
    <3>2. (m + y) - (old + y) = m - old /\ m + y >= m
      BY <1>10
    <3>3. Total(ToGoal(E, h)) = old + y
      BY <2>2, <2>4
    <3> QED
      BY <1>3, <2>1, <2>3, <3>1, <3>2, <3>3 DEF Moves, Even
  <2>5. CASE h # g
    <3>1. H[h].current = m /\ Total(ToGoal(E, h)) = old
      BY <1>3, <2>2, <2>3, <2>5
    <3> QED
      BY <1>3, <2>1, <2>3, <3>1 DEF Moves
  <2> QED
    BY <2>3, <2>4, <2>5, <2>6
<1>9. Sourced(G, C, E)
  <2>1. PICK i : i = NextId(C)
    OBVIOUS
  <2>2. /\ i \in Positive /\ i \notin DOMAIN C /\ DOMAIN E = DOMAIN C \cup {i}
        /\ E[i] = gift /\ (\A j \in DOMAIN C : E[j] = C[j])
        /\ Bounded(DOMAIN E) /\ Largest(DOMAIN E) = i
    <3>1. Bounded(DOMAIN C)
      BY <1>1 DEF GiftsIn
    <3>2. Longer(C, gift, E, i)
      BY <1>2, <1>5, <2>1, <3>1, ExtendedLonger
    <3> QED
      BY <3>2 DEF Longer
  <2> QED
    BY <1>1, <1>6, <2>2 DEF Sourced
<1> QED
  BY <1>1, <1>2, <1>4, <1>7, <1>8, <1>9 DEF MovesAll

LEMMA GoalsMove ==
    ASSUME BooksSound(db), NEW d, GoalsEffect(d)
    PROVE  MovesAll(d, {})
<1>1. PICK G, C : G = Goals /\ C = Contributions /\ GoalsIn(G) /\ GiftsIn(C)
  BY GoalsSound
<1>2. PICK H, E : H = d.store["Goal"] /\ E = d.store["GoalContribution"]
  OBVIOUS
<1>3. CASE GoalsKept(d)
  <2>1. H = G /\ E = C
    BY <1>1, <1>2, <1>3 DEF GoalsKept
  <2> QED
    BY <1>1, <1>2, <2>1, MovesNot DEF MovesAll, Sourced
<1>4. ASSUME NEW p \in Postings, CreditBooked(d, p), ~GoalsKept(d)
      PROVE  MovesAll(d, {})
  <2>1. PICK source, spent : Fed(G, C, H, E, source, spent)
    BY <1>1, <1>2, <1>4 DEF CreditBooked, Credit
  <2>2. GoalsIn(H) /\ GiftsIn(E) /\ Sourced(G, C, E)
    BY <2>1 DEF Fed, Sourced
  <2>3. \A g \in DOMAIN H : Moves(G, C, H, E, g)
    BY <2>1 DEF Fed, Grown, Moves
  <2> QED
    BY <1>1, <1>2, <2>2, <2>3 DEF MovesAll
<1>5. ASSUME NEW goal \in NewGoals, GoalMade(d, goal)
      PROVE  MovesAll(d, {})
  <2>1. H = Extended(G, goal) /\ E = C /\ goal \in GoalRecords
    BY <1>1, <1>2, <1>5, RequestAssumption DEF GoalMade
  <2>2. PICK i : i = NextId(G)
    OBVIOUS
  <2>3. /\ i \in Positive /\ i \notin DOMAIN G /\ DOMAIN H = DOMAIN G \cup {i}
        /\ H[i] = goal /\ (\A j \in DOMAIN G : H[j] = G[j])
        /\ Bounded(DOMAIN H) /\ Largest(DOMAIN H) = i
    <3>1. Bounded(DOMAIN G)
      BY <1>1 DEF GoalsIn
    <3>2. Longer(G, goal, H, i)
      BY <2>1, <2>2, <3>1, ExtendedLonger
    <3> QED
      BY <3>2 DEF Longer
  <2>4. GoalsIn(H)
    BY <1>1, <2>1, <2>3 DEF GoalsIn
  <2>5. ASSUME NEW h \in DOMAIN H
        PROVE  Moves(G, C, H, E, h)
    <3>1. CASE h \in DOMAIN G
      BY <1>1, <2>1, <2>3, <3>1, MovesNot
    <3>2. CASE h \notin DOMAIN G
      BY <2>1, <3>2 DEF Moves
    <3> QED
      BY <3>1, <3>2
  <2> QED
    BY <1>1, <1>2, <2>1, <2>4, <2>5 DEF MovesAll, Sourced
<1>6. ASSUME NEW g \in DOMAIN Goals, GoalGone(d, g)
      PROVE  MovesAll(d, {})
  <2>1. DOMAIN H = DOMAIN G \ {g} /\ (\A h \in DOMAIN H : H[h] = G[h]) /\ E = C
    BY <1>1, <1>2, <1>6 DEF GoalGone
  <2>2. GoalsIn(H)
    BY <1>1, <2>1 DEF GoalsIn, Bounded
  <2>3. \A h \in DOMAIN H : Moves(G, C, H, E, h)
    BY <1>1, <2>1, MovesNot
  <2> QED
    BY <1>1, <1>2, <2>1, <2>2, <2>3 DEF MovesAll, Sourced
<1>7. ASSUME NEW g \in DOMAIN Goals, NEW goal \in GoalRecords, NEW x \in Nat,
             GoalPut(d, g, goal), Swapped(Goals[g], goal, Goals[g].current - x),
             x = 0 \/ goal.current >= 0
      PROVE  MovesAll(d, {})
  <2>1. PICK m \in Int : m = Goals[g].current
    BY GoalTyped, GoalNumbers
  <2>2. /\ goal.current <= Goals[g].current
        /\ goal.current = Goals[g].current \/ goal.current >= 0
    BY <1>7, <2>1 DEF Swapped
  <2> QED
    BY <1>7, <2>2, PutMoves
<1>8. ASSUME NEW g \in DOMAIN Goals, NEW goal \in GoalRecords, NEW x \in Amounts,
             GoalGiven(d, g, goal, x), Swapped(Goals[g], goal, Rounded(Goals[g].current + x))
      PROVE  MovesAll(d, {})
  BY <1>8, GivenMoves DEF Swapped
<1> QED
  BY <1>3, <1>4, <1>5, <1>6, <1>7, <1>8 DEF GoalsEffect

LEMMA StepGoalsEffect ==
    ASSUME BooksSound(db), AccountRequest \/ GoalRequest \/ RuleRequest \/ db' = db
    PROVE  GoalsEffect(db')
<1>1. CASE db' = db
  BY <1>1 DEF GoalsEffect, GoalsKept, Goals, Contributions
<1> QED
  BY <1>1, AccountEffect, GoalEffect, RuleEffect DEF Effect

(* What Remember makes of base and dropped. *)
RememberedGoals(H, new, gone, amount) ==
    /\ Rebased(Goals, H, base, new, dropped, amount)
    /\ gone = dropped \cup amount \cup (DOMAIN Goals \ DOMAIN H)
                 \cup (Indebted(H) \ DOMAIN Goals)

LEMMA RememberGoals ==
    ASSUME NEW amount, NEW percent, Remember(amount, percent)
    PROVE  RememberedGoals(db'.store["Goal"], base', dropped', amount)
BY Zenon DEF Remember, RememberedGoals, Rebased, Fallen

LEMMA GoalsRemembered ==
    ASSUME BooksSound(db), GoalsInv, NEW amount, MovesAll(db', amount),
           RememberedGoals(db'.store["Goal"], base', dropped', amount)
    PROVE  GoalsInv'
<1>1. PICK G, C, B, D : /\ G = Goals /\ C = Contributions /\ B = base /\ D = dropped
                        /\ GoalsIn(G) /\ GiftsIn(C)
  BY GoalsSound
<1>2. PICK d, H, E, new, gone : /\ d = db' /\ H = d.store["Goal"]
                                /\ E = d.store["GoalContribution"]
                                /\ new = base' /\ gone = dropped'
  OBVIOUS
<1>3. Accounted(G, C, B, D)
  BY <1>1 DEF GoalsInv
<1>4. /\ Rebased(G, H, B, new, D, amount)
      /\ gone = D \cup amount \cup (DOMAIN G \ DOMAIN H) \cup (Indebted(H) \ DOMAIN G)
  BY <1>1, <1>2 DEF RememberedGoals
<1>5. /\ GoalsIn(H) /\ GiftsIn(E) /\ Sourced(G, C, E)
      /\ \A g \in DOMAIN H \ amount : Moves(G, C, H, E, g)
  BY <1>1, <1>2 DEF MovesAll
<1>6. \A g \in DOMAIN H \ gone : Moves(G, C, H, E, g)
  BY <1>4, <1>5
<1>7. Accounted(H, E, new, gone)
  BY <1>1, <1>3, <1>4, <1>5, <1>6, AccountedNext
<1> QED
  BY <1>2, <1>7 DEF GoalsInv, Goals, Contributions

LEMMA OverwrittenMoves ==
    ASSUME BooksSound(db), NEW g \in DOMAIN Goals
    PROVE  /\ OverwriteAmount(g) => MovesAll(db', {g})
           /\ OverwritePercent(g) => MovesAll(db', {})
           /\ RelinkGoal(g) \/ ConfigureAutoTransfer(g) => MovesAll(db', {})
<1>1. ASSUME OverwriteAmount(g)
      PROVE  MovesAll(db', {g})
  <2>1. PICK x \in Amounts : UpdateSavingsGoal(g, [Goals[g] EXCEPT !.current = Rounded(x)])
    BY <1>1 DEF OverwriteAmount
  <2>2. PICK goal : goal = [Goals[g] EXCEPT !.current = Rounded(x)]
    OBVIOUS
  <2>3. goal \in GoalRecords
    BY <2>2, GoalTyped, AmountFacts, RoundedTyped, GoalChanged
  <2>4. GoalPut(db', g, goal)
    BY <2>1, <2>2, <2>3, GoalPutEffect DEF UpdateSavingsGoal
  <2> QED
    BY <2>3, <2>4, PutMoves
<1>2. ASSUME OverwritePercent(g)
      PROVE  MovesAll(db', {})
  <2>1. PICK percent \in NewPercents :
           UpdateSavingsGoal(g, [Goals[g] EXCEPT !.percent = percent])
    BY <1>2 DEF OverwritePercent
  <2>2. PICK goal : goal = [Goals[g] EXCEPT !.percent = percent]
    OBVIOUS
  <2>3. goal \in GoalRecords /\ goal.current = Goals[g].current
    BY <2>2, RequestAssumption, PercentEffect
  <2>4. GoalPut(db', g, goal)
    BY <2>1, <2>2, <2>3, GoalPutEffect DEF UpdateSavingsGoal
  <2>5. Goals[g].current \in Int
    BY GoalTyped, GoalNumbers
  <2>6. goal.current <= Goals[g].current
    BY <2>3, <2>5
  <2> QED
    BY <2>3, <2>4, <2>6, PutMoves
<1>3. ASSUME RelinkGoal(g) \/ ConfigureAutoTransfer(g)
      PROVE  MovesAll(db', {})
  <2>1. PICK goal \in GoalRecords :
           UpdateSavingsGoal(g, goal) /\ goal.current = Goals[g].current
    BY <1>3, RelinkParts
  <2>2. GoalPut(db', g, goal)
    BY <2>1, GoalPutEffect DEF UpdateSavingsGoal
  <2>3. Goals[g].current \in Int
    BY GoalTyped, GoalNumbers
  <2>4. goal.current <= Goals[g].current
    BY <2>1, <2>3
  <2> QED
    BY <2>1, <2>2, <2>4, PutMoves
<1> QED
  BY <1>1, <1>2, <1>3

LEMMA GoalsNext ==
    ASSUME BooksSound(db), GoalsInv, [Next]_vars
    PROVE  GoalsInv'
<1>1. CASE UNCHANGED vars
  <2>1. db' = db /\ base' = base /\ dropped' = dropped
    BY <1>1 DEF vars, history
  <2> QED
    BY <2>1 DEF GoalsInv, Goals, Contributions
<1>2. ASSUME AccountRequest \/ GoalRequest \/ RuleRequest \/ db' = db, Remember({}, {})
      PROVE  GoalsInv'
  <2>1. MovesAll(db', {})
    BY <1>2, StepGoalsEffect, GoalsMove
  <2>2. RememberedGoals(db'.store["Goal"], base', dropped', {})
    BY <1>2, RememberGoals
  <2> QED
    BY <2>1, <2>2, GoalsRemembered
<1>3. ASSUME NEW g \in DOMAIN Goals, OverwriteAmount(g), Remember({g}, {})
      PROVE  GoalsInv'
  BY <1>3, OverwrittenMoves, RememberGoals, GoalsRemembered
<1>4. ASSUME NEW g \in DOMAIN Goals, OverwritePercent(g), Remember({}, {g})
      PROVE  GoalsInv'
  BY <1>4, OverwrittenMoves, RememberGoals, GoalsRemembered
<1>5. ASSUME NEW g \in DOMAIN Goals, RelinkGoal(g) \/ ConfigureAutoTransfer(g),
             Remember({}, {})
      PROVE  GoalsInv'
  BY <1>5, OverwrittenMoves, RememberGoals, GoalsRemembered
<1> QED
  BY <1>1, <1>2, <1>3, <1>4, <1>5 DEF Next, RefuseRequest

LEMMA GoalsInit ==
    ASSUME Init
    PROVE  GoalsInv
<1>1. /\ Goals = Seed["Goal"] /\ Contributions = Seed["GoalContribution"]
      /\ base = [g \in DOMAIN Seed["Goal"] |-> Seed["Goal"][g].current]
      /\ dropped = Indebted(Seed["Goal"])
  BY DEF Init, Goals, Contributions
<1>2. BooksSound(db)
  BY InitInv DEF Inv
<1>3. PICK G, C, B : G = Goals /\ C = Contributions /\ B = base /\ GoalsIn(G)
  BY <1>2, GoalsSound
<1>4. DOMAIN C = {}
  BY <1>1, <1>3, SeedAssumption
<1>5. DOMAIN B = DOMAIN G /\ \A g \in DOMAIN G : B[g] = G[g].current
  BY <1>1, <1>3
<1>6. ASSUME NEW g \in DOMAIN G
      PROVE  B[g] \in Int /\ (g \notin dropped => Amounted(G, C, B, g))
  <2>1. B[g] = G[g].current /\ G[g].current \in Int
    BY <1>3, <1>5, GoalNumbers DEF GoalsIn
  <2>4. g \notin dropped => G[g].current >= 0
    BY <1>1, <1>3, <2>1 DEF Indebted
  <2>2. DOMAIN ToGoal(C, g) = {}
    BY <1>4 DEF ToGoal
  <2>3. Total(ToGoal(C, g)) = 0
    BY <2>2, TotalNothing
  <2> QED
    BY <2>1, <2>3, <2>4 DEF Amounted
<1> QED
  BY <1>1, <1>3, <1>4, <1>5, <1>6 DEF GoalsInv, Accounted

(* Whatever was contributed, withdrawn or allocated and in whatever order, *)
(* a goal holds what it was created with and what its contributions        *)
(* brought, less what was taken out, unless an update overwrote the amount *)
(* (savings.py:261), a deleted goal had its id or it was made in debt: no  *)
(* route writes the amount of a goal without the contribution that         *)
(* explains it, both rounded alike, and no contribution names a goal that  *)
(* is not yet there.  No goal that was not made in debt ever is.           *)
THEOREM GoalsHoldTheirContributions ==
    Spec => []GoalsAddUp
<1>1. Init => Inv /\ GoalsInv
  BY InitInv, GoalsInit
<1>2. (Inv /\ GoalsInv) /\ [Next]_vars => (Inv /\ GoalsInv)'
  BY NextInv, GoalsNext DEF Inv
<1>3. Inv /\ GoalsInv => GoalsAddUp
  BY DEF GoalsInv, Accounted, Amounted, GoalsAddUp
<1> QED
  BY <1>1, <1>2, <1>3, PTL DEF Spec

---------------------------------------------------------------------------
(* Credits and the contributions made of them. *)
Covered(C, t, p) ==
    IF p.type = "credit" THEN Total(Excess(C, t)) <= 2 * p.amount
    ELSE Total(OfCredit(C, t)) <= 0

(* Nothing of C came from t. *)
Untapped(C, t) == Total(OfCredit(C, t)) = 0 /\ Total(Excess(C, t)) = 0

Sourceful(C, T) ==
    \A c \in DOMAIN C : \/ C[c].source = 0
                        \/ /\ C[c].source \in DOMAIN T
                           /\ T[C[c].source].status = "completed"

CreditsCover(C, T) == \A t \in DOMAIN T : Covered(C, t, T[t])

Funded(C, T) == Sourceful(C, T) /\ CreditsCover(C, T)

CreditInv == Funded(Contributions, Transactions)

LEMMA NothingYet ==
    ASSUME NEW C, NEW T, Sourceful(C, T), NEW i \in Positive, i \notin DOMAIN T
    PROVE  Untapped(C, i)
<1>1. DOMAIN OfCredit(C, i) = {} /\ DOMAIN Excess(C, i) = {}
  BY DEF OfCredit, Excess, Sourceful, Positive
<1> QED
  BY <1>1, TotalNothing DEF Untapped

LEMMA UntappedCovered ==
    ASSUME NEW C, NEW i, Untapped(C, i), NEW p, Worthy(p)
    PROVE  Covered(C, i, p)
BY DEF Untapped, Covered, Worthy

LEMMA FundedMore ==
    ASSUME NEW C, NEW T, Bounded(DOMAIN T), Funded(C, T), NEW p \in Postings, Worthy(p),
           NEW U, U = Extended(T, p)
    PROVE  Funded(C, U)
<1>1. PICK i : i = NextId(T)
  OBVIOUS
<1>2. /\ i \in Positive /\ i \notin DOMAIN T /\ DOMAIN U = DOMAIN T \cup {i}
      /\ U[i] = p /\ (\A j \in DOMAIN T : U[j] = T[j])
      /\ Bounded(DOMAIN U) /\ Largest(DOMAIN U) = i
  <2>1. Longer(T, p, U, i)
    BY <1>1, ExtendedLonger
  <2> QED
    BY <2>1 DEF Longer
<1>3. Sourceful(C, T) /\ CreditsCover(C, T)
  BY DEF Funded
<1>4. Sourceful(C, U)
  BY <1>2, <1>3 DEF Sourceful
<1>5. Covered(C, i, p)
  BY <1>2, <1>3, NothingYet, UntappedCovered
<1>6. CreditsCover(C, U)
  BY <1>2, <1>3, <1>5 DEF CreditsCover
<1> QED
  BY <1>4, <1>6 DEF Funded

LEMMA FundedLess ==
    ASSUME NEW C, NEW T, Funded(C, T), NEW t \in DOMAIN T, T[t].status = "pending",
           NEW U, U = Without(T, t)
    PROVE  Funded(C, U)
<1>1. DOMAIN U = DOMAIN T \ {t} /\ \A i \in DOMAIN U : U[i] = T[i]
  BY DEF Without
<1>2. Sourceful(C, T) /\ CreditsCover(C, T)
  BY DEF Funded
<1>3. Sourceful(C, U)
  BY <1>1, <1>2 DEF Sourceful
<1>4. CreditsCover(C, U)
  BY <1>1, <1>2 DEF CreditsCover
<1> QED
  BY <1>3, <1>4 DEF Funded

LEMMA FundedByHand ==
    ASSUME NEW C, GiftsIn(C), NEW T, Bounded(DOMAIN T), Funded(C, T), NEW gift \in Gifts,
           gift.source = 0, NEW D, D = Extended(C, gift)
    PROVE  Funded(D, T)
<1>1. Sourceful(C, T) /\ CreditsCover(C, T)
  BY DEF Funded
<1>2. PICK i : i = NextId(C)
  OBVIOUS
<1>3. /\ i \in Positive /\ i \notin DOMAIN C /\ DOMAIN D = DOMAIN C \cup {i}
      /\ D[i] = gift /\ (\A j \in DOMAIN C : D[j] = C[j])
  <2>1. Bounded(DOMAIN C)
    BY DEF GiftsIn
  <2>2. Longer(C, gift, D, i)
    BY <1>2, <2>1, ExtendedLonger
  <2> QED
    BY <2>2 DEF Longer
<1>4. Sourceful(D, T)
  BY <1>1, <1>3 DEF Sourceful
<1>5. ASSUME NEW t \in DOMAIN T
      PROVE  Covered(D, t, T[t])
  <2>1. t # 0
    BY DEF Bounded
  <2>2. PICK x, y \in Int : x = Total(OfCredit(C, t)) /\ y = Total(Excess(C, t))
    BY TotalsTyped
  <2>3. Total(OfCredit(D, t)) = x + 0
    BY <2>1, <2>2, OfCreditExtended
  <2>4. Total(Excess(D, t)) = y + 0
    BY <2>1, <2>2, ExcessExtended
  <2>5. x + 0 = x /\ y + 0 = y
    OBVIOUS
  <2>6. Covered(C, t, T[t])
    BY <1>1 DEF CreditsCover
  <2> QED
    BY <2>2, <2>3, <2>4, <2>5, <2>6 DEF Covered
<1> QED
  BY <1>4, <1>5 DEF Funded, CreditsCover

(* The contributions of the credit itself, whichever goals it served.      *)
LEMMA FundedFed ==
    ASSUME NEW C, GiftsIn(C), NEW T, Bounded(DOMAIN T), Funded(C, T), NEW p \in Postings,
           p.type = "credit", p.amount \in Nat, p.status = "completed",
           NEW U, U = Extended(T, p), NEW G, NEW H, NEW D, NEW i, i = NextId(T),
           NEW left \in Nat, NEW spent, spent = p.amount - left, Fed(G, C, H, D, i, spent)
    PROVE  Funded(D, U)
<1>1. /\ i \in Positive /\ i \notin DOMAIN T /\ DOMAIN U = DOMAIN T \cup {i}
      /\ U[i] = p /\ (\A j \in DOMAIN T : U[j] = T[j])
  <2>1. Longer(T, p, U, i)
    BY ExtendedLonger
  <2> QED
    BY <2>1 DEF Longer
<1>2. Sourceful(C, T) /\ CreditsCover(C, T)
  BY DEF Funded
<1>3. \A c \in DOMAIN D : (c \in DOMAIN C /\ D[c] = C[c]) \/ D[c].source = i
  BY DEF Fed
<1>4. Sourceful(D, U)
  BY <1>1, <1>2, <1>3 DEF Sourceful
<1>5. Total(Excess(C, i)) = 0
  BY <1>1, <1>2, NothingYet DEF Untapped
<1>6. PICK x \in Int : x = Total(Excess(D, i)) /\ x <= 0 + 2 * spent
  BY <1>5, TotalsTyped DEF Fed
<1>7. x <= 2 * p.amount
  BY <1>6
<1>8. Covered(D, i, U[i])
  BY <1>1, <1>6, <1>7 DEF Covered
<1>9. ASSUME NEW t \in DOMAIN T
      PROVE  Covered(D, t, T[t])
  <2>1. Covered(C, t, T[t]) /\ t # i
    BY <1>1, <1>2 DEF CreditsCover
  <2>2. /\ Total(OfCredit(D, t)) = Total(OfCredit(C, t))
        /\ Total(Excess(D, t)) = Total(Excess(C, t))
    BY <2>1 DEF Fed
  <2> QED
    BY <2>1, <2>2 DEF Covered
<1>10. CreditsCover(D, U)
  BY <1>1, <1>8, <1>9 DEF CreditsCover
<1> QED
  BY <1>4, <1>10 DEF Funded

LEMMA BooksFunded ==
    ASSUME BooksSound(db), CreditInv, NEW d, BooksEffect(d)
    PROVE  Funded(Contributions, d.store["Transaction"]) /\ Bounded(DOMAIN d.store["Transaction"])
<1>1. PICK C, T : C = Contributions /\ T = Transactions /\ Bounded(DOMAIN T) /\ Funded(C, T)
  BY TransactionsBounded DEF CreditInv
<1>2. PICK V : V = d.store["Transaction"]
  OBVIOUS
<1>3. CASE QuietBooks(d)
  BY <1>1, <1>3 DEF QuietBooks
<1>4. ASSUME NEW p \in Postings, OneBooked(d, p)
      PROVE  Funded(C, V) /\ Bounded(DOMAIN V)
  <2>1. V = Extended(T, p) /\ Worthy(p)
    BY <1>1, <1>2, <1>4 DEF OneBooked, Posted
  <2> QED
    BY <1>1, <2>1, FundedMore, ExtendedFurther
<1>5. ASSUME NEW p \in Postings, NEW q \in Postings, TwoBooked(d, p, q)
      PROVE  Funded(C, V) /\ Bounded(DOMAIN V)
  <2>1. PICK U : U = Extended(T, p)
    OBVIOUS
  <2>2. V = Extended(U, q) /\ Worthy(p) /\ Worthy(q)
    BY <1>1, <1>2, <1>5, <2>1 DEF TwoBooked, PostedTwo
  <2>3. Funded(C, U) /\ Bounded(DOMAIN U)
    BY <1>1, <2>1, <2>2, FundedMore, ExtendedFurther
  <2> QED
    BY <2>2, <2>3, FundedMore, ExtendedFurther
<1>6. ASSUME NEW t \in DOMAIN Transactions, OneGone(d, t)
      PROVE  Funded(C, V) /\ Bounded(DOMAIN V)
  <2>1. V = Without(T, t) /\ T[t].status = "pending" /\ t \in DOMAIN T
    BY <1>1, <1>2, <1>6 DEF OneGone, Without
  <2>2. DOMAIN V \subseteq DOMAIN T
    BY <2>1 DEF Without
  <2>3. Bounded(DOMAIN V)
    BY <1>1, <2>2 DEF Bounded
  <2> QED
    BY <1>1, <2>1, <2>3, FundedLess
<1> QED
  BY <1>1, <1>2, <1>3, <1>4, <1>5, <1>6 DEF BooksEffect

LEMMA CreditEffect ==
    ASSUME BooksSound(db), CreditInv, NEW d, BooksEffect(d), GoalsEffect(d)
    PROVE  Funded(d.store["GoalContribution"], d.store["Transaction"])
<1>1. PICK C, V, D : /\ C = Contributions /\ V = d.store["Transaction"]
                     /\ D = d.store["GoalContribution"] /\ GiftsIn(C)
  BY GoalsSound
<1>2. Funded(C, V) /\ Bounded(DOMAIN V)
  BY <1>1, BooksFunded
<1>3. CASE D = C
  BY <1>1, <1>2, <1>3
<1>4. ASSUME NEW p \in Postings, CreditBooked(d, p), ~GoalsKept(d)
      PROVE  Funded(D, V)
  <2>1. PICK T : T = Transactions /\ Bounded(DOMAIN T) /\ Funded(C, T)
    BY <1>1, TransactionsBounded DEF CreditInv
  <2>2. PICK i : i = NextId(T)
    OBVIOUS
  <2>3. V = Extended(T, p) /\ p.status = "completed" /\ p.amount \in Nat
    BY <1>1, <1>4, <2>1 DEF CreditBooked, OneBooked, Posted
  <2>4. PICK left \in Nat :
           /\ p.type = "credit"
           /\ Fed(Goals, C, d.store["Goal"], D, i, p.amount - left)
    BY <1>1, <1>4, <2>1, <2>2 DEF CreditBooked, Credit
  <2>5. PICK G, H, spent : /\ G = Goals /\ H = d.store["Goal"] /\ spent = p.amount - left
                           /\ Fed(G, C, H, D, i, spent)
    BY <2>4
  <2> QED
    BY <1>1, <2>1, <2>2, <2>3, <2>4, <2>5, FundedFed
<1>5. ASSUME NEW g \in DOMAIN Goals, NEW goal, NEW x \in Amounts, GoalGiven(d, g, goal, x)
      PROVE  Funded(D, V)
  <2>1. g \in Positive /\ x \in Positive
    BY GoalsSound, AmountFacts DEF GoalsIn, Bounded, Positive
  <2>2. PICK gift \in Gifts : gift = ByHand(g, x)
    BY <2>1, GiftTyped
  <2>3. gift.source = 0
    BY <2>2 DEF ByHand
  <2>4. D = Extended(C, gift)
    BY <1>1, <1>5, <2>2 DEF GoalGiven
  <2> QED
    BY <1>1, <1>2, <2>3, <2>4, FundedByHand
<1> QED
  BY <1>1, <1>3, <1>4, <1>5 DEF GoalsEffect, GoalsKept, GoalMade, GoalGone, GoalPut

LEMMA CreditNext ==
    ASSUME BooksSound(db), CreditInv, [Next]_vars
    PROVE  CreditInv'
<1>1. BooksEffect(db')
  BY StepEffect
<1>2. PICK d : d = db'
  OBVIOUS
<1>3. Funded(d.store["GoalContribution"], d.store["Transaction"])
  <2>1. CASE AccountRequest \/ GoalRequest \/ RuleRequest \/ db' = db
    BY <1>1, <1>2, <2>1, StepGoalsEffect, CreditEffect
  <2>2. ASSUME NEW g \in DOMAIN Goals, NEW goal,
               db' = Close(Commit(Assign(HoldingGoal(g), 1, goal))), goal \in GoalRecords
        PROVE  Funded(d.store["GoalContribution"], d.store["Transaction"])
    <3>1. d.store["GoalContribution"] = Contributions
      BY <1>2, <2>2, GoalPutEffect DEF GoalPut
    <3>2. Funded(Contributions, d.store["Transaction"])
      BY <1>1, <1>2, BooksFunded
    <3> QED
      BY <3>1, <3>2
  <2>3. ASSUME NEW g \in DOMAIN Goals, OverwriteAmount(g)
        PROVE  Funded(d.store["GoalContribution"], d.store["Transaction"])
    <3>1. PICK x \in Amounts : UpdateSavingsGoal(g, [Goals[g] EXCEPT !.current = Rounded(x)])
      BY <2>3 DEF OverwriteAmount
    <3>2. PICK goal : goal = [Goals[g] EXCEPT !.current = Rounded(x)]
      OBVIOUS
    <3>3. goal \in GoalRecords
      BY <3>2, GoalTyped, AmountFacts, RoundedTyped, GoalChanged
    <3> QED
      BY <2>2, <3>1, <3>2, <3>3 DEF UpdateSavingsGoal
  <2>4. ASSUME NEW g \in DOMAIN Goals, OverwritePercent(g)
        PROVE  Funded(d.store["GoalContribution"], d.store["Transaction"])
    <3>1. PICK percent \in NewPercents :
             UpdateSavingsGoal(g, [Goals[g] EXCEPT !.percent = percent])
      BY <2>4 DEF OverwritePercent
    <3>2. PICK goal : goal = [Goals[g] EXCEPT !.percent = percent]
      OBVIOUS
    <3>3. goal \in GoalRecords
      BY <3>2, RequestAssumption, PercentEffect
    <3> QED
      BY <2>2, <3>1, <3>2, <3>3 DEF UpdateSavingsGoal
  <2>5. ASSUME NEW g \in DOMAIN Goals, RelinkGoal(g) \/ ConfigureAutoTransfer(g)
        PROVE  Funded(d.store["GoalContribution"], d.store["Transaction"])
    <3>1. PICK goal \in GoalRecords : UpdateSavingsGoal(g, goal)
      BY <2>5, RelinkParts
    <3> QED
      BY <2>2, <3>1 DEF UpdateSavingsGoal
  <2> QED
    BY <2>1, <2>3, <2>4, <2>5 DEF Next, RefuseRequest, vars
<1> QED
  BY <1>2, <1>3 DEF CreditInv, Contributions, Transactions

(* The seed has no credit of a negative amount (data_manager.py:633). *)
SeedCreditsWorthy ==
    \A t \in DOMAIN Seed["Transaction"] : Worthy(Seed["Transaction"][t])

LEMMA CreditInit ==
    ASSUME SeedCreditsWorthy, Init
    PROVE  CreditInv
<1>1. PICK C, T : C = Contributions /\ T = Transactions
  OBVIOUS
<1>2. C = Seed["GoalContribution"] /\ T = Seed["Transaction"]
  BY <1>1 DEF Init, Contributions, Transactions
<1>3. DOMAIN C = {}
  BY <1>2, SeedAssumption
<1>4. Sourceful(C, T)
  BY <1>3 DEF Sourceful
<1>5. BooksSound(db)
  BY InitInv DEF Inv
<1>6. ASSUME NEW t \in DOMAIN T
      PROVE  Covered(C, t, T[t])
  <2>1. DOMAIN OfCredit(C, t) = {} /\ DOMAIN Excess(C, t) = {}
    BY <1>3 DEF OfCredit, Excess
  <2>2. Untapped(C, t)
    BY <2>1, TotalNothing DEF Untapped
  <2>3. PICK p : p = T[t]
    OBVIOUS
  <2>4. Worthy(p)
    BY <1>2, <2>3 DEF SeedCreditsWorthy
  <2> QED
    BY <2>2, <2>3, <2>4, UntappedCovered
<1> QED
  BY <1>1, <1>4, <1>6 DEF CreditInv, Funded, CreditsCover

(* However the percentages and fixed amounts of the goals linked to an     *)
(* account add up, and whatever was asked before, a credit's contributions *)
(* never come to more than it brought and half a cent for each of them     *)
(* (goal_update_service.py): the shares themselves are taken of what is    *)
(* left (:126) and rounded apart from it, and each contribution names the  *)
(* id the credit is stored under, which no later transaction gets, since   *)
(* only a pending one can be deleted (transactions.py).                    *)
THEOREM CreditsAreNotOverAllocated ==
    ASSUME SeedCreditsWorthy
    PROVE  Spec => []CreditIsNotOverAllocated
<1>1. Init => Inv /\ CreditInv
  BY InitInv, CreditInit
<1>2. (Inv /\ CreditInv) /\ [Next]_vars => (Inv /\ CreditInv)'
  BY NextInv, CreditNext DEF Inv
<1>3. Inv /\ CreditInv => CreditIsNotOverAllocated
  BY DEF CreditInv, Funded, CreditsCover, Covered, CreditIsNotOverAllocated
<1> QED
  BY <1>1, <1>2, <1>3, PTL DEF Spec

---------------------------------------------------------------------------
(* The shares of an account's active goals. *)
LEMMA TotalLess ==
    ASSUME NEW f, Countable(f), NEW g, Countable(g),
           \A j \in Positive : Worth(g, j) <= Worth(f, j)
    PROVE  Total(g) <= Total(f)
<1>1. PICK n \in Nat : Largest(DOMAIN f) <= n /\ Largest(DOMAIN g) <= n
  <2>1. PICK a \in Nat : a = Largest(DOMAIN f)
    BY LargestIsMax DEF Countable
  <2>2. PICK b \in Nat : b = Largest(DOMAIN g)
    BY LargestIsMax DEF Countable
  <2>3. a + b \in Nat /\ a <= a + b /\ b <= a + b
    OBVIOUS
  <2> QED
    BY <2>1, <2>2, <2>3
<1>2. PICK s : Sums(s, n, f)
  BY SummingExists, SummingSums
<1>3. PICK r : Sums(r, n, g)
  BY SummingExists, SummingSums
<1>4. Total(f) = s[n] /\ Total(g) = r[n]
  BY <1>1, <1>2, <1>3, SumsFurther
<1>5. /\ \A k \in 0..n : s[k] \in Int
      /\ \A k \in 1..n : s[k] = s[k - 1] + Worth(f, k)
  BY <1>2, SumsTyped
<1>6. /\ \A k \in 0..n : r[k] \in Int
      /\ \A k \in 1..n : r[k] = r[k - 1] + Worth(g, k)
  BY <1>3, SumsTyped
<1> DEFINE G == {k \in 0..n : r[k] <= s[k]}
<1>7. 0 \in G
  BY <1>2, <1>3 DEF Sums
<1>8. ASSUME NEW k \in 1..n, k - 1 \in G
      PROVE  k \in G
  <2>1. PICK x \in Int, y \in Int : x = s[k - 1] /\ y = r[k - 1]
    <3>1. k - 1 \in 0..n
      OBVIOUS
    <3> QED
      BY <1>5, <1>6, <3>1
  <2>2. PICK p \in Int, q \in Int : p = Worth(f, k) /\ q = Worth(g, k)
    BY WorthTyped
  <2>3. s[k] = x + p /\ r[k] = y + q
    BY <1>5, <1>6, <2>1, <2>2
  <2>4. y <= x
    BY <1>8, <2>1
  <2>5. q <= p
    <3>1. k \in Positive
      BY DEF Positive
    <3> QED
      BY <2>2, <3>1
  <2> QED
    BY <2>3, <2>4, <2>5
<1>9. \A k \in 0..n : k \in G
  <2> HIDE DEF G
  <2> QED
    BY <1>7, <1>8, UpTo
<1>10. n \in G
  <2> HIDE DEF G
  <2> QED
    BY <1>9
<1> QED
  BY <1>4, <1>10

Shares(G, S) == [g \in {h \in S : G[h].percent # Unset} |-> G[g].percent]

ActiveIn(G, a) == {g \in DOMAIN G : G[g].account = a /\ G[g].status = "active"}

ShareOf(goal) == IF goal.percent = Unset THEN 0 ELSE goal.percent

LEMMA SharesFacts ==
    ASSUME NEW G, GoalsIn(G), NEW S, S \subseteq DOMAIN G
    PROVE  /\ Countable(Shares(G, S))
           /\ \A g : Worth(Shares(G, S), g) = IF g \in S THEN ShareOf(G[g]) ELSE 0
           /\ \A g \in S : ShareOf(G[g]) \in Nat
           /\ Total(Shares(G, S)) \in Int
<1>1. PICK f : f = Shares(G, S)
  OBVIOUS
<1>2. DOMAIN f = {h \in S : G[h].percent # Unset} /\ \A g \in DOMAIN f : f[g] = G[g].percent
  BY <1>1 DEF Shares
<1>3. \A g \in S : G[g].percent \in Nat \cup {Unset}
  BY DEF GoalsIn, GoalRecords
<1>4. \A g \in DOMAIN f : f[g] \in Int
  BY <1>2, <1>3 DEF Unset
<1>5. Bounded(DOMAIN f)
  BY <1>2 DEF GoalsIn, Bounded
<1>6. Countable(f)
  BY <1>4, <1>5 DEF Countable
<1>7. \A g : Worth(f, g) = IF g \in S THEN ShareOf(G[g]) ELSE 0
  BY <1>2 DEF Worth, ShareOf
<1>8. \A g \in S : ShareOf(G[g]) \in Nat
  BY <1>3 DEF ShareOf
<1> QED
  BY <1>1, <1>6, <1>7, <1>8, TotalTyped

Split(U, G, a) == a \in U \/ Total(Shares(G, ActiveIn(G, a))) <= 100

SharesSplit(U, G) == \A a \in Owned : Split(U, G, a)

SharesInv == SharesSplit(unvalidated, Goals)

(* No goal weighs more in account a than it did. *)
Lighter(G, H, a) ==
    \A g \in ActiveIn(H, a) : g \in ActiveIn(G, a) /\ H[g].percent = G[g].percent

LEMMA SplitLighter ==
    ASSUME NEW G, GoalsIn(G), NEW H, GoalsIn(H), NEW U, NEW V, U \subseteq V, NEW a,
           Split(U, G, a), a \notin V => Lighter(G, H, a)
    PROVE  Split(V, H, a)
<1>1. CASE a \in V
  BY <1>1 DEF Split
<1>2. CASE a \notin V
  <2>1. PICK R, S : R = ActiveIn(G, a) /\ S = ActiveIn(H, a)
    OBVIOUS
  <2>2. R \subseteq DOMAIN G /\ S \subseteq DOMAIN H
    BY <2>1 DEF ActiveIn
  <2>3. PICK f, g : f = Shares(G, R) /\ g = Shares(H, S)
    OBVIOUS
  <2>4. /\ Countable(f) /\ Total(f) \in Int /\ \A i \in R : ShareOf(G[i]) \in Nat
        /\ \A i : Worth(f, i) = IF i \in R THEN ShareOf(G[i]) ELSE 0
    BY <2>2, <2>3, SharesFacts
  <2>5. /\ Countable(g) /\ Total(g) \in Int /\ \A i \in S : ShareOf(H[i]) \in Nat
        /\ \A i : Worth(g, i) = IF i \in S THEN ShareOf(H[i]) ELSE 0
    BY <2>2, <2>3, SharesFacts
  <2>6. ASSUME NEW i \in Positive
        PROVE  Worth(g, i) <= Worth(f, i)
    <3>1. CASE i \in S
      <4>1. i \in R /\ H[i].percent = G[i].percent
        BY <1>2, <2>1, <3>1 DEF Lighter
      <4>2. ShareOf(H[i]) = ShareOf(G[i])
        BY <4>1 DEF ShareOf
      <4> QED
        BY <2>4, <2>5, <3>1, <4>1, <4>2
    <3>2. CASE i \notin S
      <4>1. Worth(g, i) = 0
        BY <2>5, <3>2
      <4>2. Worth(f, i) \in Nat
        BY <2>4
      <4> QED
        BY <4>1, <4>2
    <3> QED
      BY <3>1, <3>2
  <2>7. Total(g) <= Total(f)
    BY <2>4, <2>5, <2>6, TotalLess
  <2>8. Total(f) <= 100
    BY <1>2, <2>1, <2>3 DEF Split
  <2> QED
    BY <2>1, <2>3, <2>4, <2>5, <2>7, <2>8 DEF Split
<1> QED
  BY <1>1, <1>2

(* One goal more beside others, or one replaced: what the validation adds. *)
LEMMA SplitBeside ==
    ASSUME NEW G, GoalsIn(G), NEW H, GoalsIn(H), NEW S, S \subseteq DOMAIN G,
           NEW R, R \subseteq DOMAIN H, NEW g \in DOMAIN H, g \notin S, R \ {g} \subseteq S,
           \A h \in R \ {g} : H[h] = G[h],
           NEW x, x \in Nat, g \in R => ShareOf(H[g]) <= x,
           Total(Shares(G, S)) + x <= 100
    PROVE  Total(Shares(H, R)) <= 100
<1>1. PICK e, f : e = Shares(G, S) /\ f = Shares(H, R)
  OBVIOUS
<1>2. /\ Countable(e) /\ Total(e) \in Int /\ \A i \in S : ShareOf(G[i]) \in Nat
      /\ \A i : Worth(e, i) = IF i \in S THEN ShareOf(G[i]) ELSE 0
  BY <1>1, SharesFacts
<1>3. /\ Countable(f) /\ Total(f) \in Int /\ \A i \in R : ShareOf(H[i]) \in Nat
      /\ \A i : Worth(f, i) = IF i \in R THEN ShareOf(H[i]) ELSE 0
  BY <1>1, SharesFacts
<1>4. g \in Positive
  BY DEF GoalsIn, Bounded, Positive
<1>5. PICK T : T = R \ {g}
  OBVIOUS
<1>6. T \subseteq DOMAIN H /\ T \subseteq S /\ g \notin T
  BY <1>5
<1>7. PICK k : k = Shares(H, T)
  OBVIOUS
<1>8. /\ Countable(k) /\ Total(k) \in Int
      /\ \A i : Worth(k, i) = IF i \in T THEN ShareOf(H[i]) ELSE 0
  BY <1>6, <1>7, SharesFacts
<1>9. ASSUME NEW i \in Positive
      PROVE  Worth(k, i) <= Worth(e, i)
  <2>1. CASE i \in T
    <3>1. H[i] = G[i] /\ i \in S
      BY <1>5, <1>6, <2>1
    <3>2. Worth(k, i) = Worth(e, i) /\ Worth(e, i) \in Nat
      BY <1>2, <1>8, <2>1, <3>1
    <3> QED
      BY <3>2
  <2>2. CASE i \notin T
    <3>1. Worth(k, i) = 0 /\ Worth(e, i) \in Nat
      BY <1>2, <1>8, <2>2
    <3> QED
      BY <3>1
  <2> QED
    BY <2>1, <2>2
<1>10. Total(k) <= Total(e)
  BY <1>2, <1>8, <1>9, TotalLess
<1>11. \A j \in Positive : j # g => Worth(f, j) = Worth(k, j)
  BY <1>3, <1>5, <1>8
<1>12. Total(f) = Total(k) - Worth(k, g) + Worth(f, g)
  BY <1>3, <1>4, <1>8, <1>11, TotalDiffers
<1>13. Worth(k, g) = 0 /\ Worth(f, g) \in Nat /\ Worth(f, g) <= x
  BY <1>3, <1>6, <1>8
<1>14. Total(e) + x <= 100
  BY <1>1
<1> QED
  BY <1>1, <1>2, <1>3, <1>8, <1>10, <1>12, <1>13, <1>14

LEMMA PercentIs ==
    /\ \A S : Percent(S) = Total(Shares(Goals, S))
    /\ \A a : ActiveGoals(a) = ActiveIn(Goals, a)
<1>1. ASSUME NEW S
      PROVE  Percent(S) = Total(Shares(Goals, S))
  BY Zenon DEF Percent, Shares
<1>2. ASSUME NEW a
      PROVE  ActiveGoals(a) = ActiveIn(Goals, a)
  BY DEF ActiveGoals, ActiveIn
<1> QED
  BY <1>1, <1>2

KinTo(G, H) ==
    \A h \in DOMAIN H : /\ h \in DOMAIN G /\ H[h].account = G[h].account
                        /\ H[h].percent = G[h].percent

SharesEffect(H) ==
    \/ KinTo(Goals, H)
    \/ \E goal \in GoalRecords : H = Extended(Goals, goal) /\ Vetted(goal)
    \/ \E g \in DOMAIN Goals, goal \in GoalRecords :
          /\ H = With(Goals, g, goal) /\ goal.account = Goals[g].account
          /\ goal.percent \in Nat
          /\ goal.account # 0
                => Percent(ActiveGoals(goal.account) \ {g}) + goal.percent <= 100

LEMMA ReplacedKin ==
    ASSUME NEW g \in DOMAIN Goals, NEW goal, NEW H, H = With(Goals, g, goal),
           goal.account = Goals[g].account, goal.percent = Goals[g].percent
    PROVE  SharesEffect(H)
<1>1. DOMAIN H = DOMAIN Goals /\ H[g] = goal /\ \A h \in DOMAIN Goals : h # g => H[h] = Goals[h]
  BY DEF With
<1>2. KinTo(Goals, H)
  BY <1>1 DEF KinTo
<1> QED
  BY <1>2 DEF SharesEffect

LEMMA GoalsShare ==
    ASSUME BooksSound(db), NEW d, GoalsEffect(d)
    PROVE  SharesEffect(d.store["Goal"])
<1>1. PICK H : H = d.store["Goal"]
  OBVIOUS
<1>2. CASE GoalsKept(d)
  <2>1. H = Goals
    BY <1>1, <1>2 DEF GoalsKept
  <2> QED
    BY <1>1, <2>1 DEF SharesEffect, KinTo
<1>3. ASSUME NEW p \in Postings, CreditBooked(d, p), ~GoalsKept(d)
      PROVE  SharesEffect(H)
  <2>1. PICK source, spent : Fed(Goals, Contributions, H, d.store["GoalContribution"],
                                 source, spent)
    BY <1>1, <1>3 DEF CreditBooked, Credit
  <2>2. DOMAIN H = DOMAIN Goals /\ \A g \in DOMAIN Goals : Grown(Goals[g], H[g])
    BY <2>1 DEF Fed
  <2>3. KinTo(Goals, H)
    BY <2>2 DEF KinTo, Grown
  <2> QED
    BY <2>3 DEF SharesEffect
<1>4. ASSUME NEW goal \in NewGoals, GoalMade(d, goal), Vetted(goal)
      PROVE  SharesEffect(H)
  <2>1. goal \in GoalRecords /\ H = Extended(Goals, goal)
    BY <1>1, <1>4, RequestAssumption DEF GoalMade
  <2> QED
    BY <1>4, <2>1 DEF SharesEffect
<1>5. ASSUME NEW g \in DOMAIN Goals, GoalGone(d, g)
      PROVE  SharesEffect(H)
  <2>1. DOMAIN H \subseteq DOMAIN Goals /\ \A h \in DOMAIN H : H[h] = Goals[h]
    BY <1>1, <1>5 DEF GoalGone
  <2> QED
    BY <2>1 DEF SharesEffect, KinTo
<1>6. ASSUME NEW g \in DOMAIN Goals, NEW goal \in GoalRecords, NEW x,
             Swapped(Goals[g], goal, x), H = With(Goals, g, goal), Reshared(g, goal)
      PROVE  SharesEffect(H)
  <2>1. goal.account = Goals[g].account
    BY <1>6 DEF Swapped
  <2>2. CASE goal.percent = Goals[g].percent
    BY <1>6, <2>1, <2>2, ReplacedKin
  <2>3. CASE goal.percent # Goals[g].percent
    <3>1. /\ goal.percent \in Nat
          /\ goal.account # 0
                => Percent(ActiveGoals(goal.account) \ {g}) + goal.percent <= 100
      BY <1>6, <2>3 DEF Reshared
    <3> QED
      BY <1>6, <2>1, <3>1 DEF SharesEffect
  <2> QED
    BY <2>2, <2>3
<1>7. ASSUME NEW g \in DOMAIN Goals, NEW goal \in GoalRecords, NEW x \in Nat,
             GoalPut(d, g, goal), Swapped(Goals[g], goal, Goals[g].current - x),
             Reshared(g, goal)
      PROVE  SharesEffect(H)
  BY <1>1, <1>6, <1>7 DEF GoalPut
<1>8. ASSUME NEW g \in DOMAIN Goals, NEW goal \in GoalRecords, NEW x \in Amounts,
             GoalGiven(d, g, goal, x),
             Swapped(Goals[g], goal, Rounded(Goals[g].current + x)),
             goal.percent = Goals[g].percent
      PROVE  SharesEffect(H)
  BY <1>1, <1>6, <1>8 DEF GoalGiven, Reshared
<1> QED
  BY <1>1, <1>2, <1>3, <1>4, <1>5, <1>7, <1>8 DEF GoalsEffect

(* What Remember makes of unvalidated. *)
Reopened(G, H, V, percent) ==
    \A h \in DOMAIN G \cap DOMAIN H :
        \/ h \in percent
        \/ /\ H[h].status = "active"
           /\ G[h].status # "active" \/ G[h].account # H[h].account
        => H[h].account \in V

LEMMA RememberShares ==
    ASSUME NEW amount, NEW percent, Remember(amount, percent)
    PROVE  /\ unvalidated \subseteq unvalidated'
           /\ Reopened(Goals, db'.store["Goal"], unvalidated', percent)
<1>1. PICK H : H = db'.store["Goal"]
  OBVIOUS
<1>2. PICK V : V = unvalidated'
  OBVIOUS
<1>3. V = unvalidated \cup {H[g].account :
             g \in percent \cup {h \in DOMAIN Goals \cap DOMAIN H :
                                    /\ H[h].status = "active"
                                    /\ \/ Goals[h].status # "active"
                                       \/ Goals[h].account # H[h].account}}
  BY <1>1, <1>2, Zenon DEF Remember
<1>4. unvalidated \subseteq V
  BY <1>3
<1>5. ASSUME NEW h \in DOMAIN Goals \cap DOMAIN H,
             \/ h \in percent
             \/ /\ H[h].status = "active"
                /\ Goals[h].status # "active" \/ Goals[h].account # H[h].account
      PROVE  H[h].account \in V
  BY <1>3, <1>5
<1> QED
  BY <1>1, <1>2, <1>4, <1>5 DEF Reopened

LEMMA SplitKin ==
    ASSUME NEW G, GoalsIn(G), NEW H, GoalsIn(H), NEW U, NEW V, U \subseteq V, NEW a,
           Split(U, G, a), KinTo(G, H), NEW B, Reopened(G, H, V, B)
    PROVE  Split(V, H, a)
<1>1. ASSUME a \notin V
      PROVE  Lighter(G, H, a)
  <2>1. ASSUME NEW g \in ActiveIn(H, a)
        PROVE  g \in ActiveIn(G, a) /\ H[g].percent = G[g].percent
    <3>1. g \in DOMAIN H /\ H[g].account = a /\ H[g].status = "active"
      BY <2>1 DEF ActiveIn
    <3>2. g \in DOMAIN G /\ G[g].account = a /\ H[g].percent = G[g].percent
      BY <3>1 DEF KinTo
    <3>3. G[g].status = "active"
      BY <1>1, <3>1, <3>2 DEF Reopened
    <3> QED
      BY <3>2, <3>3 DEF ActiveIn
  <2> QED
    BY <2>1 DEF Lighter
<1> QED
  BY <1>1, SplitLighter

LEMMA SplitMade ==
    ASSUME BooksSound(db), NEW goal \in GoalRecords, Vetted(goal), NEW G, G = Goals,
           GoalsIn(G), NEW H, H = Extended(G, goal), NEW U, NEW V, U \subseteq V, NEW a,
           a # 0, Split(U, G, a)
    PROVE  Split(V, H, a) /\ GoalsIn(H)
<1>1. PICK i : i = NextId(G)
  OBVIOUS
<1>2. Longer(G, goal, H, i) /\ Bounded(DOMAIN H)
  BY <1>1, ExtendedLonger, ExtendedFurther DEF GoalsIn
<1>3. /\ i \in Positive /\ i \notin DOMAIN G /\ DOMAIN H = DOMAIN G \cup {i}
      /\ H[i] = goal /\ \A j \in DOMAIN G : H[j] = G[j]
  BY <1>2 DEF Longer
<1>4. GoalsIn(H)
  BY <1>2, <1>3 DEF GoalsIn
<1>5. ASSUME a \notin U
      PROVE  Total(Shares(H, ActiveIn(H, a))) <= 100
  <2>1. PICK S, R : S = ActiveIn(G, a) /\ R = ActiveIn(H, a)
    OBVIOUS
  <2>2. S \subseteq DOMAIN G /\ R \subseteq DOMAIN H /\ i \notin S /\ i \in DOMAIN H
    BY <1>3, <2>1 DEF ActiveIn
  <2>3. R \ {i} \subseteq S /\ \A h \in R \ {i} : H[h] = G[h]
    BY <1>3, <2>1 DEF ActiveIn
  <2>4. PICK t \in Int : t = Total(Shares(G, S))
    BY <2>2, SharesFacts
  <2>5. t <= 100
    BY <1>5, <2>1, <2>4 DEF Split
  <2>6. PICK z : z = goal.percent /\ z \in Nat \cup {Unset}
    BY DEF GoalRecords
  <2>7. CASE i \in R /\ z > 0 /\ z \in Nat
    <3>1. goal.account = a
      BY <1>3, <2>1, <2>7 DEF ActiveIn
    <3>2. Percent(ActiveGoals(a)) + z <= 100
      BY <2>6, <2>7, <3>1 DEF Vetted
    <3>3. t + z <= 100
      BY <2>1, <2>4, <3>2, PercentIs
    <3>4. ShareOf(H[i]) <= z
      BY <1>3, <2>6, <2>7 DEF ShareOf, Unset
    <3> QED
      BY <1>4, <2>1, <2>2, <2>3, <2>4, <2>7, <3>3, <3>4, SplitBeside
  <2>8. CASE ~(i \in R /\ z > 0 /\ z \in Nat)
    <3>1. i \in R => ShareOf(H[i]) <= 0
      BY <1>3, <2>6, <2>8 DEF ShareOf, Unset
    <3>2. t + 0 <= 100 /\ 0 \in Nat
      BY <2>5
    <3> QED
      BY <1>4, <2>1, <2>2, <2>3, <2>4, <3>1, <3>2, SplitBeside
  <2> QED
    BY <2>7, <2>8
<1> QED
  BY <1>4, <1>5 DEF Split

LEMMA SplitPut ==
    ASSUME NEW G, G = Goals, GoalsIn(G), NEW g \in DOMAIN G, NEW goal \in GoalRecords,
           goal.account = G[g].account, goal.percent \in Nat,
           goal.account # 0
              => Percent(ActiveGoals(goal.account) \ {g}) + goal.percent <= 100,
           NEW H, H = With(G, g, goal), NEW U, NEW V, U \subseteq V, NEW a, a # 0,
           Split(U, G, a)
    PROVE  Split(V, H, a) /\ GoalsIn(H)
<1>1. DOMAIN H = DOMAIN G /\ H[g] = goal /\ \A h \in DOMAIN G : h # g => H[h] = G[h]
  BY DEF With
<1>2. GoalsIn(H)
  BY <1>1 DEF GoalsIn
<1>3. CASE goal.account # a
  <2>1. Lighter(G, H, a)
    BY <1>1, <1>3 DEF Lighter, ActiveIn
  <2> QED
    BY <1>2, <2>1, SplitLighter
<1>4. CASE goal.account = a
  <2>1. PICK S, R : S = ActiveIn(G, a) \ {g} /\ R = ActiveIn(H, a)
    OBVIOUS
  <2>2. S \subseteq DOMAIN G /\ R \subseteq DOMAIN H /\ g \notin S /\ g \in DOMAIN H
    BY <1>1, <2>1 DEF ActiveIn
  <2>3. R \ {g} \subseteq S /\ \A h \in R \ {g} : H[h] = G[h]
    BY <1>1, <2>1 DEF ActiveIn
  <2>4. PICK x \in Nat : x = goal.percent
    OBVIOUS
  <2>5. Total(Shares(G, S)) + x <= 100
    BY <1>4, <2>1, <2>4, PercentIs
  <2>6. ShareOf(H[g]) <= x
    BY <1>1, <2>4 DEF ShareOf, Unset
  <2>7. Total(Shares(H, R)) <= 100
    BY <1>2, <2>2, <2>3, <2>5, <2>6, SplitBeside
  <2> QED
    BY <1>2, <2>1, <2>7 DEF Split
<1> QED
  BY <1>3, <1>4

LEMMA SharesRemembered ==
    ASSUME BooksSound(db), BooksSound(db'), SharesInv, SharesEffect(db'.store["Goal"]),
           unvalidated \subseteq unvalidated',
           NEW B, Reopened(Goals, db'.store["Goal"], unvalidated', B)
    PROVE  SharesInv'
<1>1. PICK G, U : G = Goals /\ U = unvalidated /\ GoalsIn(G)
  BY GoalsSound
<1>2. PICK H, V : H = db'.store["Goal"] /\ V = unvalidated'
  OBVIOUS
<1>6. \A a \in Owned : a # 0
  BY OwnedPositive DEF Positive
<1>3. CASE KinTo(G, H)
  <2>1. GoalsIn(H)
    <3>1. PICK d : d = db'
      OBVIOUS
    <3>2. "Goal" \in Classes
      BY ClassFacts
    <3>3. Bounded(DOMAIN H) /\ \A i \in DOMAIN H : H[i] \in Allowed("Goal", i)
      BY <1>2, <3>1, <3>2 DEF BooksSound, Stored
    <3>4. \A i : Allowed("Goal", i) = GoalRecords
      BY DEF Allowed, Records
    <3> QED
      BY <3>3, <3>4 DEF GoalsIn
  <2>2. \A a \in Owned : Split(V, H, a)
    BY <1>1, <1>2, <1>3, <2>1, SplitKin DEF SharesInv, SharesSplit
  <2> QED
    BY <1>2, <2>2 DEF SharesInv, SharesSplit, Goals
<1>4. ASSUME NEW goal \in GoalRecords, H = Extended(Goals, goal), Vetted(goal)
      PROVE  SharesInv'
  <2>1. \A a \in Owned : Split(V, H, a)
    BY <1>1, <1>2, <1>4, <1>6, SplitMade DEF SharesInv, SharesSplit
  <2> QED
    BY <1>2, <2>1 DEF SharesInv, SharesSplit, Goals
<1>5. ASSUME NEW g \in DOMAIN Goals, NEW goal \in GoalRecords,
             H = With(Goals, g, goal), goal.account = Goals[g].account, goal.percent \in Nat,
             goal.account # 0
                => Percent(ActiveGoals(goal.account) \ {g}) + goal.percent <= 100
      PROVE  SharesInv'
  <2>1. \A a \in Owned : Split(V, H, a)
    BY <1>1, <1>2, <1>5, <1>6, SplitPut DEF SharesInv, SharesSplit
  <2> QED
    BY <1>2, <2>1 DEF SharesInv, SharesSplit, Goals
<1> QED
  BY <1>1, <1>2, <1>3, <1>4, <1>5 DEF SharesEffect

(* A goal given a share, or linked elsewhere, with no look at the others.  *)
LEMMA OverwrittenShares ==
    ASSUME BooksSound(db), SharesInv, NEW g \in DOMAIN Goals, NEW goal \in GoalRecords,
           db' = Close(Commit(Assign(HoldingGoal(g), 1, goal))),
           unvalidated \subseteq unvalidated', NEW B,
           g \in B \/ goal.percent = Goals[g].percent,
           Reopened(Goals, db'.store["Goal"], unvalidated', B)
    PROVE  SharesInv'
<1>1. PICK G, U : G = Goals /\ U = unvalidated /\ GoalsIn(G)
  BY GoalsSound
<1>2. PICK H, V : H = db'.store["Goal"] /\ V = unvalidated'
  OBVIOUS
<1>3. H = With(G, g, goal)
  BY <1>1, <1>2, GoalPutEffect DEF GoalPut
<1>4. DOMAIN H = DOMAIN G /\ H[g] = goal /\ \A h \in DOMAIN G : h # g => H[h] = G[h]
  BY <1>1, <1>3 DEF With
<1>5. GoalsIn(H)
  BY <1>1, <1>4 DEF GoalsIn
<1>6. ASSUME NEW a, a \notin V, g \in ActiveIn(H, a)
      PROVE  g \in ActiveIn(G, a) /\ H[g].percent = G[g].percent
  <2>1. g \in DOMAIN G /\ g \in DOMAIN H /\ H[g].account = a /\ H[g].status = "active"
    BY <1>1, <1>4, <1>6 DEF ActiveIn
  <2>2. Reopened(G, H, V, B)
    BY <1>1, <1>2
  <2>3. g \notin B /\ G[g].status = "active" /\ G[g].account = a
    BY <1>6, <2>1, <2>2 DEF Reopened
  <2> QED
    BY <1>1, <1>4, <2>1, <2>3 DEF ActiveIn
<1>7. ASSUME NEW a \in Owned
      PROVE  Split(V, H, a)
  <2>1. ASSUME a \notin V
        PROVE  Lighter(G, H, a)
    <3>1. ASSUME NEW h \in ActiveIn(H, a)
          PROVE  h \in ActiveIn(G, a) /\ H[h].percent = G[h].percent
      <4>1. CASE h = g
        BY <1>6, <2>1, <3>1, <4>1
      <4>2. CASE h # g
        <5>1. h \in DOMAIN G /\ H[h] = G[h]
          BY <1>4, <3>1, <4>2 DEF ActiveIn
        <5> QED
          BY <3>1, <5>1 DEF ActiveIn
      <4> QED
        BY <4>1, <4>2
    <3> QED
      BY <3>1 DEF Lighter
  <2>2. Split(U, G, a)
    BY <1>1 DEF SharesInv, SharesSplit
  <2> QED
    BY <1>1, <1>2, <1>5, <2>1, <2>2, SplitLighter
<1> QED
  BY <1>2, <1>7 DEF SharesInv, SharesSplit, Goals

LEMMA SharesNext ==
    ASSUME BooksSound(db), BooksSound(db'), SharesInv, [Next]_vars
    PROVE  SharesInv'
<1>1. CASE UNCHANGED vars
  <2>1. db' = db /\ unvalidated' = unvalidated
    BY <1>1 DEF vars, history
  <2> QED
    BY <2>1 DEF SharesInv, SharesSplit, Goals
<1>2. ASSUME AccountRequest \/ GoalRequest \/ RuleRequest \/ db' = db, Remember({}, {})
      PROVE  SharesInv'
  <2>1. SharesEffect(db'.store["Goal"])
    BY <1>2, StepGoalsEffect, GoalsShare
  <2> QED
    BY <1>2, <2>1, RememberShares, SharesRemembered
<1>3. ASSUME NEW g \in DOMAIN Goals, OverwriteAmount(g), Remember({g}, {})
      PROVE  SharesInv'
  <2>1. PICK x \in Amounts : UpdateSavingsGoal(g, [Goals[g] EXCEPT !.current = Rounded(x)])
    BY <1>3 DEF OverwriteAmount
  <2>2. PICK goal : goal = [Goals[g] EXCEPT !.current = Rounded(x)]
    OBVIOUS
  <2>3. /\ goal \in GoalRecords /\ goal.account = Goals[g].account
        /\ goal.percent = Goals[g].percent
    <3>1. PICK old \in GoalRecords : old = Goals[g]
      BY GoalTyped
    <3>2. goal \in GoalRecords
      BY <2>2, GoalTyped, AmountFacts, RoundedTyped, GoalChanged
    <3>3. goal = [old EXCEPT !.current = Rounded(x)]
      BY <2>2, <3>1
    <3>4. goal.account = old.account /\ goal.percent = old.percent
      BY <3>3 DEF GoalRecords
    <3> QED
      BY <3>1, <3>2, <3>4
  <2>4. db'.store["Goal"] = With(Goals, g, goal)
    BY <2>1, <2>2, <2>3, GoalPutEffect DEF UpdateSavingsGoal, GoalPut
  <2>5. SharesEffect(db'.store["Goal"])
    BY <2>3, <2>4, ReplacedKin
  <2> QED
    BY <1>3, <2>5, RememberShares, SharesRemembered
<1>4. ASSUME NEW g \in DOMAIN Goals, OverwritePercent(g), Remember({}, {g})
      PROVE  SharesInv'
  <2>1. PICK percent \in NewPercents :
           UpdateSavingsGoal(g, [Goals[g] EXCEPT !.percent = percent])
    BY <1>4 DEF OverwritePercent
  <2>2. PICK goal : goal = [Goals[g] EXCEPT !.percent = percent]
    OBVIOUS
  <2>3. goal \in GoalRecords
    BY <2>2, RequestAssumption, PercentEffect
  <2>4. db' = Close(Commit(Assign(HoldingGoal(g), 1, goal)))
    BY <2>1, <2>2 DEF UpdateSavingsGoal
  <2> QED
    BY <1>4, <2>3, <2>4, RememberShares, OverwrittenShares
<1>5. ASSUME NEW g \in DOMAIN Goals, RelinkGoal(g) \/ ConfigureAutoTransfer(g),
             Remember({}, {})
      PROVE  SharesInv'
  <2>1. PICK goal \in GoalRecords :
           UpdateSavingsGoal(g, goal) /\ goal.percent = Goals[g].percent
    BY <1>5, RelinkParts
  <2>2. db' = Close(Commit(Assign(HoldingGoal(g), 1, goal)))
    BY <2>1 DEF UpdateSavingsGoal
  <2> QED
    BY <1>5, <2>1, <2>2, RememberShares, OverwrittenShares
<1> QED
  BY <1>1, <1>2, <1>3, <1>4, <1>5 DEF Next, RefuseRequest

(* The shares of the seed's active goals fit on every account: it gives a  *)
(* user three goals at most, of a quarter each (data_manager.py:808).      *)
SeedSharesFit ==
    \A a \in Owned : Total(Shares(Seed["Goal"], ActiveIn(Seed["Goal"], a))) <= 100

LEMMA SharesInit ==
    ASSUME SeedSharesFit, Init
    PROVE  SharesInv
<1>1. Goals = Seed["Goal"]
  BY DEF Init, Goals
<1> QED
  BY <1>1 DEF SeedSharesFit, SharesInv, SharesSplit, Split

(* However goals are made, updated, credited, reached, cancelled and       *)
(* deleted, the shares of an account's active goals stay within a hundred  *)
(* percent (goal_update_service.py:189), unless a goal of it was made      *)
(* active again (goals.py:220), given its share by savings.py (:261) or    *)
(* linked to it after it was made (:261, :701): those three are all that   *)
(* gets past the validation.                                               *)
THEOREM ValidatedSharesStayFit ==
    ASSUME SeedSharesFit
    PROVE  Spec => []ValidatedSharesFit
<1>1. Init => Inv /\ SharesInv
  BY InitInv, SharesInit
<1>2. (Inv /\ SharesInv) /\ [Next]_vars => (Inv /\ SharesInv)'
  <2>1. Inv /\ [Next]_vars => Inv'
    BY NextInv
  <2>2. Inv /\ Inv' => BooksSound(db) /\ BooksSound(db')
    BY DEF Inv
  <2> QED
    BY <2>1, <2>2, SharesNext
<1>3. Inv /\ SharesInv => ValidatedSharesFit
  <2>1. Inv => Accounts = Owned
    BY DEF Inv, BooksSound, Accounts
  <2>2. \A a : Percent(ActiveGoals(a)) = Total(Shares(Goals, ActiveIn(Goals, a)))
    BY PercentIs
  <2> QED
    BY <2>1, <2>2 DEF SharesInv, SharesSplit, Split, ValidatedSharesFit
<1> QED
  BY <1>1, <1>2, <1>3, PTL DEF Spec
=============================================================================
