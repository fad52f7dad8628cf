-------------------------- MODULE EventStoreProofs --------------------------
(***************************************************************************)
(* Proofs about the event store for any transactions, accounts, users and  *)
(* threads.                                                                *)
(*                                                                         *)
(* An append takes several steps for each key of its event, so the         *)
(* invariants speak of events that are still being listed.  For a key that *)
(* was never raced, the times an event is listed and the times it is still *)
(* to be listed add up to the times it names the key (Accounted).  For a   *)
(* transaction with one writer at a time, the event still to be listed is  *)
(* its last one (Trails).                                                  *)
(***************************************************************************)
EXTENDS EventStore, FiniteSetTheorems, SequenceTheorems, TLAPS

At(th) == append[th].at
Event(th) == append[th].event
Todo(th) == append[th].todo

Places == {"idle", "test", "create", "add"}

(* An append in progress is of an event of the log nobody else appends,    *)
(* and it is about to make a list only where there was none.               *)
Fits(th) ==
  /\ At(th) # "idle" => Event(th) \in DOMAIN events
  /\ At(th) = "idle" => Event(th) = 0
  /\ At(th) = "create" => index[Key(th)] = Absent \/ Key(th) \in raced
  /\ At(th) = "add" => index[Key(th)] # Absent

AppendsFit ==
  /\ index = [k \in Keys |-> index[k]]
  /\ append \in [Threads -> [at : Places, event : Nat, todo : Seq(Keys)]]
  /\ \A th \in Threads : Fits(th)
  /\ \A th, other \in Threads : Event(th) = Event(other) => th = other \/ Event(th) = 0

Shape == TypeOK /\ AppendsFit

(* Event i is listed under key k, or still to be, as often as it names k.  *)
Adds(k, i) ==
  /\ (\A th \in Threads : Event(th) # i) => Times(Query(k), i) = Times(KeysOf(events[i]), k)
  /\ \A th \in Threads :
       Event(th) = i =>
         Times(Query(k), i) + Times(Todo(th), k) = Times(KeysOf(events[i]), k)

TxKey(x) == <<"tx", x>>

(* Thread th still has its event to list under transaction x. *)
Owes(th, x) == Todo(th) # <<>> /\ Todo(th)[1] = TxKey(x)

(* The key of the event's own transaction comes first, and no other names  *)
(* one.                                                                    *)
TxFirst(th) ==
  \A j \in DOMAIN Todo(th) :
    Todo(th)[j][1] = "tx" => j = 1 /\ Todo(th)[j] = TxKey(events[Event(th)].tx)

OneWriter ==
  \A th, other \in Threads :
    At(th) # "idle" /\ At(other) # "idle" /\ events[Event(th)].tx = events[Event(other)].tx
      => th = other

(* The list of a transaction is increasing, has all its events but the one *)
(* that is still owed, and the one that is owed is the last.               *)
Listed(x, i) == \E j \in DOMAIN Query(TxKey(x)) : Query(TxKey(x))[j] = i

Increasing(s) == \A i, j \in DOMAIN s : i < j => s[i] < s[j]

Trail(x) ==
  /\ TxKey(x) \notin raced
  /\ Increasing(Query(TxKey(x)))
  /\ \A i \in DOMAIN events :
       Listed(x, i) <=> /\ events[i].tx = x
                        /\ \A th \in Threads : Owes(th, x) => Event(th) # i
  /\ \A th \in Threads :
       Owes(th, x) => \A i \in DOMAIN events : events[i].tx = x => i <= Event(th)

Trails ==
  /\ \A th \in Threads : TxFirst(th)
  /\ OneWriter
  /\ \A x \in Txs : Trail(x)

Accounted == \A k \in Keys \ raced : \A i \in DOMAIN events : Adds(k, i)

---------------------------------------------------------------------------
(* How often a value occurs in a sequence. *)

LEMMA TimesIsNat ==
    ASSUME NEW S, NEW s \in Seq(S), NEW x
    PROVE  /\ IsFiniteSet({i \in DOMAIN s : s[i] = x})
           /\ Times(s, x) \in Nat
<1>1. DOMAIN s = 1..Len(s) /\ Len(s) \in Nat
  OBVIOUS
<1>2. IsFiniteSet(1..Len(s))
  BY <1>1, FS_Interval
<1> QED
  BY <1>1, <1>2, FS_Subset, FS_CardinalityType DEF Times

LEMMA TimesAbsent ==
    ASSUME NEW s, NEW x, \A i \in DOMAIN s : s[i] # x
    PROVE  Times(s, x) = 0
<1>1. {i \in DOMAIN s : s[i] = x} = {}
  OBVIOUS
<1> QED
  BY <1>1, FS_EmptySet DEF Times

LEMMA TimesPresent ==
    ASSUME NEW S, NEW s \in Seq(S), NEW x, Times(s, x) = 0
    PROVE  \A i \in DOMAIN s : s[i] # x
<1>1. {i \in DOMAIN s : s[i] = x} = {}
  BY TimesIsNat, FS_EmptySet DEF Times
<1> QED
  BY <1>1

LEMMA TimesAppend ==
    ASSUME NEW S, NEW s \in Seq(S), NEW y \in S, NEW x
    PROVE  Times(Append(s, y), x) = Times(s, x) + (IF y = x THEN 1 ELSE 0)
<1> DEFINE A == {i \in DOMAIN s : s[i] = x}
           B == {i \in DOMAIN Append(s, y) : Append(s, y)[i] = x}
<1>1. IsFiniteSet(A) /\ Cardinality(A) \in Nat
  BY TimesIsNat DEF Times
<1>5. Times(s, x) = Cardinality(A) /\ Times(Append(s, y), x) = Cardinality(B)
  BY DEF Times
<1>2. /\ DOMAIN Append(s, y) = DOMAIN s \cup {Len(s) + 1}
      /\ Len(s) + 1 \notin DOMAIN s
      /\ \A i \in DOMAIN s : Append(s, y)[i] = s[i]
      /\ Append(s, y)[Len(s) + 1] = y
  OBVIOUS
<1>3. CASE y = x
  <2>1. B = A \cup {Len(s) + 1} /\ Len(s) + 1 \notin A
    BY <1>2, <1>3
  <2> HIDE DEF A, B
  <2>2. Cardinality(B) = Cardinality(A) + 1
    BY <1>1, <2>1, FS_AddElement
  <2> QED
    BY <1>3, <1>5, <2>2
<1>4. CASE y # x
  <2>1. B = A
    BY <1>2, <1>4
  <2> HIDE DEF A, B
  <2> QED
    BY <1>1, <1>4, <1>5, <2>1
<1> QED
  BY <1>3, <1>4

(* The occurrences in the tail are those after the first position, moved   *)
(* down by one.                                                            *)
LEMMA TimesTail ==
    ASSUME NEW S, NEW s \in Seq(S), s # <<>>, NEW x
    PROVE  Times(s, x) = Times(Tail(s), x) + (IF Head(s) = x THEN 1 ELSE 0)
<1> DEFINE A == {i \in DOMAIN Tail(s) : Tail(s)[i] = x}
           M == {i \in DOMAIN s : s[i] = x /\ i # 1}
           B == {i \in DOMAIN s : s[i] = x}
           Down == [i \in A |-> i + 1]
<1>1. /\ Tail(s) \in Seq(S) /\ Len(s) \in Nat \ {0} /\ Head(s) = s[1]
      /\ DOMAIN s = 1..Len(s) /\ DOMAIN Tail(s) = 1..(Len(s) - 1)
      /\ \A i \in 1..(Len(s) - 1) : Tail(s)[i] = s[i + 1]
  OBVIOUS
<1>2. IsFiniteSet(A) /\ IsFiniteSet(B) /\ Cardinality(A) \in Nat
  BY <1>1, TimesIsNat DEF Times
<1>7. Times(s, x) = Cardinality(B) /\ Times(Tail(s), x) = Cardinality(A)
  BY DEF Times
<1>3. Cardinality(M) = Cardinality(A)
  <2>1. Down \in [A -> M]
    BY <1>1
  <2>2. \A i, j \in A : Down[i] = Down[j] => i = j
    BY <1>1
  <2>3. \A m \in M : \E i \in A : Down[i] = m
    <3> SUFFICES ASSUME NEW m \in M
                 PROVE  \E i \in A : Down[i] = m
      OBVIOUS
    <3>1. m - 1 \in 1..(Len(s) - 1) /\ Tail(s)[m - 1] = s[m]
      BY <1>1
    <3>2. m - 1 \in A /\ Down[m - 1] = m
      BY <1>1, <3>1
    <3> QED
      BY <3>2
  <2>4. Down \in Bijection(A, M)
    <3> HIDE DEF A, M, Down
    <3>1. Down \in Injection(A, M)
      BY <2>1, <2>2 DEF Injection, IsInjective
    <3>2. Down \in Surjection(A, M)
      BY <2>1, <2>3 DEF Surjection
    <3> QED
      BY <3>1, <3>2 DEF Bijection
  <2> HIDE DEF A, M, Down
  <2>5. ExistsBijection(A, M)
    BY <2>4 DEF ExistsBijection
  <2> QED
    BY <1>2, <2>5, FS_Bijection
<1>4. IsFiniteSet(M)
  <2>1. M \subseteq B
    OBVIOUS
  <2> HIDE DEF M, B
  <2> QED
    BY <1>2, <2>1, FS_Subset
<1>5. CASE Head(s) = x
  <2>1. B = M \cup {1} /\ 1 \notin M
    BY <1>1, <1>5
  <2> HIDE DEF A, B, M
  <2>2. Cardinality(B) = Cardinality(M) + 1
    BY <1>4, <2>1, FS_AddElement
  <2> QED
    BY <1>3, <1>5, <1>7, <2>2
<1>6. CASE Head(s) # x
  <2>1. B = M
    BY <1>1, <1>6
  <2> HIDE DEF A, B, M
  <2> QED
    BY <1>2, <1>3, <1>6, <1>7, <2>1
<1> QED
  BY <1>5, <1>6

LEMMA SeqWidens ==
    ASSUME NEW S, NEW T, S \subseteq T, NEW s \in Seq(S)
    PROVE  s \in Seq(T)
<1>1. \A i \in 1..Len(s) : s[i] \in S
  BY ElementOfSeq
<1> QED
  BY <1>1

(* A sequence of keys whose first alone may name a transaction, extended   *)
(* by keys that name none.                                                 *)
LEMMA ConcatKeys ==
    ASSUME NEW s \in Seq(Keys), s # <<>>, \A j \in DOMAIN s : j # 1 => s[j][1] # "tx",
           NEW t \in Seq(Keys), \A j \in DOMAIN t : t[j][1] # "tx"
    PROVE  /\ s \o t \in Seq(Keys) /\ s \o t # <<>>
           /\ (s \o t)[1] = s[1]
           /\ \A j \in DOMAIN (s \o t) : j # 1 => (s \o t)[j][1] # "tx"
<1>1. /\ s \o t \in Seq(Keys) /\ Len(s \o t) = Len(s) + Len(t)
      /\ Len(s) \in Nat \ {0} /\ Len(t) \in Nat
      /\ \A i \in 1..(Len(s) + Len(t)) :
           (s \o t)[i] = IF i <= Len(s) THEN s[i] ELSE t[i - Len(s)]
  BY ConcatProperties
<1>2. ASSUME NEW j \in DOMAIN (s \o t), j # 1
      PROVE  (s \o t)[j][1] # "tx"
  <2>1. j \in 1..(Len(s) + Len(t))
    BY <1>1
  <2>2. CASE j <= Len(s)
    BY <1>1, <1>2, <2>1, <2>2
  <2>3. CASE j > Len(s)
    <3>1. j - Len(s) \in DOMAIN t /\ (s \o t)[j] = t[j - Len(s)]
      BY <1>1, <2>1, <2>3
    <3> QED
      BY <3>1
  <2> QED
    BY <1>1, <2>1, <2>2, <2>3
<1> QED
  BY <1>1, <1>2

(* The keys of an event are keys; the first names its transaction and no   *)
(* other names one.                                                        *)
LEMMA KeysOfDraft ==
    ASSUME NEW d \in Drafts
    PROVE  /\ KeysOf(d) \in Seq(Keys) /\ KeysOf(d) # <<>>
           /\ KeysOf(d)[1] = <<"tx", d.tx>>
           /\ \A j \in DOMAIN KeysOf(d) : j # 1 => KeysOf(d)[j][1] # "tx"
<1>1. d \in [tx : Txs, user : Users, from : Accounts \cup {NoAccount},
             to : Accounts \cup {NoAccount}]
  BY EventStoreAssumption
<1>2. ASSUME NEW a \in Accounts \cup {NoAccount}
      PROVE  /\ AccountKey(a) \in Seq(Keys)
             /\ \A j \in DOMAIN AccountKey(a) : AccountKey(a)[j][1] # "tx"
  BY <1>2 DEF AccountKey, Keys
<1> DEFINE X == << <<"tx", d.tx>> >>
           U == << <<"user", d.user>> >>
           F == AccountKey(d.from)
           T == AccountKey(d.to)
<1>3. /\ X \in Seq(Keys) /\ X # <<>> /\ X[1] = <<"tx", d.tx>>
      /\ \A j \in DOMAIN X : j # 1 => X[j][1] # "tx"
  BY <1>1 DEF Keys
<1>4. U \in Seq(Keys) /\ \A j \in DOMAIN U : U[j][1] # "tx"
  BY <1>1 DEF Keys
<1>5. /\ F \in Seq(Keys) /\ \A j \in DOMAIN F : F[j][1] # "tx"
      /\ T \in Seq(Keys) /\ \A j \in DOMAIN T : T[j][1] # "tx"
  BY <1>1, <1>2
<1>6. KeysOf(d) = ((X \o F) \o T) \o U
  BY DEF KeysOf
<1> HIDE DEF X, U, F, T
<1> DEFINE P == X \o F
           Q == P \o T
<1>7. /\ P \in Seq(Keys) /\ P # <<>> /\ P[1] = X[1]
      /\ \A j \in DOMAIN P : j # 1 => P[j][1] # "tx"
  BY <1>3, <1>5, ConcatKeys
<1>8. /\ Q \in Seq(Keys) /\ Q # <<>> /\ Q[1] = X[1]
      /\ \A j \in DOMAIN Q : j # 1 => Q[j][1] # "tx"
  <2> HIDE DEF P
  <2> QED
    BY <1>5, <1>7, ConcatKeys
<1>9. KeysOf(d) = Q \o U
  BY <1>6
<1> HIDE DEF Q
<1> QED
  BY <1>3, <1>4, <1>8, <1>9, ConcatKeys

---------------------------------------------------------------------------
(* Typing, and the place of each append.                                   *)

LEMMA InitShape ==
    ASSUME Init
    PROVE  Shape
<1>1. append = [th \in Threads |-> [at |-> "idle", event |-> 0, todo |-> <<>>]]
  BY DEF Init, IdleAppend
<1>2. index = [k \in Keys |-> Absent] /\ events = <<>> /\ raced = {}
  BY DEF Init
<1>3. TypeOK
  <2>1. events \in Seq(Drafts) /\ Len(events) = 0 /\ raced \subseteq Keys
    BY <1>2
  <2>2. <<>> \in Seq(Keys) /\ 0 \in 0 .. Len(events) /\ 0 <= MaxEvents
    BY <2>1, EventStoreAssumption
  <2>3. \A th \in Threads : /\ append[th].at \in {"idle", "test", "create", "add"}
                            /\ append[th].event \in 0 .. Len(events)
                            /\ append[th].todo \in Seq(Keys)
                            /\ append[th].at = "idle" <=> append[th].todo = <<>>
    BY <1>1, <2>2
  <2>4. \A k \in Keys : index[k] = Absent
    BY <1>2
  <2> QED
    BY <2>1, <2>2, <2>3, <2>4 DEF TypeOK
<1>4. \A th \in Threads : Event(th) = 0 /\ At(th) = "idle"
  BY <1>1 DEF At, Event
<1>5. append \in [Threads -> [at : Places, event : Nat, todo : Seq(Keys)]]
  BY <1>1 DEF Places
<1>6. AppendsFit
  BY <1>2, <1>4, <1>5 DEF AppendsFit, Fits
<1> QED
  BY <1>3, <1>6 DEF Shape

(* The key an append has reached. *)
LEMMA KeyIsKey ==
    ASSUME Shape, NEW th \in Threads, At(th) # "idle"
    PROVE  /\ Todo(th) \in Seq(Keys) /\ Todo(th) # <<>>
           /\ Key(th) = Todo(th)[1] /\ Key(th) = Head(Todo(th)) /\ Key(th) \in Keys
           /\ Event(th) \in DOMAIN events /\ Event(th) \in 1..Len(events)
           /\ Len(events) \in Nat
<1>1. Todo(th) \in Seq(Keys) /\ Todo(th) # <<>>
  BY DEF Shape, TypeOK, At, Todo
<1>2. Event(th) \in DOMAIN events /\ events \in Seq(Drafts)
  BY DEF Shape, TypeOK, AppendsFit, Fits
<1> QED
  BY <1>1, <1>2 DEF Key, Todo

(* What an append to the log does. *)
LEMMA LogFacts ==
    ASSUME Shape, NEW th \in Threads, NEW d \in Drafts, AppendToLog(th, d)
    PROVE  /\ events' = Append(events, d) /\ events' \in Seq(Drafts)
           /\ Len(events) \in Nat /\ Len(events') = Len(events) + 1
           /\ Len(events') <= MaxEvents
           /\ events'[Len(events) + 1] = d
           /\ \A i \in DOMAIN events : i \in DOMAIN events' /\ events'[i] = events[i]
           /\ \A i \in DOMAIN events' : i \in DOMAIN events \/ i = Len(events) + 1
           /\ Len(events) + 1 \notin DOMAIN events
           /\ append' = [append EXCEPT ![th] = append'[th]]
           /\ append'[th] = [at |-> "test", event |-> Len(events) + 1, todo |-> KeysOf(d)]
           /\ \A other \in Threads : other # th => append'[other] = append[other]
           /\ At(th) = "idle" /\ UNCHANGED <<index, raced>>
<1>1. events \in Seq(Drafts) /\ append \in [Threads -> [at : Places, event : Nat, todo : Seq(Keys)]]
  BY DEF Shape, TypeOK, AppendsFit
<1>2. /\ append' = [append EXCEPT ![th] =
                      [at |-> "test", event |-> Len(events) + 1, todo |-> KeysOf(d)]]
      /\ events' = Append(events, d) /\ Len(events) < MaxEvents
      /\ append[th].at = "idle" /\ UNCHANGED <<index, raced>>
  BY DEF AppendToLog
<1>3. /\ append'[th] = [at |-> "test", event |-> Len(events) + 1, todo |-> KeysOf(d)]
      /\ \A other \in Threads : other # th => append'[other] = append[other]
      /\ append' = [append EXCEPT ![th] = append'[th]]
  BY <1>1, <1>2
<1> QED
  BY <1>1, <1>2, <1>3, EventStoreAssumption DEF At

(* The type of a thread's place, from its parts. *)
LEMMA PlaceTyped ==
    ASSUME Shape, NEW th \in Threads
    PROVE  /\ append[th] \in [at : Places, event : Nat, todo : Seq(Keys)]
           /\ At(th) \in Places /\ Event(th) \in 0 .. Len(events) /\ Todo(th) \in Seq(Keys)
           /\ At(th) = "idle" <=> Todo(th) = <<>>
BY DEF Shape, TypeOK, AppendsFit, At, Event, Todo

LEMMA LogShape ==
    ASSUME Shape, NEW th \in Threads, NEW d \in Drafts, AppendToLog(th, d)
    PROVE  Shape'
<1>1. /\ events' \in Seq(Drafts) /\ Len(events) \in Nat /\ Len(events') = Len(events) + 1
      /\ Len(events') <= MaxEvents
      /\ \A i \in DOMAIN events : i \in DOMAIN events'
      /\ Len(events) + 1 \in DOMAIN events'
      /\ append' = [append EXCEPT ![th] = append'[th]]
      /\ append'[th] = [at |-> "test", event |-> Len(events) + 1, todo |-> KeysOf(d)]
      /\ \A other \in Threads : other # th => append'[other] = append[other]
      /\ index' = index /\ raced' = raced
  BY LogFacts
<1>2. KeysOf(d) \in Seq(Keys) /\ KeysOf(d) # <<>>
  BY KeysOfDraft
<1>3. \A k \in Keys : index'[k] = Absent \/ index'[k] \in Seq(1 .. Len(events'))
  <2> SUFFICES ASSUME NEW k \in Keys, index[k] # Absent
               PROVE  index[k] \in Seq(1 .. Len(events'))
    BY <1>1
  <2>1. index[k] \in Seq(1 .. Len(events)) /\ 1 .. Len(events) \subseteq 1 .. Len(events')
    BY <1>1 DEF Shape, TypeOK
  <2> QED
    BY <2>1, SeqWidens
<1>4. \A t \in Threads : /\ append'[t].at \in Places
                         /\ append'[t].event \in 0 .. Len(events')
                         /\ append'[t].todo \in Seq(Keys)
                         /\ append'[t].at = "idle" <=> append'[t].todo = <<>>
  <2> TAKE t \in Threads
  <2>1. CASE t = th
    BY <1>1, <1>2, <2>1 DEF Places
  <2>2. CASE t # th
    BY <1>1, <2>2, PlaceTyped DEF At, Event, Todo
  <2> QED
    BY <2>1, <2>2
<1>5. append' \in [Threads -> [at : Places, event : Nat, todo : Seq(Keys)]]
  <2>1. append'[th] \in [at : Places, event : Nat, todo : Seq(Keys)]
    BY <1>1, <1>2 DEF Places
  <2> QED
    BY <1>1, <2>1 DEF Shape, AppendsFit
<1>6. ASSUME NEW t \in Threads
      PROVE  Fits(t)'
  <2>1. CASE t = th
    <3>1. At(t)' = "test" /\ Event(t)' \in DOMAIN events'
      BY <1>1, <2>1 DEF At, Event
    <3> QED
      BY <3>1 DEF Fits
  <2>2. CASE t # th
    <3>1. append'[t] = append[t] /\ Key(t)' = Key(t) /\ Fits(t)
      BY <1>1, <2>2 DEF Key, Shape, AppendsFit
    <3> QED
      BY <1>1, <3>1 DEF Fits, At, Event
  <2> QED
    BY <2>1, <2>2
<1>7. \A t, other \in Threads : Event(t)' = Event(other)' => t = other \/ Event(t)' = 0
  <2>1. \A t \in Threads : t # th => Event(t)' = Event(t) /\ Event(t) \in 0 .. Len(events)
    BY <1>1, PlaceTyped DEF Event
  <2>2. Event(th)' = Len(events) + 1
    BY <1>1 DEF Event
  <2>3. \A t, other \in Threads : Event(t) = Event(other) => t = other \/ Event(t) = 0
    BY DEF Shape, AppendsFit
  <2> QED
    BY <1>1, <2>1, <2>2, <2>3
<1>8. AppendsFit'
  BY <1>1, <1>5, <1>6, <1>7 DEF Shape, AppendsFit
<1>9. raced' \subseteq Keys
  BY <1>1 DEF Shape, TypeOK
<1> QED
  BY <1>1, <1>3, <1>4, <1>8, <1>9 DEF Shape, TypeOK, Places

(* A step of an append moves its thread alone and leaves the log alone. *)
LEMMA StepShape ==
    ASSUME Shape, UNCHANGED events, raced \subseteq raced', raced' \subseteq Keys,
           NEW th \in Threads, append' = [append EXCEPT ![th] = append'[th]],
           append'[th] \in [at : Places, event : {Event(th), 0}, todo : Seq(Keys)],
           append'[th].at = "idle" <=> append'[th].todo = <<>>,
           append'[th].event = 0 <=> append'[th].at = "idle",
           At(th) # "idle",
           index' = [k \in Keys |-> index'[k]],
           \A k \in Keys : index'[k] = Absent \/ index'[k] \in Seq(1 .. Len(events)),
           \A k \in Keys : index'[k] = Absent => index[k] = Absent,
           \A k \in Keys : k \notin raced' /\ index'[k] # index[k] /\ index[k] = Absent =>
              \A other \in Threads \ {th} : At(other) = "create" => Key(other) # k,
           Fits(th)'
    PROVE  Shape'
<1>1. Event(th) \in DOMAIN events /\ Event(th) \in 1 .. Len(events) /\ Len(events) \in Nat
  BY KeyIsKey
<1>2. ASSUME NEW t \in Threads
      PROVE  IF t = th THEN Event(t)' \in {Event(t), 0} ELSE append'[t] = append[t]
  BY DEF Shape, AppendsFit, Event
<1>3. TypeOK'
  <2>1. \A t \in Threads : /\ append'[t].at \in Places
                           /\ append'[t].event \in 0 .. Len(events)
                           /\ append'[t].todo \in Seq(Keys)
                           /\ append'[t].at = "idle" <=> append'[t].todo = <<>>
    <3> TAKE t \in Threads
    <3>1. CASE t = th
      BY <1>1, <3>1
    <3>2. CASE t # th
      BY <1>2, <3>2, PlaceTyped DEF At, Event, Todo
    <3> QED
      BY <3>1, <3>2
  <2>2. events \in Seq(Drafts) /\ Len(events) <= MaxEvents
    BY DEF Shape, TypeOK
  <2> QED
    BY <2>1, <2>2 DEF TypeOK, Places
<1>4. append' \in [Threads -> [at : Places, event : Nat, todo : Seq(Keys)]]
  <2>1. append'[th] \in [at : Places, event : Nat, todo : Seq(Keys)]
    BY <1>1
  <2> QED
    BY <2>1 DEF Shape, AppendsFit
<1>5. ASSUME NEW t \in Threads, t # th
      PROVE  Fits(t)'
  <2>1. append'[t] = append[t] /\ Key(t)' = Key(t) /\ Fits(t)
    BY <1>2, <1>5 DEF Key, Shape, AppendsFit
  <2>2. CASE At(t) = "idle"
    BY <2>1, <2>2 DEF Fits, At, Event
  <2>3. CASE At(t) # "idle"
    <3>1. Key(t) \in Keys
      BY <2>3, KeyIsKey
    <3>2. At(t)' = At(t) /\ Event(t)' = Event(t) /\ Event(t) \in DOMAIN events
      BY <2>1, <2>3 DEF Fits, At, Event
    <3>3. At(t) = "create" => index'[Key(t)] = Absent \/ Key(t) \in raced'
      BY <1>5, <2>1, <3>1 DEF Fits
    <3>4. At(t) = "add" => index'[Key(t)] # Absent
      BY <2>1, <3>1 DEF Fits
    <3> QED
      BY <2>1, <2>3, <3>2, <3>3, <3>4 DEF Fits
  <2> QED
    BY <2>2, <2>3
<1>6. \A t, other \in Threads : Event(t)' = Event(other)' => t = other \/ Event(t)' = 0
  <2>1. \A t \in Threads : t # th => Event(t)' = Event(t)
    BY <1>2 DEF Event
  <2>2. Event(th)' \in {Event(th), 0}
    BY <1>2
  <2>3. \A t, other \in Threads : Event(t) = Event(other) => t = other \/ Event(t) = 0
    BY DEF Shape, AppendsFit
  <2> QED
    BY <1>1, <2>1, <2>2, <2>3
<1> QED
  BY <1>3, <1>4, <1>5, <1>6 DEF Shape, AppendsFit

(* What a step of thread th does to its own place. *)
LEMMA MovedOnly ==
    ASSUME Shape, NEW th \in Threads, NEW place, append' = [append EXCEPT ![th] = place]
    PROVE  /\ append'[th] = place /\ append' = [append EXCEPT ![th] = append'[th]]
           /\ \A other \in Threads : other # th => append'[other] = append[other]
BY DEF Shape, AppendsFit

LEMMA PlaceExcept ==
    ASSUME Shape, NEW th \in Threads, NEW x
    PROVE  [append[th] EXCEPT !.at = x] = [at |-> x, event |-> Event(th), todo |-> Todo(th)]
<1>1. append[th] \in [at : Places, event : Nat, todo : Seq(Keys)]
  BY PlaceTyped
<1> QED
  BY <1>1 DEF Event, Todo

LEMMA TestFacts ==
    ASSUME Shape, NEW th \in Threads, TestKey(th)
    PROVE  /\ At(th) = "test" /\ UNCHANGED <<events, index, raced>>
           /\ append' = [append EXCEPT ![th] = append'[th]]
           /\ append'[th] = [at |-> IF index[Key(th)] = Absent THEN "create" ELSE "add",
                             event |-> Event(th), todo |-> Todo(th)]
           /\ \A other \in Threads : other # th => append'[other] = append[other]
<1> DEFINE place == [at |-> IF index[Key(th)] = Absent THEN "create" ELSE "add",
                     event |-> Event(th), todo |-> Todo(th)]
<1>1. append' = [append EXCEPT ![th] = [append[th] EXCEPT
                   !.at = IF index[Key(th)] = Absent THEN "create" ELSE "add"]]
  BY DEF TestKey
<1>2. append' = [append EXCEPT ![th] = place]
  BY <1>1, PlaceExcept
<1> HIDE DEF place
<1>3. /\ append'[th] = place /\ append' = [append EXCEPT ![th] = append'[th]]
      /\ \A other \in Threads : other # th => append'[other] = append[other]
  BY <1>2, MovedOnly
<1> QED
  BY <1>3 DEF TestKey, At, place

LEMMA CreateFacts ==
    ASSUME Shape, NEW th \in Threads, CreateList(th)
    PROVE  /\ At(th) = "create" /\ UNCHANGED events
           /\ append' = [append EXCEPT ![th] = append'[th]]
           /\ append'[th] = [at |-> "add", event |-> Event(th), todo |-> Todo(th)]
           /\ \A other \in Threads : other # th => append'[other] = append[other]
           /\ index' = [index EXCEPT ![Key(th)] = <<>>]
           /\ raced' \subseteq raced \cup {Key(th)} /\ raced \subseteq raced'
           /\ \A other \in Threads \ {th} :
                At(other) = "create" /\ Key(other) = Key(th) => Key(th) \in raced'
<1> DEFINE place == [at |-> "add", event |-> Event(th), todo |-> Todo(th)]
<1>1. append' = [append EXCEPT ![th] = [append[th] EXCEPT !.at = "add"]]
  BY DEF CreateList
<1>2. append' = [append EXCEPT ![th] = place]
  BY <1>1, PlaceExcept
<1> HIDE DEF place
<1>3. /\ append'[th] = place /\ append' = [append EXCEPT ![th] = append'[th]]
      /\ \A other \in Threads : other # th => append'[other] = append[other]
  BY <1>2, MovedOnly
<1>4. raced' = raced \cup {k \in {Key(th)} : \E other \in Threads \ {th} :
                             append[other].at = "create" /\ Key(other) = k}
  BY DEF CreateList
<1> QED
  BY <1>3, <1>4 DEF CreateList, At, place

LEMMA AddFacts ==
    ASSUME Shape, NEW th \in Threads, AddToList(th)
    PROVE  /\ At(th) = "add" /\ UNCHANGED <<events, raced>>
           /\ append' = [append EXCEPT ![th] = append'[th]]
           /\ append'[th] = IF Len(Todo(th)) = 1 THEN [at |-> "idle", event |-> 0, todo |-> <<>>]
                            ELSE [at |-> "test", event |-> Event(th), todo |-> Tail(Todo(th))]
           /\ \A other \in Threads : other # th => append'[other] = append[other]
           /\ index' = [index EXCEPT ![Key(th)] = Append(index[Key(th)], Event(th))]
<1> DEFINE place == IF Len(Todo(th)) = 1 THEN [at |-> "idle", event |-> 0, todo |-> <<>>]
                    ELSE [at |-> "test", event |-> Event(th), todo |-> Tail(Todo(th))]
<1>2. append' = [append EXCEPT ![th] = place]
  <2>1. NextKey(append[th]) = place
    BY DEF NextKey, IdleAppend, Event, Todo
  <2> HIDE DEF place
  <2> QED
    BY <2>1 DEF AddToList
<1> HIDE DEF place
<1>3. /\ append'[th] = place /\ append' = [append EXCEPT ![th] = append'[th]]
      /\ \A other \in Threads : other # th => append'[other] = append[other]
  BY <1>2, MovedOnly
<1>4. index' = [index EXCEPT ![Key(th)] = Append(index[Key(th)], Event(th))]
  BY DEF AddToList, Event, Shape, AppendsFit
<1> QED
  BY <1>3, <1>4 DEF AddToList, At, place

LEMMA TestShape ==
    ASSUME Shape, NEW th \in Threads, TestKey(th)
    PROVE  Shape'
<1>1. /\ At(th) = "test" /\ UNCHANGED <<events, index, raced>>
      /\ append' = [append EXCEPT ![th] = append'[th]]
      /\ append'[th] = [at |-> IF index[Key(th)] = Absent THEN "create" ELSE "add",
                        event |-> Event(th), todo |-> Todo(th)]
  BY TestFacts
<1>2. /\ Todo(th) \in Seq(Keys) /\ Todo(th) # <<>> /\ Event(th) \in DOMAIN events
      /\ Event(th) \in 1 .. Len(events) /\ Len(events) \in Nat
  BY <1>1, KeyIsKey
<1>3. Key(th)' = Key(th)
  BY <1>1 DEF Key, Todo
<1>4. Fits(th)'
  BY <1>1, <1>2, <1>3 DEF Fits, At, Event
<1>5. /\ index' = [k \in Keys |-> index'[k]] /\ raced \subseteq Keys
      /\ \A k \in Keys : index[k] = Absent \/ index[k] \in Seq(1 .. Len(events))
  BY <1>1 DEF Shape, AppendsFit, TypeOK
<1>6. append'[th] \in [at : Places, event : {Event(th), 0}, todo : Seq(Keys)]
  BY <1>1, <1>2 DEF Places
<1>7. /\ append'[th].at = "idle" <=> append'[th].todo = <<>>
      /\ append'[th].event = 0 <=> append'[th].at = "idle"
  BY <1>1, <1>2
<1> QED
  BY <1>1, <1>4, <1>5, <1>6, <1>7, StepShape

LEMMA CreateShape ==
    ASSUME Shape, NEW th \in Threads, CreateList(th)
    PROVE  Shape'
<1>1. /\ At(th) = "create" /\ UNCHANGED events
      /\ append' = [append EXCEPT ![th] = append'[th]]
      /\ append'[th] = [at |-> "add", event |-> Event(th), todo |-> Todo(th)]
      /\ index' = [index EXCEPT ![Key(th)] = <<>>]
      /\ raced' \subseteq raced \cup {Key(th)} /\ raced \subseteq raced'
      /\ \A other \in Threads \ {th} :
           At(other) = "create" /\ Key(other) = Key(th) => Key(th) \in raced'
  BY CreateFacts
<1>2. /\ Todo(th) \in Seq(Keys) /\ Todo(th) # <<>> /\ Event(th) \in DOMAIN events
      /\ Event(th) \in 1 .. Len(events) /\ Len(events) \in Nat /\ Key(th) \in Keys
  BY <1>1, KeyIsKey
<1>3. Key(th)' = Key(th)
  BY <1>1 DEF Key, Todo
<1>4. /\ index = [k \in Keys |-> index[k]] /\ raced \subseteq Keys
      /\ \A k \in Keys : index[k] = Absent \/ index[k] \in Seq(1 .. Len(events))
  BY DEF Shape, AppendsFit, TypeOK
<1>5. /\ index'[Key(th)] = <<>> /\ <<>> # Absent
      /\ \A k \in Keys : k # Key(th) => index'[k] = index[k]
      /\ index' = [k \in Keys |-> index'[k]]
  <2>1. <<>> \in Seq(Nat)
    OBVIOUS
  <2> QED
    BY <1>1, <1>2, <1>4, <2>1, EventStoreAssumption
<1>6. Fits(th)'
  BY <1>1, <1>2, <1>3, <1>5 DEF Fits, At, Event
<1>7. \A k \in Keys : index'[k] = Absent \/ index'[k] \in Seq(1 .. Len(events))
  <2>1. <<>> \in Seq(1 .. Len(events))
    OBVIOUS
  <2> QED
    BY <1>4, <1>5, <2>1
<1>8. append'[th] \in [at : Places, event : {Event(th), 0}, todo : Seq(Keys)]
  BY <1>1, <1>2 DEF Places
<1>9. /\ append'[th].at = "idle" <=> append'[th].todo = <<>>
      /\ append'[th].event = 0 <=> append'[th].at = "idle"
  BY <1>1, <1>2
<1>10. \A k \in Keys : index'[k] = Absent => index[k] = Absent
  BY <1>5
<1>11. \A k \in Keys : k \notin raced' /\ index'[k] # index[k] /\ index[k] = Absent =>
              \A other \in Threads \ {th} : At(other) = "create" => Key(other) # k
  BY <1>1, <1>5
<1>12. raced' \subseteq Keys
  BY <1>1, <1>2, <1>4
<1> QED
  BY <1>1, <1>5, <1>6, <1>7, <1>8, <1>9, <1>10, <1>11, <1>12, StepShape

LEMMA AddShape ==
    ASSUME Shape, NEW th \in Threads, AddToList(th)
    PROVE  Shape'
<1>1. /\ At(th) = "add" /\ UNCHANGED <<events, raced>>
      /\ append' = [append EXCEPT ![th] = append'[th]]
      /\ append'[th] = IF Len(Todo(th)) = 1 THEN [at |-> "idle", event |-> 0, todo |-> <<>>]
                       ELSE [at |-> "test", event |-> Event(th), todo |-> Tail(Todo(th))]
      /\ index' = [index EXCEPT ![Key(th)] = Append(index[Key(th)], Event(th))]
  BY AddFacts
<1>2. /\ Todo(th) \in Seq(Keys) /\ Todo(th) # <<>> /\ Event(th) \in DOMAIN events
      /\ Event(th) \in 1 .. Len(events) /\ Len(events) \in Nat /\ Key(th) \in Keys
  BY <1>1, KeyIsKey
<1>3. Len(Todo(th)) # 1 => Tail(Todo(th)) \in Seq(Keys) /\ Tail(Todo(th)) # <<>>
  <2>1. Len(Todo(th)) \in Nat \ {0} /\ Tail(Todo(th)) \in Seq(Keys)
        /\ Len(Tail(Todo(th))) = Len(Todo(th)) - 1
    BY <1>2, HeadTailProperties
  <2> QED
    BY <2>1
<1>4. /\ index = [k \in Keys |-> index[k]] /\ raced \subseteq Keys
      /\ \A k \in Keys : index[k] = Absent \/ index[k] \in Seq(1 .. Len(events))
      /\ index[Key(th)] # Absent
  BY <1>1 DEF Shape, AppendsFit, Fits, TypeOK
<1>5. Append(index[Key(th)], Event(th)) \in Seq(1 .. Len(events))
  BY <1>2, <1>4
<1>6. /\ index'[Key(th)] \in Seq(1 .. Len(events))
      /\ \A k \in Keys : k # Key(th) => index'[k] = index[k]
      /\ index' = [k \in Keys |-> index'[k]]
  BY <1>1, <1>2, <1>4, <1>5
<1>7. Fits(th)'
  BY <1>1, <1>2 DEF Fits, At, Event
<1>8. append'[th] \in [at : Places, event : {Event(th), 0}, todo : Seq(Keys)]
  BY <1>1, <1>2, <1>3 DEF Places
<1>9. /\ append'[th].at = "idle" <=> append'[th].todo = <<>>
      /\ append'[th].event = 0 <=> append'[th].at = "idle"
  BY <1>1, <1>2, <1>3
<1>10. \A k \in Keys : index'[k] = Absent => index[k] = Absent
  <2>1. index'[Key(th)] \in Seq(Nat)
    BY <1>6, SeqWidens
  <2> QED
    BY <1>6, <2>1, EventStoreAssumption
<1>11. \A k \in Keys : index[k] = Absent => index'[k] = index[k]
  BY <1>4, <1>6
<1>12. \A k \in Keys : index'[k] = Absent \/ index'[k] \in Seq(1 .. Len(events))
  BY <1>4, <1>6
<1> QED
  BY <1>1, <1>4, <1>6, <1>7, <1>8, <1>9, <1>10, <1>11, <1>12, StepShape

---------------------------------------------------------------------------
(* What each step does to what a query returns.                            *)

LEMMA QueryTyped ==
    ASSUME Shape, NEW k \in Keys
    PROVE  Query(k) \in Seq(1 .. Len(events)) /\ Query(k) \in Seq(Nat)
<1>1. Query(k) \in Seq(1 .. Len(events))
  <2>1. index[k] = Absent \/ index[k] \in Seq(1 .. Len(events))
    BY DEF Shape, TypeOK
  <2>2. <<>> \in Seq(1 .. Len(events))
    OBVIOUS
  <2> QED
    BY <2>1, <2>2 DEF Query
<1> QED
  BY <1>1, SeqWidens

LEMMA CreateQuery ==
    ASSUME Shape, NEW th \in Threads, CreateList(th), NEW k \in Keys \ raced'
    PROVE  Query(k)' = Query(k)
<1>1. /\ index' = [index EXCEPT ![Key(th)] = <<>>] /\ raced \subseteq raced'
      /\ At(th) = "create"
  BY CreateFacts
<1>2. Key(th) \in Keys
  BY <1>1, KeyIsKey
<1>3. index = [j \in Keys |-> index[j]] /\ (index[Key(th)] = Absent \/ Key(th) \in raced)
  BY <1>1 DEF Shape, AppendsFit, Fits
<1> QED
  BY <1>1, <1>2, <1>3 DEF Query

LEMMA AddQuery ==
    ASSUME Shape, NEW th \in Threads, AddToList(th), NEW k \in Keys
    PROVE  Query(k)' = IF k = Key(th) THEN Append(Query(k), Event(th)) ELSE Query(k)
<1>1. index' = [index EXCEPT ![Key(th)] = Append(index[Key(th)], Event(th))] /\ At(th) = "add"
  BY AddFacts
<1>2. Key(th) \in Keys /\ Event(th) \in 1 .. Len(events) /\ Len(events) \in Nat
  BY <1>1, KeyIsKey
<1>3. index = [j \in Keys |-> index[j]] /\ index[Key(th)] # Absent
  BY <1>1 DEF Shape, AppendsFit, Fits
<1>4. CASE k = Key(th)
  <2>1. Query(k) = index[k] /\ index'[k] = Append(Query(k), Event(th))
    BY <1>1, <1>2, <1>3, <1>4 DEF Query
  <2>2. Append(Query(k), Event(th)) \in Seq(Nat)
    BY <1>2, QueryTyped
  <2> QED
    BY <1>4, <2>1, <2>2, EventStoreAssumption DEF Query
<1>5. CASE k # Key(th)
  BY <1>1, <1>3, <1>5 DEF Query
<1> QED
  BY <1>4, <1>5

---------------------------------------------------------------------------
(* Events are listed, or still to be, as often as they name a key.         *)

LEMMA LogAccounted ==
    ASSUME Shape, Accounted, NEW th \in Threads, NEW d \in Drafts, AppendToLog(th, d)
    PROVE  Accounted'
<1>1. /\ Len(events) \in Nat /\ events'[Len(events) + 1] = d
      /\ \A i \in DOMAIN events : i \in DOMAIN events' /\ events'[i] = events[i]
      /\ \A i \in DOMAIN events' : i \in DOMAIN events \/ i = Len(events) + 1
      /\ Len(events) + 1 \notin DOMAIN events
      /\ append'[th] = [at |-> "test", event |-> Len(events) + 1, todo |-> KeysOf(d)]
      /\ \A other \in Threads : other # th => append'[other] = append[other]
      /\ At(th) = "idle" /\ index' = index /\ raced' = raced
  BY LogFacts
<1>2. /\ Event(th) = 0 /\ Event(th)' = Len(events) + 1 /\ Todo(th)' = KeysOf(d)
      /\ \A other \in Threads : other # th => Event(other)' = Event(other)
                                           /\ Todo(other)' = Todo(other)
  <2>1. Event(th) = 0
    BY <1>1 DEF Shape, AppendsFit, Fits
  <2> QED
    BY <1>1, <2>1 DEF Event, Todo
<1>3. \A t \in Threads : Event(t) \in 0 .. Len(events)
  BY PlaceTyped
<1>4. SUFFICES ASSUME NEW k \in Keys \ raced, NEW i \in DOMAIN events'
               PROVE  Adds(k, i)'
  BY <1>1 DEF Accounted
<1>5. Query(k)' = Query(k) /\ Query(k) \in Seq(1 .. Len(events))
  BY <1>1, QueryTyped DEF Query
<1>6. CASE i = Len(events) + 1
  <2>1. Times(Query(k), i) = 0
    <3>1. \A j \in DOMAIN Query(k) : Query(k)[j] # i
      BY <1>1, <1>5, <1>6, ElementOfSeq
    <3> QED
      BY <3>1, TimesAbsent
  <2>2. KeysOf(d) \in Seq(Keys)
    BY KeysOfDraft
  <2>5. Times(KeysOf(d), k) \in Nat
    BY <2>2, TimesIsNat
  <2>3. Times(Query(k)', i) + Times(KeysOf(d), k) = Times(KeysOf(events'[i]), k)
    BY <1>1, <1>5, <1>6, <2>1, <2>5
  <2>4. \A t \in Threads : Event(t)' = i => t = th
    BY <1>1, <1>2, <1>3, <1>6
  <2> QED
    BY <1>2, <1>6, <2>3, <2>4 DEF Adds
<1>7. CASE i \in DOMAIN events
  <2>1. events'[i] = events[i] /\ Event(th)' # i
    BY <1>1, <1>2, <1>7
  <2>2. i \in 1 .. Len(events) /\ Event(th) # i
    BY <1>1, <1>2, <1>7 DEF Shape, TypeOK
  <2>3. Adds(k, i)
    BY <1>7 DEF Accounted
  <2> QED
    BY <1>2, <1>5, <2>1, <2>2, <2>3 DEF Adds
<1> QED
  BY <1>1, <1>6, <1>7

(* A step that lists nothing leaves the account as it is. *)
LEMMA QuietAccounted ==
    ASSUME Shape, Accounted, UNCHANGED events, raced \subseteq raced',
           \A t \in Threads : Event(t)' = Event(t) /\ Todo(t)' = Todo(t),
           \A k \in Keys \ raced' : Query(k)' = Query(k)
    PROVE  Accounted'
<1>1. SUFFICES ASSUME NEW k \in Keys \ raced', NEW i \in DOMAIN events
               PROVE  Adds(k, i)'
  BY DEF Accounted
<1>2. Adds(k, i) /\ Query(k)' = Query(k)
  BY DEF Accounted
<1> QED
  BY <1>2 DEF Adds

LEMMA AddAccounted ==
    ASSUME Shape, Accounted, NEW th \in Threads, AddToList(th)
    PROVE  Accounted'
<1>1. /\ At(th) = "add" /\ events' = events /\ raced' = raced
      /\ append'[th] = IF Len(Todo(th)) = 1 THEN [at |-> "idle", event |-> 0, todo |-> <<>>]
                       ELSE [at |-> "test", event |-> Event(th), todo |-> Tail(Todo(th))]
      /\ \A other \in Threads : other # th => append'[other] = append[other]
  BY AddFacts
<1>2. /\ Todo(th) \in Seq(Keys) /\ Todo(th) # <<>> /\ Event(th) \in 1 .. Len(events)
      /\ Len(events) \in Nat /\ Key(th) \in Keys /\ Key(th) = Head(Todo(th))
  BY <1>1, KeyIsKey
<1>3. \A t \in Threads : t # th => Event(t)' = Event(t) /\ Todo(t)' = Todo(t)
  BY <1>1 DEF Event, Todo
<1>4. /\ Len(Todo(th)) = 1 => Event(th)' = 0
      /\ Len(Todo(th)) # 1 => Event(th)' = Event(th) /\ Todo(th)' = Tail(Todo(th))
  BY <1>1 DEF Event, Todo
<1>5. \A t \in Threads : t # th => Event(t) # Event(th)
  BY <1>2 DEF Shape, AppendsFit
<1>6. SUFFICES ASSUME NEW k \in Keys \ raced, NEW i \in DOMAIN events
               PROVE  Adds(k, i)'
  BY <1>1 DEF Accounted
<1>7. Adds(k, i) /\ i \in Nat \ {0}
  BY DEF Accounted, Shape, TypeOK
<1>8. Query(k)' = IF k = Key(th) THEN Append(Query(k), Event(th)) ELSE Query(k)
  BY AddQuery
<1>9. Query(k) \in Seq(1 .. Len(events)) /\ Times(Query(k), i) \in Nat
  BY QueryTyped, TimesIsNat
<1>10. Times(Query(k)', i) =
         Times(Query(k), i) + (IF k = Key(th) /\ i = Event(th) THEN 1 ELSE 0)
  <2>1. CASE k = Key(th)
    <3>1. Times(Append(Query(k), Event(th)), i) =
            Times(Query(k), i) + (IF Event(th) = i THEN 1 ELSE 0)
      BY <1>2, <1>9, TimesAppend
    <3> QED
      BY <1>8, <2>1, <3>1
  <2>2. CASE k # Key(th)
    BY <1>8, <1>9, <2>2
  <2> QED
    BY <2>1, <2>2
<1>11. CASE i # Event(th)
  <2>1. Times(Query(k)', i) = Times(Query(k), i)
    BY <1>9, <1>10, <1>11
  <2>2. Event(th)' # i
    BY <1>4, <1>7, <1>11
  <2> QED
    BY <1>1, <1>3, <1>7, <1>11, <2>1, <2>2 DEF Adds
<1>12. CASE i = Event(th)
  <2>1. Times(Todo(th), k) = Times(Tail(Todo(th)), k) + (IF Key(th) = k THEN 1 ELSE 0)
    BY <1>2, TimesTail
  <2>2. Times(Query(k), i) + Times(Todo(th), k) = Times(KeysOf(events[i]), k)
    BY <1>7, <1>12 DEF Adds
  <2>3. /\ Tail(Todo(th)) \in Seq(Keys)
        /\ Times(Tail(Todo(th)), k) \in Nat /\ Times(Query(k), i) \in Nat
    BY <1>2, <1>9, TimesIsNat, HeadTailProperties
  <2>4. Times(Query(k)', i) + Times(Tail(Todo(th)), k) = Times(KeysOf(events[i]), k)
    BY <1>10, <1>12, <2>1, <2>2, <2>3
  <2>5. CASE Len(Todo(th)) = 1
    <3>1. \A j \in DOMAIN Tail(Todo(th)) : Tail(Todo(th))[j] # k
      <4>1. Len(Tail(Todo(th))) = 0
        BY <1>2, <2>5, HeadTailProperties
      <4>2. DOMAIN Tail(Todo(th)) = 1 .. 0
        BY <2>3, <4>1, LenProperties
      <4> QED
        BY <4>2
    <3>2. Times(Tail(Todo(th)), k) = 0
      BY <3>1, TimesAbsent
    <3>3. Times(Query(k)', i) = Times(KeysOf(events[i]), k)
      BY <1>10, <2>3, <2>4, <3>2
    <3>4. \A t \in Threads : Event(t)' # i
      BY <1>3, <1>4, <1>5, <1>7, <1>12, <2>5
    <3> QED
      BY <1>1, <3>3, <3>4 DEF Adds
  <2>6. CASE Len(Todo(th)) # 1
    <3>1. /\ Event(th)' = i /\ Todo(th)' = Tail(Todo(th))
          /\ \A t \in Threads : t # th => Event(t)' # i
      BY <1>3, <1>4, <1>5, <1>12, <2>6
    <3> QED
      BY <1>1, <2>4, <3>1 DEF Adds
  <2> QED
    BY <2>5, <2>6
<1> QED
  BY <1>11, <1>12

LEMMA InitAccounted ==
    ASSUME Init
    PROVE  Accounted
BY DEF Init, Accounted

LEMMA StepAccounted ==
    ASSUME Shape, Accounted, [Next]_vars
    PROVE  Shape' /\ Accounted'
<1>1. ASSUME NEW th \in Threads, NEW d \in Drafts, AppendToLog(th, d)
      PROVE  Shape' /\ Accounted'
  BY <1>1, LogShape, LogAccounted
<1>2. ASSUME NEW th \in Threads, TestKey(th)
      PROVE  Shape' /\ Accounted'
  <2>1. /\ events' = events /\ index' = index /\ raced' = raced
        /\ append'[th] = [at |-> IF index[Key(th)] = Absent THEN "create" ELSE "add",
                          event |-> Event(th), todo |-> Todo(th)]
        /\ \A other \in Threads : other # th => append'[other] = append[other]
    BY <1>2, TestFacts
  <2>2. \A t \in Threads : Event(t)' = Event(t) /\ Todo(t)' = Todo(t)
    BY <2>1 DEF Event, Todo
  <2>3. \A k \in Keys \ raced' : Query(k)' = Query(k)
    BY <2>1 DEF Query
  <2> QED
    BY <1>2, <2>1, <2>2, <2>3, TestShape, QuietAccounted
<1>3. ASSUME NEW th \in Threads, CreateList(th)
      PROVE  Shape' /\ Accounted'
  <2>1. /\ events' = events /\ raced \subseteq raced'
        /\ append'[th] = [at |-> "add", event |-> Event(th), todo |-> Todo(th)]
        /\ \A other \in Threads : other # th => append'[other] = append[other]
    BY <1>3, CreateFacts
  <2>2. \A t \in Threads : Event(t)' = Event(t) /\ Todo(t)' = Todo(t)
    BY <2>1 DEF Event, Todo
  <2>3. \A k \in Keys \ raced' : Query(k)' = Query(k)
    BY <1>3, CreateQuery
  <2> QED
    BY <1>3, <2>1, <2>2, <2>3, CreateShape, QuietAccounted
<1>4. ASSUME NEW th \in Threads, AddToList(th)
      PROVE  Shape' /\ Accounted'
  BY <1>4, AddShape, AddAccounted
<1>5. CASE UNCHANGED vars
  <2>1. /\ events' = events /\ index' = index /\ append' = append /\ raced' = raced
    BY <1>5 DEF vars
  <2>2. Shape'
    BY <2>1 DEF Shape, TypeOK, AppendsFit, Fits, At, Event, Todo, Key
  <2>3. \A t \in Threads : Event(t)' = Event(t) /\ Todo(t)' = Todo(t)
    BY <2>1 DEF Event, Todo
  <2>4. \A k \in Keys \ raced' : Query(k)' = Query(k)
    BY <2>1 DEF Query
  <2> QED
    BY <2>1, <2>2, <2>3, <2>4, QuietAccounted
<1> QED
  BY <1>1, <1>2, <1>3, <1>4, <1>5 DEF Next, AppendStep

(* Every variable of the event store always holds a value the code can     *)
(* give it, whatever the threads do.                                       *)
THEOREM TypeCorrect == Spec => []TypeOK
<1>1. Init => Shape /\ Accounted
  BY InitShape, InitAccounted
<1>2. Shape /\ Accounted /\ [Next]_vars => (Shape /\ Accounted)'
  BY StepAccounted
<1>3. Shape /\ Accounted => TypeOK
  BY DEF Shape
<1> QED
  BY <1>1, <1>2, <1>3, PTL DEF Spec

(* Under a key whose list was never made by two threads at once, every     *)
(* event is listed as often as it names the key once nobody still has to   *)
(* list one, for any number of threads and in any order.                   *)
THEOREM LossNeedsARace == Spec => []LossNeedsRacingCreation
<1>1. Init => Shape /\ Accounted
  BY InitShape, InitAccounted
<1>2. Shape /\ Accounted /\ [Next]_vars => (Shape /\ Accounted)'
  BY StepAccounted
<1>3. Shape /\ Accounted => LossNeedsRacingCreation
  <2> SUFFICES ASSUME Shape, Accounted, NEW k \in Keys \ raced, Settled(k),
                      NEW i \in DOMAIN events
               PROVE  Times(Query(k), i) = Times(KeysOf(events[i]), k)
    BY DEF LossNeedsRacingCreation
  <2>1. Adds(k, i)
    BY DEF Accounted
  <2>2. CASE \A th \in Threads : Event(th) # i
    BY <2>1, <2>2 DEF Adds
  <2>3. CASE \E th \in Threads : Event(th) = i
    <3>1. PICK th \in Threads : Event(th) = i
      BY <2>3
    <3>2. Times(Todo(th), k) = 0
      BY TimesAbsent DEF Settled, Todo
    <3>3. Times(Query(k), i) \in Nat
      BY QueryTyped, TimesIsNat
    <3> QED
      BY <2>1, <3>1, <3>2, <3>3 DEF Adds
  <2> QED
    BY <2>2, <2>3
<1> QED
  BY <1>1, <1>2, <1>3, PTL DEF Spec

(* A sequence is a prefix of itself, and of itself with one more at its end. *)
LEMMA AppendKeepsPrefix ==
    ASSUME NEW S, NEW s \in Seq(S)
    PROVE  /\ IsPrefix(s, s)
           /\ \A x : IsPrefix(s, Append(s, x))
<1>1. SubSeq(s, 1, Len(s)) = s
  OBVIOUS
<1>2. ASSUME NEW x
      PROVE  IsPrefix(s, Append(s, x))
  <2>1. s \in Seq(S \cup {x})
    BY SeqWidens
  <2>2. Len(Append(s, x)) = Len(s) + 1 /\ Len(s) \in Nat
    BY <2>1
  <2>3. SubSeq(Append(s, x), 1, Len(s)) = s
    BY <2>1
  <2> QED
    BY <1>1, <2>2, <2>3 DEF IsPrefix
<1> QED
  BY <1>1, <1>2 DEF IsPrefix

(* No step takes back what was recorded: the log grows at its end, and so  *)
(* does every list whose key was not raced.                                *)
THEOREM NothingIsTakenBack == Spec => HistoryOnlyGrows
<1> DEFINE Grows == /\ IsPrefix(events, events')
                    /\ \A k \in Keys \ raced' : IsPrefix(Query(k), Query(k)')
<1>1. Init => Shape /\ Accounted
  BY InitShape, InitAccounted
<1>2. Shape /\ Accounted /\ [Next]_vars => (Shape /\ Accounted)'
  BY StepAccounted
<1>3. Shape /\ Next => Grows
  <2> SUFFICES ASSUME Shape, Next
               PROVE  Grows
    OBVIOUS
  <2>1. events \in Seq(Drafts) /\ \A k \in Keys : Query(k) \in Seq(Nat)
    BY QueryTyped DEF Shape, TypeOK
  <2>2. IsPrefix(events, events) /\ \A d : IsPrefix(events, Append(events, d))
    BY <2>1, AppendKeepsPrefix
  <2>3. \A k \in Keys : /\ IsPrefix(Query(k), Query(k))
                        /\ \A i : IsPrefix(Query(k), Append(Query(k), i))
    BY <2>1, AppendKeepsPrefix
  <2>4. ASSUME NEW th \in Threads, NEW d \in Drafts, AppendToLog(th, d)
        PROVE  Grows
    BY <2>2, <2>3, <2>4 DEF AppendToLog, Query
  <2>5. ASSUME NEW th \in Threads, TestKey(th)
        PROVE  Grows
    BY <2>2, <2>3, <2>5 DEF TestKey, Query
  <2>6. ASSUME NEW th \in Threads, CreateList(th)
        PROVE  Grows
    <3>1. events' = events /\ \A k \in Keys \ raced' : Query(k)' = Query(k)
      BY <2>6, CreateQuery, CreateFacts
    <3> QED
      BY <2>2, <2>3, <3>1
  <2>7. ASSUME NEW th \in Threads, AddToList(th)
        PROVE  Grows
    <3>1. /\ events' = events
          /\ \A k \in Keys : Query(k)' =
               IF k = Key(th) THEN Append(Query(k), Event(th)) ELSE Query(k)
      BY <2>7, AddQuery, AddFacts
    <3> QED
      BY <2>2, <2>3, <3>1
  <2> QED
    BY <2>4, <2>5, <2>6, <2>7 DEF Next, AppendStep
<1>4. Shape /\ [Next]_vars => [Grows]_vars
  BY <1>3
<1> QED
  BY <1>1, <1>2, <1>4, PTL DEF Spec, HistoryOnlyGrows

---------------------------------------------------------------------------
(* The trail of a transaction.                                             *)

LEMMA InitTrails ==
    ASSUME Init
    PROVE  Trails
<1>1. \A th \in Threads : Todo(th) = <<>> /\ At(th) = "idle"
  BY DEF Init, IdleAppend, Todo, At
<1>2. events = <<>> /\ raced = {} /\ \A x \in Txs : Query(TxKey(x)) = <<>>
  BY DEF Init, Query, Keys, TxKey
<1>3. \A th \in Threads : TxFirst(th)
  BY <1>1 DEF TxFirst
<1>4. OneWriter
  BY <1>1 DEF OneWriter
<1>5. \A x \in Txs : Trail(x)
  BY <1>1, <1>2 DEF Trail, Owes, Listed, Increasing
<1> QED
  BY <1>3, <1>4, <1>5 DEF Trails

(* A thread that owes a transaction its event has an event of it. *)
LEMMA OwesOwn ==
    ASSUME Shape, Trails, NEW th \in Threads, NEW x \in Txs, Owes(th, x)
    PROVE  /\ At(th) # "idle" /\ events[Event(th)].tx = x /\ Key(th) = TxKey(x)
           /\ Event(th) \in DOMAIN events
<1>1. At(th) # "idle"
  BY PlaceTyped DEF Owes
<1>2. Todo(th) \in Seq(Keys) /\ Todo(th) # <<>> /\ Key(th) = Todo(th)[1]
      /\ Event(th) \in DOMAIN events
  BY <1>1, KeyIsKey
<1>3. 1 \in DOMAIN Todo(th) /\ Todo(th)[1] = <<"tx", x>>
  BY <1>2 DEF Owes, TxKey
<1>4. Todo(th)[1][1] = "tx"
  BY <1>3
<1>5. Todo(th)[1] = TxKey(events[Event(th)].tx)
  BY <1>3, <1>4 DEF Trails, TxFirst
<1> QED
  BY <1>1, <1>2, <1>3, <1>5 DEF TxKey

LEMMA LogTrails ==
    ASSUME Exclusive, Shape, Trails, NEW th \in Threads, NEW d \in Drafts, AppendToLog(th, d)
    PROVE  Trails'
<1>1. /\ Len(events) \in Nat /\ events'[Len(events) + 1] = d
      /\ \A i \in DOMAIN events : i \in DOMAIN events' /\ events'[i] = events[i]
      /\ \A i \in DOMAIN events' : i \in DOMAIN events \/ i = Len(events) + 1
      /\ Len(events) + 1 \notin DOMAIN events
      /\ append'[th] = [at |-> "test", event |-> Len(events) + 1, todo |-> KeysOf(d)]
      /\ \A other \in Threads : other # th => append'[other] = append[other]
      /\ At(th) = "idle" /\ index' = index /\ raced' = raced
  BY LogFacts
<1>2. /\ At(th)' = "test" /\ Event(th)' = Len(events) + 1 /\ Todo(th)' = KeysOf(d)
      /\ \A t \in Threads : t # th =>
           At(t)' = At(t) /\ Event(t)' = Event(t) /\ Todo(t)' = Todo(t)
  BY <1>1 DEF At, Event, Todo
<1>3. \A t \in Threads : At(t) # "idle" => Event(t) \in DOMAIN events
  BY DEF Shape, AppendsFit, Fits
<1>4. \A t \in Threads : At(t) # "idle" => events[Event(t)].tx # d.tx
  <2>1. \A t \in Threads : ~Writes(t, d.tx)
    BY DEF AppendToLog
  <2> QED
    BY <2>1 DEF Writes, At, Event
<1>5. /\ KeysOf(d) # <<>> /\ KeysOf(d)[1] = TxKey(d.tx)
      /\ \A j \in DOMAIN KeysOf(d) : j # 1 => KeysOf(d)[j][1] # "tx"
  BY KeysOfDraft DEF TxKey
<1>6. ASSUME NEW t \in Threads
      PROVE  TxFirst(t)'
  <2>1. CASE t = th
    BY <1>1, <1>2, <1>5, <2>1 DEF TxFirst
  <2>2. CASE t # th
    <3>1. TxFirst(t)
      BY DEF Trails
    <3>2. CASE At(t) = "idle"
      <4>1. Todo(t) = <<>>
        BY <3>2, PlaceTyped
      <4> QED
        BY <1>2, <2>2, <4>1 DEF TxFirst
    <3>3. CASE At(t) # "idle"
      BY <1>1, <1>2, <1>3, <2>2, <3>1, <3>3 DEF TxFirst
    <3> QED
      BY <3>2, <3>3
  <2> QED
    BY <2>1, <2>2
<1>7. OneWriter'
  <2> SUFFICES ASSUME NEW t \in Threads, NEW other \in Threads, At(t)' # "idle",
                      At(other)' # "idle", t # other,
                      events'[Event(t)'].tx = events'[Event(other)'].tx
               PROVE  FALSE
    BY DEF OneWriter
  <2>1. \A u \in Threads : u # th /\ At(u) # "idle" => events'[Event(u)'].tx = events[Event(u)].tx
    BY <1>1, <1>2, <1>3
  <2>2. events'[Event(th)'].tx = d.tx
    BY <1>1, <1>2
  <2>3. CASE t # th /\ other # th
    BY <1>2, <2>1, <2>3 DEF Trails, OneWriter
  <2>4. CASE t = th
    BY <1>2, <1>4, <2>1, <2>2, <2>4
  <2>5. CASE other = th
    BY <1>2, <1>4, <2>1, <2>2, <2>5
  <2> QED
    BY <2>3, <2>4, <2>5
<1>8. ASSUME NEW x \in Txs
      PROVE  Trail(x)'
  <2>1. Trail(x) /\ Query(TxKey(x))' = Query(TxKey(x))
    BY <1>1 DEF Trails, Query
  <2>2. \A i : Listed(x, i)' <=> Listed(x, i)
    BY <2>1 DEF Listed
  <2>3. ~Owes(th, x) /\ (Owes(th, x)' <=> x = d.tx)
    BY <1>1, <1>2, <1>5, PlaceTyped DEF Owes, TxKey
  <2>4. \A t \in Threads : t # th => (Owes(t, x)' <=> Owes(t, x)) /\ Event(t)' = Event(t)
    BY <1>2 DEF Owes
  <2>5. \A t \in Threads : Owes(t, x) => Event(t) \in DOMAIN events /\ x # d.tx
    BY <1>4, OwesOwn
  <2>6. TxKey(x) \notin raced' /\ Increasing(Query(TxKey(x)))'
    BY <1>1, <2>1 DEF Trail, Increasing
  <2>7. ASSUME NEW i \in DOMAIN events'
        PROVE  Listed(x, i)' <=> /\ events'[i].tx = x
                                 /\ \A t \in Threads : Owes(t, x)' => Event(t)' # i
    <3>1. CASE i \in DOMAIN events
      <4>1. Listed(x, i) <=> /\ events[i].tx = x
                             /\ \A t \in Threads : Owes(t, x) => Event(t) # i
        BY <2>1, <3>1 DEF Trail
      <4>2. Event(th)' # i
        BY <1>1, <1>2, <3>1
      <4>3. \A t \in Threads : (Owes(t, x)' => Event(t)' # i) <=> (Owes(t, x) => Event(t) # i)
        BY <2>3, <2>4, <4>2
      <4> QED
        BY <1>1, <2>2, <3>1, <4>1, <4>3
    <3>2. CASE i = Len(events) + 1
      <4>1. ~Listed(x, i)
        <5>1. TxKey(x) \in Keys
          BY DEF Keys, TxKey
        <5>2. Query(TxKey(x)) \in Seq(1 .. Len(events))
          BY <5>1, QueryTyped
        <5>3. \A j \in DOMAIN Query(TxKey(x)) : Query(TxKey(x))[j] # i
          BY <1>1, <3>2, <5>2, ElementOfSeq
        <5> QED
          BY <5>3 DEF Listed
      <4>2. x = d.tx => Owes(th, x)' /\ Event(th)' = i
        BY <1>2, <2>3, <3>2
      <4> QED
        BY <1>1, <2>2, <3>2, <4>1, <4>2
    <3> QED
      BY <1>1, <3>1, <3>2
  <2>8. ASSUME NEW t \in Threads, Owes(t, x)', NEW i \in DOMAIN events', events'[i].tx = x
        PROVE  i <= Event(t)'
    <3>1. CASE t = th
      BY <1>1, <1>2, <2>8, <3>1 DEF Shape, TypeOK
    <3>2. CASE t # th
      <4>1. Owes(t, x) /\ Event(t)' = Event(t) /\ x # d.tx
        BY <2>4, <2>5, <2>8, <3>2
      <4>2. i \in DOMAIN events /\ events[i].tx = x
        BY <1>1, <2>8, <4>1
      <4> QED
        BY <2>1, <4>1, <4>2 DEF Trail
    <3> QED
      BY <3>1, <3>2
  <2> QED
    BY <2>6, <2>7, <2>8 DEF Trail
<1> QED
  BY <1>6, <1>7, <1>8 DEF Trails

(* A step that lists nothing and takes no key off leaves the trails be. *)
LEMMA QuietTrails ==
    ASSUME Shape, Trails, UNCHANGED events,
           \A t \in Threads : /\ Event(t)' = Event(t) /\ Todo(t)' = Todo(t)
                              /\ At(t)' = "idle" <=> At(t) = "idle",
           \A x \in Txs : TxKey(x) \notin raced' /\ Query(TxKey(x))' = Query(TxKey(x))
    PROVE  Trails'
<1>1. ASSUME NEW t \in Threads
      PROVE  TxFirst(t)'
  BY DEF Trails, TxFirst
<1>2. OneWriter'
  BY DEF Trails, OneWriter
<1>3. ASSUME NEW x \in Txs
      PROVE  Trail(x)'
  <2>1. Trail(x) /\ Query(TxKey(x))' = Query(TxKey(x)) /\ TxKey(x) \notin raced'
    BY DEF Trails
  <2>2. \A t \in Threads : (Owes(t, x)' <=> Owes(t, x)) /\ Event(t)' = Event(t)
    BY DEF Owes
  <2>3. \A i : Listed(x, i)' <=> Listed(x, i)
    BY <2>1 DEF Listed
  <2> QED
    BY <2>1, <2>2, <2>3 DEF Trail, Increasing
<1> QED
  BY <1>1, <1>2, <1>3 DEF Trails

LEMMA AddTrails ==
    ASSUME Shape, Trails, NEW th \in Threads, AddToList(th)
    PROVE  Trails'
<1>1. /\ At(th) = "add" /\ events' = events /\ raced' = raced
      /\ append'[th] = IF Len(Todo(th)) = 1 THEN [at |-> "idle", event |-> 0, todo |-> <<>>]
                       ELSE [at |-> "test", event |-> Event(th), todo |-> Tail(Todo(th))]
      /\ \A other \in Threads : other # th => append'[other] = append[other]
  BY AddFacts
<1>2. /\ Todo(th) \in Seq(Keys) /\ Todo(th) # <<>> /\ Event(th) \in 1 .. Len(events)
      /\ Event(th) \in DOMAIN events
      /\ Len(events) \in Nat /\ Key(th) \in Keys /\ Key(th) = Todo(th)[1]
  BY <1>1, KeyIsKey
<1>3. \A t \in Threads : t # th => /\ At(t)' = At(t) /\ Event(t)' = Event(t)
                                   /\ Todo(t)' = Todo(t)
  BY <1>1 DEF At, Event, Todo
<1>4. /\ Len(Tail(Todo(th))) = Len(Todo(th)) - 1 /\ Len(Todo(th)) \in Nat \ {0}
      /\ DOMAIN Tail(Todo(th)) = 1 .. (Len(Todo(th)) - 1)
      /\ \A j \in 1 .. (Len(Todo(th)) - 1) : Tail(Todo(th))[j] = Todo(th)[j + 1]
      /\ DOMAIN Todo(th) = 1 .. Len(Todo(th))
  BY <1>2
<1>5. /\ Todo(th)' = <<>> \/ Todo(th)' = Tail(Todo(th))
      /\ At(th)' # "idle" => Event(th)' = Event(th)
  BY <1>1 DEF At, Event, Todo
<1>6. \A j \in DOMAIN Todo(th)' : Todo(th)'[j][1] # "tx"
  <2>1. \A j \in DOMAIN Tail(Todo(th)) : Tail(Todo(th))[j][1] # "tx"
    <3> SUFFICES ASSUME NEW j \in DOMAIN Tail(Todo(th)), Todo(th)[j + 1][1] = "tx"
                 PROVE  FALSE
      BY <1>4
    <3>1. j + 1 \in DOMAIN Todo(th) /\ j + 1 # 1
      BY <1>4
    <3> QED
      BY <3>1 DEF Trails, TxFirst
  <2>2. \A j \in DOMAIN <<>> : <<>>[j][1] # "tx"
    OBVIOUS
  <2>3. CASE Todo(th)' = <<>>
    BY <2>2, <2>3
  <2>4. CASE Todo(th)' = Tail(Todo(th))
    BY <2>1, <2>4
  <2> QED
    BY <1>5, <2>3, <2>4
<1>7. ASSUME NEW t \in Threads
      PROVE  TxFirst(t)'
  <2>1. CASE t = th
    BY <1>6, <2>1 DEF TxFirst
  <2>2. CASE t # th
    BY <1>1, <1>3, <2>2 DEF Trails, TxFirst
  <2> QED
    BY <2>1, <2>2
<1>8. OneWriter'
  <2>1. \A t \in Threads : At(t)' # "idle" => At(t) # "idle" /\ Event(t)' = Event(t)
    BY <1>1, <1>3, <1>5
  <2> QED
    BY <1>1, <2>1 DEF Trails, OneWriter
<1>9. ASSUME NEW x \in Txs
      PROVE  Trail(x)'
  <2>1. Trail(x) /\ TxKey(x) \in Keys
    BY DEF Trails, Keys, TxKey
  <2>2. ~Owes(th, x)'
    <3>1. Owes(th, x)' => 1 \in DOMAIN Todo(th)' /\ Todo(th)'[1][1] = "tx"
      <4>1. Todo(th)' = <<>> \/ Todo(th)' \in Seq(Keys)
        BY <1>2, <1>5, HeadTailProperties
      <4> QED
        BY <4>1 DEF Owes, TxKey
    <3> QED
      BY <1>6, <3>1
  <2>3. \A t \in Threads : t # th => (Owes(t, x)' <=> Owes(t, x)) /\ Event(t)' = Event(t)
    BY <1>3 DEF Owes
  <2>4. Query(TxKey(x))' = IF TxKey(x) = Key(th) THEN Append(Query(TxKey(x)), Event(th))
                           ELSE Query(TxKey(x))
    BY <2>1, AddQuery
  <2>5. Query(TxKey(x)) \in Seq(1 .. Len(events))
    BY <2>1, QueryTyped
  <2>6. TxKey(x) = Key(th) <=> Owes(th, x)
    BY <1>2 DEF Owes
  <2>7. \A t \in Threads : Owes(t, x)' => \A i \in DOMAIN events : events[i].tx = x => i <= Event(t)'
    BY <2>1, <2>2, <2>3 DEF Trail
  <2>8. CASE ~Owes(th, x)
    <3>1. Query(TxKey(x))' = Query(TxKey(x))
      BY <2>4, <2>6, <2>8
    <3>2. \A i : Listed(x, i)' <=> Listed(x, i)
      BY <3>1 DEF Listed
    <3>3. \A i \in DOMAIN events : (\A t \in Threads : Owes(t, x)' => Event(t)' # i)
                                     <=> (\A t \in Threads : Owes(t, x) => Event(t) # i)
      BY <2>2, <2>3, <2>8
    <3> QED
      BY <1>1, <2>1, <2>7, <3>1, <3>2, <3>3 DEF Trail, Increasing
  <2>9. CASE Owes(th, x)
    <3> DEFINE old == Query(TxKey(x))
               new == Query(TxKey(x))'
    <3>1. events[Event(th)].tx = x /\ ~Listed(x, Event(th))
      BY <1>2, <2>1, <2>9, OwesOwn DEF Trail
    <3>2. /\ new = Append(old, Event(th)) /\ Len(old) \in Nat
          /\ DOMAIN new = 1 .. (Len(old) + 1) /\ DOMAIN old = 1 .. Len(old)
          /\ \A j \in 1 .. Len(old) : new[j] = old[j] /\ old[j] \in 1 .. Len(events)
          /\ new[Len(old) + 1] = Event(th)
      <4>1. new = Append(old, Event(th))
        BY <2>4, <2>6, <2>9
      <4> HIDE DEF new, old
      <4>2. old \in Seq(1 .. Len(events))
        BY <2>5 DEF old
      <4> QED
        BY <1>2, <4>1, <4>2
    <3>3. \A j \in 1 .. Len(old) : old[j] < Event(th)
      <4> SUFFICES ASSUME NEW j \in 1 .. Len(old)
                   PROVE  old[j] < Event(th)
        OBVIOUS
      <4>1. Listed(x, old[j]) /\ old[j] \in DOMAIN events
        BY <3>2 DEF Listed, Shape, TypeOK
      <4>2. events[old[j]].tx = x /\ old[j] # Event(th)
        BY <2>1, <3>1, <4>1 DEF Trail
      <4>3. old[j] <= Event(th)
        BY <2>1, <2>9, <4>1, <4>2 DEF Trail
      <4> QED
        BY <1>2, <3>2, <4>2, <4>3
    <3>4. Increasing(new)
      <4>1. Increasing(old)
        BY <2>1 DEF Trail
      <4> HIDE DEF old, new
      <4> QED
        BY <3>2, <3>3, <4>1 DEF Increasing
    <3>5. \A i : Listed(x, i)' <=> Listed(x, i) \/ i = Event(th)
      <4>1. ASSUME NEW i
            PROVE  (\E j \in DOMAIN new : new[j] = i)
                     <=> (\E j \in DOMAIN old : old[j] = i) \/ i = Event(th)
        <5> HIDE DEF old, new
        <5> QED
          BY <3>2
      <4> QED
        BY <4>1 DEF Listed
    <3>6. \A t \in Threads : Owes(t, x) => t = th
      BY <2>9, <3>1, OwesOwn DEF Trails, OneWriter
    <3>7. \A t \in Threads : ~Owes(t, x)'
      BY <2>2, <2>3, <3>6
    <3>8. ASSUME NEW i \in DOMAIN events
          PROVE  Listed(x, i)' <=> /\ events[i].tx = x
                                   /\ \A t \in Threads : Owes(t, x)' => Event(t)' # i
      <4>1. Listed(x, i) <=> events[i].tx = x /\ Event(th) # i
        BY <2>1, <2>9, <3>6 DEF Trail
      <4> QED
        BY <3>1, <3>5, <3>7, <4>1
    <3> QED
      BY <1>1, <2>1, <2>7, <3>4, <3>8 DEF Trail
  <2> QED
    BY <2>8, <2>9
<1> QED
  BY <1>7, <1>8, <1>9 DEF Trails

LEMMA StepTrails ==
    ASSUME Exclusive, Shape, Trails, [Next]_vars
    PROVE  Trails'
<1>1. ASSUME NEW th \in Threads, NEW d \in Drafts, AppendToLog(th, d)
      PROVE  Trails'
  BY <1>1, LogTrails
<1>2. ASSUME NEW th \in Threads, TestKey(th)
      PROVE  Trails'
  <2>1. /\ At(th) = "test" /\ events' = events /\ index' = index /\ raced' = raced
        /\ append'[th] = [at |-> IF index[Key(th)] = Absent THEN "create" ELSE "add",
                          event |-> Event(th), todo |-> Todo(th)]
        /\ \A other \in Threads : other # th => append'[other] = append[other]
    BY <1>2, TestFacts
  <2>2. \A t \in Threads : /\ Event(t)' = Event(t) /\ Todo(t)' = Todo(t)
                           /\ At(t)' = "idle" <=> At(t) = "idle"
    BY <2>1 DEF At, Event, Todo
  <2>3. \A x \in Txs : TxKey(x) \notin raced' /\ Query(TxKey(x))' = Query(TxKey(x))
    BY <2>1 DEF Query, Trails, Trail
  <2> QED
    BY <2>1, <2>2, <2>3, QuietTrails
<1>3. ASSUME NEW th \in Threads, CreateList(th)
      PROVE  Trails'
  <2>1. /\ At(th) = "create" /\ events' = events
        /\ append'[th] = [at |-> "add", event |-> Event(th), todo |-> Todo(th)]
        /\ \A other \in Threads : other # th => append'[other] = append[other]
    BY <1>3, CreateFacts
  <2>2. \A t \in Threads : /\ Event(t)' = Event(t) /\ Todo(t)' = Todo(t)
                           /\ At(t)' = "idle" <=> At(t) = "idle"
    BY <2>1 DEF At, Event, Todo
  <2>3. ASSUME NEW x \in Txs
        PROVE  TxKey(x) \notin raced'
    <3>1. raced' = raced \cup {k \in {Key(th)} : \E other \in Threads \ {th} :
                                 append[other].at = "create" /\ Key(other) = k}
      BY <1>3 DEF CreateList
    <3> SUFFICES ASSUME NEW other \in Threads \ {th}, At(other) = "create",
                        Key(th) = TxKey(x), Key(other) = TxKey(x)
                 PROVE  FALSE
      BY <3>1 DEF Trails, Trail, At
    <3>2. Owes(th, x) /\ Owes(other, x)
      BY <2>1, KeyIsKey DEF Owes
    <3> QED
      BY <3>2, OwesOwn DEF Trails, OneWriter
  <2>4. \A x \in Txs : Query(TxKey(x))' = Query(TxKey(x))
    <3>1. \A x \in Txs : TxKey(x) \in Keys \ raced'
      BY <2>3 DEF Keys, TxKey
    <3> QED
      BY <1>3, <3>1, CreateQuery
  <2> QED
    BY <2>1, <2>2, <2>3, <2>4, QuietTrails
<1>4. ASSUME NEW th \in Threads, AddToList(th)
      PROVE  Trails'
  BY <1>4, AddTrails
<1>5. CASE UNCHANGED vars
  <2>1. /\ events' = events /\ index' = index /\ append' = append /\ raced' = raced
    BY <1>5 DEF vars
  <2>2. \A t \in Threads : /\ Event(t)' = Event(t) /\ Todo(t)' = Todo(t)
                           /\ At(t)' = "idle" <=> At(t) = "idle"
    BY <2>1 DEF At, Event, Todo
  <2>3. \A x \in Txs : TxKey(x) \notin raced' /\ Query(TxKey(x))' = Query(TxKey(x))
    BY <2>1 DEF Query, Trails, Trail
  <2> QED
    BY <2>1, <2>2, <2>3, QuietTrails
<1> QED
  BY <1>1, <1>2, <1>3, <1>4, <1>5 DEF Next, AppendStep

(* With one writer per transaction at a time, once nobody still has to     *)
(* list an event of it, the list of a transaction has exactly its events,  *)
(* in the order they happened, whatever other transactions do.             *)
THEOREM TrailsAreExact == Exclusive => (Spec => []TransactionTrailIsExact)
<1> SUFFICES ASSUME Exclusive
             PROVE  Spec => []TransactionTrailIsExact
  OBVIOUS
<1>1. Init => Shape /\ Accounted /\ Trails
  BY InitShape, InitAccounted, InitTrails
<1>2. Shape /\ Accounted /\ Trails /\ [Next]_vars => (Shape /\ Accounted /\ Trails)'
  BY StepAccounted, StepTrails
<1>3. Shape /\ Trails => TransactionTrailIsExact
  <2> SUFFICES ASSUME Shape, Trails, NEW x \in Txs, Settled(<<"tx", x>>)
               PROVE  /\ ToSet(Query(TxKey(x))) = {i \in DOMAIN events : events[i].tx = x}
                      /\ Increasing(Query(TxKey(x)))
    BY DEF TransactionTrailIsExact, TxKey, Increasing
  <2>1. Trail(x)
    BY DEF Trails
  <2>2. \A th \in Threads : ~Owes(th, x)
    <3> SUFFICES ASSUME NEW th \in Threads, Todo(th) # <<>>, Todo(th)[1] = TxKey(x)
                 PROVE  FALSE
      BY DEF Owes
    <3>1. 1 \in DOMAIN Todo(th)
      BY PlaceTyped
    <3> QED
      BY <3>1 DEF Settled, Todo, TxKey
  <2>3. \A i \in DOMAIN events : Listed(x, i) <=> events[i].tx = x
    BY <2>1, <2>2 DEF Trail
  <2>4. \A j \in DOMAIN Query(TxKey(x)) : Query(TxKey(x))[j] \in DOMAIN events
    <3>1. Query(TxKey(x)) \in Seq(1 .. Len(events)) /\ DOMAIN events = 1 .. Len(events)
      BY QueryTyped DEF Keys, TxKey, Shape, TypeOK
    <3> QED
      BY <3>1, ElementOfSeq, LenProperties
  <2>5. ToSet(Query(TxKey(x))) = {i \in DOMAIN events : events[i].tx = x}
    BY <2>3, <2>4 DEF Listed, ToSet
  <2> QED
    BY <2>1, <2>5 DEF Trail
<1> QED
  BY <1>1, <1>2, <1>3, PTL DEF Spec

---------------------------------------------------------------------------
(* When no list can be made twice at once, nothing is lost.                *)

(* Transactions that share no account and no user.                         *)
TransactionsApart ==
  \A d, e \in Drafts : (\E k \in Keys : IsUnder(d, k) /\ IsUnder(e, k)) => d.tx = e.tx

(* What a thread still has to list its event under are keys of the event.  *)
OwnKeys == \A th \in Threads : \A i \in DOMAIN Todo(th) : IsUnder(events[Event(th)], Todo(th)[i])

LEMMA OwnKeysStep ==
    ASSUME Shape, OwnKeys, [Next]_vars
    PROVE  OwnKeys'
<1> SUFFICES ASSUME NEW t \in Threads, NEW i \in DOMAIN Todo(t)'
             PROVE  IsUnder(events'[Event(t)'], Todo(t)'[i])
  BY DEF OwnKeys
<1>0. \A j \in DOMAIN Todo(t) : /\ IsUnder(events[Event(t)], Todo(t)[j])
                                /\ Event(t) \in DOMAIN events
  <2> SUFFICES ASSUME NEW j \in DOMAIN Todo(t)
               PROVE  Event(t) \in DOMAIN events
    BY DEF OwnKeys
  <2>1. At(t) # "idle"
    BY PlaceTyped
  <2> QED
    BY <2>1, KeyIsKey
<1>1. ASSUME NEW th \in Threads, NEW d \in Drafts, AppendToLog(th, d)
      PROVE  IsUnder(events'[Event(t)'], Todo(t)'[i])
  <2>1. /\ events'[Len(events) + 1] = d
        /\ \A j \in DOMAIN events : events'[j] = events[j]
        /\ append'[th] = [at |-> "test", event |-> Len(events) + 1, todo |-> KeysOf(d)]
        /\ \A other \in Threads : other # th => append'[other] = append[other]
    BY <1>1, LogFacts
  <2>2. CASE t = th
    <3>1. Event(t)' = Len(events) + 1 /\ Todo(t)' = KeysOf(d)
      BY <2>1, <2>2 DEF Event, Todo
    <3> QED
      BY <2>1, <3>1 DEF IsUnder
  <2>3. CASE t # th
    <3>1. Event(t)' = Event(t) /\ Todo(t)' = Todo(t)
      BY <2>1, <2>3 DEF Event, Todo
    <3> QED
      BY <1>0, <2>1, <3>1
  <2> QED
    BY <2>2, <2>3
<1>2. ASSUME events' = events, Event(t)' = Event(t), Todo(t)' = Todo(t)
      PROVE  IsUnder(events'[Event(t)'], Todo(t)'[i])
  BY <1>0, <1>2
<1>3. ASSUME NEW th \in Threads, TestKey(th) \/ CreateList(th)
      PROVE  IsUnder(events'[Event(t)'], Todo(t)'[i])
  <2>1. /\ events' = events
        /\ \E at : append'[th] = [at |-> at, event |-> Event(th), todo |-> Todo(th)]
        /\ \A other \in Threads : other # th => append'[other] = append[other]
    <3>1. CASE TestKey(th)
      <4> DEFINE at == IF index[Key(th)] = Absent THEN "create" ELSE "add"
      <4>1. /\ events' = events
            /\ append'[th] = [at |-> at, event |-> Event(th), todo |-> Todo(th)]
            /\ \A other \in Threads : other # th => append'[other] = append[other]
        BY <3>1, TestFacts
      <4> HIDE DEF at
      <4> QED
        BY <4>1
    <3>2. CASE CreateList(th)
      <4>1. /\ events' = events
            /\ append'[th] = [at |-> "add", event |-> Event(th), todo |-> Todo(th)]
            /\ \A other \in Threads : other # th => append'[other] = append[other]
        BY <3>2, CreateFacts
      <4> QED
        BY <4>1
    <3> QED
      BY <1>3, <3>1, <3>2
  <2>2. Event(t)' = Event(t) /\ Todo(t)' = Todo(t)
    BY <2>1 DEF Event, Todo
  <2> QED
    BY <1>2, <2>1, <2>2
<1>4. ASSUME NEW th \in Threads, AddToList(th)
      PROVE  IsUnder(events'[Event(t)'], Todo(t)'[i])
  <2>1. /\ At(th) = "add" /\ events' = events
        /\ append'[th] = IF Len(Todo(th)) = 1 THEN [at |-> "idle", event |-> 0, todo |-> <<>>]
                         ELSE [at |-> "test", event |-> Event(th), todo |-> Tail(Todo(th))]
        /\ \A other \in Threads : other # th => append'[other] = append[other]
    BY <1>4, AddFacts
  <2>2. CASE t # th
    BY <1>2, <2>1, <2>2 DEF Event, Todo
  <2>3. CASE t = th
    <3>1. Todo(th) \in Seq(Keys) /\ Todo(th) # <<>>
      BY <2>1, KeyIsKey
    <3>2. Len(Todo(th)) # 1
      <4>1. ASSUME Len(Todo(th)) = 1 PROVE FALSE
        <5>1. Todo(t)' = <<>>
          BY <2>1, <2>3, <4>1 DEF Todo
        <5> QED
          BY <5>1
      <4> QED
        BY <4>1
    <3>3. Event(t)' = Event(th) /\ Todo(t)' = Tail(Todo(th))
      <4> DEFINE rest == Tail(Todo(th))
      <4>1. append'[th] = [at |-> "test", event |-> Event(th), todo |-> rest]
        BY <2>1, <3>2
      <4> HIDE DEF rest
      <4>2. append'[t].event = Event(th) /\ append'[t].todo = rest
        BY <2>3, <4>1
      <4> QED
        BY <4>2 DEF rest, Event, Todo
    <3>4. i + 1 \in DOMAIN Todo(th) /\ Tail(Todo(th))[i] = Todo(th)[i + 1]
      <4>1. i \in DOMAIN Tail(Todo(th))
        BY <3>3
      <4>2. DOMAIN Tail(Todo(th)) = 1 .. Len(Tail(Todo(th)))
            /\ Len(Tail(Todo(th))) = Len(Todo(th)) - 1 /\ Len(Todo(th)) \in Nat
            /\ DOMAIN Todo(th) = 1 .. Len(Todo(th))
        BY <3>1, HeadTailProperties, LenProperties
      <4>3. i \in 1 .. Len(Tail(Todo(th)))
        BY <4>1, <4>2
      <4>4. Tail(Todo(th))[i] = Todo(th)[i + 1]
        BY <3>1, <4>3, HeadTailProperties
      <4> DEFINE s == Todo(th)
                 n == Len(Tail(s))
      <4> HIDE DEF s, n
      <4>5. i \in 1 .. n /\ n = Len(s) - 1 /\ Len(s) \in Nat
        BY <4>2, <4>3 DEF s, n
      <4>6. i + 1 \in 1 .. Len(s)
        BY <4>5
      <4> QED
        BY <4>2, <4>4, <4>6 DEF s
    <3> QED
      BY <1>0, <2>1, <2>3, <3>3, <3>4
  <2> QED
    BY <2>2, <2>3
<1>5. CASE UNCHANGED vars
  BY <1>2, <1>5 DEF vars, Event, Todo
<1> QED
  BY <1>1, <1>3, <1>4, <1>5 DEF Next, AppendStep

(* A list is made twice at once only by two threads that have the key to   *)
(* themselves at the same moment.                                          *)
LEMMA NoRaceStep ==
    ASSUME Shape, raced = {}, [Next]_vars,
           \A th, other \in Threads :
             /\ At(th) = "create" /\ At(other) = "create" /\ Key(other) = Key(th)
             => th = other
    PROVE  raced' = {}
<1>1. ASSUME NEW th \in Threads, CreateList(th)
      PROVE  raced' = {}
  <2>1. At(th) = "create"
        /\ raced' = raced \cup {k \in {Key(th)} : \E other \in Threads \ {th} :
                                  At(other) = "create" /\ Key(other) = k}
    BY <1>1 DEF CreateList, At
  <2> QED
    BY <2>1
<1>2. ASSUME NEW th \in Threads,
             TestKey(th) \/ AddToList(th) \/ \E d \in Drafts : AppendToLog(th, d)
      PROVE  raced' = {}
  BY <1>2 DEF TestKey, AddToList, AppendToLog
<1>3. CASE UNCHANGED vars
  BY <1>3 DEF vars
<1> QED
  BY <1>1, <1>2, <1>3 DEF Next, AppendStep

LEMMA NothingLost ==
    ASSUME LossNeedsRacingCreation, Shape, raced = {}
    PROVE  AuditTrailIsComplete
<1> SUFFICES ASSUME NEW k \in Keys, Settled(k), NEW i \in DOMAIN events, IsUnder(events[i], k)
             PROVE  Times(Query(k), i) > 0
  BY DEF AuditTrailIsComplete
<1>1. Times(Query(k), i) = Times(KeysOf(events[i]), k)
  BY DEF LossNeedsRacingCreation
<1>2. events[i] \in Drafts
  BY ElementOfSeq, LenProperties DEF Shape, TypeOK
<1>3. KeysOf(events[i]) \in Seq(Keys)
  BY <1>2, KeysOfDraft
<1>4. Times(KeysOf(events[i]), k) # 0
  <2>1. ASSUME Times(KeysOf(events[i]), k) = 0 PROVE FALSE
    BY <1>3, <2>1, TimesPresent DEF IsUnder
  <2> QED
    BY <2>1
<1>5. Times(KeysOf(events[i]), k) \in Nat
  BY <1>3, TimesIsNat
<1> QED
  BY <1>1, <1>4, <1>5

(* "Complete audit trail" (event_store.py:7) for a store that one thread   *)
(* appends to: an event is found under its transaction, its accounts and   *)
(* its user as soon as its append_event is over.                           *)
THEOREM OneThreadLosesNothing ==
  ASSUME \A th, other \in Threads : th = other
  PROVE  Spec => []AuditTrailIsComplete
<1>1. Init => Shape /\ Accounted /\ raced = {}
  BY InitShape, InitAccounted DEF Init
<1>2. Shape /\ Accounted /\ raced = {} /\ [Next]_vars
        => (Shape /\ Accounted /\ raced = {})'
  BY StepAccounted, NoRaceStep
<1>3. LossNeedsRacingCreation /\ Shape /\ raced = {} => AuditTrailIsComplete
  BY NothingLost
<1> QED
  BY <1>1, <1>2, <1>3, LossNeedsARace, PTL DEF Spec

(* The same for any number of threads, as the queue uses the store (one    *)
(* writer per transaction at a time), when no two transactions share an    *)
(* account or a user: what the run event_store_audit shows lost is lost    *)
(* only where two transactions meet.                                       *)
THEOREM ApartLosesNothing ==
  ASSUME Exclusive, TransactionsApart
  PROVE  Spec => []AuditTrailIsComplete
<1>1. Init => Shape /\ Accounted /\ Trails /\ OwnKeys /\ raced = {}
  BY InitShape, InitAccounted, InitTrails DEF Init, IdleAppend, OwnKeys, Todo
<1>2. Shape /\ Accounted /\ Trails /\ OwnKeys /\ raced = {} /\ [Next]_vars
        => (Shape /\ Accounted /\ Trails /\ OwnKeys /\ raced = {})'
  <2> SUFFICES ASSUME Shape, Accounted, Trails, OwnKeys, raced = {}, [Next]_vars
               PROVE  (Shape /\ Accounted /\ Trails /\ OwnKeys /\ raced = {})'
    OBVIOUS
  <2>1. ASSUME NEW th \in Threads, NEW other \in Threads, At(th) = "create",
               At(other) = "create", Key(other) = Key(th)
        PROVE  th = other
    <3>1. ASSUME NEW t \in Threads, At(t) = "create"
          PROVE  /\ events[Event(t)] \in Drafts /\ Key(t) \in Keys
                 /\ IsUnder(events[Event(t)], Key(t))
      <4>1. /\ Todo(t) \in Seq(Keys) /\ Todo(t) # <<>> /\ Key(t) = Todo(t)[1]
            /\ Key(t) \in Keys /\ Event(t) \in DOMAIN events
        BY <3>1, KeyIsKey
      <4>2. 1 \in DOMAIN Todo(t)
        BY <4>1
      <4>3. IsUnder(events[Event(t)], Key(t))
        BY <4>1, <4>2 DEF OwnKeys
      <4>4. events[Event(t)] \in Drafts
        BY <4>1, ElementOfSeq, LenProperties DEF Shape, TypeOK
      <4> QED
        BY <4>1, <4>3, <4>4
    <3>2. events[Event(th)].tx = events[Event(other)].tx
      BY <2>1, <3>1 DEF TransactionsApart
    <3> QED
      BY <2>1, <3>2 DEF Trails, OneWriter
  <2>2. raced' = {}
    BY <2>1, NoRaceStep
  <2> QED
    BY <2>2, StepAccounted, StepTrails, OwnKeysStep
<1>3. LossNeedsRacingCreation /\ Shape /\ raced = {} => AuditTrailIsComplete
  BY NothingLost
<1> QED
  BY <1>1, <1>2, <1>3, LossNeedsARace, PTL DEF Spec

=============================================================================
