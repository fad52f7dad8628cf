----------------------------- MODULE MoneyProofs -----------------------------
(***************************************************************************)
(* Proofs about the money routes.  Every request opens a unit of work,     *)
(* makes session calls and commits; the first part says what each call     *)
(* does to a sound unit of work, the second that every request leaves      *)
(* sound stores.                                                           *)
(***************************************************************************)
EXTENDS MoneyRoutes, FiniteSetTheorems, SequenceTheorems,
        WellFoundedInduction, TLAPS

(* A checking account that is not a business's and was not overdrawn from  *)
(* the start: what no request may take below zero.                         *)
Guarded(a) == a \in Owned /\ Kind[a] = "checking" /\ a \notin Business
                 /\ Seed["Account"][a] >= 0

(* The data a record of class c may have under id i. *)
Allowed(c, i) == IF c = "Account" THEN {x \in Cents : Guarded(i) => x >= 0} ELSE Records(c)

Data == UNION {Records(c) : c \in Classes}

Objects == [class : Classes \cup {Generic}, id : Positive, tracked : BOOLEAN, data : Data]

Bounded(S) == \E m \in Nat : S \subseteq 1..m

Stored(store) ==
    /\ DOMAIN store = Classes
    /\ \A c \in Classes : /\ Bounded(DOMAIN store[c])
                          /\ store[c] \in [DOMAIN store[c] -> Data]
                          /\ \A i \in DOMAIN store[c] : store[c][i] \in Allowed(c, i)

Pending(objs, list, tracked) ==
    /\ list \in Seq(DOMAIN objs)
    /\ \A k \in DOMAIN list : objs[list[k]].tracked = tracked

(* What the objects of a unit of work are that makes objects of the        *)
(* classes M only.                                                         *)
Fits(o, M) ==
    /\ IF o.tracked THEN o.class \in Typed \cup {Generic} ELSE o.class \in M
    /\ o.class \in Classes => o.data \in Allowed(o.class, o.id)

ObjectsSound(objs, M) ==
    /\ objs \in Seq(Objects)
    /\ \A h \in DOMAIN objs : Fits(objs[h], M)

Parts == {"store", "counter", "objs", "adds", "updates", "deletes"}

Sound(v, M) ==
    /\ DOMAIN v = Parts
    /\ v.counter \in [Classes -> Positive]
    /\ Stored(v.store)
    /\ ObjectsSound(v.objs, M)
    /\ Pending(v.objs, v.adds, FALSE)
    /\ Pending(v.objs, v.updates, TRUE)
    /\ Pending(v.objs, v.deletes, TRUE)

(* Sets of classes a request may make objects of; accounts are not made. *)
Makes == SUBSET (Classes \ {"Account"})

---------------------------------------------------------------------------
(* Rounding.  The parts an amount has over its whole cents are counted     *)
(* from whole cents, in either direction.                                  *)
LEMMA OverRange ==
    ASSUME NEW x \in Int
    PROVE  Over(x) \in Int /\ 0 <= Over(x) /\ Over(x) < Cent
BY CentAssumption DEF Over

LEMMA OverCents ==
    ASSUME NEW x \in Int
    PROVE  \E q \in Int : x = Cent * q + Over(x)
<1>1. x \div Cent \in Int /\ x = Cent * (x \div Cent) + (x % Cent)
  BY CentAssumption
<1> QED BY <1>1 DEF Over

LEMMA OverOf ==
    ASSUME NEW q \in Int, NEW r \in Int, 0 <= r, r < Cent
    PROVE  Over(Cent * q + r) = r
BY CentAssumption DEF Over

LEMMA OverOfCents ==
    ASSUME NEW q \in Int
    PROVE  Over(Cent * q) = 0
<1>1. PICK r \in Int : r = 0
  OBVIOUS
<1>4. 0 <= r /\ r < Cent
  BY <1>1, CentAssumption
<1>2. Over(Cent * q + r) = r
  BY <1>4, OverOf
<1>3. Cent * q + r = Cent * q
  BY <1>1, CentAssumption
<1> QED BY <1>1, <1>2, <1>3

LEMMA OverShifted ==
    ASSUME NEW b \in Int, Whole(b), NEW d \in Int
    PROVE  Over(b + d) = Over(d)
<1>1. PICK p \in Int : b = Cent * p + Over(b)
  BY OverCents
<1>2. PICK q \in Int : d = Cent * q + Over(d)
  BY OverCents
<1>3. PICK r \in Int : r = Over(d) /\ 0 <= r /\ r < Cent
  BY OverRange
<1>4. PICK s \in Int : s = p + q
  OBVIOUS
<1>5. b + d = Cent * s + r
  <2>1. b = Cent * p /\ d = Cent * q + r
    BY <1>1, <1>2, <1>3, CentAssumption DEF Whole
  <2>2. Cent * s = Cent * p + Cent * q
    BY <1>4, CentAssumption
  <2>3. Cent * p \in Int /\ Cent * q \in Int /\ Cent * s \in Int
    BY CentAssumption
  <2> QED BY <1>3, <2>1, <2>2, <2>3
<1>6. Over(Cent * s + r) = r
  BY <1>3, OverOf
<1> QED BY <1>3, <1>5, <1>6

LEMMA OverNegated ==
    ASSUME NEW d \in Int
    PROVE  Over(-d) = IF Over(d) = 0 THEN 0 ELSE Cent - Over(d)
<1>1. PICK q \in Int : d = Cent * q + Over(d)
  BY OverCents
<1>2. PICK r \in Int : r = Over(d) /\ 0 <= r /\ r < Cent
  BY OverRange
<1>3. CASE r = 0
  <2>1. PICK s \in Int : s = -q
    OBVIOUS
  <2>2. -d = Cent * s
    BY <1>1, <1>2, <1>3, <2>1, CentAssumption
  <2>3. Over(Cent * s) = 0
    BY <2>1, OverOfCents
  <2> QED BY <1>2, <1>3, <2>2, <2>3
<1>4. CASE r # 0
  <2>1. PICK s \in Int : s = -q - 1
    OBVIOUS
  <2>2. PICK t \in Int : t = Cent - r /\ 0 <= t /\ t < Cent
    BY <1>2, <1>4, CentAssumption
  <2>3. -d = Cent * s + t
    <3>1. Cent * s = -(Cent * q) - Cent
      BY <2>1, CentAssumption
    <3>2. d = Cent * q + r
      BY <1>1, <1>2
    <3>3. Cent * q \in Int /\ Cent * s \in Int
      BY CentAssumption
    <3> QED BY <1>2, <2>2, <3>1, <3>2, <3>3, CentAssumption
  <2>4. Over(Cent * s + t) = t
    BY <2>2, OverOf
  <2> QED BY <1>2, <1>4, <2>2, <2>3, <2>4
<1> QED BY <1>3, <1>4

LEMMA NearestParts ==
    ASSUME NEW x \in Int
    PROVE  /\ Nearest(x) \in Int
           /\ Whole(Nearest(x))
           /\ 2 * (Nearest(x) - x) <= Cent
           /\ 2 * (x - Nearest(x)) < Cent
           /\ x >= 0 => Nearest(x) >= 0
<1>1. PICK r \in Int : r = Over(x) /\ 0 <= r /\ r < Cent
  BY OverRange
<1>2. PICK q \in Int : x = Cent * q + r
  BY <1>1, OverCents
<1>3. PICK p \in Int : p = Cent * q
  BY CentAssumption
<1>10. Cent \in Int /\ Cent > 0
  BY CentAssumption
<1>9. x = p + r
  BY <1>2, <1>3
<1>4. PICK n \in Int : n = IF 2 * r < Cent THEN x - r ELSE (x - r) + Cent
  BY <1>1, CentAssumption
<1>11. n = p \/ n = p + Cent
  BY <1>9, <1>4, <1>10
<1>5. Nearest(x) = n
  BY <1>1, <1>4 DEF Nearest
<1>6. Whole(n)
  <2>1. Over(Cent * q) = 0
    BY OverOfCents
  <2>2. PICK s \in Int : s = q + 1
    OBVIOUS
  <2>3. Over(Cent * s) = 0
    BY <2>2, OverOfCents
  <2>4. Cent * s = p + Cent
    BY <1>3, <2>2, CentAssumption
  <2> QED BY <1>3, <2>1, <2>3, <2>4, <1>11 DEF Whole
<1>7. /\ 2 * (n - x) <= Cent
      /\ 2 * (x - n) < Cent
  BY <1>1, <1>4, CentAssumption
<1>8. x >= 0 => n >= 0
  <2>1. ASSUME x >= 0 PROVE q >= 0
    BY <1>1, <1>2, <2>1, CentAssumption
  <2>2. q >= 0 => p >= 0
    BY <1>3, CentAssumption
  <2>3. x >= 0 => p >= 0
    BY <2>1, <2>2
  <2> QED BY <1>11, <1>10, <2>3
<1> QED BY <1>5, <1>6, <1>7, <1>8

LEMMA NearestShifted ==
    ASSUME NEW b \in Int, Whole(b), NEW d \in Int
    PROVE  Nearest(b + d) = b + Nearest(d)
<1>1. PICK r \in Int : r = Over(d) /\ r = Over(b + d)
  BY OverShifted, OverRange
<1> QED BY <1>1, CentAssumption DEF Nearest

LEMMA NearestNegated ==
    ASSUME NEW d \in Int, ~Halfway(d)
    PROVE  Nearest(-d) = -Nearest(d)
<1>1. PICK r \in Int : r = Over(d) /\ 0 <= r /\ r < Cent
  BY OverRange
<1>2. PICK s \in Int : s = Over(-d) /\ s = IF r = 0 THEN 0 ELSE Cent - r
  BY <1>1, OverNegated, OverRange, CentAssumption
<1>3. 2 * r # Cent
  BY <1>1 DEF Halfway
<1> QED BY <1>1, <1>2, <1>3, CentAssumption DEF Nearest

(* Money is rounded to the nearest whole cent, half a cent away from zero. *)
LEMMA RoundedTyped ==
    ASSUME NEW x \in Int
    PROVE  Rounded(x) \in Int /\ Rounded(x) \in Cents
<1>1. PICK y \in Int : y = -x
  OBVIOUS
<1>2. Nearest(x) \in Int /\ Whole(Nearest(x)) /\ Nearest(y) \in Int /\ Whole(Nearest(y))
  BY NearestParts
<1>3. PICK n \in Int : n = Nearest(y)
  BY <1>2
<1>4. -n \in Int /\ Whole(-n)
  BY <1>2, <1>3, OverNegated DEF Whole
<1> QED BY <1>1, <1>2, <1>3, <1>4 DEF Rounded, Cents

LEMMA CentsTyped ==
    ASSUME NEW x \in Cents
    PROVE  x \in Int /\ Whole(x)
BY DEF Cents

LEMMA RoundedClose ==
    ASSUME NEW x \in Int
    PROVE  2 * Rounded(x) - Cent <= 2 * x
<1>1. PICK y \in Int : y = -x
  OBVIOUS
<1>2. PICK m \in Int : m = Nearest(x) /\ 2 * (m - x) <= Cent
  BY NearestParts
<1>3. PICK n \in Int : n = Nearest(y) /\ 2 * (y - n) < Cent
  BY NearestParts
<1>4. Rounded(x) = IF x >= 0 THEN m ELSE -n
  BY <1>1, <1>2, <1>3 DEF Rounded
<1> QED BY <1>1, <1>2, <1>3, <1>4, CentAssumption

LEMMA RoundedNatural ==
    ASSUME NEW x \in Int, x >= 0
    PROVE  Rounded(x) \in Nat
BY NearestParts DEF Rounded

LEMMA RoundedNegated ==
    ASSUME NEW x \in Int
    PROVE  Rounded(-x) = -Rounded(x)
<1>1. PICK y \in Int : y = -x
  OBVIOUS
<1>2. -y = x
  BY <1>1
<1>3. PICK m \in Int, n \in Int : m = Nearest(x) /\ n = Nearest(y)
  BY NearestParts
<1>4. x # 0 => Rounded(x) = (IF x >= 0 THEN m ELSE -n) /\ Rounded(y) = (IF y >= 0 THEN n ELSE -m)
  BY <1>2, <1>1, <1>3 DEF Rounded
<1>5. Rounded(0) = 0
  BY CentAssumption DEF Rounded, Nearest, Over
<1>6. CASE x = 0
  BY <1>5, <1>6
<1>7. CASE x # 0
  BY <1>1, <1>3, <1>4, <1>7
<1> QED BY <1>6, <1>7

(* From a whole number of cents, a change is rounded the way it is by      *)
(* itself unless it ends in half a cent, ...                               *)
LEMMA RoundedShifted ==
    ASSUME NEW b \in Cents, NEW d \in Int, ~Halfway(d)
    PROVE  Rounded(b + d) = b + Rounded(d)
<1>1. b \in Int /\ Whole(b)
  BY CentsTyped
<1>2. PICK m \in Int : m = Nearest(d)
  BY NearestParts
<1>3. ASSUME NEW x \in Int, ~Halfway(x) PROVE Rounded(x) = Nearest(x)
  <2>1. PICK y \in Int : y = -x
    OBVIOUS
  <2>2. PICK n \in Int : n = Nearest(x)
    BY NearestParts
  <2>3. Nearest(y) = -n
    BY <1>3, <2>1, <2>2, NearestNegated
  <2> QED BY <2>1, <2>2, <2>3 DEF Rounded
<1>4. PICK x \in Int : x = b + d
  BY <1>1
<1>5. ~Halfway(x)
  BY <1>1, <1>4, OverShifted DEF Halfway
<1> QED BY <1>1, <1>3, <1>4, <1>5, NearestShifted

(* ... and always if nothing is negative. *)
LEMMA RoundedAdded ==
    ASSUME NEW b \in Cents, NEW d \in Int, b >= 0, d >= 0
    PROVE  Rounded(b + d) = b + Rounded(d)
<1>1. b \in Int /\ Whole(b)
  BY CentsTyped
<1>2. b + d >= 0
  BY <1>1
<1> QED BY <1>1, <1>2, NearestShifted DEF Rounded

LEMMA RoundedWhole ==
    ASSUME NEW x \in Int, Whole(x)
    PROVE  Rounded(x) = x /\ ~Halfway(x)
<1>1. PICK y \in Int : y = -x
  OBVIOUS
<1>2. Over(x) = 0 /\ Over(y) = 0
  BY <1>1, OverNegated DEF Whole
<1>3. Nearest(x) = x /\ Nearest(y) = y
  BY <1>2, CentAssumption DEF Nearest
<1> QED BY <1>1, <1>2, <1>3, CentAssumption DEF Rounded, Halfway

LEMMA CentsClosed ==
    ASSUME NEW x \in Cents, NEW y \in Cents
    PROVE  x + y \in Cents /\ x - y \in Cents /\ -x \in Cents
<1>1. x \in Int /\ y \in Int /\ Whole(x) /\ Whole(y)
  BY CentsTyped
<1>2. PICK n \in Int : n = -y
  BY <1>1
<1>3. Whole(n) /\ Whole(-x)
  BY <1>1, <1>2, OverNegated DEF Whole
<1>4. Whole(x + y) /\ Whole(x + n)
  BY <1>1, <1>2, <1>3, OverShifted DEF Whole
<1>5. x + n = x - y
  BY <1>1, <1>2
<1> QED BY <1>1, <1>3, <1>4, <1>5 DEF Cents

LEMMA HalfwayNegated ==
    ASSUME NEW x \in Int
    PROVE  Halfway(-x) = Halfway(x)
<1>1. PICK r \in Int : r = Over(x) /\ 0 <= r /\ r < Cent
  BY OverRange
<1>2. PICK s \in Int : s = Over(-x) /\ s = IF r = 0 THEN 0 ELSE Cent - r
  BY <1>1, OverNegated, OverRange, CentAssumption
<1>3. (2 * s = Cent) <=> (2 * r = Cent)
  BY <1>1, <1>2, CentAssumption
<1> QED BY <1>1, <1>2, <1>3 DEF Halfway

---------------------------------------------------------------------------
(* The natural numbers are well-founded: a non-empty set has a least one. *)
LEMMA LeastNatural ==
    ASSUME NEW U, U \subseteq Nat, U # {}
    PROVE  \E x \in U : \A y \in U : x <= y
<1> DEFINE R == OpToRel(<, Nat)
<1>1. \E x \in U : \A y \in U : ~(<<y, x>> \in R)
  BY NatLessThanWellFounded, WFMin
<1>2. ASSUME NEW x \in Nat, NEW y \in Nat, ~(<<y, x>> \in R)
      PROVE  x <= y
  BY <1>2 DEF OpToRel
<1> QED
  BY <1>1, <1>2

(* Induction up to n, for membership of a set. *)
LEMMA UpTo ==
  ASSUME NEW n \in Nat, NEW G, 0 \in G, \A i \in 1 .. n : i - 1 \in G => i \in G
  PROVE  \A i \in 0 .. n : i \in G
<1> DEFINE Bad == {i \in 0 .. n : i \notin G}
<1> SUFFICES ASSUME Bad # {}
             PROVE  FALSE
  OBVIOUS
<1>1. PICK i \in Bad : \A k \in Bad : i <= k
  <2>1. Bad \subseteq Nat
    OBVIOUS
  <2> HIDE DEF Bad
  <2> QED
    BY <2>1, LeastNatural
<1>2. i \in 1 .. n /\ i - 1 \in 0 .. n
  OBVIOUS
<1>3. i - 1 \in G
  BY <1>1, <1>2
<1> QED
  BY <1>2, <1>3

LEMMA LargestIsMax ==
    ASSUME NEW S, Bounded(S)
    PROVE  /\ Largest(S) \in Nat
           /\ \A n \in S : n \in Nat /\ n <= Largest(S)
           /\ S # {} => Largest(S) \in S
<1>1. CASE S = {}
  BY <1>1 DEF Largest
<1>2. CASE S # {}
  <2> DEFINE U == {m \in Nat : \A s \in S : s <= m}
  <2>1. PICK m \in Nat : S \subseteq 1..m
    BY DEF Bounded
  <2>2. S \subseteq Nat /\ m \in U
    BY <2>1
  <2>3. PICK x \in U : \A y \in U : x <= y
    BY <2>2, LeastNatural
  <2>4. x \in S
    <3> SUFFICES ASSUME x \notin S
                 PROVE  FALSE
      OBVIOUS
    <3>1. \A s \in S : s < x
      BY <2>2, <2>3
    <3>2. x \in Nat /\ x - 1 \in Nat
      <4>1. PICK s \in S : TRUE
        BY <1>2
      <4>2. s \in Nat /\ s < x /\ x \in Nat
        BY <2>2, <2>3, <3>1, <4>1
      <4> QED
        BY <4>2
    <3>3. \A s \in S : s <= x - 1
      BY <2>2, <3>1, <3>2
    <3>4. x - 1 \in U /\ ~(x <= x - 1)
      BY <3>2, <3>3
    <3> QED
      BY <2>3, <3>4
  <2> QED
    BY <1>2, <2>2, <2>3, <2>4 DEF Largest
<1> QED
  BY <1>1, <1>2

---------------------------------------------------------------------------
(* Data and objects. *)
LEMMA AllowedFacts ==
    ASSUME NEW c \in Classes, NEW i
    PROVE  Allowed(c, i) \subseteq Records(c) /\ Allowed(c, i) \subseteq Data
<1>1. Records("Account") = Cents
  BY DEF Records
<1>2. Allowed(c, i) \subseteq Records(c)
  BY <1>1 DEF Allowed
<1> QED
  BY <1>2 DEF Data

LEMMA AllowedLoosely ==
    ASSUME NEW c, c # "Account", NEW i
    PROVE  Allowed(c, i) = Records(c)
BY DEF Allowed

LEMMA ObjectAppended ==
    ASSUME NEW M, NEW objs, ObjectsSound(objs, M), NEW o \in Objects, Fits(o, M)
    PROVE  /\ ObjectsSound(Append(objs, o), M)
           /\ Len(Append(objs, o)) = Len(objs) + 1
           /\ Len(objs) + 1 \in DOMAIN Append(objs, o)
           /\ Append(objs, o)[Len(objs) + 1] = o
           /\ \A h \in DOMAIN objs : Append(objs, o)[h] = objs[h]
           /\ \A list, t : Pending(objs, list, t) => Pending(Append(objs, o), list, t)
<1> DEFINE new == Append(objs, o)
<1>1. /\ new \in Seq(Objects)
      /\ Len(new) = Len(objs) + 1
      /\ DOMAIN new = 1..(Len(objs) + 1)
      /\ DOMAIN objs = 1..Len(objs) /\ Len(objs) \in Nat
      /\ new[Len(objs) + 1] = o
      /\ \A h \in DOMAIN objs : new[h] = objs[h]
  BY DEF ObjectsSound
<1>2. ObjectsSound(new, M)
  <2> SUFFICES ASSUME NEW h \in DOMAIN new
               PROVE  Fits(new[h], M)
    BY <1>1 DEF ObjectsSound
  <2>1. CASE h = Len(objs) + 1
    BY <1>1, <2>1
  <2>2. CASE h # Len(objs) + 1
    <3>1. h \in DOMAIN objs
      BY <1>1, <2>2
    <3> QED
      BY <1>1, <3>1 DEF ObjectsSound
  <2> QED
    BY <2>1, <2>2
<1>3. ASSUME NEW list, NEW t, Pending(objs, list, t)
      PROVE  Pending(new, list, t)
  <2>1. list \in Seq(DOMAIN new)
    BY <1>1, <1>3 DEF Pending
  <2>2. \A k \in DOMAIN list : list[k] \in DOMAIN objs
    BY <1>3 DEF Pending
  <2> QED
    BY <1>1, <1>3, <2>1, <2>2 DEF Pending
<1> QED
  BY <1>1, <1>2, <1>3

LEMMA EntryAppended ==
    ASSUME NEW objs, NEW list, NEW t, Pending(objs, list, t),
           NEW h \in DOMAIN objs, objs[h].tracked = t
    PROVE  Pending(objs, Append(list, h), t)
<1> DEFINE new == Append(list, h)
<1>1. /\ new \in Seq(DOMAIN objs)
      /\ DOMAIN new = 1..(Len(list) + 1)
      /\ DOMAIN list = 1..Len(list) /\ Len(list) \in Nat
      /\ new[Len(list) + 1] = h
      /\ \A k \in DOMAIN list : new[k] = list[k]
  BY DEF Pending
<1>2. ASSUME NEW k \in DOMAIN new
      PROVE  objs[new[k]].tracked = t
  <2>1. CASE k = Len(list) + 1
    BY <1>1, <2>1
  <2>2. CASE k # Len(list) + 1
    <3>1. k \in DOMAIN list
      BY <1>1, <2>2
    <3> QED
      BY <1>1, <3>1 DEF Pending
  <2> QED
    BY <2>1, <2>2
<1> QED
  BY <1>1, <1>2 DEF Pending

LEMMA ObjectsReplaced ==
    ASSUME NEW M, NEW objs, ObjectsSound(objs, M),
           NEW new \in Seq(Objects), DOMAIN new = DOMAIN objs,
           \A h \in DOMAIN objs : new[h].tracked = objs[h].tracked /\ Fits(new[h], M)
    PROVE  /\ ObjectsSound(new, M)
           /\ \A list, t : Pending(objs, list, t) => Pending(new, list, t)
<1>1. ObjectsSound(new, M)
  BY DEF ObjectsSound
<1>2. ASSUME NEW list, NEW t, Pending(objs, list, t)
      PROVE  Pending(new, list, t)
  <2>1. \A k \in DOMAIN list : list[k] \in DOMAIN objs
    BY <1>2 DEF Pending
  <2> QED
    BY <1>2, <2>1 DEF Pending
<1> QED
  BY <1>1, <1>2

LEMMA NothingPending ==
    ASSUME NEW objs, NEW t
    PROVE  Pending(objs, <<>>, t)
<1> QED
  BY DEF Pending

LEMMA IdsArePositive ==
    ASSUME NEW store, Stored(store), NEW c \in Classes
    PROVE  DOMAIN store[c] \subseteq Positive
<1>1. PICK m \in Nat : DOMAIN store[c] \subseteq 1..m
  BY DEF Stored, Bounded
<1> QED
  BY <1>1 DEF Positive

---------------------------------------------------------------------------
(* What each session call makes of a sound unit of work. *)
LEMMA OpenFacts ==
    ASSUME NEW d, Stored(d.store), d.counter \in [Classes -> Positive], NEW M
    PROVE  /\ Sound(Open(d), M)
           /\ Open(d).store = d.store /\ Open(d).counter = d.counter
           /\ Len(Open(d).objs) = 0 /\ Open(d).deletes = <<>>
<1>1. ObjectsSound(<<>>, M)
  BY DEF ObjectsSound
<1> QED
  BY <1>1, NothingPending DEF Sound, Open, Parts

(* The unit of work n has one object more than v, which is o. *)
OneMore(v, n, o) ==
    /\ n.store = v.store /\ n.deletes = v.deletes
    /\ Len(n.objs) = Len(v.objs) + 1
    /\ n.objs[Len(v.objs) + 1] = o
    /\ \A h \in 1..Len(v.objs) : n.objs[h] = v.objs[h]

LEMMA LoadFacts ==
    ASSUME NEW M, NEW v, Sound(v, M), NEW c \in Classes, NEW i \in DOMAIN v.store[c]
    PROVE  /\ Sound(Load(v, c, i), M)
           /\ OneMore(v, Load(v, c, i),
                      [class |-> IF c \in Typed THEN c ELSE Generic,
                       id |-> i, tracked |-> TRUE, data |-> v.store[c][i]])
           /\ Load(v, c, i).counter = v.counter
<1> DEFINE new == Load(v, c, i)
           o == [class |-> IF c \in Typed THEN c ELSE Generic,
                 id |-> i, tracked |-> TRUE, data |-> v.store[c][i]]
           objs == Append(v.objs, o)
           h == Len(v.objs) + 1
<1>1. o \in Objects /\ o.tracked = TRUE /\ Fits(o, M)
  <2>1. i \in Positive /\ v.store[c][i] \in Data /\ v.store[c][i] \in Allowed(c, i)
    BY IdsArePositive DEF Sound, Stored
  <2>2. o \in Objects /\ o.tracked = TRUE
    BY <2>1 DEF Objects
  <2>3. /\ o.class = (IF c \in Typed THEN c ELSE Generic)
        /\ o.id = i /\ o.data = v.store[c][i]
    OBVIOUS
  <2> HIDE DEF o
  <2> QED
    BY <2>1, <2>2, <2>3, ClassesAssumption DEF Fits
<1>2. /\ ObjectsSound(objs, M)
      /\ h \in DOMAIN objs /\ objs[h].tracked = TRUE
      /\ Pending(objs, v.adds, FALSE)
      /\ Pending(objs, v.updates, TRUE)
      /\ Pending(objs, v.deletes, TRUE)
      /\ Len(objs) = Len(v.objs) + 1 /\ objs[h] = o
      /\ \A k \in DOMAIN v.objs : objs[k] = v.objs[k]
  <2> HIDE DEF o
  <2>1. /\ ObjectsSound(v.objs, M) /\ Pending(v.objs, v.adds, FALSE)
        /\ Pending(v.objs, v.updates, TRUE) /\ Pending(v.objs, v.deletes, TRUE)
    BY DEF Sound
  <2>2. \A list, t : Pending(v.objs, list, t) => Pending(objs, list, t)
    BY <1>1, <2>1, ObjectAppended
  <2>3. /\ ObjectsSound(objs, M) /\ h \in DOMAIN objs
        /\ Len(objs) = Len(v.objs) + 1 /\ objs[h] = o
        /\ \A k \in DOMAIN v.objs : objs[k] = v.objs[k]
    BY <1>1, <2>1, ObjectAppended
  <2> QED
    BY <1>1, <2>1, <2>2, <2>3
<1>3. Pending(objs, Append(v.updates, h), TRUE)
  <2> HIDE DEF objs, h
  <2> QED
    BY <1>2, EntryAppended
<1>4. /\ DOMAIN new = Parts
      /\ new.store = v.store
      /\ new.counter = v.counter
      /\ new.objs = objs
      /\ new.adds = v.adds
      /\ new.updates = Append(v.updates, h)
      /\ new.deletes = v.deletes
  BY DEF Load, Sound, Parts
<1>5. DOMAIN v.objs = 1..Len(v.objs)
  BY DEF Sound, ObjectsSound
<1> HIDE DEF objs, new, o
<1>6. Sound(new, M)
  <2> HIDE DEF h
  <2> QED
    BY <1>2, <1>3, <1>4 DEF Sound
<1>7. OneMore(v, new, o)
  BY <1>2, <1>4, <1>5 DEF OneMore
<1> QED
  BY <1>4, <1>6, <1>7 DEF new, o

(* Making an object and adding it. *)
LEMMA RecordFacts ==
    ASSUME NEW M \in Makes, NEW v, Sound(v, M), NEW c \in M, NEW data \in Records(c)
    PROVE  /\ Sound(Record(v, c, data), M)
           /\ OneMore(v, Record(v, c, data),
                      [class |-> c, id |-> v.counter[c], tracked |-> FALSE, data |-> data])
           /\ v.counter[c] \in Positive
<1> DEFINE new == Record(v, c, data)
           o == [class |-> c, id |-> v.counter[c], tracked |-> FALSE, data |-> data]
           objs == Append(v.objs, o)
           h == Len(v.objs) + 1
           counter == [v.counter EXCEPT ![c] = @ + 1]
<1>0. c \in Classes /\ c # "Account"
  BY DEF Makes
<1>1. o \in Objects /\ o.tracked = FALSE /\ Fits(o, M)
  <2>1. v.counter[c] \in Positive /\ data \in Data
    BY <1>0 DEF Sound, Data
  <2>2. o \in Objects /\ o.tracked = FALSE /\ o.class = c /\ o.data = data
    BY <1>0, <2>1 DEF Objects
  <2> HIDE DEF o
  <2> QED
    BY <1>0, <2>2, AllowedLoosely DEF Fits
<1>2. /\ ObjectsSound(objs, M)
      /\ h \in DOMAIN objs /\ objs[h].tracked = FALSE
      /\ Pending(objs, v.adds, FALSE)
      /\ Pending(objs, v.updates, TRUE)
      /\ Pending(objs, v.deletes, TRUE)
      /\ Len(objs) = Len(v.objs) + 1 /\ objs[h] = o
      /\ \A k \in DOMAIN v.objs : objs[k] = v.objs[k]
  <2> HIDE DEF o
  <2>1. /\ ObjectsSound(v.objs, M) /\ Pending(v.objs, v.adds, FALSE)
        /\ Pending(v.objs, v.updates, TRUE) /\ Pending(v.objs, v.deletes, TRUE)
    BY DEF Sound
  <2>2. \A list, t : Pending(v.objs, list, t) => Pending(objs, list, t)
    BY <1>1, <2>1, ObjectAppended
  <2>3. /\ ObjectsSound(objs, M) /\ h \in DOMAIN objs
        /\ Len(objs) = Len(v.objs) + 1 /\ objs[h] = o
        /\ \A k \in DOMAIN v.objs : objs[k] = v.objs[k]
    BY <1>1, <2>1, ObjectAppended
  <2> QED
    BY <1>1, <2>1, <2>2, <2>3
<1>3. Pending(objs, Append(v.adds, h), FALSE)
  <2> HIDE DEF objs, h
  <2> QED
    BY <1>2, EntryAppended
<1>4. counter \in [Classes -> Positive]
  BY <1>0 DEF Sound, Positive
<1>5. /\ DOMAIN new = Parts
      /\ new.store = v.store
      /\ new.counter = counter
      /\ new.objs = objs
      /\ new.adds = Append(v.adds, h)
      /\ new.updates = v.updates
      /\ new.deletes = v.deletes
  <2> DEFINE m == Make(v, c, data)
  <2>1. /\ DOMAIN m = Parts
        /\ m.store = v.store
        /\ m.counter = counter
        /\ m.objs = objs
        /\ m.adds = v.adds
        /\ m.updates = v.updates
        /\ m.deletes = v.deletes
    BY DEF Make, Sound, Parts
  <2>2. new = [m EXCEPT !.adds = Append(@, Len(m.objs))]
    BY DEF Record, Add
  <2> HIDE DEF m, objs, counter, new
  <2> QED
    BY <1>2, <2>1, <2>2 DEF Parts
<1>6. DOMAIN v.objs = 1..Len(v.objs)
  BY DEF Sound, ObjectsSound
<1> HIDE DEF objs, new, o, counter
<1>7. Sound(new, M)
  <2> HIDE DEF h
  <2> QED
    BY <1>2, <1>3, <1>4, <1>5 DEF Sound
<1>8. OneMore(v, new, o)
  BY <1>2, <1>5, <1>6 DEF OneMore
<1>9. v.counter[c] \in Positive
  BY <1>0 DEF Sound
<1> QED
  BY <1>7, <1>8, <1>9 DEF new, o

(* The unit of work n differs from v in the data of object h, now x. *)
Differs(v, n, h, x) ==
    /\ n.store = v.store /\ n.deletes = v.deletes
    /\ Len(n.objs) = Len(v.objs)
    /\ n.objs[h] = [v.objs[h] EXCEPT !.data = x]
    /\ \A k \in 1..Len(v.objs) : k # h => n.objs[k] = v.objs[k]

LEMMA AssignFacts ==
    ASSUME NEW M, NEW v, Sound(v, M), NEW h \in 1..Len(v.objs), NEW x \in Data,
           v.objs[h].class \in Classes => x \in Allowed(v.objs[h].class, v.objs[h].id)
    PROVE  Sound(Assign(v, h, x), M) /\ Differs(v, Assign(v, h, x), h, x)
<1> DEFINE new == Assign(v, h, x)
           objs == [v.objs EXCEPT ![h].data = x]
           o == [v.objs[h] EXCEPT !.data = x]
           updates == IF v.objs[h].tracked /\ ~InSeq(h, v.updates)
                      THEN Append(v.updates, h) ELSE v.updates
<1>1. /\ v.objs \in Seq(Objects) /\ DOMAIN v.objs = 1..Len(v.objs)
      /\ v.objs[h] \in Objects /\ Fits(v.objs[h], M)
  BY DEF Sound, ObjectsSound
<1>2. /\ o \in Objects /\ o.tracked = v.objs[h].tracked
      /\ o.class = v.objs[h].class /\ o.id = v.objs[h].id /\ o.data = x
  BY <1>1 DEF Objects
<1>3. Fits(o, M)
  BY <1>1, <1>2 DEF Fits
<1>4. objs = [v.objs EXCEPT ![h] = o]
  OBVIOUS
<1> HIDE DEF o
<1>5. /\ objs \in Seq(Objects)
      /\ DOMAIN objs = DOMAIN v.objs /\ Len(objs) = Len(v.objs)
      /\ objs[h] = o /\ \A k \in 1..Len(v.objs) : k # h => objs[k] = v.objs[k]
  <2> HIDE DEF objs
  <2> QED
    BY <1>1, <1>2, <1>4, ExceptSeq
<1>6. \A k \in DOMAIN v.objs : objs[k].tracked = v.objs[k].tracked /\ Fits(objs[k], M)
  <2> TAKE k \in DOMAIN v.objs
  <2> HIDE DEF objs
  <2>1. CASE k = h
    BY <1>2, <1>3, <1>5, <2>1
  <2>2. CASE k # h
    BY <1>1, <1>5, <2>2 DEF Sound, ObjectsSound
  <2> QED
    BY <2>1, <2>2
<1>7. /\ ObjectsSound(objs, M)
      /\ Pending(objs, v.adds, FALSE)
      /\ Pending(objs, v.updates, TRUE)
      /\ Pending(objs, v.deletes, TRUE)
  <2> HIDE DEF objs
  <2> QED
    BY <1>5, <1>6, ObjectsReplaced DEF Sound
<1>8. Pending(objs, updates, TRUE)
  <2>1. v.objs[h].tracked \in BOOLEAN
    BY <1>1 DEF Objects
  <2> HIDE DEF objs
  <2> QED
    BY <1>1, <1>2, <1>5, <1>7, <2>1, EntryAppended
<1>9. /\ DOMAIN new = Parts
      /\ new.store = v.store
      /\ new.counter = v.counter
      /\ new.objs = objs
      /\ new.adds = v.adds
      /\ new.updates = updates
      /\ new.deletes = v.deletes
  BY DEF Assign, Sound, Parts
<1> HIDE DEF objs, updates, new
<1>10. Sound(new, M)
  BY <1>7, <1>8, <1>9 DEF Sound
<1>11. Differs(v, new, h, x)
  BY <1>5, <1>9 DEF Differs, o
<1> QED
  BY <1>10, <1>11 DEF new

LEMMA DeleteFacts ==
    ASSUME NEW M, NEW v, Sound(v, M), NEW h \in 1..Len(v.objs), v.objs[h].tracked = TRUE
    PROVE  Sound(Delete(v, h), M) /\ Delete(v, h).store = v.store
           /\ Delete(v, h).objs = v.objs /\ Delete(v, h).deletes = Append(v.deletes, h)
<1>1. DOMAIN v.objs = 1..Len(v.objs)
  BY DEF Sound, ObjectsSound
<1>2. Pending(v.objs, Append(v.deletes, h), TRUE)
  BY <1>1, EntryAppended DEF Sound
<1> QED
  BY <1>2 DEF Delete, Sound, Parts

---------------------------------------------------------------------------
(* A commit.  The place of an object among the added ones of its class     *)
(* counts from 1 and tells them apart, so their new ids follow the largest *)
(* id in use and differ.                                                   *)
Place(v, c, k) == Cardinality({j \in AddsOf(v, c) : j <= k})

LEMMA PlacesDiffer ==
    ASSUME NEW M \in Makes, NEW v, Sound(v, M), NEW c,
           NEW k \in AddsOf(v, c)
    PROVE  /\ Place(v, c, k) \in 1..Len(v.adds)
           /\ \A j \in AddsOf(v, c) : j < k => Place(v, c, j) < Place(v, c, k)
<1> DEFINE Upto(i) == {j \in AddsOf(v, c) : j <= i}
<1>1. /\ Len(v.adds) \in Nat
      /\ DOMAIN v.adds = 1..Len(v.adds)
      /\ AddsOf(v, c) \subseteq 1..Len(v.adds)
  BY DEF Sound, Pending, AddsOf
<1>2. \A i : /\ IsFiniteSet(Upto(i)) /\ Cardinality(Upto(i)) \in Nat
             /\ Cardinality(Upto(i)) <= Len(v.adds)
  <2>1. IsFiniteSet(1..Len(v.adds)) /\ Cardinality(1..Len(v.adds)) = Len(v.adds)
    BY <1>1, FS_Interval
  <2>2. \A i : Upto(i) \in SUBSET (1..Len(v.adds))
    BY <1>1
  <2> HIDE DEF Upto
  <2> QED
    BY <2>1, <2>2, FS_Subset, FS_CardinalityType
<1>3. Place(v, c, k) \in 1..Len(v.adds)
  <2>1. k \in Upto(k)
    BY <1>1
  <2>2. Cardinality(Upto(k)) # 0
    BY <1>2, <2>1, FS_EmptySet
  <2> HIDE DEF Upto
  <2>3. Cardinality(Upto(k)) \in 1..Len(v.adds)
    BY <1>1, <1>2, <2>2
  <2> QED
    BY <2>3 DEF Place, Upto
<1>4. ASSUME NEW j \in AddsOf(v, c), j < k
      PROVE  Place(v, c, j) < Place(v, c, k)
  <2>1. Upto(j) \in SUBSET Upto(k) /\ Upto(j) # Upto(k)
    <3>1. k \in Upto(k) /\ k \notin Upto(j)
      BY <1>1, <1>4
    <3>2. ASSUME NEW i \in Upto(j)
          PROVE  i \in Upto(k)
      BY <1>1, <1>4
    <3> QED
      BY <3>1, <3>2
  <2> HIDE DEF Upto
  <2>2. Cardinality(Upto(j)) < Cardinality(Upto(k))
    BY <1>2, <2>1, FS_Subset
  <2> QED
    BY <2>2 DEF Place, Upto
<1> QED
  BY <1>3, <1>4

LEMMA NewIdsAreFresh ==
    ASSUME NEW M \in Makes, NEW v, Sound(v, M), NEW c, NEW k \in AddsOf(v, c)
    PROVE  LET top == Largest(DOMAIN v.store[c])
           IN /\ c \in M /\ c \in Classes
              /\ top \in Nat
              /\ NewId(v, k) = top + Place(v, c, k)
              /\ NewId(v, k) \in (top + 1)..(top + Len(v.adds))
              /\ NewId(v, k) \notin DOMAIN v.store[c]
              /\ \A j \in AddsOf(v, c) : NewId(v, j) = NewId(v, k) => j = k
<1> DEFINE top == Largest(DOMAIN v.store[c])
<1>1. c \in M /\ c \in Classes
  <2>1. /\ k \in DOMAIN v.adds /\ v.objs[v.adds[k]].class = c
        /\ v.adds[k] \in DOMAIN v.objs /\ v.objs[v.adds[k]].tracked = FALSE
    BY DEF Sound, Pending, AddsOf
  <2>2. Fits(v.objs[v.adds[k]], M)
    BY <2>1 DEF Sound, ObjectsSound
  <2> QED
    BY <2>1, <2>2 DEF Fits, Makes
<1>2. top \in Nat /\ \A n \in DOMAIN v.store[c] : n \in Nat /\ n <= top
  <2>1. Bounded(DOMAIN v.store[c])
    BY <1>1 DEF Sound, Stored
  <2> QED
    BY <2>1, LargestIsMax
<1>3. \A j \in AddsOf(v, c) : NewId(v, j) = top + Place(v, c, j)
  <2> TAKE j \in AddsOf(v, c)
  <2> DEFINE d == v.objs[v.adds[j]].class
  <2>1. d = c
    BY DEF AddsOf
  <2>2. NewId(v, j) = Largest(DOMAIN v.store[d]) + Place(v, d, j)
    BY DEF NewId, Place
  <2> HIDE DEF d
  <2> QED
    BY <2>1, <2>2
<1>4. /\ Len(v.adds) \in Nat
      /\ \A j \in AddsOf(v, c) : j \in Nat /\ Place(v, c, j) \in 1..Len(v.adds)
  <2>1. /\ Len(v.adds) \in Nat
        /\ \A j \in AddsOf(v, c) : j \in Nat
    BY DEF AddsOf, Sound, Pending
  <2> QED
    BY <2>1, PlacesDiffer
<1>5. \A i, j \in AddsOf(v, c) : i < j => Place(v, c, i) < Place(v, c, j)
  BY PlacesDiffer
<1> HIDE DEF top
<1>6. NewId(v, k) \in (top + 1)..(top + Len(v.adds))
  BY <1>2, <1>3, <1>4
<1>7. NewId(v, k) \notin DOMAIN v.store[c]
  BY <1>2, <1>4, <1>6
<1>8. ASSUME NEW j \in AddsOf(v, c), NewId(v, j) = NewId(v, k)
      PROVE  j = k
  <2>1. Place(v, c, j) = Place(v, c, k)
    BY <1>2, <1>3, <1>4, <1>8
  <2> QED
    BY <1>4, <1>5, <2>1
<1>9. \A j \in AddsOf(v, c) : NewId(v, j) = NewId(v, k) => j = k
  BY <1>8
<1>10. NewId(v, k) = top + Place(v, c, k)
  BY <1>3
<1> USE DEF top
<1> QED
  BY <1>1, <1>2, <1>6, <1>7, <1>9, <1>10, Zenon

(* Of a class the request makes nothing of nothing is added. *)
LEMMA NothingAdded ==
    ASSUME NEW M \in Makes, NEW v, Sound(v, M), NEW c \in Classes \ M
    PROVE  AddsOf(v, c) = {} /\ Added(v, c) = v.store[c]
<1>1. AddsOf(v, c) = {}
  <2> SUFFICES ASSUME NEW k \in AddsOf(v, c)
               PROVE  FALSE
    OBVIOUS
  <2>1. k \in DOMAIN v.adds /\ v.objs[v.adds[k]].class = c
    BY DEF AddsOf
  <2> QED
    BY <2>1, NewIdsAreFresh
<1>2. v.store[c] = [i \in DOMAIN v.store[c] |-> v.store[c][i]]
  BY DEF Sound, Stored
<1> QED
  BY <1>1, <1>2 DEF Added

LEMMA AddedSound ==
    ASSUME NEW M \in Makes, NEW v, Sound(v, M), NEW c \in Classes
    PROVE  /\ Bounded(DOMAIN Added(v, c))
           /\ \A i \in DOMAIN Added(v, c) : Added(v, c)[i] \in Allowed(c, i)
           /\ Added(v, c) \in [DOMAIN Added(v, c) -> Data]
           /\ \A i \in DOMAIN v.store[c] : /\ i \in DOMAIN Added(v, c)
                                           /\ Added(v, c)[i] = v.store[c][i]
<1> DEFINE new == {NewId(v, k) : k \in AddsOf(v, c)}
           of(i) == CHOOSE k \in AddsOf(v, c) : NewId(v, k) = i
           top == Largest(DOMAIN v.store[c])
           records == v.store[c]
           result == [i \in DOMAIN records \cup new |->
                        IF i \in new THEN v.objs[v.adds[of(i)]].data ELSE records[i]]
<1>1. \A k \in AddsOf(v, c) : k \in DOMAIN v.adds /\ v.objs[v.adds[k]].class = c
  BY DEF AddsOf
<1>2. /\ top \in Nat /\ Len(v.adds) \in Nat
      /\ \A n \in DOMAIN records : n \in Nat /\ n <= top
      /\ records \in [DOMAIN records -> Data]
      /\ DOMAIN records \subseteq Positive
  BY LargestIsMax, IdsArePositive DEF Sound, Stored, Pending
<1>3. \A k \in AddsOf(v, c) : /\ NewId(v, k) \in (top + 1)..(top + Len(v.adds))
                              /\ NewId(v, k) \notin DOMAIN records
  <2> TAKE k \in AddsOf(v, c)
  <2> QED
    BY <1>1, NewIdsAreFresh
<1>4. \A k \in AddsOf(v, c) : /\ v.objs[v.adds[k]].data \in Data
                              /\ \A i : v.objs[v.adds[k]].data \in Allowed(c, i)
  <2> TAKE k \in AddsOf(v, c)
  <2>1. v.adds[k] \in DOMAIN v.objs
    BY <1>1 DEF Sound, Pending
  <2>2. v.objs[v.adds[k]] \in Objects /\ Fits(v.objs[v.adds[k]], M)
    BY <2>1 DEF Sound, ObjectsSound
  <2>3. c \in M /\ c # "Account"
    BY NewIdsAreFresh DEF Makes
  <2>4. v.objs[v.adds[k]].data \in Records(c)
    BY <1>1, <2>2, <2>3, AllowedLoosely DEF Fits
  <2> QED
    BY <2>2, <2>3, <2>4, AllowedLoosely DEF Objects
<1>5. Added(v, c) = result
  BY DEF Added
<1> HIDE DEF top
<1>6. Bounded(DOMAIN records \cup new)
  <2>1. \A i \in DOMAIN records : i \in 1..(top + Len(v.adds))
    BY <1>2 DEF Positive
  <2>2. \A i \in new : i \in 1..(top + Len(v.adds))
    BY <1>2, <1>3
  <2>3. top + Len(v.adds) \in Nat
    BY <1>2
  <2> HIDE DEF new, records
  <2> QED
    BY <2>1, <2>2, <2>3 DEF Bounded
<1>7. \A i \in new : of(i) \in AddsOf(v, c)
  OBVIOUS
<1>8. \A i \in DOMAIN records : i \notin new /\ records[i] \in Allowed(c, i)
  BY <1>3 DEF Sound, Stored
<1> HIDE DEF new, of, records
<1>9. result \in [DOMAIN records \cup new -> Data]
  BY <1>2, <1>4, <1>7
<1>10. DOMAIN result = DOMAIN records \cup new
  OBVIOUS
<1>11. \A i \in DOMAIN records : result[i] = records[i]
  BY <1>8
<1>12. \A i \in DOMAIN result : result[i] \in Allowed(c, i)
  BY <1>4, <1>7, <1>8
<1> HIDE DEF result
<1> QED
  BY <1>5, <1>6, <1>9, <1>10, <1>11, <1>12 DEF records

LEMMA UpdatedSound ==
    ASSUME NEW M \in Makes, NEW v, Sound(v, M), NEW c \in Classes,
           NEW records, records \in [DOMAIN records -> Data],
           \A i \in DOMAIN records : records[i] \in Allowed(c, i)
    PROVE  /\ DOMAIN Updated(v, c, records) = DOMAIN records
           /\ Updated(v, c, records) \in [DOMAIN records -> Data]
           /\ \A i \in DOMAIN records : Updated(v, c, records)[i] \in Allowed(c, i)
<1> DEFINE last(i) == Largest(UpdatesOf(v, c, i))
<1>1. ASSUME NEW i \in DOMAIN records, UpdatesOf(v, c, i) # {}
      PROVE  v.objs[v.updates[last(i)]].data \in Allowed(c, i)
  <2>1. UpdatesOf(v, c, i) \subseteq 1..Len(v.updates) /\ Len(v.updates) \in Nat
    BY DEF UpdatesOf, Sound, Pending
  <2>2. last(i) \in UpdatesOf(v, c, i)
    BY <1>1, <2>1, LargestIsMax DEF Bounded
  <2>3. last(i) \in DOMAIN v.updates
    BY <2>2 DEF UpdatesOf
  <2>4. Fits(v.objs[v.updates[last(i)]], M)
    <3> HIDE DEF last
    <3> QED
      BY <2>3 DEF Sound, Pending, ObjectsSound
  <2>5. v.objs[v.updates[last(i)]].class = c /\ v.objs[v.updates[last(i)]].id = i
    BY <2>2 DEF UpdatesOf
  <2> HIDE DEF last
  <2> QED
    BY <2>4, <2>5 DEF Fits
<1>2. \A i : Allowed(c, i) \subseteq Data
  BY AllowedFacts
<1> QED
  BY <1>1, <1>2 DEF Updated

(* A commit leaves the records of an untyped class as they are: no pending *)
(* update or deletion is of such a class.                                  *)
LEMMA UntypedUnwritten ==
    ASSUME NEW M \in Makes, NEW v, Sound(v, M), NEW c \in Classes \ Typed
    PROVE  (\A i : UpdatesOf(v, c, i) = {}) /\ Gone(v, c) = {}
<1>1. ASSUME NEW k \in DOMAIN v.updates
      PROVE  v.objs[v.updates[k]].class # c
  <2>1. v.updates[k] \in DOMAIN v.objs /\ v.objs[v.updates[k]].tracked = TRUE
    BY DEF Sound, Pending
  <2>2. v.objs[v.updates[k]].class \in Typed \cup {Generic}
    BY <2>1 DEF Sound, ObjectsSound, Fits
  <2> QED
    BY <2>2, ClassesAssumption
<1>2. ASSUME NEW k \in DOMAIN v.deletes
      PROVE  v.objs[v.deletes[k]].class # c
  <2>1. v.deletes[k] \in DOMAIN v.objs /\ v.objs[v.deletes[k]].tracked = TRUE
    BY DEF Sound, Pending
  <2>2. v.objs[v.deletes[k]].class \in Typed \cup {Generic}
    BY <2>1 DEF Sound, ObjectsSound, Fits
  <2> QED
    BY <2>2, ClassesAssumption
<1> QED
  BY <1>1, <1>2 DEF UpdatesOf, Gone

(* What a commit leaves in the stores. *)
LEMMA CommitStored ==
    ASSUME NEW M \in Makes, NEW v, Sound(v, M)
    PROVE  /\ Stored(Commit(v).store) /\ Commit(v).counter = v.counter
           /\ \A c \in Classes \ M : Gone(v, c) = {} =>
                 DOMAIN Commit(v).store[c] = DOMAIN v.store[c]
           /\ \A c \in (Classes \ M) \ Typed : Commit(v).store[c] = v.store[c]
<1> DEFINE records(c) == Updated(v, c, Added(v, c))
           store == [c \in Classes |-> Kept(v, c, records(c))]
<1>1. Commit(v).store = store /\ Commit(v).counter = v.counter
  BY DEF Commit, Sound, Parts
<1>2. \A c \in Classes : /\ Bounded(DOMAIN records(c))
                         /\ DOMAIN records(c) = DOMAIN Added(v, c)
                         /\ records(c) \in [DOMAIN records(c) -> Data]
                         /\ \A i \in DOMAIN records(c) : records(c)[i] \in Allowed(c, i)
  <2> TAKE c \in Classes
  <2>1. /\ Bounded(DOMAIN Added(v, c)) /\ Added(v, c) \in [DOMAIN Added(v, c) -> Data]
        /\ \A i \in DOMAIN Added(v, c) : Added(v, c)[i] \in Allowed(c, i)
    BY AddedSound
  <2> QED
    BY <2>1, UpdatedSound
<1>3. \A c \in Classes : store[c] = [i \in DOMAIN records(c) \ Gone(v, c) |-> records(c)[i]]
  BY DEF Kept
<1>4. DOMAIN store = Classes
  OBVIOUS
<1>5. Stored(store)
  <2> SUFFICES ASSUME NEW c \in Classes
               PROVE  /\ Bounded(DOMAIN store[c])
                      /\ store[c] \in [DOMAIN store[c] -> Data]
                      /\ \A i \in DOMAIN store[c] : store[c][i] \in Allowed(c, i)
    BY <1>4 DEF Stored
  <2> DEFINE r == records(c)
  <2>1. store[c] = [i \in DOMAIN r \ Gone(v, c) |-> r[i]]
    BY <1>3
  <2>2. /\ Bounded(DOMAIN r) /\ r \in [DOMAIN r -> Data]
        /\ \A i \in DOMAIN r : r[i] \in Allowed(c, i)
    BY <1>2
  <2> HIDE DEF r, store
  <2>3. DOMAIN store[c] \subseteq DOMAIN r
    BY <2>1
  <2>4. Bounded(DOMAIN store[c])
    BY <2>2, <2>3 DEF Bounded
  <2> QED
    BY <2>1, <2>2, <2>4
<1>6. ASSUME NEW c \in Classes \ M, Gone(v, c) = {}
      PROVE  DOMAIN store[c] = DOMAIN v.store[c]
  <2>1. DOMAIN records(c) = DOMAIN v.store[c]
    BY <1>2, NothingAdded
  <2> HIDE DEF records, store
  <2> QED
    BY <1>3, <1>6, <2>1
<1>7. ASSUME NEW c \in (Classes \ M) \ Typed
      PROVE  store[c] = v.store[c]
  <2>1. Gone(v, c) = {} /\ \A i : UpdatesOf(v, c, i) = {}
    BY UntypedUnwritten
  <2>2. Added(v, c) = v.store[c]
    BY NothingAdded
  <2>3. records(c) = v.store[c]
    <3>1. v.store[c] = [i \in DOMAIN v.store[c] |-> v.store[c][i]]
      BY DEF Sound, Stored
    <3> QED
      BY <2>1, <2>2, <3>1 DEF Updated
  <2>4. v.store[c] = [i \in DOMAIN v.store[c] |-> v.store[c][i]]
    BY DEF Sound, Stored
  <2> HIDE DEF records, store
  <2> QED
    BY <1>3, <2>1, <2>3, <2>4
<1> HIDE DEF store
<1> QED
  BY <1>1, <1>5, <1>6, <1>7

(* A commit leaves a sound unit of work, with new ids for added objects. *)
LEMMA CommitFacts ==
    ASSUME NEW M \in Makes, NEW v, Sound(v, M)
    PROVE  /\ Sound(Commit(v), M) /\ Commit(v).deletes = <<>>
           /\ Len(Commit(v).objs) = Len(v.objs)
           /\ \A h \in 1..Len(v.objs) :
                 /\ Commit(v).objs[h] = [v.objs[h] EXCEPT !.id = IdAfter(v, h)]
                 /\ IdAfter(v, h) \in Positive
                 /\ v.objs[h].tracked => IdAfter(v, h) = v.objs[h].id
<1> DEFINE objs == [h \in DOMAIN v.objs |-> [v.objs[h] EXCEPT !.id = IdAfter(v, h)]]
           new == Commit(v)
<1>1. /\ DOMAIN new = Parts
      /\ new.objs = objs
      /\ new.adds = <<>> /\ new.updates = <<>> /\ new.deletes = <<>>
  BY DEF Commit, Sound, Parts
<1>2. DOMAIN v.objs = 1..Len(v.objs) /\ Len(v.objs) \in Nat
  BY DEF Sound, ObjectsSound
<1>3. ASSUME NEW h \in DOMAIN v.objs
      PROVE  /\ IdAfter(v, h) \in Positive
             /\ v.objs[h].tracked => IdAfter(v, h) = v.objs[h].id
  <2>1. v.objs[h] \in Objects
    BY DEF Sound, ObjectsSound
  <2>2. CASE InSeq(h, v.adds)
    <3> DEFINE k == CHOOSE j \in DOMAIN v.adds : v.adds[j] = h
    <3>1. k \in DOMAIN v.adds /\ v.adds[k] = h
      BY <2>2 DEF InSeq
    <3>2. IdAfter(v, h) = NewId(v, k)
      BY <2>2 DEF IdAfter
    <3> HIDE DEF k
    <3>3. Len(v.adds) \in Nat /\ v.objs[h].tracked = FALSE
      BY <3>1 DEF Sound, Pending
    <3>4. k \in AddsOf(v, v.objs[h].class)
      BY <3>1 DEF AddsOf
    <3>5. PICK top \in Nat : NewId(v, k) \in (top + 1)..(top + Len(v.adds))
      BY <3>4, NewIdsAreFresh
    <3> QED
      BY <3>2, <3>3, <3>5 DEF Positive
  <2>3. CASE ~InSeq(h, v.adds)
    BY <2>1, <2>3 DEF IdAfter, Objects
  <2> QED
    BY <2>2, <2>3
<1>4. ASSUME NEW h \in DOMAIN v.objs
      PROVE  /\ objs[h] \in Objects
             /\ objs[h].tracked = v.objs[h].tracked
             /\ Fits(objs[h], M)
  <2>1. v.objs[h] \in Objects /\ Fits(v.objs[h], M)
    BY DEF Sound, ObjectsSound
  <2>2. objs[h] = [v.objs[h] EXCEPT !.id = IdAfter(v, h)]
    OBVIOUS
  <2> HIDE DEF objs
  <2>3. /\ objs[h] \in Objects /\ objs[h].id = IdAfter(v, h)
        /\ objs[h].tracked = v.objs[h].tracked
        /\ objs[h].class = v.objs[h].class /\ objs[h].data = v.objs[h].data
    BY <1>3, <2>1, <2>2 DEF Objects
  <2>4. CASE v.objs[h].tracked
    BY <1>3, <2>1, <2>3, <2>4 DEF Fits
  <2>5. CASE ~v.objs[h].tracked
    <3>1. objs[h].class # "Account"
      BY <2>1, <2>3, <2>5 DEF Fits, Makes
    <3> QED
      BY <2>1, <2>3, <2>5, <3>1, AllowedLoosely DEF Fits
  <2> QED
    BY <2>3, <2>4, <2>5
<1>5. objs \in Seq(Objects) /\ DOMAIN objs = DOMAIN v.objs /\ Len(objs) = Len(v.objs)
  <2>1. objs = [h \in 1..Len(v.objs) |-> objs[h]]
    BY <1>2
  <2>2. \A h \in 1..Len(v.objs) : objs[h] \in Objects
    BY <1>2, <1>4
  <2> HIDE DEF objs
  <2>3. objs \in [1..Len(v.objs) -> Objects]
    BY <2>1, <2>2
  <2> QED
    BY <1>2, <2>3
<1>6. \A h \in DOMAIN v.objs : objs[h] = [v.objs[h] EXCEPT !.id = IdAfter(v, h)]
  OBVIOUS
<1> HIDE DEF objs
<1>7. ObjectsSound(objs, M)
  BY <1>4, <1>5, ObjectsReplaced DEF Sound
<1>8. Stored(new.store) /\ new.counter \in [Classes -> Positive]
  BY CommitStored DEF Sound
<1>9. Sound(new, M)
  <2> HIDE DEF new
  <2> QED
    BY <1>1, <1>7, <1>8, NothingPending DEF Sound
<1> QED
  BY <1>1, <1>2, <1>3, <1>5, <1>6, <1>9

---------------------------------------------------------------------------
(* The work of a request: a sound unit of work of n objects over a store   *)
(* that holds the accounts there are, with nothing to delete.              *)
Working(v, M, n, store) ==
    /\ Sound(v, M) /\ v.store = store /\ v.deletes = <<>>
    /\ Len(v.objs) = n
    /\ DOMAIN store["Account"] = Owned

BooksSound(d) ==
    /\ Stored(d.store) /\ d.counter \in [Classes -> Positive]
    /\ DOMAIN d.store["Account"] = Owned

LEMMA ClassFacts ==
    /\ "Account" \in Typed /\ "Transaction" \in Typed /\ "Goal" \in Typed
    /\ "RecurringRule" \in Classes \ Typed /\ "GoalContribution" \in Classes \ Typed
    /\ Typed \subseteq Classes /\ "Notification" \in Typed
BY StoreMaps, ClassesAssumption

LEMMA Opened ==
    ASSUME BooksSound(db), NEW M
    PROVE  Working(Open(db), M, 0, db.store)
BY OpenFacts DEF BooksSound, Working

(* The number k comes after n. *)
After(n, k) == n \in Nat /\ k = n + 1

(* The number h counts one of n things. *)
Within(h, n) == n \in Nat /\ h \in 1..n

LEMMA Counting ==
    /\ After(0, 1) /\ After(1, 2) /\ After(2, 3) /\ After(3, 4) /\ After(4, 5) /\ After(5, 6)
    /\ Within(1, 1) /\ Within(1, 2) /\ Within(2, 2) /\ Within(1, 3) /\ Within(2, 3)
    /\ Within(2, 4) /\ Within(3, 4) /\ Within(4, 4) /\ Within(3, 5) /\ Within(4, 5)
BY DEF After, Within

LEMMA Loaded ==
    ASSUME NEW M, NEW v, NEW n, NEW store, Working(v, M, n, store),
           NEW c \in Typed, NEW i \in DOMAIN store[c], NEW k, After(n, k)
    PROVE  /\ Working(Load(v, c, i), M, k, store)
           /\ Load(v, c, i).objs[k] = [class |-> c, id |-> i, tracked |-> TRUE,
                                       data |-> store[c][i]]
           /\ \A h \in 1..n : Load(v, c, i).objs[h] = v.objs[h]
BY LoadFacts, ClassFacts DEF Working, OneMore, After

LEMMA Recorded ==
    ASSUME NEW M \in Makes, NEW v, NEW n, NEW store, Working(v, M, n, store),
           NEW c \in M, NEW data \in Records(c), NEW k, After(n, k)
    PROVE  /\ Working(Record(v, c, data), M, k, store)
           /\ Record(v, c, data).objs[k] =
                 [class |-> c, id |-> v.counter[c], tracked |-> FALSE, data |-> data]
           /\ v.counter[c] \in Positive
           /\ \A h \in 1..n : Record(v, c, data).objs[h] = v.objs[h]
BY RecordFacts DEF Working, OneMore, After

(* Object h of v holds x in n. *)
Put(v, n, h, x) == n.objs[h] = [v.objs[h] EXCEPT !.data = x]

LEMMA Assigned ==
    ASSUME NEW M, NEW v, NEW n, NEW store, Working(v, M, n, store),
           NEW h, Within(h, n), NEW c \in Classes, NEW x \in Allowed(c, v.objs[h].id),
           v.objs[h].class = c
    PROVE  /\ Working(Assign(v, h, x), M, n, store)
           /\ Put(v, Assign(v, h, x), h, x)
           /\ \A k \in 1..n : k # h => Assign(v, h, x).objs[k] = v.objs[k]
<1>1. x \in Data
  BY AllowedFacts
<1> QED
  BY <1>1, AssignFacts DEF Working, Differs, Put, Within

(* The object of account a before anything is assigned to it. *)
Holds(v, h, a) ==
    v.objs[h] = [class |-> "Account", id |-> a, tracked |-> TRUE,
                 data |-> v.store["Account"][a]]

Covers(store, a, d) == Guarded(a) => store["Account"][a] + d >= 0

LEMMA Changed ==
    ASSUME NEW M, NEW v, NEW n, NEW store, Working(v, M, n, store),
           NEW h, Within(h, n), NEW a \in Owned, Holds(v, h, a),
           NEW d \in Int, Covers(store, a, d)
    PROVE  /\ Working(Change(v, h, d), M, n, store)
           /\ Put(v, Change(v, h, d), h, Rounded(store["Account"][a] + d))
           /\ \A k \in 1..n : k # h => Change(v, h, d).objs[k] = v.objs[k]
<1> DEFINE x == Rounded(store["Account"][a] + d)
<1>1. /\ v.objs[h].class = "Account" /\ v.objs[h].id = a
      /\ v.objs[h].data = store["Account"][a]
  BY DEF Holds, Working
<1>2. store["Account"][a] \in Int
  <2>1. store["Account"][a] \in Allowed("Account", a)
    BY ClassFacts DEF Working, Sound, Stored
  <2> QED
    BY <2>1, CentsTyped DEF Allowed
<1>3. x \in Allowed("Account", v.objs[h].id)
  <2>1. PICK y \in Int : y = store["Account"][a] + d
    BY <1>2
  <2>2. Rounded(y) \in Cents /\ (Guarded(a) => Rounded(y) >= 0)
    BY <2>1, RoundedTyped, RoundedNatural DEF Covers
  <2> QED
    BY <1>1, <2>1, <2>2 DEF Allowed
<1>4. Change(v, h, d) = Assign(v, h, x)
  BY <1>1 DEF Change
<1> HIDE DEF x
<1>5. PICK c \in Classes : c = "Account"
  BY ClassFacts
<1>6. v.objs[h].class = c /\ x \in Allowed(c, v.objs[h].id)
  BY <1>1, <1>3, <1>5
<1>7. /\ Working(Assign(v, h, x), M, n, store)
      /\ Put(v, Assign(v, h, x), h, x)
      /\ \A k \in 1..n : k # h => Assign(v, h, x).objs[k] = v.objs[k]
  BY <1>6, Assigned
<1> QED
  BY <1>4, <1>7 DEF x

LEMMA Settled ==
    ASSUME NEW M \in Makes, NEW v, NEW n, NEW store, Working(v, M, n, store)
    PROVE  /\ BooksSound(Close(Commit(v)))
           /\ \A c \in (Classes \ M) \ Typed : Close(Commit(v)).store[c] = store[c]
<1>1. Gone(v, "Account") = {}
  BY DEF Gone, Working
<1>2. "Account" \in Classes \ M
  BY ClassFacts DEF Makes
<1>3. Sound(v, M) /\ v.store = store /\ DOMAIN store["Account"] = Owned
  BY DEF Working
<1> DEFINE w == Commit(v)
<1>4. /\ Stored(w.store) /\ w.counter = v.counter
      /\ \A c \in Classes \ M : Gone(v, c) = {} => DOMAIN w.store[c] = DOMAIN v.store[c]
      /\ \A c \in (Classes \ M) \ Typed : w.store[c] = v.store[c]
  BY <1>3, CommitStored
<1> HIDE DEF w
<1>6. DOMAIN w.store["Account"] = Owned
  <2> PICK c \in Classes \ M : c = "Account"
    BY <1>2
  <2>1. DOMAIN w.store[c] = DOMAIN v.store[c]
    BY <1>1, <1>4
  <2> QED
    BY <1>3, <2>1
<1>7. w.counter \in [Classes -> Positive]
  BY <1>3, <1>4 DEF Sound
<1>5. Close(w).store = w.store /\ Close(w).counter = w.counter
  BY DEF Close
<1>8. BooksSound(Close(w))
  BY <1>4, <1>5, <1>6, <1>7 DEF BooksSound
<1>9. \A c \in (Classes \ M) \ Typed : Close(w).store[c] = store[c]
  BY <1>3, <1>4, <1>5
<1> QED
  BY <1>8, <1>9 DEF w

---------------------------------------------------------------------------
(* The requests on accounts.  They make bookings and leave the rules. *)
Booking == {"Transaction", "Notification", "Goal", "GoalContribution"}

Orderly(d) == BooksSound(d) /\ d.store["RecurringRule"] = Rules

LEMMA BookingFacts ==
    /\ Booking \in Makes /\ "RecurringRule" \in (Classes \ Booking) \ Typed
    /\ "Transaction" \in Booking /\ "Notification" \in Booking
    /\ "Goal" \in Booking /\ "GoalContribution" \in Booking
BY StoreMaps DEF Booking, Makes

LEMMA Ends ==
    ASSUME NEW v, NEW n, Working(v, Booking, n, db.store)
    PROVE  Orderly(Close(Commit(v)))
<1>1. Booking \in Makes /\ "RecurringRule" \in (Classes \ Booking) \ Typed
  BY BookingFacts
<1> QED
  BY <1>1, Settled DEF Orderly, Rules

LEMMA PostingTyped ==
    ASSUME NEW a \in Owned, NEW x \in Int, NEW type \in TransactionTypes,
           NEW party \in Owned \cup {0}
    PROVE  Posting(a, x, type, party) \in Records("Transaction")
<1>1. Rounded(x) \in Cents /\ Halfway(x) \in BOOLEAN
  BY RoundedTyped DEF Halfway
<1>2. Posting(a, x, type, party) \in Postings
  BY <1>1 DEF Posting, Postings
<1> QED
  BY <1>2 DEF Records

LEMMA TypeFacts ==
    "debit" \in TransactionTypes /\ "credit" \in TransactionTypes
BY DEF TransactionTypes

LEMMA BalanceTyped ==
    ASSUME BooksSound(db), NEW a \in Accounts
    PROVE  /\ a \in Owned /\ Balance(a) \in Int /\ Balance(a) \in Cents
           /\ Guarded(a) => Balance(a) >= 0
<1>1. db.store["Account"][a] \in Allowed("Account", a) /\ a \in Owned
  BY ClassFacts DEF BooksSound, Stored, Accounts
<1> QED
  BY <1>1, CentsTyped DEF Allowed, Balance

LEMMA TakesLess ==
    ASSUME BooksSound(db), NEW a \in Accounts, NEW x \in Int,
           Guarded(a) => Balance(a) >= x
    PROVE  Covers(db.store, a, -x)
BY BalanceTyped DEF Covers, Balance

LEMMA BringsMore ==
    ASSUME BooksSound(db), NEW a \in Accounts, NEW x \in Nat
    PROVE  Covers(db.store, a, x)
BY BalanceTyped DEF Covers, Balance

LEMMA HoldingFacts ==
    ASSUME BooksSound(db), NEW a \in Accounts, NEW M
    PROVE  /\ Working(Holding(a), M, 1, db.store)
           /\ Holds(Holding(a), 1, a)
<1>1. PICK c \in Typed : c = "Account"
  BY ClassFacts
<1>2. a \in DOMAIN db.store[c] /\ Working(Open(db), M, 0, db.store)
  BY <1>1, Opened DEF Accounts
<1>3. /\ Working(Load(Open(db), c, a), M, 1, db.store)
      /\ Load(Open(db), c, a).objs[1] =
            [class |-> c, id |-> a, tracked |-> TRUE, data |-> db.store[c][a]]
  BY <1>2, Counting, Loaded
<1>4. Holding(a) = Load(Open(db), c, a)
  BY <1>1 DEF Holding
<1> QED
  BY <1>1, <1>3, <1>4 DEF Holds, Working

LEMMA HoldingTwo ==
    ASSUME NEW M, NEW v, Working(v, M, 1, db.store), NEW b \in Accounts
    PROVE  /\ Working(Load(v, "Account", b), M, 2, db.store)
           /\ Load(v, "Account", b).objs[1] = v.objs[1]
           /\ Holds(Load(v, "Account", b), 2, b)
<1>1. PICK c \in Typed : c = "Account"
  BY ClassFacts
<1>2. b \in DOMAIN db.store[c]
  BY <1>1 DEF Accounts
<1>3. /\ Working(Load(v, c, b), M, 2, db.store)
      /\ Load(v, c, b).objs[2] =
            [class |-> c, id |-> b, tracked |-> TRUE, data |-> db.store[c][b]]
      /\ \A h \in 1..1 : Load(v, c, b).objs[h] = v.objs[h]
  BY <1>2, Counting, Loaded
<1>4. 1 \in 1..1
  OBVIOUS
<1>5. Load(v, c, b).store = db.store
  BY <1>3 DEF Working
<1>6. Holds(Load(v, c, b), 2, b)
  BY <1>1, <1>3, <1>5 DEF Holds
<1> QED
  BY <1>1, <1>3, <1>4, <1>6

(* Recording a booking, seen as the next object. *)
LEMMA Booked1 ==
    ASSUME NEW v, NEW n, NEW store, Working(v, Booking, n, store),
           NEW c \in Booking, NEW data \in Records(c), NEW k, After(n, k)
    PROVE  /\ Working(Record(v, c, data), Booking, k, store)
           /\ Record(v, c, data).objs[k].id \in Positive
           /\ Record(v, c, data).objs[k].data = data
           /\ \A h \in 1..n : Record(v, c, data).objs[h] = v.objs[h]
<1>1. Booking \in Makes
  BY BookingFacts
<1>2. /\ Working(Record(v, c, data), Booking, k, store)
      /\ Record(v, c, data).objs[k] =
            [class |-> c, id |-> v.counter[c], tracked |-> FALSE, data |-> data]
      /\ v.counter[c] \in Positive
      /\ \A h \in 1..n : Record(v, c, data).objs[h] = v.objs[h]
  BY <1>1, Recorded
<1> QED
  BY <1>2

LEMMA BookedFacts ==
    ASSUME BooksSound(db), NEW a \in Accounts, NEW d \in Int, Covers(db.store, a, d),
           NEW posting \in Records("Transaction")
    PROVE  LET v == Record(Change(Holding(a), 1, d), "Transaction", posting)
           IN /\ Working(v, Booking, 2, db.store)
              /\ v.objs[2].id \in Positive /\ v.objs[2].data = posting
<1> DEFINE u == Change(Holding(a), 1, d)
<1>1. Working(Holding(a), Booking, 1, db.store) /\ Holds(Holding(a), 1, a) /\ a \in Owned
  BY HoldingFacts, BalanceTyped
<1>2. Working(u, Booking, 1, db.store)
  BY <1>1, Counting, Changed
<1> HIDE DEF u
<1>3. PICK c \in Booking : c = "Transaction"
  BY BookingFacts
<1>4. posting \in Records(c)
  BY <1>3
<1>5. /\ Working(Record(u, c, posting), Booking, 2, db.store)
      /\ Record(u, c, posting).objs[2].id \in Positive
      /\ Record(u, c, posting).objs[2].data = posting
  BY <1>2, <1>4, Counting, Booked1
<1> QED
  BY <1>3, <1>5 DEF u

LEMMA BookedEnds ==
    ASSUME BooksSound(db), NEW a \in Accounts, NEW d \in Int, Covers(db.store, a, d),
           NEW posting \in Records("Transaction")
    PROVE  Orderly(Close(Booked(a, d, posting)))
BY BookedFacts, Ends DEF Booked

LEMMA NotifiedFacts ==
    ASSUME NEW v, NEW n, NEW store, Working(v, Booking, n, store),
           NEW t, Within(t, n), v.objs[t].id \in Positive, NEW a \in Owned, NEW x \in Int,
           NEW k, After(n, k)
    PROVE  /\ Working(Notified(v, t, a, x), Booking, k, store)
           /\ \A h : Within(h, n) => Notified(v, t, a, x).objs[h] = v.objs[h]
<1> DEFINE note == [account |-> a, amount |-> x, tx |-> v.objs[t].id]
<1>1. PICK c \in Booking : c = "Notification"
  BY BookingFacts
<1>2. note \in Records(c)
  <2>1. note \in Notes
    BY DEF Notes, Positive
  <2> QED
    BY <1>1, <2>1 DEF Records
<1>3. Notified(v, t, a, x) = Record(v, c, note)
  BY <1>1 DEF Notified
<1> HIDE DEF note
<1>4. /\ Working(Record(v, c, note), Booking, k, store)
      /\ \A h \in 1..n : Record(v, c, note).objs[h] = v.objs[h]
  BY <1>2, Booked1
<1> QED
  BY <1>3, <1>4 DEF Within

LEMMA BothSidesFacts ==
    ASSUME NEW v, NEW store, Working(v, Booking, 2, store),
           NEW a \in Owned, NEW b \in Owned, Holds(v, 1, a), Holds(v, 2, b),
           NEW out \in Int, NEW in \in Int, Covers(store, a, -out), Covers(store, b, in),
           NEW debit \in Records("Transaction"), NEW credit \in Records("Transaction")
    PROVE  LET moved == BothSides(v, debit, credit, out, in)
           IN /\ Working(moved, Booking, 4, store)
              /\ moved.objs[3].id \in Positive
              /\ moved.objs[4].id \in Positive /\ moved.objs[4].data = credit
<1>1. PICK c \in Booking : c = "Transaction"
  BY BookingFacts
<1>2. PICK v1 : v1 = Change(v, 1, -out)
  OBVIOUS
<1>3. PICK v2 : v2 = Record(v1, c, debit)
  OBVIOUS
<1>4. PICK v3 : v3 = Change(v2, 2, in)
  OBVIOUS
<1>5. PICK v4 : v4 = Record(v3, c, credit)
  OBVIOUS
<1>6. /\ Working(v1, Booking, 2, store)
      /\ \A k \in 1..2 : k # 1 => v1.objs[k] = v.objs[k]
  <2>1. -out \in Int
    OBVIOUS
  <2> QED
    BY <1>2, <2>1, Counting, Changed
<1>7. /\ Working(v2, Booking, 3, store)
      /\ v2.objs[3].id \in Positive
      /\ \A h \in 1..2 : v2.objs[h] = v1.objs[h]
  <2>1. debit \in Records(c)
    BY <1>1
  <2>2. /\ Working(v2, Booking, 3, store)
        /\ v2.objs[3].id \in Positive
        /\ \A h \in 1..2 : v2.objs[h] = v1.objs[h]
    BY <1>3, <1>6, <2>1, Counting, Booked1
  <2> QED
    BY <2>2
<1>8. /\ Working(v3, Booking, 3, store)
      /\ \A k \in 1..3 : k # 2 => v3.objs[k] = v2.objs[k]
  <2>1. Holds(v2, 2, b)
    BY <1>6, <1>7 DEF Holds, Working
  <2> QED
    BY <1>4, <1>7, <2>1, Counting, Changed
<1>9. /\ Working(v4, Booking, 4, store)
      /\ v4.objs[4].id \in Positive /\ v4.objs[4].data = credit
      /\ \A h \in 1..3 : v4.objs[h] = v3.objs[h]
  <2>1. credit \in Records(c)
    BY <1>1
  <2>2. /\ Working(v4, Booking, 4, store)
        /\ v4.objs[4].id \in Positive /\ v4.objs[4].data = credit
        /\ \A h \in 1..3 : v4.objs[h] = v3.objs[h]
    BY <1>5, <1>8, <2>1, Counting, Booked1
  <2> QED
    BY <2>2
<1>10. BothSides(v, debit, credit, out, in) = v4
  BY <1>1, <1>2, <1>3, <1>4, <1>5 DEF BothSides
<1>11. v4.objs[3].id \in Positive
  BY <1>7, <1>8, <1>9
<1> QED
  BY <1>9, <1>10, <1>11

(* Two accounts at hand, and the two sides of a transfer between them. *)
LEMMA MovedFacts ==
    ASSUME BooksSound(db), NEW a \in Accounts, NEW b \in Accounts,
           NEW out \in Int, NEW in \in Nat, Guarded(a) => Balance(a) >= out,
           NEW debit \in Records("Transaction"), NEW credit \in Records("Transaction")
    PROVE  LET moved == BothSides(Load(Holding(a), "Account", b), debit, credit, out, in)
           IN /\ Working(moved, Booking, 4, db.store)
              /\ moved.objs[3].id \in Positive
              /\ moved.objs[4].id \in Positive /\ moved.objs[4].data = credit
<1>1. PICK v : v = Load(Holding(a), "Account", b)
  OBVIOUS
<1>2. Working(Holding(a), Booking, 1, db.store) /\ Holds(Holding(a), 1, a)
  BY HoldingFacts
<1>3. Working(v, Booking, 2, db.store) /\ v.objs[1] = Holding(a).objs[1] /\ Holds(v, 2, b)
  BY <1>1, <1>2, HoldingTwo
<1>4. Holds(v, 1, a)
  BY <1>2, <1>3 DEF Holds, Working
<1>5. Covers(db.store, a, -out) /\ Covers(db.store, b, in) /\ a \in Owned /\ b \in Owned
  BY TakesLess, BringsMore, BalanceTyped
<1>6. PICK moved : moved = BothSides(v, debit, credit, out, in)
  OBVIOUS
<1>7. /\ Working(moved, Booking, 4, db.store)
      /\ moved.objs[3].id \in Positive
      /\ moved.objs[4].id \in Positive /\ moved.objs[4].data = credit
  BY <1>3, <1>4, <1>5, <1>6, BothSidesFacts
<1> QED
  BY <1>1, <1>6, <1>7

LEMMA MovedEnds ==
    ASSUME NEW v, Working(v, Booking, 4, db.store),
           v.objs[3].id \in Positive, v.objs[4].id \in Positive,
           NEW a \in Owned, NEW b \in Owned, NEW x \in Int
    PROVE  Orderly(Close(Commit(Notified(Notified(v, 3, a, x), 4, b, x))))
<1>1. PICK v1 : v1 = Notified(v, 3, a, x)
  OBVIOUS
<1>2. Working(v1, Booking, 5, db.store) /\ v1.objs[4] = v.objs[4]
  <2>1. Within(3, 4) /\ Within(4, 4) /\ After(4, 5)
    BY Counting
  <2>2. PICK n : n = 4
    OBVIOUS
  <2>3. Working(v1, Booking, 5, db.store) /\ v1.objs[n] = v.objs[n]
    BY <1>1, <2>1, <2>2, NotifiedFacts
  <2> QED
    BY <2>2, <2>3
<1>3. v1.objs[4].id \in Positive
  BY <1>2
<1>4. Working(Notified(v1, 4, b, x), Booking, 6, db.store)
  BY <1>2, <1>3, Counting, NotifiedFacts
<1> QED
  BY <1>1, <1>4, Ends

LEMMA AmountFacts ==
    ASSUME NEW x \in Amounts
    PROVE  x \in Positive /\ x \in Nat /\ x \in Int /\ x > 0
BY RequestAssumption DEF Positive

LEMMA TransferMoneyOrderly ==
    ASSUME BooksSound(db), NEW a \in Accounts, NEW b \in Accounts, NEW x \in Amounts,
           TransferMoney(a, b, x)
    PROVE  Orderly(db')
<1>1. x \in Nat /\ x \in Int /\ a \in Owned /\ b \in Owned
  BY AmountFacts, BalanceTyped
<1>2. PICK debit \in Records("Transaction") : debit = Posting(a, x, "debit", b)
  BY <1>1, PostingTyped, TypeFacts
<1>3. PICK credit \in Records("Transaction") : credit = Posting(b, x, "credit", a)
  BY <1>1, PostingTyped, TypeFacts
<1>4. PICK moved : moved = BothSides(Load(Holding(a), "Account", b), debit, credit, x, x)
  OBVIOUS
<1>5. /\ Balance(a) >= x
      /\ db' = Close(Commit(Notified(Notified(moved, 3, a, x), 4, b, x)))
  BY <1>2, <1>3, <1>4 DEF TransferMoney
<1>6. /\ Working(moved, Booking, 4, db.store)
      /\ moved.objs[3].id \in Positive /\ moved.objs[4].id \in Positive
  BY <1>1, <1>4, <1>5, MovedFacts
<1> QED
  BY <1>1, <1>5, <1>6, MovedEnds

LEMMA SendMoneyOrderly ==
    ASSUME BooksSound(db), NEW a \in Accounts, NEW w \in Users, NEW x \in Amounts,
           NEW fee \in Fees, SendMoney(a, w, x, fee)
    PROVE  Orderly(db')
<1>1. x \in Nat /\ x \in Int /\ a \in Owned /\ x + fee \in Int
  BY AmountFacts, BalanceTyped, RequestAssumption
<1>2. PICK b \in Accounts : b = DefaultAccount(w)
  <2>1. \E c \in Accounts : Owner[c] = w
    BY DEF SendMoney
  <2> DEFINE C == {c \in Accounts : Owner[c] = w}
  <2>2. C \subseteq Nat /\ C # {}
    <3>1. Accounts \subseteq Positive
      BY IdsArePositive, ClassFacts DEF Accounts, BooksSound
    <3> QED
      BY <2>1, <3>1 DEF Positive
  <2> HIDE DEF C
  <2>3. PICK c \in C : \A d \in C : c <= d
    BY <2>2, LeastNatural
  <2>4. \E c1 \in Accounts : Owner[c1] = w /\ \A d \in Accounts : Owner[d] = w => c1 <= d
    BY <2>3 DEF C
  <2> QED
    BY <2>4 DEF DefaultAccount
<1>3. b \in Owned
  BY BalanceTyped
<1>4. PICK debit \in Records("Transaction") : debit = Posting(a, x + fee, "debit", b)
  BY <1>1, <1>3, PostingTyped, TypeFacts
<1>5. PICK credit \in Records("Transaction") : credit = Posting(b, x, "credit", a)
  BY <1>1, <1>3, PostingTyped, TypeFacts
<1>6. PICK out \in Int : out = x + fee
  BY <1>1
<1>7. PICK moved : moved = BothSides(Load(Holding(a), "Account", b), debit, credit, out, x)
  OBVIOUS
<1>8. /\ Balance(a) >= out
      /\ db' = Close(Commit(Notified(Notified(moved, 3, a, x), 4, b, x)))
  BY <1>2, <1>4, <1>5, <1>6, <1>7 DEF SendMoney
<1>9. /\ Working(moved, Booking, 4, db.store)
      /\ moved.objs[3].id \in Positive /\ moved.objs[4].id \in Positive
  BY <1>1, <1>7, <1>8, MovedFacts
<1> QED
  BY <1>1, <1>3, <1>8, <1>9, MovedEnds

LEMMA TransferExternalOrderly ==
    ASSUME BooksSound(db), NEW a \in Accounts, NEW x \in Amounts, TransferExternal(a, x)
    PROVE  Orderly(db')
<1>1. x \in Int /\ -x \in Int /\ a \in Owned /\ Balance(a) >= x
  BY AmountFacts, BalanceTyped DEF TransferExternal
<1>2. PICK debit \in Records("Transaction") : debit = Posting(a, x, "debit", 0)
  BY <1>1, PostingTyped, TypeFacts
<1>3. PICK moved : moved = Record(Change(Holding(a), 1, -x), "Transaction", debit)
  OBVIOUS
<1>4. Working(moved, Booking, 2, db.store) /\ moved.objs[2].id \in Positive
  BY <1>1, <1>3, TakesLess, BookedFacts
<1>5. Working(Notified(moved, 2, a, x), Booking, 3, db.store)
  BY <1>1, <1>4, Counting, NotifiedFacts
<1>6. db' = Close(Commit(Notified(moved, 2, a, x)))
  BY <1>2, <1>3 DEF TransferExternal
<1> QED
  BY <1>5, <1>6, Ends

(* A booking of one transaction, on an account with the funds for it. *)
LEMMA BookingOrderly ==
    ASSUME BooksSound(db), NEW a \in Accounts, NEW d \in Int, Covers(db.store, a, d),
           NEW posting \in Records("Transaction"), db' = Close(Booked(a, d, posting))
    PROVE  Orderly(db')
BY BookedEnds

LEMMA DepositMoneyOrderly ==
    ASSUME BooksSound(db), NEW a \in Accounts, NEW x \in Amounts, DepositMoney(a, x)
    PROVE  Orderly(db')
<1>1. x \in Int /\ x \in Nat /\ a \in Owned
  BY AmountFacts, BalanceTyped
<1>2. PICK posting \in Records("Transaction") : posting = Posting(a, x, "credit", 0)
  BY <1>1, PostingTyped, TypeFacts
<1>3. db' = Close(Booked(a, x, posting))
  BY <1>2 DEF DepositMoney
<1> QED
  BY <1>1, <1>3, BringsMore, BookingOrderly

(* Taking x from an account that has it, or that is not guarded. *)
LEMMA DebitOrderly ==
    ASSUME BooksSound(db), NEW a \in Accounts, NEW x \in Int,
           Guarded(a) => Balance(a) >= x,
           db' = Close(Booked(a, -x, Posting(a, x, "debit", 0)))
    PROVE  Orderly(db')
<1>1. -x \in Int /\ a \in Owned
  BY BalanceTyped
<1>2. PICK posting \in Records("Transaction") : posting = Posting(a, x, "debit", 0)
  BY <1>1, PostingTyped, TypeFacts
<1>3. db' = Close(Booked(a, -x, posting))
  BY <1>2
<1> QED
  BY <1>1, <1>3, TakesLess, BookingOrderly

LEMMA P2POrderly ==
    ASSUME BooksSound(db), NEW a \in Accounts, NEW x \in Amounts, NEW instant \in BOOLEAN,
           CreateP2PTransfer(a, x, instant)
    PROVE  Orderly(db')
<1>1. PICK total \in Int : total = IF instant THEN x + x \div 100 ELSE x
  <2>1. x \in Int
    BY AmountFacts
  <2> QED
    BY <2>1
<1>2. -total \in Int /\ a \in Owned /\ Balance(a) >= total
  BY <1>1, BalanceTyped DEF CreateP2PTransfer
<1>3. PICK posting : posting = [Posting(a, -total, "p2p_transfer", 0) EXCEPT
                                   !.status = IF instant THEN "completed" ELSE "pending"]
  OBVIOUS
<1>4. posting \in Records("Transaction")
  <2>1. Rounded(-total) \in Cents /\ Halfway(-total) \in BOOLEAN
    BY <1>2, RoundedTyped DEF Halfway
  <2>2. posting \in Postings
    BY <1>2, <1>3, <2>1 DEF Posting, Postings, TransactionTypes
  <2> QED
    BY <2>2 DEF Records
<1>5. db' = Close(Booked(a, -total, posting))
  BY <1>1, <1>3 DEF CreateP2PTransfer
<1> QED
  BY <1>2, <1>4, <1>5, TakesLess, BookingOrderly

LEMMA RecordExpenseOrderly ==
    ASSUME BooksSound(db), NEW a \in Accounts, NEW x \in Charges,
           RecordExpense(a, x) \/ ProcessPayroll(a, x)
    PROVE  Orderly(db')
<1>1. a \in Business /\ db' = Close(Booked(a, -x, Posting(a, x, "debit", 0)))
  BY DEF RecordExpense, ProcessPayroll
<1>2. ~Guarded(a) /\ x \in Int
  BY <1>1, RequestAssumption DEF Guarded
<1> QED
  BY <1>1, <1>2, DebitOrderly

LEMMA WithdrawMoneyOrderly ==
    ASSUME BooksSound(db), NEW a \in Accounts, NEW x \in Amounts, WithdrawMoney(a, x)
    PROVE  Orderly(db')
BY AmountFacts, DebitOrderly DEF WithdrawMoney

(* The card's account is object 1 and the paying account object 2. *)
LEMMA PayCardOrderly ==
    ASSUME BooksSound(db), NEW a \in Accounts, NEW b \in Accounts, NEW x \in Amounts,
           PayCard(b, a, x)
    PROVE  Orderly(db')
<1>1. /\ x \in Nat /\ x \in Int /\ -x \in Int /\ a \in Owned /\ b \in Owned
      /\ Covers(db.store, a, -x) /\ Covers(db.store, b, x)
  <2>1. Balance(a) >= x
    BY DEF PayCard
  <2> QED
    BY <2>1, AmountFacts, BalanceTyped, TakesLess, BringsMore
<1>2. PICK c \in Booking : c = "Transaction"
  BY BookingFacts
<1>3. PICK debit \in Records("Transaction") : debit = Posting(a, x, "debit", b)
  BY <1>1, PostingTyped, TypeFacts
<1>4. PICK credit \in Records("Transaction") : credit = Posting(b, x, "credit", a)
  BY <1>1, PostingTyped, TypeFacts
<1>5. PICK v : v = Load(Holding(b), "Account", a)
  OBVIOUS
<1>6. PICK v1 : v1 = Change(v, 2, -x)
  OBVIOUS
<1>7. PICK v2 : v2 = Change(v1, 1, x)
  OBVIOUS
<1>8. PICK v3 : v3 = Record(v2, c, debit)
  OBVIOUS
<1>9. PICK v4 : v4 = Record(v3, c, credit)
  OBVIOUS
<1>10. Working(Holding(b), Booking, 1, db.store) /\ Holds(Holding(b), 1, b)
  BY HoldingFacts
<1>11. Working(v, Booking, 2, db.store) /\ v.objs[1] = Holding(b).objs[1] /\ Holds(v, 2, a)
  BY <1>5, <1>10, HoldingTwo
<1>12. Holds(v, 1, b)
  BY <1>10, <1>11 DEF Holds, Working
<1>13. /\ Working(v1, Booking, 2, db.store)
       /\ \A k \in 1..2 : k # 2 => v1.objs[k] = v.objs[k]
  BY <1>1, <1>6, <1>11, Counting, Changed
<1>14. Holds(v1, 1, b)
  <2>1. v1.objs[1] = v.objs[1]
    BY <1>13
  <2> QED
    BY <1>11, <1>12, <1>13, <2>1 DEF Holds, Working
<1>15. Working(v2, Booking, 2, db.store)
  BY <1>1, <1>7, <1>13, <1>14, Counting, Changed
<1>16. Working(v3, Booking, 3, db.store)
  BY <1>2, <1>8, <1>15, Counting, Booked1
<1>17. Working(v4, Booking, 4, db.store)
  BY <1>2, <1>9, <1>16, Counting, Booked1
<1>18. db' = Close(Commit(v4))
  BY <1>2, <1>3, <1>4, <1>5, <1>6, <1>7, <1>8, <1>9 DEF PayCard
<1> QED
  BY <1>17, <1>18, Ends

(* The deletion of the first object, a record that is no account. *)
LEMMA DeletedEnds ==
    ASSUME NEW v, NEW n, Working(v, Booking, n, db.store), 1 \in 1..n,
           v.objs[1].tracked = TRUE, v.objs[1].class # "Account"
    PROVE  Orderly(Close(Commit(Delete(v, 1))))
<1>1. PICK w : w = Delete(v, 1)
  OBVIOUS
<1>2. /\ Sound(w, Booking) /\ w.store = db.store
      /\ w.objs = v.objs /\ w.deletes = Append(<<>>, 1)
  <2>1. Len(v.objs) = n /\ Sound(v, Booking) /\ v.deletes = <<>> /\ v.store = db.store
    BY DEF Working
  <2>2. PICK h \in 1..Len(v.objs) : h = 1
    BY <2>1
  <2>3. v.objs[h].tracked = TRUE /\ w = Delete(v, h)
    BY <1>1, <2>2
  <2>4. /\ Sound(w, Booking) /\ w.store = v.store
        /\ w.objs = v.objs /\ w.deletes = Append(v.deletes, h)
    BY <2>1, <2>3, DeleteFacts
  <2> QED
    BY <2>1, <2>2, <2>4
<1>3. Gone(w, "Account") = {}
  <2>1. \A j \in DOMAIN w.deletes : w.deletes[j] = 1
    <3>1. Append(<<>>, 1) \in Seq({1})
      OBVIOUS
    <3>2. PICK list \in Seq({1}) : list = Append(<<>>, 1)
      BY <3>1
    <3> QED
      BY <1>2, <3>2
  <2> QED
    BY <1>2, <2>1 DEF Gone
<1>4. /\ Booking \in Makes /\ "Account" \in Classes \ Booking
      /\ "RecurringRule" \in (Classes \ Booking) \ Typed
  BY BookingFacts, ClassFacts DEF Makes
<1>5. /\ Stored(Commit(w).store) /\ Commit(w).counter = w.counter
      /\ DOMAIN Commit(w).store["Account"] = DOMAIN w.store["Account"]
      /\ Commit(w).store["RecurringRule"] = w.store["RecurringRule"]
  BY <1>2, <1>3, <1>4, CommitStored
<1>6. DOMAIN db.store["Account"] = Owned
  BY DEF Working
<1> QED
  BY <1>1, <1>2, <1>5, <1>6 DEF Orderly, BooksSound, Sound, Close, Rules

LEMMA DeleteTransactionOrderly ==
    ASSUME BooksSound(db), NEW t \in DOMAIN Transactions, DeleteTransaction(t)
    PROVE  Orderly(db')
<1>1. PICK c \in Typed : c = "Transaction"
  BY ClassFacts
<1>2. t \in DOMAIN db.store[c] /\ Transactions[t].account \in Accounts
  <2>1. Transactions[t] \in Allowed("Transaction", t)
    BY ClassFacts DEF BooksSound, Stored, Transactions
  <2>2. Transactions[t] \in Postings
    BY <2>1 DEF Allowed, Records
  <2> QED
    BY <1>1, <2>2 DEF Postings, BooksSound, Accounts, Transactions
<1>3. PICK v1 : v1 = Load(Open(db), c, t)
  OBVIOUS
<1>4. PICK v2 : v2 = Load(v1, "Account", Transactions[t].account)
  OBVIOUS
<1>5. /\ Working(v1, Booking, 1, db.store)
      /\ v1.objs[1] = [class |-> c, id |-> t, tracked |-> TRUE, data |-> db.store[c][t]]
  BY <1>2, <1>3, Opened, Counting, Loaded
<1>6. /\ Working(v2, Booking, 2, db.store)
      /\ v2.objs[1] = v1.objs[1]
  BY <1>2, <1>4, <1>5, HoldingTwo
<1>7. v2.objs[1].tracked = TRUE /\ v2.objs[1].class # "Account"
  BY <1>1, <1>5, <1>6
<1>8. db' = Close(Commit(Delete(v2, 1)))
  BY <1>1, <1>3, <1>4 DEF DeleteTransaction
<1>9. 1 \in 1..2
  OBVIOUS
<1> QED
  BY <1>6, <1>7, <1>8, <1>9, DeletedEnds

---------------------------------------------------------------------------
(* The automatic contributions.  Among goals there is a foremost one. *)
Best(goal, S, g) ==
    g \in S /\ \A h \in S : \/ goal[g].priority > goal[h].priority
                            \/ goal[g].priority = goal[h].priority /\ g <= h

LEMMA ForemostFacts ==
    ASSUME NEW goal, NEW S, S # {}, Bounded(S), \A g \in S : goal[g].priority \in Nat
    PROVE  Foremost(goal, S) \in S
<1> DEFINE Low(i) == {g \in S : g <= i}
           G == {i \in Nat : Low(i) = {} \/ \E g : Best(goal, Low(i), g)}
<1>1. PICK m \in Nat : S \subseteq 1..m
  BY DEF Bounded
<1>2. 0 \in G
  <2>1. ASSUME NEW g \in S
        PROVE  ~(g <= 0)
    BY <1>1
  <2>2. Low(0) = {}
    BY <2>1
  <2> QED
    BY <2>2
<1>3. ASSUME NEW i \in 1..m, i - 1 \in G
      PROVE  i \in G
  <2>1. \A g \in S : g \in Nat /\ goal[g].priority \in Nat
    BY <1>1
  <2>2. /\ i \in S => Low(i) = Low(i - 1) \cup {i}
        /\ i \notin S => Low(i) = Low(i - 1)
        /\ \A g \in Low(i - 1) : g \in S /\ g < i
    BY <2>1
  <2>3. Low(i - 1) = {} \/ \E g : Best(goal, Low(i - 1), g)
    BY <1>3
  <2>4. i \in Nat
    OBVIOUS
  <2> HIDE DEF Low
  <2>5. CASE i \notin S
    BY <2>2, <2>3, <2>4, <2>5
  <2>6. CASE i \in S /\ Low(i - 1) = {}
    <3>1. Best(goal, Low(i), i)
      BY <2>2, <2>4, <2>6 DEF Best
    <3> QED
      BY <2>4, <3>1
  <2>7. CASE i \in S /\ Low(i - 1) # {}
    <3>1. PICK g : Best(goal, Low(i - 1), g)
      BY <2>3, <2>7
    <3>2. /\ g \in S /\ g < i /\ Low(i) = Low(i - 1) \cup {i} /\ g \in Low(i - 1)
          /\ g \in Nat /\ goal[g].priority \in Nat /\ goal[i].priority \in Nat
      BY <2>1, <2>2, <2>7, <3>1 DEF Best
    <3>3. CASE goal[i].priority > goal[g].priority
      <4>1. \A h \in Low(i - 1) : goal[i].priority > goal[h].priority
        <5> TAKE h \in Low(i - 1)
        <5>1. goal[h].priority \in Nat /\ goal[g].priority >= goal[h].priority
          BY <2>1, <2>2, <3>1, <3>2 DEF Best
        <5> QED
          BY <3>2, <3>3, <5>1
      <4>2. i <= i /\ i \in Low(i)
        BY <2>4, <3>2
      <4>3. Best(goal, Low(i), i)
        BY <3>2, <4>1, <4>2 DEF Best
      <4> QED
        BY <2>4, <4>3
    <3>4. CASE ~(goal[i].priority > goal[g].priority)
      <4>1. Best(goal, Low(i), g)
        BY <2>4, <3>1, <3>2, <3>4 DEF Best
      <4> QED
        BY <2>4, <4>1
    <3> QED
      BY <3>3, <3>4
  <2> QED
    BY <2>5, <2>6, <2>7
<1>4. m \in G
  <2> HIDE DEF G
  <2>1. \A i \in 0..m : i \in G
    BY <1>2, <1>3, UpTo
  <2> QED
    BY <2>1
<1>5. Low(m) = S
  <2>1. ASSUME NEW g \in S
        PROVE  g <= m
    BY <1>1
  <2> QED
    BY <2>1
<1>6. PICK g : Best(goal, S, g)
  <2> HIDE DEF Low
  <2> QED
    BY <1>4, <1>5
<1> QED
  BY <1>6 DEF Best, Foremost

(* The recursion of LinkedGoals: f[k] is what is left of S without the k   *)
(* foremost goals.                                                         *)
Removing(f, n, goal, S) ==
    f = [k \in 0..n |-> IF k = 0 THEN S ELSE f[k - 1] \ {Foremost(goal, f[k - 1])}]

LEMMA RemovingExists ==
    ASSUME NEW n \in Nat, NEW goal, NEW S
    PROVE  \E f : Removing(f, n, goal, S)
<1> DEFINE G == {m \in 0..n : \E f : Removing(f, m, goal, S)}
<1>1. 0 \in G
  <2> DEFINE z == [k \in 0..0 |-> S]
  <2>1. Removing(z, 0, goal, S)
    BY DEF Removing
  <2> QED
    BY <2>1
<1>2. ASSUME NEW m \in 1..n, m - 1 \in G
      PROVE  m \in G
  <2>1. PICK f : Removing(f, m - 1, goal, S)
    BY <1>2
  <2> DEFINE Step(s) == s \ {Foremost(goal, s)}
             g == [k \in 0..m |-> IF k = m THEN Step(f[m - 1]) ELSE f[k]]
  <2>2. \A k \in 0..(m - 1) : f[k] = IF k = 0 THEN S ELSE Step(f[k - 1])
    <3> HIDE DEF g
    <3> QED
      BY <2>1, Zenon DEF Removing
  <2>3. \A k \in 0..m : g[k] = IF k = 0 THEN S ELSE Step(g[k - 1])
    <3> TAKE k \in 0..m
    <3> HIDE DEF Step
    <3>1. CASE k = m
      <4>1. g[m] = Step(f[m - 1]) /\ g[m - 1] = f[m - 1]
        OBVIOUS
      <4> HIDE DEF g
      <4> QED
        BY <3>1, <4>1
    <3>2. CASE k # m
      <4>1. k \in 0..(m - 1) /\ g[k] = f[k]
        BY <3>2
      <4>2. k # 0 => g[k - 1] = f[k - 1]
        BY <3>2
      <4> HIDE DEF g
      <4> QED
        BY <2>2, <4>1, <4>2
    <3> QED
      BY <3>1, <3>2
  <2>4. g = [k \in 0..m |-> g[k]]
    OBVIOUS
  <2> HIDE DEF g
  <2>5. Removing(g, m, goal, S)
    BY <2>3, <2>4 DEF Removing
  <2> QED
    BY <2>5
<1> HIDE DEF G
<1>3. \A m \in 0..n : m \in G
  BY <1>1, <1>2, UpTo
<1>4. n \in G
  BY <1>3
<1> QED
  BY <1>4 DEF G

(* The first n entries of a list are different ones. *)
Distinct(list, n) == \A j, k \in 1..n : j < k => list[j] # list[k]

LEMMA LinkedFacts ==
    ASSUME NEW v, Stored(v.store), NEW a
    PROVE  \E n \in Nat : /\ DOMAIN LinkedGoals(v, a) = 1..n
                          /\ Len(LinkedGoals(v, a)) = n
                          /\ \A k \in 1..n : LinkedGoals(v, a)[k] \in DOMAIN v.store["Goal"]
                          /\ Distinct(LinkedGoals(v, a), n)
<1> DEFINE goal == v.store["Goal"]
           linked == {g \in DOMAIN goal : /\ goal[g].account = a
                                          /\ goal[g].status = "active"
                                          /\ goal[g].user = Owner[a]}
           n == Cardinality(linked)
           Is(f) == f = [k \in 0..n |-> IF k = 0 THEN linked
                                        ELSE f[k - 1] \ {Foremost(goal, f[k - 1])}]
           rest == CHOOSE f : Is(f)
<1>1. /\ Bounded(DOMAIN goal)
      /\ \A g \in DOMAIN goal : goal[g].priority \in Nat
  <2>1. "Goal" \in Classes
    BY ClassFacts
  <2>2. \A g \in DOMAIN goal : goal[g] \in GoalRecords
    BY <2>1 DEF Stored, Allowed, Records
  <2> QED
    BY <2>1, <2>2 DEF Stored, GoalRecords
<1>2. linked \subseteq DOMAIN goal /\ IsFiniteSet(linked) /\ n \in Nat
  <2>1. PICK m \in Nat : DOMAIN goal \subseteq 1..m
    BY <1>1 DEF Bounded
  <2>2. linked \in SUBSET (1..m)
    BY <2>1
  <2>3. IsFiniteSet(1..m)
    BY FS_Interval
  <2>4. linked \subseteq DOMAIN goal
    OBVIOUS
  <2> HIDE DEF linked
  <2> QED
    BY <2>2, <2>3, <2>4, FS_Subset, FS_CardinalityType
<1>3. LinkedGoals(v, a) = [k \in 1..n |-> Foremost(goal, rest[k - 1])]
  BY Zenon DEF LinkedGoals
<1> HIDE DEF linked
<1>4. Is(rest)
  <2>1. PICK f : Removing(f, n, goal, linked)
    BY <1>2, RemovingExists
  <2>2. Is(f)
    BY <2>1, Zenon DEF Removing
  <2> HIDE DEF Is
  <2> QED
    BY <2>2
<1> HIDE DEF rest, n, goal
<1>5. \A k \in 0..n : rest[k] = IF k = 0 THEN linked
                                ELSE rest[k - 1] \ {Foremost(goal, rest[k - 1])}
  BY <1>4, Zenon
<1> DEFINE Left(k) == /\ rest[k] \subseteq linked /\ IsFiniteSet(rest[k])
                      /\ Cardinality(rest[k]) = n - k
           G == {k \in 0..n : Left(k)}
<1>6. ASSUME NEW k \in 1..n, k - 1 \in G
      PROVE  Foremost(goal, rest[k - 1]) \in rest[k - 1] /\ k \in G
  <2>1. PICK S : S = rest[k - 1]
    OBVIOUS
  <2>2. /\ S \subseteq linked /\ IsFiniteSet(S) /\ Cardinality(S) = n - (k - 1)
        /\ rest[k] = S \ {Foremost(goal, S)}
    <3>1. Left(k - 1) /\ k \in 0..n /\ k # 0
      BY <1>2, <1>6
    <3>2. rest[k] = rest[k - 1] \ {Foremost(goal, rest[k - 1])}
      BY <1>5, <3>1
    <3> QED
      BY <2>1, <3>1, <3>2
  <2>3. Cardinality(S) # 0
    BY <1>2, <2>2
  <2>4. Bounded(S) /\ \A g \in S : goal[g].priority \in Nat
    BY <1>1, <1>2, <2>2 DEF Bounded
  <2>5. S # {}
    BY <2>3, FS_EmptySet
  <2>6. Foremost(goal, S) \in S
    BY <2>4, <2>5, ForemostFacts
  <2>7. /\ IsFiniteSet(S \ {Foremost(goal, S)})
        /\ Cardinality(S \ {Foremost(goal, S)}) = Cardinality(S) - 1
    BY <2>2, <2>6, FS_RemoveElement
  <2>8. Left(k)
    <3>1. Cardinality(S) - 1 = n - k
      BY <1>2, <2>2
    <3> QED
      BY <2>2, <2>7, <3>1
  <2> QED
    BY <1>2, <2>1, <2>6, <2>8
<1>7. \A k \in 0..n : k \in G
  <2>1. 0 \in G
    <3>1. rest[0] = linked
      <4>1. PICK z \in 0..n : z = 0
        BY <1>2
      <4> QED
        BY <1>5, <4>1
    <3>2. Cardinality(linked) = n - 0
      BY <1>2 DEF n
    <3> QED
      BY <1>2, <3>1, <3>2
  <2>2. \A k \in 1..n : k - 1 \in G => k \in G
    BY <1>6
  <2> HIDE DEF G
  <2> QED
    BY <1>2, <2>1, <2>2, UpTo
<1>8. ASSUME NEW k \in 1..n
      PROVE  Foremost(goal, rest[k - 1]) \in DOMAIN goal
  <2>1. k - 1 \in G
    BY <1>2, <1>7
  <2>2. Foremost(goal, rest[k - 1]) \in rest[k - 1] /\ rest[k - 1] \subseteq linked
    BY <1>6, <2>1
  <2> QED
    BY <1>2, <2>2
<1> DEFINE Past(k) == \A j \in 1..k : Foremost(goal, rest[j - 1]) \notin rest[k]
           P == {k \in 0..n : Past(k)}
<1>11. \A k \in 0..n : k \in P
  <2>1. 0 \in P
    BY <1>2
  <2>2. ASSUME NEW k \in 1..n, k - 1 \in P
        PROVE  k \in P
    <3>1. rest[k] = rest[k - 1] \ {Foremost(goal, rest[k - 1])}
      <4>1. k \in 0..n /\ k # 0
        BY <1>2
      <4> QED
        BY <1>5, <4>1
    <3>2. ASSUME NEW j \in 1..k
          PROVE  Foremost(goal, rest[j - 1]) \notin rest[k]
      <4>1. CASE j = k
        BY <3>1, <4>1
      <4>2. CASE j # k
        <5>1. j \in 1..(k - 1)
          BY <1>2, <4>2
        <5> QED
          BY <2>2, <3>1, <5>1
      <4> QED
        BY <4>1, <4>2
    <3> QED
      BY <1>2, <3>2
  <2> HIDE DEF P
  <2> QED
    BY <1>2, <2>1, <2>2, UpTo
<1>12. ASSUME NEW j \in 1..n, NEW k \in 1..n, j < k
       PROVE  Foremost(goal, rest[j - 1]) # Foremost(goal, rest[k - 1])
  <2>1. k - 1 \in G /\ k - 1 \in P /\ j \in 1..(k - 1)
    BY <1>2, <1>7, <1>11, <1>12
  <2>2. Foremost(goal, rest[k - 1]) \in rest[k - 1]
    BY <1>6, <2>1
  <2>3. Foremost(goal, rest[j - 1]) \notin rest[k - 1]
    BY <2>1
  <2> QED
    BY <2>2, <2>3
<1> HIDE DEF G, P
<1>9. /\ DOMAIN LinkedGoals(v, a) = 1..n
      /\ \A k \in 1..n : LinkedGoals(v, a)[k] = Foremost(goal, rest[k - 1])
  BY <1>3
<1>10. Len(LinkedGoals(v, a)) = n
  BY <1>2, <1>9
<1>13. Distinct(LinkedGoals(v, a), n)
  BY <1>9, <1>12 DEF Distinct
<1> QED
  BY <1>2, <1>8, <1>9, <1>10, <1>13 DEF goal

(* The recursion that loads the goals one after the other. *)
Loading(f, n, u, goals) ==
    f = [k \in 0..n |-> IF k = 0 THEN u ELSE Load(f[k - 1], "Goal", goals[k])]

LEMMA LoadingExists ==
    ASSUME NEW n \in Nat, NEW u, NEW goals
    PROVE  \E f : Loading(f, n, u, goals)
<1> DEFINE G == {m \in 0..n : \E f : Loading(f, m, u, goals)}
<1>1. 0 \in G
  <2> DEFINE z == [k \in 0..0 |-> u]
  <2>1. Loading(z, 0, u, goals)
    BY DEF Loading
  <2> QED
    BY <2>1
<1>2. ASSUME NEW m \in 1..n, m - 1 \in G
      PROVE  m \in G
  <2>1. PICK f : Loading(f, m - 1, u, goals)
    BY <1>2
  <2> DEFINE Step(s, k) == Load(s, "Goal", goals[k])
             g == [k \in 0..m |-> IF k = m THEN Step(f[m - 1], m) ELSE f[k]]
  <2>2. \A k \in 0..(m - 1) : f[k] = IF k = 0 THEN u ELSE Step(f[k - 1], k)
    <3> HIDE DEF g
    <3> QED
      BY <2>1, Zenon DEF Loading
  <2>3. \A k \in 0..m : g[k] = IF k = 0 THEN u ELSE Step(g[k - 1], k)
    <3> TAKE k \in 0..m
    <3> HIDE DEF Step
    <3>1. CASE k = m
      <4>1. g[m] = Step(f[m - 1], m) /\ g[m - 1] = f[m - 1]
        OBVIOUS
      <4> HIDE DEF g
      <4> QED
        BY <3>1, <4>1
    <3>2. CASE k # m
      <4>1. k \in 0..(m - 1) /\ g[k] = f[k]
        BY <3>2
      <4>2. k # 0 => g[k - 1] = f[k - 1]
        BY <3>2
      <4> HIDE DEF g
      <4> QED
        BY <2>2, <4>1, <4>2
    <3> QED
      BY <3>1, <3>2
  <2>4. g = [k \in 0..m |-> g[k]]
    OBVIOUS
  <2> HIDE DEF g
  <2>5. Loading(g, m, u, goals)
    BY <2>3, <2>4, Zenon DEF Loading
  <2> QED
    BY <2>5
<1> HIDE DEF G
<1>3. \A m \in 0..n : m \in G
  BY <1>1, <1>2, UpTo
<1>4. n \in G
  BY <1>3
<1> QED
  BY <1>4 DEF G

(* Objects f + 1 to f + k of the unit of work v are the first k of goals. *)
GoalObject(o, g) == o.class = "Goal" /\ o.id = g

HoldsGoals(v, f, goals, k) ==
    \A j \in 1..k : GoalObject(v.objs[f + j], goals[j])

LEMMA GoalsLoaded ==
    ASSUME NEW store, NEW u, NEW first \in Nat, Working(u, Booking, first, store),
           NEW n \in Nat, NEW goals, \A k \in 1..n : goals[k] \in DOMAIN store["Goal"],
           NEW f, Loading(f, n, u, goals)
    PROVE  Working(f[n], Booking, first + n, store) /\ HoldsGoals(f[n], first, goals, n)
<1> DEFINE Good(k) == /\ Working(f[k], Booking, first + k, store)
                      /\ HoldsGoals(f[k], first, goals, k)
           G == {k \in 0..n : Good(k)}
<1>1. \A k \in 0..n : f[k] = IF k = 0 THEN u ELSE Load(f[k - 1], "Goal", goals[k])
  BY Zenon DEF Loading
<1>2. Good(0)
  <2>1. PICK z \in 0..n : z = 0
    OBVIOUS
  <2>2. f[z] = u
    BY <1>1, <2>1
  <2>3. first + 0 = first
    OBVIOUS
  <2> QED
    BY <2>1, <2>2, <2>3 DEF HoldsGoals
<1>3. ASSUME NEW k \in 1..n, Good(k - 1)
      PROVE  Good(k)
  <2>1. PICK v : v = f[k - 1]
    OBVIOUS
  <2>2. PICK w : w = f[k]
    OBVIOUS
  <2>3. PICK m \in Nat : m = first + (k - 1)
    OBVIOUS
  <2>4. PICK l : l = first + k
    OBVIOUS
  <2>5. After(m, l)
    BY <2>3, <2>4 DEF After
  <2>6. PICK c \in Typed : c = "Goal"
    BY ClassFacts
  <2>7. w = Load(v, c, goals[k]) /\ goals[k] \in DOMAIN store[c]
    <3>1. k \in 0..n /\ k # 0
      OBVIOUS
    <3> QED
      BY <1>1, <2>1, <2>2, <2>6, <3>1
  <2>8. Working(v, Booking, m, store) /\ HoldsGoals(v, first, goals, k - 1)
    BY <1>3, <2>1, <2>3
  <2>9. /\ Working(w, Booking, l, store)
        /\ w.objs[l] = [class |-> c, id |-> goals[k], tracked |-> TRUE,
                        data |-> store[c][goals[k]]]
        /\ \A h \in 1..m : w.objs[h] = v.objs[h]
    BY <2>5, <2>7, <2>8, Loaded
  <2>10. HoldsGoals(w, first, goals, k)
    <3> SUFFICES ASSUME NEW j \in 1..k
                 PROVE  GoalObject(w.objs[first + j], goals[j])
      BY DEF HoldsGoals
    <3>1. CASE j = k
      BY <2>4, <2>6, <2>9, <3>1 DEF GoalObject
    <3>2. CASE j # k
      <4>1. j \in 1..(k - 1) /\ first + j \in 1..m
        BY <2>3, <3>2
      <4> QED
        BY <2>8, <2>9, <4>1 DEF HoldsGoals
    <3> QED
      BY <3>1, <3>2
  <2> QED
    BY <2>2, <2>4, <2>9, <2>10
<1>4. \A k \in 0..n : k \in G
  <2>1. 0 \in G
    BY <1>2
  <2>2. \A k \in 1..n : k - 1 \in G => k \in G
    BY <1>3
  <2> HIDE DEF G
  <2> QED
    BY <2>1, <2>2, UpTo
<1>5. n \in G
  <2> HIDE DEF G
  <2> QED
    BY <1>4
<1> QED
  BY <1>5

---------------------------------------------------------------------------
(* The share of a goal: a number, and never more than is left. *)
LEMMA LeastFacts ==
    ASSUME NEW p \in Int, NEW q \in Int, NEW r \in Int
    PROVE  /\ Least({p, q, r}) \in Int
           /\ Least({p, q, r}) <= q /\ Least({p, q, r}) <= r
<1> DEFINE S == {p, q, r}
<1>1. \E x \in S : \A y \in S : x <= y
  <2>1. CASE p <= q /\ p <= r
    BY <2>1
  <2>2. CASE q <= p /\ q <= r
    BY <2>2
  <2>3. CASE r <= p /\ r <= q
    BY <2>3
  <2> QED
    BY <2>1, <2>2, <2>3
<1> HIDE DEF S
<1>2. Least(S) \in S /\ \A y \in S : Least(S) <= y
  BY <1>1 DEF Least
<1> QED
  BY <1>2 DEF S

LEMMA GoalNumbers ==
    ASSUME NEW goal \in GoalRecords
    PROVE  /\ goal.target \in Int /\ goal.current \in Int /\ goal.fixed \in Int
           /\ goal.current \in Cents
BY CentsTyped DEF GoalRecords

LEMMA ShareFacts ==
    ASSUME NEW goal \in GoalRecords, NEW left \in Int, left > 0
    PROVE  Share(goal, left) \in Int /\ Share(goal, left) <= left
<1>1. PICK missing \in Int : missing = goal.target - goal.current
  BY GoalNumbers
<1>2. PICK part \in Int : goal.percent > 0 => part = (left * goal.percent) \div 100
  <2>1. CASE goal.percent \in Nat
    <3>1. PICK p \in Int : p = left * goal.percent
      BY <2>1
    <3>2. p \div 100 \in Int
      OBVIOUS
    <3> QED
      BY <3>1, <3>2
  <2>2. CASE goal.percent \notin Nat
    <3>1. ~(goal.percent > 0)
      BY <2>2 DEF GoalRecords, Unset
    <3>2. 0 \in Int
      OBVIOUS
    <3> QED
      BY <3>1, <3>2
  <2> QED
    BY <2>1, <2>2
<1>3. goal.fixed \in Int
  BY GoalNumbers
<1>4. /\ Least({part, left, missing}) \in Int /\ Least({part, left, missing}) <= left
      /\ Least({goal.fixed, left, missing}) \in Int
      /\ Least({goal.fixed, left, missing}) <= left
  BY <1>3, LeastFacts
<1>5. Share(goal, left) = IF missing <= 0 THEN 0
                          ELSE IF goal.percent > 0 THEN Least({part, left, missing})
                          ELSE IF goal.fixed > 0 THEN Least({goal.fixed, left, missing})
                          ELSE 0
  BY <1>1, <1>2 DEF Share
<1> QED
  BY <1>4, <1>5

LEMMA CreditedTyped ==
    ASSUME NEW goal \in GoalRecords, NEW c \in Cents
    PROVE  Credited(goal, c) \in GoalRecords
<1>1. PICK s \in GoalStatuses : s = IF c >= goal.target THEN "completed" ELSE goal.status
  BY DEF GoalRecords, GoalStatuses
<1>2. Credited(goal, c) = [goal EXCEPT !.current = c, !.status = s]
  BY <1>1 DEF Credited
<1> QED
  BY <1>2 DEF GoalRecords

(* Adding to whole cents what is rounded first. *)
LEMMA SafeAddFacts ==
    ASSUME NEW b \in Cents, NEW x \in Int
    PROVE  SafeAdd(b, x) = b + Rounded(x) /\ SafeAdd(b, x) \in Cents
<1>1. PICK y \in Cents : y = Rounded(x)
  BY RoundedTyped
<1>2. b + y \in Cents
  BY CentsClosed
<1>3. PICK z \in Cents : z = b + y
  BY <1>2
<1>4. Rounded(b) = b /\ Rounded(z) = z
  BY CentsTyped, RoundedWhole
<1> QED
  BY <1>1, <1>3, <1>4 DEF SafeAdd

(* What the loop over the linked goals keeps: the unit of work is sound,   *)
(* its goal objects are where they were, and what is left is a number.     *)
Proceeding(r, first, goals, n, store) ==
    /\ \E l \in Nat : Working(r.unit, Booking, l, store) /\ first + n <= l
    /\ HoldsGoals(r.unit, first, goals, n)
    /\ DOMAIN r = {"unit", "left", "made", "raised"}
    /\ r.left \in Int /\ r.made \in BOOLEAN /\ r.raised \in BOOLEAN

LEMMA BroughtTyped ==
    ASSUME NEW x \in Positive
    PROVE  Rounded(x) \in Cents \cap Nat
BY RoundedTyped, RoundedNatural DEF Positive

LEMMA ContributedFacts ==
    ASSUME NEW store, NEW v, NEW l \in Nat, Working(v, Booking, l, store),
           NEW h \in 1..l, v.objs[h].class = "Goal", NEW g \in Positive,
           NEW x \in Positive, NEW source \in Nat
    PROVE  /\ v.objs[h].data \in GoalRecords
           /\ Working(Contributed(v, h, g, x, source), Booking, l + 1, store)
           /\ \A k \in 1..l :
                 /\ Contributed(v, h, g, x, source).objs[k].class = v.objs[k].class
                 /\ Contributed(v, h, g, x, source).objs[k].id = v.objs[k].id
<1>1. PICK c \in Classes : c = "Goal"
  BY ClassFacts
<1>2. PICK d \in Booking : d = "GoalContribution"
  BY BookingFacts
<1>3. /\ v.objs[h] \in Objects /\ Fits(v.objs[h], Booking) /\ Within(h, l) /\ After(l, l + 1)
      /\ \A k \in 1..l : v.objs[k] \in Objects
  BY DEF Working, Sound, ObjectsSound, Within, After
<1>4. v.objs[h].data \in Allowed(c, v.objs[h].id) /\ \A i : Allowed(c, i) = GoalRecords
  BY <1>1, <1>3, AllowedLoosely DEF Fits, Records
<1>5. PICK data \in GoalRecords :
         data = Credited(v.objs[h].data, SafeAdd(v.objs[h].data.current, x))
  <2>1. PICK goal \in GoalRecords : goal = v.objs[h].data
    BY <1>4
  <2>2. PICK e \in Cents : e = SafeAdd(goal.current, x)
    BY GoalNumbers, SafeAddFacts DEF Positive
  <2> QED
    BY <2>1, <2>2, CreditedTyped
<1>6. PICK w : w = Assign(v, h, data)
  OBVIOUS
<1>7. /\ Working(w, Booking, l, store) /\ Put(v, w, h, data)
      /\ \A k \in 1..l : k # h => w.objs[k] = v.objs[k]
  <2>1. data \in Allowed(c, v.objs[h].id) /\ v.objs[h].class = c
    BY <1>1, <1>4
  <2> QED
    BY <1>3, <1>6, <2>1, Assigned
<1>8. \A k \in 1..l : w.objs[k].class = v.objs[k].class /\ w.objs[k].id = v.objs[k].id
  <2> TAKE k \in 1..l
  <2>1. CASE k = h
    BY <1>3, <1>7, <2>1 DEF Put, Objects
  <2>2. CASE k # h
    BY <1>7, <2>2
  <2> QED
    BY <2>1, <2>2
<1>9. PICK gift : gift = [goal |-> g, amount |-> Rounded(x), source |-> source]
  OBVIOUS
<1>10. gift \in Records(d)
  <2>1. gift \in Gifts
    BY <1>9, BroughtTyped DEF Gifts
  <2> QED
    BY <1>2, <2>1 DEF Records
<1>11. /\ Working(Record(w, d, gift), Booking, l + 1, store)
       /\ \A k \in 1..l : Record(w, d, gift).objs[k] = w.objs[k]
  BY <1>3, <1>7, <1>10, Booked1
<1>12. Contributed(v, h, g, x, source) = Record(w, d, gift)
  BY <1>2, <1>5, <1>6, <1>9 DEF Contributed
<1> QED
  BY <1>4, <1>8, <1>11, <1>12

LEMMA AllocateProceeds ==
    ASSUME NEW store, NEW first \in Nat, NEW n \in Nat, NEW goals,
           \A k \in 1..n : goals[k] \in Positive,
           NEW r, Proceeding(r, first, goals, n, store), NEW k \in 1..n, NEW source \in Nat
    PROVE  Proceeding(Allocate(r, first + k, goals[k], source), first, goals, n, store)
<1>1. PICK l \in Nat : Working(r.unit, Booking, l, store) /\ first + n <= l
  BY DEF Proceeding
<1>2. PICK h \in 1..l : h = first + k
  BY <1>1
<1>3. PICK v : v = r.unit
  OBVIOUS
<1>4. PICK g \in Positive : g = goals[k]
  OBVIOUS
<1>5. v.objs[h].class = "Goal"
  BY <1>2, <1>3 DEF Proceeding, HoldsGoals, GoalObject
<1>6. v.objs[h].data \in GoalRecords
  <2>1. 1 \in Positive
    BY DEF Positive
  <2> QED
    BY <1>1, <1>3, <1>5, <2>1, ContributedFacts
<1>7. PICK x : x = Share(v.objs[h].data, r.left)
  OBVIOUS
<1>8. PICK s : s = Allocate(r, h, g, source)
  OBVIOUS
<1>9. CASE s = r
  BY <1>2, <1>4, <1>8, <1>9
<1>10. CASE s = [r EXCEPT !.raised = TRUE]
  <2>1. Proceeding(s, first, goals, n, store)
    BY <1>10 DEF Proceeding
  <2> QED
    BY <1>2, <1>4, <1>8, <2>1
<1>11. CASE /\ x > 0 /\ r.left > 0
            /\ s = [r EXCEPT !.unit = Contributed(@, h, g, x, source),
                             !.left = @ - x, !.made = TRUE]
  <2>1. x \in Int /\ x \in Positive /\ r.left \in Int
    <3>1. r.left \in Int
      BY DEF Proceeding
    <3>2. x \in Int
      BY <1>6, <1>7, <1>11, <3>1, ShareFacts
    <3> QED
      BY <1>11, <3>1, <3>2 DEF Positive
  <2>2. PICK w : w = Contributed(v, h, g, x, source)
    OBVIOUS
  <2>3. /\ Working(w, Booking, l + 1, store)
        /\ \A j \in 1..l : w.objs[j].class = v.objs[j].class /\ w.objs[j].id = v.objs[j].id
    BY <1>1, <1>3, <1>5, <2>1, <2>2, ContributedFacts
  <2>4. /\ s.unit = w /\ s.left = r.left - x /\ s.made = TRUE /\ s.raised = r.raised
        /\ DOMAIN s = {"unit", "left", "made", "raised"}
    BY <1>3, <1>11, <2>2 DEF Proceeding
  <2>5. HoldsGoals(w, first, goals, n)
    <3> SUFFICES ASSUME NEW j \in 1..n
                 PROVE  GoalObject(w.objs[first + j], goals[j])
      BY DEF HoldsGoals
    <3>1. first + j \in 1..l
      BY <1>1
    <3>2. GoalObject(v.objs[first + j], goals[j])
      BY <1>3 DEF Proceeding, HoldsGoals
    <3> QED
      BY <2>3, <3>1, <3>2 DEF GoalObject
  <2>6. \E m \in Nat : Working(s.unit, Booking, m, store) /\ first + n <= m
    <3>1. PICK m \in Nat : m = l + 1
      OBVIOUS
    <3>2. Working(s.unit, Booking, m, store) /\ first + n <= m
      BY <1>1, <2>3, <2>4, <3>1
    <3> QED
      BY <3>2
  <2>7. Proceeding(s, first, goals, n, store)
    <3>1. s.left \in Int
      BY <2>1, <2>4
    <3>2. s.made \in BOOLEAN /\ s.raised \in BOOLEAN
      BY <2>4, Zenon DEF Proceeding
    <3> QED
      BY <2>4, <2>5, <2>6, <3>1, <3>2, Zenon DEF Proceeding
  <2> QED
    BY <1>2, <1>4, <1>8, <2>7
<1>12. \/ s = r
       \/ s = [r EXCEPT !.raised = TRUE]
       \/ /\ x > 0 /\ r.left > 0
          /\ s = [r EXCEPT !.unit = Contributed(@, h, g, x, source),
                           !.left = @ - x, !.made = TRUE]
  <2>1. r.left \in Int
    BY DEF Proceeding
  <2>2. r.left > 0 => x \in Int
    BY <1>6, <1>7, <2>1, ShareFacts
  <2>3. /\ ~(r.left <= 0) => r.left > 0
        /\ r.left > 0 => (~(x <= 0) => x > 0)
    BY <2>1, <2>2
  <2> QED
    BY <1>3, <1>7, <1>8, <2>3 DEF Allocate
<1> QED
  BY <1>9, <1>10, <1>11, <1>12

(* The recursion of the loop. *)
Allocating(f, n, start, first, goals, source) ==
    f = [k \in 0..n |-> IF k = 0 THEN start
                        ELSE Allocate(f[k - 1], first + k, goals[k], source)]

LEMMA AllocatingExists ==
    ASSUME NEW n \in Nat, NEW start, NEW first \in Nat, NEW goals, NEW source
    PROVE  \E f : Allocating(f, n, start, first, goals, source)
<1> DEFINE G == {m \in 0..n : \E f : Allocating(f, m, start, first, goals, source)}
<1>1. 0 \in G
  <2> DEFINE z == [k \in 0..0 |-> start]
  <2>1. Allocating(z, 0, start, first, goals, source)
    BY DEF Allocating
  <2> QED
    BY <2>1
<1>2. ASSUME NEW m \in 1..n, m - 1 \in G
      PROVE  m \in G
  <2>1. PICK f : Allocating(f, m - 1, start, first, goals, source)
    BY <1>2
  <2> DEFINE Step(s, k) == Allocate(s, first + k, goals[k], source)
             g == [k \in 0..m |-> IF k = m THEN Step(f[m - 1], m) ELSE f[k]]
  <2>2. \A k \in 0..(m - 1) : f[k] = IF k = 0 THEN start ELSE Step(f[k - 1], k)
    <3> HIDE DEF g
    <3> QED
      BY <2>1, Zenon DEF Allocating
  <2>3. \A k \in 0..m : g[k] = IF k = 0 THEN start ELSE Step(g[k - 1], k)
    <3> TAKE k \in 0..m
    <3> HIDE DEF Step
    <3>1. CASE k = m
      <4>1. g[m] = Step(f[m - 1], m) /\ g[m - 1] = f[m - 1]
        OBVIOUS
      <4> HIDE DEF g
      <4> QED
        BY <3>1, <4>1
    <3>2. CASE k # m
      <4>1. k \in 0..(m - 1) /\ g[k] = f[k]
        BY <3>2
      <4>2. k # 0 => g[k - 1] = f[k - 1]
        BY <3>2
      <4> HIDE DEF g
      <4> QED
        BY <2>2, <4>1, <4>2
    <3> QED
      BY <3>1, <3>2
  <2>4. g = [k \in 0..m |-> g[k]]
    OBVIOUS
  <2> HIDE DEF g
  <2>5. Allocating(g, m, start, first, goals, source)
    BY <2>3, <2>4, Zenon DEF Allocating
  <2> QED
    BY <2>5
<1> HIDE DEF G
<1>3. \A m \in 0..n : m \in G
  BY <1>1, <1>2, UpTo
<1>4. n \in G
  BY <1>3
<1> QED
  BY <1>4 DEF G

LEMMA AllocatingProceeds ==
    ASSUME NEW store, NEW first \in Nat, NEW n \in Nat, NEW goals,
           \A k \in 1..n : goals[k] \in Positive, NEW source \in Nat,
           NEW start, Proceeding(start, first, goals, n, store),
           NEW f, Allocating(f, n, start, first, goals, source)
    PROVE  Proceeding(f[n], first, goals, n, store)
<1> DEFINE G == {k \in 0..n : Proceeding(f[k], first, goals, n, store)}
<1>1. \A k \in 0..n : f[k] = IF k = 0 THEN start
                             ELSE Allocate(f[k - 1], first + k, goals[k], source)
  BY Zenon DEF Allocating
<1>2. 0 \in G
  <2>1. PICK z \in 0..n : z = 0
    OBVIOUS
  <2>2. f[z] = start
    BY <1>1, <2>1
  <2> QED
    BY <2>1, <2>2
<1>3. ASSUME NEW k \in 1..n, k - 1 \in G
      PROVE  k \in G
  <2>1. f[k] = Allocate(f[k - 1], first + k, goals[k], source) /\ k \in 0..n
    <3>1. k \in 0..n /\ k # 0
      OBVIOUS
    <3> QED
      BY <1>1, <3>1
  <2>2. PICK r : r = f[k - 1]
    OBVIOUS
  <2>3. Proceeding(Allocate(r, first + k, goals[k], source), first, goals, n, store)
    BY <1>3, <2>2, AllocateProceeds
  <2> QED
    BY <2>1, <2>2, <2>3
<1>4. \A k \in 0..n : k \in G
  <2> HIDE DEF G
  <2> QED
    BY <1>2, <1>3, UpTo
<1>5. n \in G
  <2> HIDE DEF G
  <2> QED
    BY <1>4
<1> QED
  BY <1>5

---------------------------------------------------------------------------
(* The contributions of a committed credit leave sound stores behind. *)
Kindly(d, store) == BooksSound(d) /\ d.store["RecurringRule"] = store["RecurringRule"]

LEMMA Dropped ==
    ASSUME NEW v, NEW n, NEW store, Working(v, Booking, n, store)
    PROVE  Kindly(Close(v), store)
BY DEF Working, Sound, Kindly, BooksSound, Close

LEMMA Finished ==
    ASSUME NEW v, NEW n, NEW store, Working(v, Booking, n, store)
    PROVE  Kindly(Close(Commit(v)), store)
<1>1. Booking \in Makes /\ "RecurringRule" \in (Classes \ Booking) \ Typed
  BY BookingFacts
<1> QED
  BY <1>1, Settled DEF Kindly

LEMMA ProcessFacts ==
    ASSUME NEW store, NEW n \in Nat, NEW u, Working(u, Booking, n, store),
           NEW t, u.objs[t].data \in Postings, u.objs[t].id \in Nat
    PROVE  Kindly(Close(ProcessTransactionForGoals(u, t)), store)
<1> DEFINE tx == u.objs[t].data
<1>1. tx.account \in DOMAIN store["Account"] /\ tx.amount \in Int
  BY CentsTyped DEF Postings, Working
<1> DEFINE goals == LinkedGoals(u, tx.account)
           account == Load(u, "Account", tx.account)
           first == Len(account.objs)
           m == Len(goals)
           source == u.objs[t].id
           IsLoaded(f) == f = [k \in 0..m |-> IF k = 0 THEN account
                                              ELSE Load(f[k - 1], "Goal", goals[k])]
           loaded == CHOOSE f : IsLoaded(f)
           start == [unit |-> loaded[m], left |-> tx.amount, made |-> FALSE, raised |-> FALSE]
           IsAfter(f) == f = [k \in 0..m |->
                                 IF k = 0 THEN [unit |-> loaded[m], left |-> tx.amount,
                                                made |-> FALSE, raised |-> FALSE]
                                 ELSE Allocate(f[k - 1], first + k, goals[k], source)]
           after == CHOOSE f : IsAfter(f)
           result == after[m]
<1>2. ProcessTransactionForGoals(u, t) =
         IF tx.type # "credit" \/ tx.party # 0 THEN u
         ELSE IF result.made /\ ~result.raised THEN Commit(result.unit) ELSE result.unit
  BY Zenon DEF ProcessTransactionForGoals
<1> HIDE DEF tx
<1>3. \/ ProcessTransactionForGoals(u, t) = u
      \/ ProcessTransactionForGoals(u, t) = result.unit
      \/ ProcessTransactionForGoals(u, t) = Commit(result.unit)
  <2> HIDE DEF result
  <2> QED
    BY <1>2
<1>4. /\ m \in Nat
      /\ \A k \in 1..m : goals[k] \in DOMAIN store["Goal"] /\ goals[k] \in Positive
  <2>1. Stored(u.store) /\ u.store = store
    BY DEF Working, Sound
  <2>2. DOMAIN store["Goal"] \subseteq Positive
    BY <2>1, ClassFacts, IdsArePositive
  <2> QED
    BY <2>1, <2>2, LinkedFacts
<1>5. Working(account, Booking, first, store) /\ first \in Nat
  <2>1. PICK c \in Typed : c = "Account"
    BY ClassFacts
  <2>2. After(n, n + 1) /\ n + 1 \in Nat
    BY DEF After
  <2>3. Working(Load(u, c, tx.account), Booking, n + 1, store)
    BY <1>1, <2>1, <2>2, Loaded
  <2>4. Working(account, Booking, n + 1, store)
    BY <2>1, <2>3
  <2>5. first = n + 1
    BY <2>4 DEF Working
  <2> HIDE DEF account, first
  <2> QED
    BY <2>2, <2>4, <2>5
<1> HIDE DEF account, goals, m, first, source
<1>6. IsLoaded(loaded)
  <2>1. PICK f : Loading(f, m, account, goals)
    BY <1>4, LoadingExists
  <2>2. IsLoaded(f)
    BY <2>1, Zenon DEF Loading
  <2> HIDE DEF IsLoaded
  <2> QED
    BY <2>2
<1>7. Working(loaded[m], Booking, first + m, store) /\ HoldsGoals(loaded[m], first, goals, m)
  <2>1. Loading(loaded, m, account, goals)
    BY <1>6, Zenon DEF Loading
  <2> HIDE DEF loaded
  <2> QED
    BY <1>4, <1>5, <2>1, GoalsLoaded
<1> HIDE DEF loaded
<1>8. Proceeding(start, first, goals, m, store)
  <2>1. first + m \in Nat /\ first + m <= first + m
    BY <1>4, <1>5
  <2>2. /\ start.unit = loaded[m] /\ start.left = tx.amount
        /\ start.made = FALSE /\ start.raised = FALSE
        /\ DOMAIN start = {"unit", "left", "made", "raised"}
    OBVIOUS
  <2> HIDE DEF start
  <2>3. \E l \in Nat : Working(start.unit, Booking, l, store) /\ first + m <= l
    BY <1>7, <2>1, <2>2
  <2> QED
    BY <1>1, <1>7, <2>2, <2>3 DEF Proceeding
<1>9. IsAfter(after)
  <2>1. PICK f : Allocating(f, m, start, first, goals, source)
    BY <1>4, <1>5, AllocatingExists
  <2>2. IsAfter(f)
    BY <2>1, Zenon DEF Allocating
  <2> HIDE DEF IsAfter
  <2> QED
    BY <2>2
<1>10. Proceeding(result, first, goals, m, store)
  <2>1. Allocating(after, m, start, first, goals, source)
    BY <1>9, Zenon DEF Allocating
  <2>2. source \in Nat
    BY DEF source
  <2> HIDE DEF after, start
  <2> QED
    BY <1>4, <1>5, <1>8, <2>1, <2>2, AllocatingProceeds
<1> HIDE DEF result
<1>11. \E l \in Nat : Working(result.unit, Booking, l, store)
  BY <1>10 DEF Proceeding
<1> QED
  BY <1>3, <1>11, Dropped, Finished

(* A commit that the goals are seen to after. *)
LEMMA Continued ==
    ASSUME NEW v, NEW n \in Nat, Working(v, Booking, n, db.store),
           NEW t \in 1..n, v.objs[t].data \in Postings
    PROVE  Orderly(Close(ProcessTransactionForGoals(Commit(v), t)))
<1>1. PICK u : u = Commit(v)
  OBVIOUS
<1>2. PICK store : store = u.store
  OBVIOUS
<1>3. Booking \in Makes /\ "RecurringRule" \in (Classes \ Booking) \ Typed
      /\ "Account" \in Classes \ Booking
  BY BookingFacts, ClassFacts DEF Makes
<1>4. Sound(v, Booking) /\ v.store = db.store /\ Len(v.objs) = n /\ Gone(v, "Account") = {}
      /\ DOMAIN db.store["Account"] = Owned
  BY DEF Working, Gone
<1>5. /\ DOMAIN store["Account"] = Owned
      /\ store["RecurringRule"] = db.store["RecurringRule"]
  BY <1>1, <1>2, <1>3, <1>4, CommitStored
<1>6. /\ Sound(u, Booking) /\ u.deletes = <<>> /\ Len(u.objs) = n
      /\ u.objs[t] = [v.objs[t] EXCEPT !.id = IdAfter(v, t)]
      /\ IdAfter(v, t) \in Positive
  BY <1>1, <1>3, <1>4, CommitFacts
<1>7. Working(u, Booking, n, store)
  BY <1>2, <1>5, <1>6 DEF Working
<1>8. u.objs[t].data \in Postings /\ u.objs[t].id \in Nat
  <2>1. v.objs[t] \in Objects
    BY <1>4 DEF Sound, ObjectsSound
  <2> QED
    BY <1>6, <2>1 DEF Objects, Positive
<1>9. Kindly(Close(ProcessTransactionForGoals(u, t)), store)
  BY <1>7, <1>8, ProcessFacts
<1> QED
  BY <1>1, <1>5, <1>9 DEF Kindly, Orderly, Rules

LEMMA CreateTransactionOrderly ==
    ASSUME BooksSound(db), NEW a \in Accounts, NEW x \in Amounts,
           NEW type \in TransactionTypes, CreateTransaction(a, x, type)
    PROVE  Orderly(db')
<1>1. x \in Int /\ x \in Nat /\ a \in Owned
  BY AmountFacts, BalanceTyped
<1>2. PICK d \in Int : d = IF type = "debit" THEN -x ELSE x
  BY <1>1
<1>3. Covers(db.store, a, d)
  <2>1. CASE type = "debit"
    <3>1. Guarded(a) => Balance(a) >= x
      BY <2>1 DEF CreateTransaction, SufficientFunds, Guarded
    <3> QED
      BY <1>1, <1>2, <2>1, <3>1, TakesLess
  <2>2. CASE type # "debit"
    BY <1>1, <1>2, <2>2, BringsMore
  <2> QED
    BY <2>1, <2>2
<1>4. PICK posting \in Records("Transaction") : posting = Posting(a, x, type, 0)
  BY <1>1, PostingTyped, TypeFacts
<1>5. PICK v : v = Record(Change(Holding(a), 1, d), "Transaction", posting)
  OBVIOUS
<1>6. Working(v, Booking, 2, db.store) /\ v.objs[2].data = posting
  BY <1>3, <1>5, BookedFacts
<1>7. db' = Close(ProcessTransactionForGoals(Commit(v), 2))
  BY <1>2, <1>4, <1>5 DEF CreateTransaction, Booked
<1>8. v.objs[2].data \in Postings
  BY <1>6 DEF Records
<1>9. PICK t \in 1..2 : t = 2
  OBVIOUS
<1> QED
  BY <1>6, <1>7, <1>8, <1>9, Continued

LEMMA CreateTransferOrderly ==
    ASSUME BooksSound(db), NEW a \in Accounts, NEW b \in Accounts, NEW x \in Amounts,
           CreateTransfer(a, b, x)
    PROVE  Orderly(db')
<1>1. x \in Int /\ x \in Nat /\ a \in Owned /\ b \in Owned
  BY AmountFacts, BalanceTyped
<1>2. PICK debit \in Records("Transaction") : debit = Posting(a, x, "debit", b)
  BY <1>1, PostingTyped, TypeFacts
<1>3. PICK credit \in Records("Transaction") : credit = Posting(b, x, "credit", a)
  BY <1>1, PostingTyped, TypeFacts
<1>4. PICK moved : moved = BothSides(Load(Holding(a), "Account", b), debit, credit, x, x)
  OBVIOUS
<1>5. /\ Guarded(a) => Balance(a) >= x
      /\ db' = Close(ProcessTransactionForGoals(Commit(moved), 4))
  BY <1>2, <1>3, <1>4 DEF CreateTransfer, SufficientFunds, Guarded
<1>6. Working(moved, Booking, 4, db.store) /\ moved.objs[4].data = credit
  BY <1>1, <1>4, <1>5, MovedFacts
<1>7. moved.objs[4].data \in Postings
  BY <1>6 DEF Records
<1>8. PICK t \in 1..4 : t = 4
  OBVIOUS
<1> QED
  BY <1>5, <1>6, <1>7, <1>8, Continued

LEMMA AccountRequestOrderly ==
    ASSUME BooksSound(db), AccountRequest
    PROVE  Orderly(db')
<1>1. CASE \E t \in DOMAIN Transactions : DeleteTransaction(t)
  BY <1>1, DeleteTransactionOrderly
<1>2. ASSUME NEW a \in Accounts, NEW x \in Amounts, NEW b \in Accounts,
             TransferMoney(a, b, x) \/ CreateTransfer(a, b, x) \/ PayCard(b, a, x)
      PROVE  Orderly(db')
  BY <1>2, TransferMoneyOrderly, CreateTransferOrderly, PayCardOrderly
<1>3. ASSUME NEW a \in Accounts, NEW x \in Amounts,
             \/ TransferExternal(a, x) \/ DepositMoney(a, x)
             \/ WithdrawMoney(a, x) \/ PayBill(a, x)
      PROVE  Orderly(db')
  BY <1>3, TransferExternalOrderly, DepositMoneyOrderly, WithdrawMoneyOrderly DEF PayBill
<1>7. ASSUME NEW a \in Accounts, NEW x \in Charges,
             ProcessPayroll(a, x) \/ RecordExpense(a, x)
      PROVE  Orderly(db')
  BY <1>7, RecordExpenseOrderly
<1>4. ASSUME NEW a \in Accounts, NEW x \in Amounts, NEW w \in Users, NEW fee \in Fees,
             SendMoney(a, w, x, fee)
      PROVE  Orderly(db')
  BY <1>4, SendMoneyOrderly
<1>5. ASSUME NEW a \in Accounts, NEW x \in Amounts, NEW type \in TransactionTypes,
             CreateTransaction(a, x, type)
      PROVE  Orderly(db')
  BY <1>5, CreateTransactionOrderly
<1>6. ASSUME NEW a \in Accounts, NEW x \in Amounts, NEW instant \in BOOLEAN,
             CreateP2PTransfer(a, x, instant)
      PROVE  Orderly(db')
  BY <1>6, P2POrderly
<1> QED
  BY <1>1, <1>2, <1>3, <1>4, <1>5, <1>6, <1>7 DEF AccountRequest

---------------------------------------------------------------------------
(* The requests on goals. *)
LEMMA GoalTyped ==
    ASSUME BooksSound(db), NEW g \in DOMAIN Goals
    PROVE  Goals[g] \in GoalRecords /\ g \in Positive
<1>1. "Goal" \in Classes
  BY ClassFacts
<1>2. Goals[g] \in Allowed("Goal", g) /\ g \in Positive
  BY <1>1, IdsArePositive DEF BooksSound, Stored, Goals
<1> QED
  BY <1>2 DEF Allowed, Records

LEMMA HoldingGoalFacts ==
    ASSUME BooksSound(db), NEW g \in DOMAIN Goals
    PROVE  /\ Working(HoldingGoal(g), Booking, 1, db.store)
           /\ HoldingGoal(g).objs[1].class = "Goal"
           /\ HoldingGoal(g).objs[1].tracked = TRUE
<1>1. PICK c \in Typed : c = "Goal"
  BY ClassFacts
<1>2. g \in DOMAIN db.store[c] /\ Working(Open(db), Booking, 0, db.store)
  BY <1>1, Opened DEF Goals
<1>3. /\ Working(Load(Open(db), c, g), Booking, 1, db.store)
      /\ Load(Open(db), c, g).objs[1] =
            [class |-> c, id |-> g, tracked |-> TRUE, data |-> db.store[c][g]]
  BY <1>2, Counting, Loaded
<1>4. HoldingGoal(g) = Load(Open(db), c, g)
  BY <1>1 DEF HoldingGoal
<1> QED
  BY <1>1, <1>3, <1>4

LEMMA GoalAssigned ==
    ASSUME NEW v, NEW n, NEW store, Working(v, Booking, n, store),
           NEW h, Within(h, n), v.objs[h].class = "Goal", NEW x \in GoalRecords
    PROVE  Working(Assign(v, h, x), Booking, n, store)
<1>1. PICK c \in Classes : c = "Goal"
  BY ClassFacts
<1>2. x \in Allowed(c, v.objs[h].id) /\ v.objs[h].class = c
  BY <1>1, AllowedLoosely DEF Records
<1> QED
  BY <1>2, Assigned

LEMMA GiftFacts ==
    ASSUME NEW v, NEW n, NEW store, Working(v, Booking, n, store),
           NEW g \in Positive, NEW x \in Positive, NEW k, After(n, k)
    PROVE  Working(Gift(v, g, x), Booking, k, store)
<1>1. PICK c \in Booking : c = "GoalContribution"
  BY BookingFacts
<1>2. PICK gift : gift = [goal |-> g, amount |-> Rounded(x), source |-> 0]
  OBVIOUS
<1>3. gift \in Records(c)
  <2>1. gift \in Gifts
    BY <1>2, BroughtTyped DEF Gifts
  <2> QED
    BY <1>1, <2>1 DEF Records
<1>4. Gift(v, g, x) = Record(v, c, gift)
  BY <1>1, <1>2 DEF Gift
<1> QED
  BY <1>3, <1>4, Booked1

(* What the requests make of a goal's record is one. *)
LEMMA GoalChanged ==
    ASSUME NEW goal \in GoalRecords
    PROVE  /\ \A s \in GoalStatuses : [goal EXCEPT !.status = s] \in GoalRecords
           /\ \A p \in Nat : [goal EXCEPT !.percent = p] \in GoalRecords
           /\ \A a \in Nat : [goal EXCEPT !.account = a] \in GoalRecords
           /\ \A c \in Cents : [goal EXCEPT !.current = c] \in GoalRecords
           /\ \A c \in Cents, s \in GoalStatuses :
                 [goal EXCEPT !.current = c, !.status = s] \in GoalRecords
           /\ goal.status \in GoalStatuses
<1>1. PICK T : T = Cents \cap Nat
  OBVIOUS
<1>2. PICK P : P = Nat \cup {Unset}
  OBVIOUS
<1>3. Nat \subseteq P
  BY <1>2
<1>4. GoalRecords = [user : Users, account : Nat, target : T, current : Cents,
                     status : GoalStatuses, percent : P, fixed : T, priority : Nat]
  BY <1>1, <1>2 DEF GoalRecords
<1> QED
  BY <1>3, <1>4

LEMMA SavedTyped ==
    ASSUME NEW goal \in GoalRecords, NEW x \in Int
    PROVE  Saved(goal, x) \in GoalRecords
<1>1. PICK c \in Cents : c = Rounded(goal.current + x)
  <2>1. goal.current + x \in Int
    BY GoalNumbers
  <2> QED
    BY <2>1, RoundedTyped
<1>2. PICK s \in GoalStatuses :
         s = IF c >= goal.target /\ goal.status = "active"
             THEN "completed" ELSE goal.status
  BY GoalChanged DEF GoalStatuses
<1>3. Saved(goal, x) = [goal EXCEPT !.current = c, !.status = s]
  BY <1>1, <1>2 DEF Saved
<1> QED
  BY <1>3 DEF GoalRecords

(* A request that only puts a new record into the goal it holds. *)
LEMMA GoalReplaced ==
    ASSUME BooksSound(db), NEW g \in DOMAIN Goals, NEW x \in GoalRecords,
           db' = Close(Commit(Assign(HoldingGoal(g), 1, x)))
    PROVE  Orderly(db')
BY HoldingGoalFacts, Counting, GoalAssigned, Ends

LEMMA UpdateGoalOrderly ==
    ASSUME BooksSound(db), NEW g \in DOMAIN Goals, NEW goal \in GoalRecords,
           UpdateGoal(g, goal)
    PROVE  Orderly(db')
<1>1. PICK s \in GoalStatuses :
         s = IF goal.current >= goal.target /\ goal.status = "active"
             THEN "completed" ELSE goal.status
  BY GoalChanged DEF GoalStatuses
<1>2. PICK x \in GoalRecords : x = [goal EXCEPT !.status = s]
  BY GoalChanged
<1>3. db' = Close(Commit(Assign(HoldingGoal(g), 1, x)))
  BY <1>1, <1>2 DEF UpdateGoal
<1> QED
  BY <1>3, GoalReplaced

LEMMA CreateGoalOrderly ==
    ASSUME BooksSound(db), NEW goal \in NewGoals, CreateGoal(goal) \/ CreateSavingsGoal(goal)
    PROVE  Orderly(db')
<1>1. PICK c \in Booking : c = "Goal"
  BY BookingFacts
<1>2. goal \in Records(c) /\ Booking \in Makes /\ Working(Open(db), Booking, 0, db.store)
  BY <1>1, RequestAssumption, BookingFacts, Opened DEF Records
<1>3. Working(Record(Open(db), c, goal), Booking, 1, db.store)
  BY <1>2, Counting, Recorded
<1>4. db' = Close(Commit(Record(Open(db), c, goal)))
  BY <1>1 DEF CreateGoal, CreateSavingsGoal
<1> QED
  BY <1>3, <1>4, Ends

(* A contribution from no account. *)
LEMMA GivenOrderly ==
    ASSUME BooksSound(db), NEW g \in DOMAIN Goals, NEW goal \in GoalRecords,
           NEW x \in Amounts, db' = Close(Commit(Gift(Assign(HoldingGoal(g), 1, goal), g, x)))
    PROVE  Orderly(db')
<1>1. Working(Assign(HoldingGoal(g), 1, goal), Booking, 1, db.store)
  BY HoldingGoalFacts, Counting, GoalAssigned
<1>2. Working(Gift(Assign(HoldingGoal(g), 1, goal), g, x), Booking, 2, db.store)
  BY <1>1, GoalTyped, AmountFacts, Counting, GiftFacts
<1> QED
  BY <1>2, Ends

(* A goal and an account at hand, the account's balance changed by d. *)
LEMMA GoalAndAccount ==
    ASSUME BooksSound(db), NEW g \in DOMAIN Goals, NEW a \in Accounts,
           NEW d \in Int, Covers(db.store, a, d), NEW goal \in GoalRecords,
           NEW posting \in Records("Transaction")
    PROVE  LET held == Change(Load(HoldingGoal(g), "Account", a), 2, d)
           IN Working(Record(Assign(held, 1, goal), "Transaction", posting),
                      Booking, 3, db.store)
<1>1. PICK v : v = Load(HoldingGoal(g), "Account", a)
  OBVIOUS
<1>2. /\ Working(v, Booking, 2, db.store)
      /\ v.objs[1] = HoldingGoal(g).objs[1] /\ Holds(v, 2, a)
  BY <1>1, HoldingGoalFacts, HoldingTwo
<1>3. PICK held : held = Change(v, 2, d)
  OBVIOUS
<1>4. /\ Working(held, Booking, 2, db.store)
      /\ \A k \in 1..2 : k # 2 => held.objs[k] = v.objs[k]
  BY <1>2, <1>3, BalanceTyped, Counting, Changed
<1>5. held.objs[1].class = "Goal"
  <2>1. held.objs[1] = v.objs[1]
    BY <1>4
  <2> QED
    BY <1>2, <2>1, HoldingGoalFacts
<1>6. Working(Assign(held, 1, goal), Booking, 2, db.store)
  BY <1>4, <1>5, Counting, GoalAssigned
<1>7. PICK c \in Booking : c = "Transaction"
  BY BookingFacts
<1>8. posting \in Records(c)
  BY <1>7
<1>9. Working(Record(Assign(held, 1, goal), c, posting), Booking, 3, db.store)
  BY <1>6, <1>8, Counting, Booked1
<1> QED
  BY <1>1, <1>3, <1>7, <1>9

LEMMA ContributeFromAccountOrderly ==
    ASSUME BooksSound(db), NEW g \in DOMAIN Goals, NEW a \in Accounts, NEW x \in Amounts,
           ContributeFromAccount(g, a, x)
    PROVE  Orderly(db')
<1>1. /\ x \in Int /\ -x \in Int /\ x \in Positive /\ a \in Owned /\ g \in Positive
      /\ Covers(db.store, a, -x)
  <2>1. Balance(a) >= x
    BY DEF ContributeFromAccount
  <2> QED
    BY <2>1, AmountFacts, BalanceTyped, TakesLess, GoalTyped
<1>2. PICK goal \in GoalRecords : goal = Saved(Goals[g], x)
  BY <1>1, GoalTyped, SavedTyped
<1>3. PICK posting \in Records("Transaction") : posting = Posting(a, x, "debit", 0)
  BY <1>1, PostingTyped, TypeFacts
<1>4. PICK v : v = Record(Assign(Change(Load(HoldingGoal(g), "Account", a), 2, -x), 1, goal),
                          "Transaction", posting)
  OBVIOUS
<1>5. Working(v, Booking, 3, db.store)
  BY <1>1, <1>4, GoalAndAccount
<1>6. Working(Gift(v, g, x), Booking, 4, db.store)
  BY <1>1, <1>5, Counting, GiftFacts
<1>7. db' = Close(Commit(Gift(v, g, x)))
  BY <1>2, <1>3, <1>4 DEF ContributeFromAccount
<1> QED
  BY <1>6, <1>7, Ends

LEMMA WithdrawFromGoalOrderly ==
    ASSUME BooksSound(db), NEW g \in DOMAIN Goals, NEW a \in Accounts \cup {0},
           NEW x \in Amounts, WithdrawFromGoal(g, a, x)
    PROVE  Orderly(db')
<1>1. x \in Int /\ x \in Nat
  BY AmountFacts
<1>2. PICK goal \in GoalRecords : goal = [Goals[g] EXCEPT !.current = Rounded(@ - x)]
  <2>1. Goals[g] \in GoalRecords
    BY GoalTyped
  <2>2. PICK c \in Cents : c = Rounded(Goals[g].current - x)
    <3>1. Goals[g].current - x \in Int
      BY <1>1, <2>1, GoalNumbers
    <3> QED
      BY <3>1, RoundedTyped
  <2>3. [Goals[g] EXCEPT !.current = c] \in GoalRecords
    BY <2>1, GoalChanged
  <2> QED
    BY <2>2, <2>3
<1>3. CASE a = 0
  <2>1. db' = Close(Commit(Assign(HoldingGoal(g), 1, goal)))
    BY <1>2, <1>3 DEF WithdrawFromGoal
  <2> QED
    BY <2>1, GoalReplaced
<1>4. CASE a # 0
  <2>1. a \in Accounts /\ a \in Owned /\ Covers(db.store, a, x)
    BY <1>1, <1>4, BalanceTyped, BringsMore
  <2>2. PICK posting \in Records("Transaction") : posting = Posting(a, x, "credit", 0)
    BY <1>1, <2>1, PostingTyped, TypeFacts
  <2>3. PICK v : v = Record(Assign(Change(Load(HoldingGoal(g), "Account", a), 2, x), 1, goal),
                            "Transaction", posting)
    OBVIOUS
  <2>4. Working(v, Booking, 3, db.store)
    BY <1>1, <2>1, <2>3, GoalAndAccount
  <2>5. db' = Close(Commit(v))
    BY <1>2, <1>4, <2>2, <2>3 DEF WithdrawFromGoal
  <2> QED
    BY <2>4, <2>5, Ends
<1> QED
  BY <1>3, <1>4

LEMMA DeleteSavingsGoalOrderly ==
    ASSUME BooksSound(db), NEW g \in DOMAIN Goals, DeleteSavingsGoal(g)
    PROVE  Orderly(db')
<1>1. 1 \in 1..1
  OBVIOUS
<1>2. HoldingGoal(g).objs[1].class # "Account"
  BY HoldingGoalFacts
<1> QED
  BY <1>1, <1>2, HoldingGoalFacts, DeletedEnds DEF DeleteSavingsGoal

LEMMA OverwriteOrderly ==
    ASSUME BooksSound(db), NEW g \in DOMAIN Goals,
           \/ OverwriteAmount(g) \/ OverwritePercent(g)
           \/ RelinkGoal(g) \/ ConfigureAutoTransfer(g)
    PROVE  Orderly(db')
<1>1. Goals[g] \in GoalRecords
  BY GoalTyped
<1>2. CASE OverwriteAmount(g)
  <2>1. PICK x \in Amounts : UpdateSavingsGoal(g, [Goals[g] EXCEPT !.current = Rounded(x)])
    BY <1>2 DEF OverwriteAmount
  <2>2. [Goals[g] EXCEPT !.current = Rounded(x)] \in GoalRecords
    BY <1>1, AmountFacts, RoundedTyped, GoalChanged
  <2> QED
    BY <2>1, <2>2, GoalReplaced DEF UpdateSavingsGoal
<1>3. CASE OverwritePercent(g)
  <2>1. PICK p \in NewPercents : UpdateSavingsGoal(g, [Goals[g] EXCEPT !.percent = p])
    BY <1>3 DEF OverwritePercent
  <2>2. [Goals[g] EXCEPT !.percent = p] \in GoalRecords
    BY <1>1, RequestAssumption, GoalChanged
  <2> QED
    BY <2>1, <2>2, GoalReplaced DEF UpdateSavingsGoal
<1>4. CASE RelinkGoal(g) \/ ConfigureAutoTransfer(g)
  <2>1. PICK a \in Nat :
           db' = Close(Commit(Assign(HoldingGoal(g), 1, [Goals[g] EXCEPT !.account = a])))
    <3>1. OwnAccounts(g) \subseteq Nat
      BY ClassFacts, IdsArePositive DEF OwnAccounts, Accounts, BooksSound, Positive
    <3> QED
      BY <1>4, <3>1, RequestAssumption DEF RelinkGoal, ConfigureAutoTransfer, UpdateSavingsGoal
  <2>2. [Goals[g] EXCEPT !.account = a] \in GoalRecords
    BY <1>1, GoalChanged
  <2> QED
    BY <2>1, <2>2, GoalReplaced
<1> QED
  BY <1>2, <1>3, <1>4

LEMMA GoalRequestOrderly ==
    ASSUME BooksSound(db), GoalRequest
    PROVE  Orderly(db')
<1>1. ASSUME NEW goal \in NewGoals, CreateGoal(goal) \/ CreateSavingsGoal(goal)
      PROVE  Orderly(db')
  BY <1>1, CreateGoalOrderly
<1>2. ASSUME NEW g \in DOMAIN Goals, NEW status \in NewStatuses,
             \/ UpdateGoalStatus(g, status)
             \/ UpdateSavingsGoal(g, [Goals[g] EXCEPT !.status = status])
      PROVE  Orderly(db')
  <2>1. [Goals[g] EXCEPT !.status = status] \in GoalRecords
    BY GoalTyped, RequestAssumption, GoalChanged
  <2> QED
    BY <1>2, <2>1, UpdateGoalOrderly, GoalReplaced DEF UpdateGoalStatus, UpdateSavingsGoal
<1>3. ASSUME NEW g \in DOMAIN Goals, NEW percent \in NewPercents,
             UpdateGoalPercent(g, percent)
      PROVE  Orderly(db')
  <2>1. [Goals[g] EXCEPT !.percent = percent] \in GoalRecords
    BY GoalTyped, RequestAssumption, GoalChanged
  <2> QED
    BY <1>3, <2>1, UpdateGoalOrderly DEF UpdateGoalPercent
<1>4. ASSUME NEW g \in DOMAIN Goals, CancelGoal(g)
      PROVE  Orderly(db')
  <2>1. [Goals[g] EXCEPT !.status = "cancelled"] \in GoalRecords
    <3>1. "cancelled" \in GoalStatuses
      BY DEF GoalStatuses
    <3> QED
      BY <3>1, GoalTyped, GoalChanged
  <2> QED
    BY <1>4, <2>1, GoalReplaced DEF CancelGoal
<1>5. ASSUME NEW g \in DOMAIN Goals, DeleteSavingsGoal(g)
      PROVE  Orderly(db')
  BY <1>5, DeleteSavingsGoalOrderly
<1>6. ASSUME NEW g \in DOMAIN Goals, NEW x \in Amounts,
             ContributeToGoal(g, x) \/ ContributeUnfunded(g, x)
      PROVE  Orderly(db')
  <2>1. Goals[g] \in GoalRecords /\ x \in Int
    BY GoalTyped, AmountFacts
  <2>2. Rounded(Goals[g].current + x) \in Cents
    <3>1. Goals[g].current + x \in Int
      BY <2>1, GoalNumbers
    <3> QED
      BY <3>1, RoundedTyped
  <2>3. /\ Credited(Goals[g], Rounded(Goals[g].current + x)) \in GoalRecords
        /\ Saved(Goals[g], x) \in GoalRecords
    BY <2>1, <2>2, CreditedTyped, SavedTyped
  <2> QED
    BY <1>6, <2>3, GivenOrderly DEF ContributeToGoal, ContributeUnfunded
<1>7. ASSUME NEW g \in DOMAIN Goals, NEW x \in Amounts, NEW a \in Accounts,
             ContributeFromAccount(g, a, x)
      PROVE  Orderly(db')
  BY <1>7, ContributeFromAccountOrderly
<1>8. ASSUME NEW g \in DOMAIN Goals, NEW x \in Amounts, NEW a \in Accounts \cup {0},
             WithdrawFromGoal(g, a, x)
      PROVE  Orderly(db')
  BY <1>8, WithdrawFromGoalOrderly
<1> QED
  BY <1>1, <1>2, <1>3, <1>4, <1>5, <1>6, <1>7, <1>8 DEF GoalRequest, OwnAccounts

---------------------------------------------------------------------------
(* The requests on recurring rules.  A rule is loaded into a generic       *)
(* object, which no commit writes back.                                    *)
LEMMA RuleTyped ==
    ASSUME BooksSound(db), NEW r \in DOMAIN Rules
    PROVE  Rules[r] \in RuleRecords /\ r \in Positive
<1>1. "RecurringRule" \in Classes
  BY ClassFacts
<1>2. Rules[r] \in Allowed("RecurringRule", r) /\ r \in Positive
  BY <1>1, IdsArePositive DEF BooksSound, Stored, Rules
<1> QED
  BY <1>2 DEF Allowed, Records

LEMMA RuleChanged ==
    ASSUME NEW rule \in RuleRecords
    PROVE  /\ \A on \in BOOLEAN : [rule EXCEPT !.active = on] \in RuleRecords
           /\ [rule EXCEPT !.moved = TRUE] \in RuleRecords
           /\ rule.account \in Owned /\ rule.amount \in Positive /\ rule.active \in BOOLEAN
           /\ rule.type \in TransactionTypes
BY DEF RuleRecords

LEMMA HoldingRuleFacts ==
    ASSUME BooksSound(db), NEW r \in DOMAIN Rules
    PROVE  /\ Working(HoldingRule(r), Booking, 1, db.store)
           /\ HoldingRule(r).objs[1].class = Generic
<1>1. PICK c \in Classes \ Typed : c = "RecurringRule"
  BY ClassFacts
<1>2. PICK u : u = Open(db)
  OBVIOUS
<1>3. Sound(u, Booking) /\ u.store = db.store /\ Len(u.objs) = 0 /\ u.deletes = <<>>
  BY <1>2, OpenFacts DEF BooksSound
<1>4. r \in DOMAIN u.store[c]
  BY <1>1, <1>3 DEF Rules
<1>5. /\ Sound(Load(u, c, r), Booking)
      /\ OneMore(u, Load(u, c, r),
                 [class |-> IF c \in Typed THEN c ELSE Generic,
                  id |-> r, tracked |-> TRUE, data |-> u.store[c][r]])
  BY <1>1, <1>3, <1>4, LoadFacts
<1>6. HoldingRule(r) = Load(u, c, r)
  BY <1>1, <1>2 DEF HoldingRule
<1>7. PICK w : w = Load(u, c, r)
  OBVIOUS
<1>8. Len(w.objs) = 1 /\ w.store = db.store /\ w.deletes = <<>> /\ w.objs[1].class = Generic
  BY <1>1, <1>3, <1>5, <1>7 DEF OneMore
<1> QED
  BY <1>5, <1>6, <1>7, <1>8 DEF Working, BooksSound

LEMMA RuleAssigned ==
    ASSUME NEW v, NEW n, NEW store, Working(v, Booking, n, store),
           NEW h, Within(h, n), v.objs[h].class = Generic, NEW x \in RuleRecords
    PROVE  Working(Assign(v, h, x), Booking, n, store)
<1>1. x \in Data /\ v.objs[h].class \notin Classes
  <2>1. PICK c \in Classes : c = "RecurringRule"
    BY ClassFacts
  <2>2. x \in Records(c)
    BY <2>1 DEF Records
  <2> QED
    BY <2>2, ClassesAssumption DEF Data
<1>2. h \in 1..Len(v.objs) /\ Sound(v, Booking)
  BY DEF Working, Within
<1>3. PICK w : w = Assign(v, h, x)
  OBVIOUS
<1>4. Sound(w, Booking) /\ Differs(v, w, h, x)
  BY <1>1, <1>2, <1>3, AssignFacts
<1>5. Working(w, Booking, n, store)
  BY <1>4 DEF Working, Differs
<1> QED
  BY <1>3, <1>5

LEMMA SwitchRuleOrderly ==
    ASSUME BooksSound(db), NEW r \in DOMAIN Rules, NEW on \in BOOLEAN, SwitchRule(r, on)
    PROVE  Orderly(db') /\ DOMAIN told' = DOMAIN told
<1>1. PICK x \in RuleRecords : x = [Rules[r] EXCEPT !.active = on]
  BY RuleTyped, RuleChanged
<1>2. Working(Assign(HoldingRule(r), 1, x), Booking, 1, db.store)
  BY HoldingRuleFacts, Counting, RuleAssigned
<1>3. db' = Close(Commit(Assign(HoldingRule(r), 1, x)))
  BY <1>1 DEF SwitchRule
<1>4. DOMAIN told' = DOMAIN told
  BY DEF SwitchRule
<1> QED
  BY <1>2, <1>3, <1>4, Ends

LEMMA ExecuteRecurringRuleOrderly ==
    ASSUME BooksSound(db), NEW r \in DOMAIN Rules, ExecuteRecurringRule(r)
    PROVE  Orderly(db') /\ told' = told
<1>1. PICK rule \in RuleRecords : rule = Rules[r]
  BY RuleTyped
<1>2. PICK a \in Accounts : a = rule.account
  BY <1>1, RuleChanged DEF BooksSound, Accounts
<1>3. PICK x \in Nat : x = rule.amount
  BY RuleChanged DEF Positive
<1>4. PICK d \in Int : d = IF rule.type = "debit" THEN -x ELSE x
  OBVIOUS
<1>5. Covers(db.store, a, d)
  <2>1. CASE rule.type = "debit"
    <3>1. Guarded(a) => Balance(a) >= x
      BY <1>1, <1>2, <1>3, <2>1 DEF ExecuteRecurringRule, SufficientFunds, Guarded
    <3>2. x \in Int
      OBVIOUS
    <3> QED
      BY <1>4, <2>1, <3>1, <3>2, TakesLess
  <2>2. CASE rule.type # "debit"
    BY <1>4, <2>2, BringsMore
  <2> QED
    BY <2>1, <2>2
<1>6. PICK v : v = Load(HoldingRule(r), "Account", a)
  OBVIOUS
<1>7. /\ Working(v, Booking, 2, db.store)
      /\ v.objs[1] = HoldingRule(r).objs[1] /\ Holds(v, 2, a)
  BY <1>6, HoldingRuleFacts, HoldingTwo
<1>8. PICK v1 : v1 = Change(v, 2, d)
  OBVIOUS
<1>9. /\ Working(v1, Booking, 2, db.store)
      /\ \A k \in 1..2 : k # 2 => v1.objs[k] = v.objs[k]
  BY <1>5, <1>7, <1>8, BalanceTyped, Counting, Changed
<1>10. v1.objs[1].class = Generic
  <2>1. v1.objs[1] = v.objs[1]
    BY <1>9
  <2> QED
    BY <1>7, <2>1, HoldingRuleFacts
<1>11. PICK x1 \in RuleRecords : x1 = [rule EXCEPT !.moved = TRUE]
  BY RuleChanged
<1>12. PICK v2 : v2 = Assign(v1, 1, x1)
  OBVIOUS
<1>13. Working(v2, Booking, 2, db.store)
  BY <1>9, <1>10, <1>12, Counting, RuleAssigned
<1>14. PICK posting : posting = [Posting(a, x, rule.type, 0) EXCEPT !.rule = r]
  OBVIOUS
<1>15. posting \in Records("Transaction")
  <2>1. rule.type \in TransactionTypes /\ r \in Nat /\ a \in Owned
    BY RuleChanged, RuleTyped, BalanceTyped DEF Positive
  <2>3. x \in Int
    OBVIOUS
  <2>4. Rounded(x) \in Cents /\ Halfway(x) \in BOOLEAN
    BY <2>3, RoundedTyped DEF Halfway
  <2>2. posting \in Postings
    BY <1>14, <2>1, <2>4 DEF Posting, Postings
  <2> QED
    BY <2>2 DEF Records
<1>16. PICK c \in Booking : c = "Transaction"
  BY BookingFacts
<1>17. Working(Record(v2, c, posting), Booking, 3, db.store)
  BY <1>13, <1>15, <1>16, Counting, Booked1
<1>18. db' = Close(Commit(Record(v2, c, posting)))
  <2>1. db' = Close(Commit(Record(
           Assign(Change(Load(HoldingRule(r), "Account", rule.account), 2,
                         IF rule.type = "debit" THEN -rule.amount ELSE rule.amount),
                  1, [rule EXCEPT !.moved = TRUE]),
           "Transaction",
           [Posting(rule.account, rule.amount, rule.type, 0) EXCEPT !.rule = r])))
    BY <1>1 DEF ExecuteRecurringRule
  <2>2. PICK y \in Int : y = IF rule.type = "debit" THEN -rule.amount ELSE rule.amount
    BY <1>3
  <2>3. y = d
    BY <1>3, <1>4, <2>2
  <2>4. posting = [Posting(rule.account, rule.amount, rule.type, 0) EXCEPT !.rule = r]
    BY <1>2, <1>3, <1>14
  <2>5. v2 = Assign(Change(Load(HoldingRule(r), "Account", rule.account), 2, y),
                    1, [rule EXCEPT !.moved = TRUE])
    BY <1>2, <1>6, <1>8, <1>11, <1>12, <2>3
  <2>6. db' = Close(Commit(Record(
           Assign(Change(Load(HoldingRule(r), "Account", rule.account), 2, y),
                  1, [rule EXCEPT !.moved = TRUE]), "Transaction", posting)))
    BY <2>1, <2>2, <2>4
  <2> QED
    BY <1>16, <2>5, <2>6
<1>19. told' = told
  BY DEF ExecuteRecurringRule
<1> QED
  BY <1>17, <1>18, <1>19, Ends

(* A new rule gets the id after the largest, and is the one told of. *)
LEMMA CreateRecurringRuleOrderly ==
    ASSUME BooksSound(db), NEW a \in Accounts, NEW x \in Amounts,
           NEW type \in TransactionTypes, CreateRecurringRule(a, x, type)
    PROVE  /\ BooksSound(db')
           /\ \E r : /\ DOMAIN db'.store["RecurringRule"] = DOMAIN Rules \cup {r}
                     /\ DOMAIN told' = DOMAIN told \cup {r}
<1>1. PICK M \in Makes : M = {"RecurringRule"}
  BY StoreMaps DEF Makes
<1>2. PICK c \in M : c = "RecurringRule"
  BY <1>1
<1>3. PICK data : data = [account |-> a, amount |-> x, type |-> type,
                          active |-> TRUE, moved |-> FALSE]
  OBVIOUS
<1>4. data \in Records(c)
  <2>1. data \in RuleRecords
    BY <1>3, BalanceTyped, AmountFacts DEF RuleRecords
  <2> QED
    BY <1>2, <2>1 DEF Records
<1>5. PICK u : u = Open(db)
  OBVIOUS
<1>6. Working(u, M, 0, db.store) /\ u.adds = <<>> /\ DOMAIN u = Parts
  BY <1>5, Opened DEF Open, Parts
<1>7. PICK v : v = Record(u, c, data)
  OBVIOUS
<1>8. /\ Working(v, M, 1, db.store) /\ v.objs[1].class = c
  <2>1. /\ Working(v, M, 1, db.store)
        /\ v.objs[1] = [class |-> c, id |-> u.counter[c], tracked |-> FALSE, data |-> data]
    BY <1>4, <1>6, <1>7, Counting, Recorded
  <2> QED
    BY <2>1
<1>9. v.adds = Append(<<>>, 1)
  <2>1. PICK w : w = Make(u, c, data)
    OBVIOUS
  <2>2. Len(w.objs) = 1 /\ w.adds = <<>> /\ DOMAIN w = Parts
    <3>1. u.objs = <<>>
      BY <1>5 DEF Open
    <3>2. /\ w.objs = Append(u.objs, [class |-> c, id |-> u.counter[c],
                                      tracked |-> FALSE, data |-> data])
          /\ w.adds = u.adds /\ DOMAIN w = Parts
      BY <1>6, <2>1 DEF Make, Parts
    <3> QED
      BY <1>6, <3>1, <3>2
  <2>3. v = Add(w, Len(w.objs))
    BY <1>7, <2>1 DEF Record
  <2> QED
    BY <2>2, <2>3 DEF Add, Parts
<1>10. v.adds \in Seq({1}) /\ Len(v.adds) = 1 /\ DOMAIN v.adds = {1} /\ v.adds[1] = 1
  <2>1. <<>> \in Seq({1}) /\ 1 \in {1} /\ Len(<<>>) = 0
    OBVIOUS
  <2>2. PICK list \in Seq({1}) : list = <<>> /\ Len(list) = 0
    BY <2>1
  <2>3. PICK added : added = Append(list, 1)
    OBVIOUS
  <2>4. added \in Seq({1}) /\ Len(added) = 1 /\ DOMAIN added = 1..1 /\ added[1] = 1
    BY <2>2, <2>3
  <2>5. 1..1 = {1}
    OBVIOUS
  <2> QED
    BY <1>9, <2>2, <2>3, <2>4, <2>5
<1>11. AddsOf(v, c) = {1}
  BY <1>8, <1>10 DEF AddsOf
<1>12. PICK r : r = IdAfter(v, 1)
  OBVIOUS
<1>13. r = NewId(v, 1)
  <2>1. InSeq(1, v.adds) /\ (CHOOSE k \in DOMAIN v.adds : v.adds[k] = 1) = 1
    BY <1>10 DEF InSeq
  <2> QED
    BY <1>12, <2>1 DEF IdAfter
<1>14. DOMAIN Added(v, c) = DOMAIN db.store[c] \cup {r}
  <2>1. v.store = db.store
    BY <1>8 DEF Working
  <2> QED
    BY <1>11, <1>13, <2>1 DEF Added
<1>15. PICK w : w = Commit(v)
  OBVIOUS
<1>16. DOMAIN w.store[c] = DOMAIN Rules \cup {r}
  <2>1. Gone(v, c) = {} /\ c \in Classes
    BY <1>1, <1>2, <1>8, ClassFacts DEF Working, Gone
  <2>2. w.store = [d \in Classes |-> Kept(v, d, Updated(v, d, Added(v, d)))]
    BY <1>8, <1>15 DEF Commit, Working, Sound, Parts
  <2>3. w.store[c] = Kept(v, c, Updated(v, c, Added(v, c)))
    BY <2>1, <2>2
  <2>4. DOMAIN w.store[c] = DOMAIN Added(v, c)
    BY <2>1, <2>3 DEF Kept, Updated
  <2> QED
    BY <1>2, <1>14, <2>4 DEF Rules
<1>17. BooksSound(Close(w))
  BY <1>8, <1>15, Settled
<1>18. w.objs[1].id = r
  <2>1. Sound(v, M) /\ Len(v.objs) = 1
    BY <1>8 DEF Working
  <2>2. PICK h \in 1..Len(v.objs) : h = 1
    BY <2>1
  <2>3. v.objs[h] \in Objects
    BY <2>1 DEF Sound, ObjectsSound
  <2>4. w.objs[h] = [v.objs[h] EXCEPT !.id = IdAfter(v, h)]
    BY <1>15, <2>1, CommitFacts
  <2> QED
    BY <1>12, <2>2, <2>3, <2>4 DEF Objects
<1>19. db' = Close(w) /\ DOMAIN told' = DOMAIN told \cup {w.objs[1].id}
  BY <1>2, <1>3, <1>5, <1>7, <1>15 DEF CreateRecurringRule
<1>20. db'.store = w.store
  BY <1>19 DEF Close
<1> QED
  BY <1>2, <1>16, <1>17, <1>18, <1>19, <1>20

---------------------------------------------------------------------------
(* The inductive invariant. *)
Inv == BooksSound(db) /\ DOMAIN told = DOMAIN Rules

LEMMA RuleRequestInv ==
    ASSUME Inv, RuleRequest
    PROVE  Inv'
<1> USE DEF Inv
<1>1. ASSUME NEW a \in Accounts, NEW x \in Amounts, NEW type \in TransactionTypes,
             CreateRecurringRule(a, x, type)
      PROVE  Inv'
  BY <1>1, CreateRecurringRuleOrderly DEF Rules
<1>2. ASSUME NEW r \in DOMAIN Rules, NEW on \in BOOLEAN, SwitchRule(r, on)
      PROVE  Inv'
  BY <1>2, SwitchRuleOrderly DEF Orderly, Rules
<1>3. ASSUME NEW r \in DOMAIN Rules, ToggleRecurringRule(r) \/ DeleteRecurringRule(r)
      PROVE  Inv'
  <2>1. PICK on \in BOOLEAN : SwitchRule(r, on)
    <3>1. (~Rules[r].active) \in BOOLEAN /\ FALSE \in BOOLEAN
      BY Zenon
    <3> QED
      BY <1>3, <3>1, Zenon DEF ToggleRecurringRule, DeleteRecurringRule
  <2> QED
    BY <1>2, <2>1
<1>4. ASSUME NEW r \in DOMAIN Rules, ExecuteRecurringRule(r)
      PROVE  Inv'
  BY <1>4, ExecuteRecurringRuleOrderly DEF Orderly, Rules
<1> QED
  BY <1>1, <1>3, <1>4 DEF RuleRequest

LEMMA OrderlyInv ==
    ASSUME Inv, Orderly(db'), told' = told
    PROVE  Inv'
BY DEF Inv, Orderly, Rules

LEMMA NextInv ==
    ASSUME Inv, [Next]_vars
    PROVE  Inv'
<1> BooksSound(db)
  BY DEF Inv
<1>1. CASE AccountRequest /\ UNCHANGED told
  BY <1>1, AccountRequestOrderly, OrderlyInv
<1>2. CASE GoalRequest /\ UNCHANGED told
  BY <1>2, GoalRequestOrderly, OrderlyInv
<1>3. CASE RuleRequest
  BY <1>3, RuleRequestInv
<1>4. CASE UNCHANGED <<db, told>>
  BY <1>4 DEF Inv, Rules
<1>5. ASSUME NEW g \in DOMAIN Goals, UNCHANGED told,
             \/ OverwriteAmount(g) \/ OverwritePercent(g)
             \/ RelinkGoal(g) \/ ConfigureAutoTransfer(g)
      PROVE  Inv'
  BY <1>5, OverwriteOrderly, OrderlyInv
<1> QED
  BY <1>1, <1>2, <1>3, <1>4, <1>5 DEF Next, RefuseRequest, vars

LEMMA InitInv ==
    ASSUME Init
    PROVE  Inv
<1>1. \A c \in Classes : Largest(DOMAIN Seed[c]) \in Nat
  BY SeedAssumption
<1>2. db.counter \in [Classes -> Positive]
  BY <1>1 DEF Init, InitialCounter, Positive
<1>3. Stored(db.store)
  <2> SUFFICES ASSUME NEW c \in Classes
               PROVE  /\ Bounded(DOMAIN Seed[c])
                      /\ Seed[c] \in [DOMAIN Seed[c] -> Data]
                      /\ \A i \in DOMAIN Seed[c] : Seed[c][i] \in Allowed(c, i)
    BY SeedAssumption DEF Init, Stored
  <2>1. Seed[c] \in [DOMAIN Seed[c] -> Records(c)] /\ Records(c) \subseteq Data
    BY SeedAssumption DEF Data
  <2>2. Bounded(DOMAIN Seed[c])
    BY <1>1, SeedAssumption DEF Bounded
  <2>3. ASSUME NEW i \in DOMAIN Seed[c]
        PROVE  Seed[c][i] \in Allowed(c, i)
    <3>1. Seed[c][i] \in Records(c)
      BY <2>1
    <3>2. CASE c = "Account"
      BY <3>1, <3>2 DEF Records, Allowed, Guarded
    <3>3. CASE c # "Account"
      BY <3>1, <3>3, AllowedLoosely
    <3> QED
      BY <3>2, <3>3
  <2> QED
    BY <2>1, <2>2, <2>3
<1>4. DOMAIN db.store["Account"] = Owned
  BY DEF Init, Owned
<1>5. DOMAIN told = DOMAIN Rules
  BY SeedAssumption DEF Init, Rules
<1> QED
  BY <1>2, <1>3, <1>4, <1>5 DEF Inv, BooksSound

LEMMA Invariance == Spec => []Inv
<1>1. Init => Inv
  BY InitInv
<1>2. Inv /\ [Next]_vars => Inv'
  BY NextInv
<1> QED
  BY <1>1, <1>2, PTL DEF Spec

(* Every record the routes leave in a store is a record of its class, of   *)
(* an account, status and type there is; no request makes or loses an      *)
(* account, and a response has told of every rule there is.                *)
THEOREM TypeCorrect == Spec => []TypeOK
<1>1. Inv => TypeOK
  <2> SUFFICES ASSUME Inv
               PROVE  TypeOK
    OBVIOUS
  <2>1. \A c \in Classes : \A i \in DOMAIN db.store[c] : db.store[c][i] \in Records(c)
    BY AllowedFacts DEF Inv, BooksSound, Stored
  <2> QED
    BY <2>1 DEF Inv, BooksSound, TypeOK, Accounts
<1> QED
  BY <1>1, Invariance, PTL

(* No checking account that is not a business's is overdrawn from the start. *)
SeedCovered ==
    \A a \in Owned : Kind[a] = "checking" /\ a \notin Business => Seed["Account"][a] >= 0

(* No sequence of transfers, deposits, payments, contributions and rule    *)
(* executions takes a checking account below zero (transfers.py:57,        *)
(* transactions.py:93, p2p.py:60, recurring.py:200, savings.py:198): every *)
(* route checks the funds on the balance it then changes, and a commit     *)
(* writes no balance but the changed one.                                  *)
THEOREM NeverOverdrawn ==
    ASSUME SeedCovered
    PROVE  Spec => []CheckingNeverOverdrawn
<1>1. Inv => CheckingNeverOverdrawn
  <2> SUFFICES ASSUME Inv, NEW a \in Accounts, Kind[a] = "checking", a \notin Business
               PROVE  Balance(a) >= 0
    BY DEF CheckingNeverOverdrawn
  <2>1. BooksSound(db) /\ a \in Owned
    BY DEF Inv, BooksSound, Accounts
  <2>2. Guarded(a)
    BY <2>1 DEF Guarded, SeedCovered
  <2> QED
    BY <2>1, <2>2, BalanceTyped
<1> QED
  BY <1>1, Invariance, PTL

=============================================================================
