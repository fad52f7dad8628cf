---------------------------- MODULE SessionProofs ----------------------------
(***************************************************************************)
(* Proofs about the session table for every number of users, devices and   *)
(* sessions and for all limits and timeouts.  TypeOK is inductive once the *)
(* sets whose size it bounds are known to be finite.                       *)
(***************************************************************************)
EXTENDS SessionManager, FiniteSetTheorems, TLAPS

Finite == \A u \in Users : /\ IsFiniteSet(userSessions[u])
                           /\ IsFiniteSet(DOMAIN userDevices[u])

IInv == TypeOK /\ Finite

(* What is left of an index entry is a smaller finite set. *)
LEMMA FewerRemain ==
    ASSUME NEW S, IsFiniteSet(S), NEW n \in Nat, Cardinality(S) <= n, NEW T
    PROVE  /\ IsFiniteSet(S \ T)
           /\ Cardinality(S \ T) \in Nat
           /\ Cardinality(S \ T) <= n
<1>1. S \ T \in SUBSET S
  OBVIOUS
<1> QED
  BY <1>1, FS_Subset, FS_CardinalityType

LEMMA InitIInv ==
    ASSUME Init
    PROVE  IInv
<1> USE SessionAssumption DEF Init
<1>1. IsFiniteSet({}) /\ Cardinality({}) = 0
  BY FS_EmptySet
<1> QED
  BY <1>1 DEF IInv, TypeOK, Finite, SessionsOK, IndexOK, DevicesOK

---------------------------------------------------------------------------
(* Ending a set of sessions keeps the invariant. *)
LEMMA LeftOK ==
    ASSUME IInv, NEW S, NEW u \in Users
    PROVE  /\ DOMAIN Left(u, S) = DOMAIN userDevices[u]
           /\ \A d \in DOMAIN userDevices[u] :
                 LET object == Left(u, S)[d]
                 IN /\ object \in [seen : Nat, session : Tokens \cup {None}]
                    /\ object.session # None =>
                         /\ object.session \in DOMAIN sessions \ S
                         /\ sessions[object.session].user = u
                         /\ sessions[object.session].device = d
                         /\ sessions[object.session].active = object.seen
<1>1. DOMAIN Left(u, S) = DOMAIN userDevices[u]
  BY DEF Left
<1>2. ASSUME NEW d \in DOMAIN userDevices[u]
      PROVE  LET object == Left(u, S)[d]
             IN /\ object \in [seen : Nat, session : Tokens \cup {None}]
                /\ object.session # None =>
                     /\ object.session \in DOMAIN sessions \ S
                     /\ sessions[object.session].user = u
                     /\ sessions[object.session].device = d
                     /\ sessions[object.session].active = object.seen
  <2> DEFINE old == userDevices[u][d]
             object == Left(u, S)[d]
  <2>1. /\ old \in [seen : Nat, session : Tokens \cup {None}]
        /\ old.session # None => /\ old.session \in DOMAIN sessions
                                 /\ sessions[old.session].user = u
                                 /\ sessions[old.session].device = d
                                 /\ sessions[old.session].active = old.seen
    BY DEF IInv, TypeOK, DevicesOK
  <2>2. object = IF old.session \in S THEN [old EXCEPT !.session = None] ELSE old
    BY DEF Left
  <2> HIDE DEF old, object
  <2>3. CASE old.session \in S
    <3>1. object \in [seen : Nat, session : Tokens \cup {None}] /\ object.session = None
      BY <2>1, <2>2, <2>3
    <3> QED
      BY <3>1 DEF object
  <2>4. CASE old.session \notin S
    <3>1. object = old
      BY <2>2, <2>4
    <3> QED
      BY <2>1, <2>4, <3>1 DEF object
  <2> QED
    BY <2>3, <2>4
<1> QED
  BY <1>1, <1>2

(* Ending sessions takes the same ones out of the table and of the index. *)
LEMMA IndexFollows ==
    ASSUME IInv, NEW S, sessions' = Remaining(S),
           userSessions' = [u \in Users |-> RemainingOf(u, S)]
    PROVE  IndexOK' /\ \A u \in Users : IsFiniteSet(userSessions'[u])
<1> SUFFICES ASSUME NEW u \in Users
             PROVE  /\ userSessions'[u] \in SUBSET Tokens
                    /\ userSessions'[u] = {i \in DOMAIN sessions' : sessions'[i].user = u}
                    /\ Cardinality(userSessions'[u]) <= MaxConcurrent
                    /\ IsFiniteSet(userSessions'[u])
  BY DEF IndexOK
<1>1. /\ DOMAIN sessions' = DOMAIN sessions \ S
      /\ \A i \in DOMAIN sessions' : sessions'[i] = sessions[i]
  BY DEF Remaining
<1>2. userSessions'[u] = userSessions[u] \ S
  BY DEF RemainingOf
<1>3. /\ IsFiniteSet(userSessions[u]) /\ Cardinality(userSessions[u]) <= MaxConcurrent
      /\ userSessions[u] \subseteq Tokens
      /\ userSessions[u] = {i \in DOMAIN sessions : sessions[i].user = u}
  BY DEF IInv, TypeOK, IndexOK, Finite
<1>4. /\ IsFiniteSet(userSessions[u] \ S)
      /\ Cardinality(userSessions[u] \ S) <= MaxConcurrent
  BY <1>3, FewerRemain, SessionAssumption
<1>5. userSessions[u] \ S = {i \in DOMAIN sessions' : sessions'[i].user = u}
  BY <1>1, <1>3
<1> QED
  BY <1>2, <1>3, <1>4, <1>5

LEMMA EndIInv ==
    ASSUME IInv, NEW S, End(S), UNCHANGED now
    PROVE  IInv'
<1>1. sessions' = Remaining(S) /\ DOMAIN sessions' = DOMAIN sessions \ S
  BY DEF End, Remaining
<1>2. \A i \in DOMAIN sessions' : sessions'[i] = sessions[i]
  BY <1>1 DEF Remaining
<1>3. SessionsOK'
  BY <1>1, <1>2 DEF IInv, TypeOK, SessionsOK
<1>4. IndexOK' /\ \A u \in Users : IsFiniteSet(userSessions'[u])
  BY IndexFollows DEF End
<1>5. DevicesOK' /\ \A u \in Users : IsFiniteSet(DOMAIN userDevices'[u])
  <2>1. DOMAIN userDevices' = Users /\ \A u \in Users : userDevices'[u] = Left(u, S)
    BY DEF End
  <2>2. ASSUME NEW u \in Users
        PROVE  /\ DOMAIN userDevices'[u] = DOMAIN userDevices[u]
               /\ IsFiniteSet(DOMAIN userDevices[u])
               /\ DOMAIN userDevices[u] \subseteq Devices
               /\ Cardinality(DOMAIN userDevices[u]) <= MaxDevices
    BY <2>1, LeftOK DEF IInv, TypeOK, DevicesOK, Finite
  <2>3. ASSUME NEW u \in Users, NEW d \in DOMAIN userDevices'[u]
        PROVE  LET object == userDevices'[u][d]
               IN /\ object \in [seen : Nat, session : Tokens \cup {None}]
                  /\ object.session # None =>
                       /\ object.session \in DOMAIN sessions'
                       /\ sessions'[object.session].user = u
                       /\ sessions'[object.session].device = d
                       /\ sessions'[object.session].active = object.seen
    <3>1. d \in DOMAIN userDevices[u] /\ userDevices'[u] = Left(u, S)
      BY <2>1, <2>2, <2>3
    <3> QED
      BY <1>1, <1>2, <3>1, LeftOK
  <2> QED
    BY <2>1, <2>2, <2>3 DEF DevicesOK
<1> QED
  BY <1>3, <1>4, <1>5 DEF IInv, TypeOK, Finite

---------------------------------------------------------------------------
(* Recorded activity shows in the session and in the device that follows   *)
(* it, and is within the absolute limit since the session had not expired. *)
LEMMA ActivityIInv ==
    ASSUME IInv, NEW i \in DOMAIN sessions, ~Expired(i),
           sessions' = Active(i),
           userDevices' = [u \in Users |-> Seen(u, i)],
           UNCHANGED <<now, userSessions>>
    PROVE  IInv'
<1>1. /\ DOMAIN sessions' = DOMAIN sessions
      /\ \A j \in DOMAIN sessions : j # i => sessions'[j] = sessions[j]
      /\ sessions'[i] = [sessions[i] EXCEPT !.active = now]
  BY DEF Active
<1>2. /\ sessions[i] \in [user : Users, device : Devices, created : Nat, active : Nat]
      /\ sessions[i].created <= sessions[i].active /\ sessions[i].active <= now
      /\ now \in Nat
      /\ now <= sessions[i].created + AbsoluteTimeout
  BY SessionAssumption DEF IInv, TypeOK, SessionsOK, Expired
<1>3. /\ sessions'[i] \in [user : Users, device : Devices, created : Nat, active : Nat]
      /\ sessions'[i].user = sessions[i].user
      /\ sessions'[i].device = sessions[i].device
      /\ sessions'[i].created = sessions[i].created
      /\ sessions'[i].active = now
  BY <1>1, <1>2
<1>4. SessionsOK'
  <2> SUFFICES ASSUME NEW j \in DOMAIN sessions
               PROVE  /\ j \in Tokens
                      /\ sessions'[j] \in [user : Users, device : Devices,
                                           created : Nat, active : Nat]
                      /\ sessions'[j].created <= sessions'[j].active
                      /\ sessions'[j].active <= now
                      /\ sessions'[j].active <= sessions'[j].created + AbsoluteTimeout
    BY <1>1 DEF SessionsOK
  <2>1. CASE j = i
    BY <1>2, <1>3, <2>1 DEF IInv, TypeOK, SessionsOK
  <2>2. CASE j # i
    BY <1>1, <2>2 DEF IInv, TypeOK, SessionsOK
  <2> QED
    BY <2>1, <2>2
<1>5. \A j \in DOMAIN sessions : /\ sessions'[j].user = sessions[j].user
                                 /\ sessions'[j].device = sessions[j].device
  BY <1>1, <1>3
<1>6. IndexOK' /\ \A u \in Users : IsFiniteSet(userSessions'[u])
  BY <1>1, <1>5 DEF IInv, TypeOK, IndexOK, Finite
<1>7. \A u \in Users : /\ userDevices'[u] = Seen(u, i)
                       /\ DOMAIN userDevices'[u] = DOMAIN userDevices[u]
  BY DEF Seen
<1>8. ASSUME NEW u \in Users, NEW d \in DOMAIN userDevices[u]
      PROVE  LET object == userDevices'[u][d]
             IN /\ object \in [seen : Nat, session : Tokens \cup {None}]
                /\ object.session # None =>
                     /\ object.session \in DOMAIN sessions'
                     /\ sessions'[object.session].user = u
                     /\ sessions'[object.session].device = d
                     /\ sessions'[object.session].active = object.seen
  <2> DEFINE old == userDevices[u][d]
             object == userDevices'[u][d]
  <2>1. /\ old \in [seen : Nat, session : Tokens \cup {None}]
        /\ old.session # None => /\ old.session \in DOMAIN sessions
                                 /\ sessions[old.session].user = u
                                 /\ sessions[old.session].device = d
                                 /\ sessions[old.session].active = old.seen
    BY DEF IInv, TypeOK, DevicesOK
  <2>2. object = IF old.session = i THEN [old EXCEPT !.seen = now] ELSE old
    BY <1>7 DEF Seen
  <2> HIDE DEF old, object
  <2>3. CASE old.session = i
    <3>1. /\ object \in [seen : Nat, session : Tokens \cup {None}]
          /\ object.session = i /\ object.seen = now
      BY <1>2, <2>1, <2>2, <2>3
    <3>2. old.session # None
      BY <2>3, SessionAssumption DEF IInv, TypeOK, SessionsOK
    <3> QED
      BY <1>1, <1>3, <2>1, <2>3, <3>1, <3>2 DEF object
  <2>4. CASE old.session # i
    <3>1. object = old
      BY <2>2, <2>4
    <3> QED
      BY <1>1, <2>1, <2>4, <3>1 DEF object
  <2> QED
    BY <2>3, <2>4
<1>9. DevicesOK' /\ \A u \in Users : IsFiniteSet(DOMAIN userDevices'[u])
  <2>1. DOMAIN userDevices' = Users
    OBVIOUS
  <2>2. \A u \in Users : /\ IsFiniteSet(DOMAIN userDevices'[u])
                         /\ DOMAIN userDevices'[u] \subseteq Devices
                         /\ Cardinality(DOMAIN userDevices'[u]) <= MaxDevices
    BY <1>7 DEF IInv, TypeOK, DevicesOK, Finite
  <2> QED
    BY <1>7, <1>8, <2>1, <2>2 DEF DevicesOK
<1> QED
  BY <1>2, <1>4, <1>6, <1>9 DEF IInv, TypeOK, Finite

(* A request from another device ends the session as terminate_session     *)
(* does, but for the time its device object shows.                         *)
LEMMA MismatchIInv ==
    ASSUME IInv, NEW i \in DOMAIN sessions,
           sessions' = Remaining({i}),
           userSessions' = [u \in Users |-> RemainingOf(u, {i})],
           userDevices' = [u \in Users |-> [e \in DOMAIN userDevices[u] |->
               IF userDevices[u][e].session = i THEN [seen |-> now, session |-> None]
                                                ELSE userDevices[u][e]]],
           UNCHANGED now
    PROVE  IInv'
<1>1. /\ DOMAIN sessions' = DOMAIN sessions \ {i}
      /\ \A j \in DOMAIN sessions' : sessions'[j] = sessions[j]
  BY DEF Remaining
<1>2. SessionsOK' /\ now' \in Nat
  BY <1>1 DEF IInv, TypeOK, SessionsOK
<1>3. IndexOK' /\ \A u \in Users : IsFiniteSet(userSessions'[u])
  BY IndexFollows
<1>4. DevicesOK' /\ \A u \in Users : IsFiniteSet(DOMAIN userDevices'[u])
  <2>1. DOMAIN userDevices' = Users
    OBVIOUS
  <2>2. \A u \in Users : /\ DOMAIN userDevices'[u] = DOMAIN userDevices[u]
                         /\ IsFiniteSet(DOMAIN userDevices[u])
                         /\ DOMAIN userDevices[u] \subseteq Devices
                         /\ Cardinality(DOMAIN userDevices[u]) <= MaxDevices
    BY DEF IInv, TypeOK, DevicesOK, Finite
  <2>3. ASSUME NEW u \in Users, NEW d \in DOMAIN userDevices[u]
        PROVE  LET object == userDevices'[u][d]
               IN /\ object \in [seen : Nat, session : Tokens \cup {None}]
                  /\ object.session # None =>
                       /\ object.session \in DOMAIN sessions'
                       /\ sessions'[object.session].user = u
                       /\ sessions'[object.session].device = d
                       /\ sessions'[object.session].active = object.seen
    <3> DEFINE old == userDevices[u][d]
               object == userDevices'[u][d]
    <3>1. /\ old \in [seen : Nat, session : Tokens \cup {None}]
          /\ old.session # None => /\ old.session \in DOMAIN sessions
                                   /\ sessions[old.session].user = u
                                   /\ sessions[old.session].device = d
                                   /\ sessions[old.session].active = old.seen
      BY DEF IInv, TypeOK, DevicesOK
    <3>2. object = IF old.session = i THEN [seen |-> now, session |-> None] ELSE old
      OBVIOUS
    <3>3. now \in Nat
      BY DEF IInv, TypeOK
    <3> HIDE DEF old, object
    <3>4. CASE old.session = i
      <4>1. object \in [seen : Nat, session : Tokens \cup {None}] /\ object.session = None
        BY <3>2, <3>3, <3>4
      <4> QED
        BY <4>1 DEF object
    <3>5. CASE old.session # i
      <4>1. object = old
        BY <3>2, <3>5
      <4> QED
        BY <1>1, <3>1, <3>5, <4>1 DEF object
    <3> QED
      BY <3>4, <3>5
  <2> QED
    BY <2>1, <2>2, <2>3 DEF DevicesOK
<1> QED
  BY <1>2, <1>3, <1>4 DEF IInv, TypeOK, Finite

---------------------------------------------------------------------------
(* A login: at most one session of the user makes room for the new one ... *)
LEMMA CrowdedLeavesRoom ==
    ASSUME NEW ids, IsFiniteSet(ids), Cardinality(ids) <= MaxConcurrent,
           NEW victim \in Crowded(ids), NEW i, i \notin ids
    PROVE  /\ IsFiniteSet((ids \ victim) \cup {i})
           /\ Cardinality((ids \ victim) \cup {i}) <= MaxConcurrent
<1>1. Cardinality(ids) \in Nat /\ MaxConcurrent \in Nat \ {0}
  BY FS_CardinalityType, SessionAssumption
<1>2. CASE Cardinality(ids) >= MaxConcurrent
  <2>1. PICK k \in ids : victim = {k}
    BY <1>2 DEF Crowded, Oldest
  <2>2. IsFiniteSet(ids \ {k}) /\ Cardinality(ids \ {k}) = Cardinality(ids) - 1
    BY <2>1, FS_RemoveElement
  <2>3. /\ IsFiniteSet((ids \ {k}) \cup {i})
        /\ Cardinality((ids \ {k}) \cup {i}) = Cardinality(ids \ {k}) + 1
    BY <2>2, FS_AddElement
  <2> QED
    BY <1>1, <2>1, <2>2, <2>3
<1>3. CASE ~(Cardinality(ids) >= MaxConcurrent)
  <2>1. victim = {} /\ ids \ victim = ids
    BY <1>3 DEF Crowded
  <2>2. IsFiniteSet(ids \cup {i}) /\ Cardinality(ids \cup {i}) = Cardinality(ids) + 1
    BY FS_AddElement
  <2> QED
    BY <1>1, <1>3, <2>1, <2>2
<1> QED
  BY <1>2, <1>3

(* ... and the devices are cut down to the limit. *)
LEMMA TrimmedFits ==
    ASSUME NEW devices, IsFiniteSet(DOMAIN devices), NEW kept \in Trimmed(devices)
    PROVE  /\ DOMAIN kept \subseteq DOMAIN devices
           /\ IsFiniteSet(DOMAIN kept)
           /\ Cardinality(DOMAIN kept) <= MaxDevices
           /\ \A d \in DOMAIN kept : kept[d] = devices[d]
<1>1. CASE Cardinality(DOMAIN devices) <= MaxDevices
  BY <1>1 DEF Trimmed
<1>2. CASE ~(Cardinality(DOMAIN devices) <= MaxDevices)
  <2>1. PICK K \in SUBSET DOMAIN devices : /\ Cardinality(K) = MaxDevices
                                           /\ kept = [d \in K |-> devices[d]]
    BY <1>2 DEF Trimmed
  <2>2. IsFiniteSet(K)
    BY FS_Subset
  <2> QED
    BY <2>1, <2>2, SessionAssumption
<1> QED
  BY <1>1, <1>2

LEMMA CreateIInv ==
    ASSUME IInv, NEW u \in Users, NEW d \in Devices, NEW i \in Tokens,
           CreateSession(u, d, i)
    PROVE  IInv'
<1> DEFINE expired == {j \in DOMAIN sessions : Expired(j)}
           existing == RemainingOf(u, expired)
           entered == [user |-> u, device |-> d, created |-> now, active |-> now]
           Known(gone) == [e \in DOMAIN userDevices[u] \cup {d} |->
                             IF e = d THEN [seen |-> now, session |-> i]
                                      ELSE Left(u, gone)[e]]
<1>1. PICK victim \in Crowded(existing) :
        LET gone == expired \cup victim
        IN /\ sessions' = [j \in DOMAIN Remaining(gone) \cup {i} |->
                             IF j = i THEN entered ELSE sessions[j]]
           /\ userSessions' = [v \in Users |->
                 IF v = u THEN RemainingOf(u, gone) \cup {i} ELSE RemainingOf(v, gone)]
           /\ \E devices \in Trimmed(Known(gone)) :
                 userDevices' = [v \in Users |-> IF v = u THEN devices ELSE Left(v, gone)]
  BY DEF CreateSession
<1> DEFINE gone == expired \cup victim
           known == Known(gone)
<1>2. PICK devices \in Trimmed(known) :
        userDevices' = [v \in Users |-> IF v = u THEN devices ELSE Left(v, gone)]
  BY <1>1
<1>3. i \notin DOMAIN sessions /\ now' = now /\ now \in Nat
  BY DEF CreateSession, IInv, TypeOK
<1>4. /\ DOMAIN sessions' = (DOMAIN sessions \ gone) \cup {i}
      /\ sessions'[i] = entered
      /\ \A j \in DOMAIN sessions \ gone : sessions'[j] = sessions[j]
  BY <1>1, <1>3 DEF Remaining
<1>5. SessionsOK'
  <2> SUFFICES ASSUME NEW j \in DOMAIN sessions'
               PROVE  /\ j \in Tokens
                      /\ sessions'[j] \in [user : Users, device : Devices,
                                           created : Nat, active : Nat]
                      /\ sessions'[j].created <= sessions'[j].active
                      /\ sessions'[j].active <= now
                      /\ sessions'[j].active <= sessions'[j].created + AbsoluteTimeout
    BY <1>3 DEF SessionsOK
  <2> HIDE DEF gone
  <2>1. CASE j = i
    BY <1>3, <1>4, <2>1, SessionAssumption
  <2>2. CASE j # i
    BY <1>4, <2>2 DEF IInv, TypeOK, SessionsOK
  <2> QED
    BY <2>1, <2>2
<1>6. \A v \in Users : userSessions'[v] = IF v = u THEN (userSessions[u] \ gone) \cup {i}
                                          ELSE userSessions[v] \ gone
  BY <1>1 DEF RemainingOf
<1>7. \A v \in Users :
        /\ IsFiniteSet(userSessions[v]) /\ Cardinality(userSessions[v]) <= MaxConcurrent
        /\ userSessions[v] \subseteq Tokens
        /\ userSessions[v] = {j \in DOMAIN sessions : sessions[j].user = v}
  BY DEF IInv, TypeOK, IndexOK, Finite
<1>8. ASSUME NEW v \in Users
      PROVE  IsFiniteSet(userSessions'[v]) /\ Cardinality(userSessions'[v]) <= MaxConcurrent
  <2>1. CASE v # u
    <3>1. userSessions'[v] = userSessions[v] \ gone
      BY <1>6, <2>1
    <3>2. /\ IsFiniteSet(userSessions[v]) /\ Cardinality(userSessions[v]) <= MaxConcurrent
          /\ MaxConcurrent \in Nat
      BY <1>7, SessionAssumption
    <3> HIDE DEF gone
    <3> QED
      BY <3>1, <3>2, FewerRemain
  <2>2. CASE v = u
    <3>1. /\ IsFiniteSet(existing) /\ Cardinality(existing) <= MaxConcurrent
          /\ i \notin existing
      <4>1. existing = userSessions[u] \ expired /\ i \notin userSessions[u]
        BY <1>3, <1>7 DEF RemainingOf
      <4> HIDE DEF existing, expired
      <4> QED
        BY <1>7, <4>1, FewerRemain, SessionAssumption
    <3>2. userSessions'[v] = (existing \ victim) \cup {i}
      BY <1>6, <2>2 DEF RemainingOf
    <3> HIDE DEF existing
    <3> QED
      BY <3>1, <3>2, CrowdedLeavesRoom
  <2> QED
    BY <2>1, <2>2
<1> HIDE DEF gone, expired, existing
<1>9. IndexOK'
  <2>1. ASSUME NEW v \in Users
        PROVE  /\ userSessions'[v] \in SUBSET Tokens
               /\ userSessions'[v] = {j \in DOMAIN sessions' : sessions'[j].user = v}
    <3>1. /\ userSessions[v] \subseteq Tokens
          /\ userSessions[v] = {j \in DOMAIN sessions : sessions[j].user = v}
      BY <1>7
    <3>2. sessions'[i].user = u
      BY <1>4
    <3>3. \A j : j \in userSessions'[v] <=> \/ j \in userSessions[v] /\ j \notin gone
                                            \/ j = i /\ v = u
      BY <1>6
    <3>4. \A j : j \in userSessions'[v] <=> j \in DOMAIN sessions' /\ sessions'[j].user = v
      BY <1>3, <1>4, <3>1, <3>2, <3>3
    <3>5. \A j \in userSessions'[v] : j \in Tokens
      BY <3>1, <3>3
    <3> QED
      BY <3>4, <3>5
  <2>2. userSessions' \in [Users -> SUBSET Tokens]
    <3>1. userSessions' = [v \in Users |-> userSessions'[v]]
      BY <1>1
    <3> QED
      BY <2>1, <3>1
  <2> QED
    BY <1>8, <2>1, <2>2 DEF IndexOK
<1>10. ASSUME NEW v \in Users
       PROVE  /\ DOMAIN Left(v, gone) = DOMAIN userDevices[v]
              /\ IsFiniteSet(DOMAIN userDevices[v])
              /\ DOMAIN userDevices[v] \subseteq Devices
              /\ Cardinality(DOMAIN userDevices[v]) <= MaxDevices
  BY LeftOK DEF IInv, TypeOK, DevicesOK, Finite
<1>11. /\ DOMAIN devices \subseteq DOMAIN userDevices[u] \cup {d}
       /\ IsFiniteSet(DOMAIN devices) /\ Cardinality(DOMAIN devices) <= MaxDevices
       /\ \A e \in DOMAIN devices : devices[e] = known[e]
  <2>1. IsFiniteSet(DOMAIN userDevices[u] \cup {d})
    BY <1>10, FS_AddElement
  <2>2. DOMAIN known = DOMAIN userDevices[u] \cup {d}
    OBVIOUS
  <2> HIDE DEF known
  <2> QED
    BY <2>1, <2>2, TrimmedFits
<1>12. ASSUME NEW v \in Users
       PROVE  userDevices'[v] = IF v = u THEN devices ELSE Left(v, gone)
  BY <1>2
<1>13. ASSUME NEW v \in Users, NEW e \in DOMAIN userDevices'[v]
       PROVE  LET object == userDevices'[v][e]
              IN /\ object \in [seen : Nat, session : Tokens \cup {None}]
                 /\ object.session # None =>
                      /\ object.session \in DOMAIN sessions'
                      /\ sessions'[object.session].user = v
                      /\ sessions'[object.session].device = e
                      /\ sessions'[object.session].active = object.seen
  <2>1. CASE v = u /\ e = d
    <3>1. userDevices'[v][e] = [seen |-> now, session |-> i]
      BY <1>11, <1>12, <1>13, <2>1
    <3> QED
      BY <1>3, <1>4, <2>1, <3>1
  <2>2. CASE ~(v = u /\ e = d)
    <3>1. e \in DOMAIN userDevices[v] /\ userDevices'[v][e] = Left(v, gone)[e]
      <4>1. CASE v = u
        BY <1>11, <1>12, <1>13, <2>2, <4>1
      <4>2. CASE v # u
        BY <1>10, <1>12, <1>13, <4>2
      <4> QED
        BY <4>1, <4>2
    <3> QED
      BY <1>4, <3>1, LeftOK
  <2> QED
    BY <2>1, <2>2
<1>14. DevicesOK' /\ \A v \in Users : IsFiniteSet(DOMAIN userDevices'[v])
  <2>1. DOMAIN userDevices' = Users
    BY <1>2
  <2>2. ASSUME NEW v \in Users
        PROVE  /\ IsFiniteSet(DOMAIN userDevices'[v])
               /\ DOMAIN userDevices'[v] \subseteq Devices
               /\ Cardinality(DOMAIN userDevices'[v]) <= MaxDevices
    <3> HIDE DEF known
    <3>1. CASE v = u
      BY <1>10, <1>11, <1>12, <3>1
    <3>2. CASE v # u
      BY <1>10, <1>12, <3>2
    <3> QED
      BY <3>1, <3>2
  <2> QED
    BY <1>13, <2>1, <2>2 DEF DevicesOK
<1> QED
  BY <1>3, <1>5, <1>8, <1>9, <1>14 DEF IInv, TypeOK, Finite

---------------------------------------------------------------------------
LEMMA NextIInv ==
    ASSUME IInv, [Next]_vars
    PROVE  IInv'
<1>1. CASE Tick
  <2>1. now' \in Nat /\ now <= now'
    BY <1>1 DEF Tick, IInv, TypeOK
  <2>2. SessionsOK'
    BY <1>1, <2>1 DEF Tick, IInv, TypeOK, SessionsOK
  <2> QED
    BY <1>1, <2>1, <2>2 DEF Tick, IInv, TypeOK, IndexOK, DevicesOK, Finite
<1>2. ASSUME NEW u \in Users, NEW d \in Devices, NEW i \in Tokens, CreateSession(u, d, i)
      PROVE  IInv'
  BY <1>2, CreateIInv
<1>3. ASSUME NEW i \in DOMAIN sessions, GetExpired(i) \/ TerminateSession(i)
      PROVE  IInv'
  BY <1>3, EndIInv DEF GetExpired, TerminateSession
<1>4. ASSUME NEW i \in DOMAIN sessions, NEW d, GetSession(i, d)
      PROVE  IInv'
  <2>1. CASE d \in {None, sessions[i].device}
    BY <1>4, <2>1, ActivityIInv DEF GetSession
  <2>2. CASE d \notin {None, sessions[i].device}
    BY <1>4, <2>2, MismatchIInv DEF GetSession
  <2> QED
    BY <2>1, <2>2
<1>5. ASSUME NEW u \in Users, NEW i, TerminateAllUserSessions(u, i)
      PROVE  IInv'
  BY <1>5, EndIInv DEF TerminateAllUserSessions
<1>6. CASE UNCHANGED vars
  BY <1>6 DEF vars, IInv, TypeOK, SessionsOK, IndexOK, DevicesOK, Finite, Expired
<1> QED
  BY <1>1, <1>2, <1>3, <1>4, <1>5, <1>6 DEF Next

(* The tables of EnhancedSessionManager fit together and stay finite,      *)
(* whatever logins, requests and terminations come                         *)
(* (enhanced_session_manager.py:81).                                       *)
THEOREM SessionsAreFinite == Spec => []IInv
<1>1. Init => IInv
  BY InitIInv
<1>2. IInv /\ [Next]_vars => IInv'
  BY NextIInv
<1> QED
  BY <1>1, <1>2, PTL DEF Spec

(* Table, index and remembered devices agree, both limits hold, and no     *)
(* session is used past its absolute limit, for all limits and timeouts    *)
(* (enhanced_session_manager.py:126 and :218).                             *)
THEOREM TypeCorrect == Spec => []TypeOK
<1>1. IInv => TypeOK
  BY DEF IInv
<1> QED
  BY <1>1, SessionsAreFinite, PTL

---------------------------------------------------------------------------
(* What a step may do to one session. *)
LEMMA LoginDecides ==
    ASSUME IInv, NEW u \in Users, NEW d \in Devices, NEW t \in Tokens,
           CreateSession(u, d, t), NEW i \in DOMAIN sessions
    PROVE  Decided(i)
<1> DEFINE expired == {j \in DOMAIN sessions : Expired(j)}
           entered == [user |-> u, device |-> d, created |-> now, active |-> now]
<1>1. RemainingOf(u, expired) = Live(u)
  BY DEF RemainingOf, Live, IInv, TypeOK, IndexOK
<1>2. PICK victim \in Crowded(Live(u)) :
        sessions' = [j \in DOMAIN Remaining(expired \cup victim) \cup {t} |->
                       IF j = t THEN entered ELSE sessions[j]]
  BY <1>1 DEF CreateSession
<1>3. t \notin DOMAIN sessions
  BY DEF CreateSession
<1>4. /\ victim \subseteq Live(u) /\ Live(u) \subseteq DOMAIN sessions
      /\ victim \in Crowded(Live(u))
  <2>1. victim \subseteq Live(u)
    BY DEF Crowded, Oldest
  <2> QED
    BY <2>1 DEF Live, IInv, TypeOK, IndexOK
<1>5. /\ DOMAIN sessions' = (DOMAIN sessions \ (expired \cup victim)) \cup {t}
      /\ sessions'[t] = entered
  BY <1>2 DEF Remaining
<1>6. Ended = expired \cup victim
  BY <1>3, <1>4, <1>5 DEF Ended
<1>7. LoggedIn = {u}
  <2>1. DOMAIN sessions' \ DOMAIN sessions = {t}
    BY <1>3, <1>5
  <2> QED
    BY <1>5, <2>1 DEF LoggedIn
<1>8. CASE Expired(i)
  BY <1>6, <1>8 DEF Decided
<1>9. CASE ~Expired(i)
  <2> SUFFICES ASSUME i \in Ended
               PROVE  /\ Ended \cap Live(u) = {i}
                      /\ Cardinality(Live(u)) = MaxConcurrent
                      /\ i \in Oldest(Live(u))
    BY <1>7, <1>9 DEF Decided
  <2>1. i \in victim
    BY <1>6, <1>9
  <2>2. Cardinality(Live(u)) >= MaxConcurrent /\ victim = {i} /\ i \in Oldest(Live(u))
    <3>1. Crowded(Live(u)) # {{}}
      BY <1>4, <2>1
    <3>2. Cardinality(Live(u)) >= MaxConcurrent
      BY <3>1 DEF Crowded
    <3>3. victim \in {{j} : j \in Oldest(Live(u))}
      BY <1>4, <3>2 DEF Crowded
    <3> QED
      BY <2>1, <3>2, <3>3
  <2>3. /\ IsFiniteSet(userSessions[u]) /\ Cardinality(userSessions[u]) <= MaxConcurrent
        /\ Live(u) = userSessions[u] \ expired
    BY DEF IInv, TypeOK, IndexOK, Finite, Live
  <2>4. Cardinality(Live(u)) \in Nat /\ Cardinality(Live(u)) <= MaxConcurrent
    <3> HIDE DEF expired
    <3> QED
      BY <2>3, FewerRemain, SessionAssumption
  <2>5. Ended \cap Live(u) = {i}
    <3>1. expired \cap Live(u) = {}
      BY DEF Live
    <3> QED
      BY <1>4, <1>6, <2>2, <3>1
  <2> QED
    BY <2>2, <2>4, <2>5, SessionAssumption
<1> QED
  BY <1>8, <1>9

LEMMA NextDecides ==
    ASSUME IInv, [Next]_vars, NEW i \in DOMAIN sessions
    PROVE  Decided(i)
<1>1. ASSUME NEW u \in Users, NEW d \in Devices, NEW t \in Tokens, CreateSession(u, d, t)
      PROVE  Decided(i)
  BY <1>1, LoginDecides
<1>2. ASSUME NEW S, sessions' = Remaining(S)
      PROVE  Decided(i)
  <2>1. LoggedIn = {} /\ (i \in Ended \/ sessions'[i] = sessions[i])
    BY <1>2 DEF LoggedIn, Ended, Remaining
  <2> QED
    BY <2>1 DEF Decided
<1>3. ASSUME NEW j \in DOMAIN sessions, ~Expired(j), sessions' = Active(j)
      PROVE  Decided(i)
  <2>1. LoggedIn = {} /\ (i # j => sessions'[i] = sessions[i])
    BY <1>3 DEF LoggedIn, Active
  <2> QED
    BY <1>3, <2>1 DEF Decided
<1>4. CASE sessions' = sessions
  <2>1. LoggedIn = {}
    BY <1>4 DEF LoggedIn
  <2> QED
    BY <1>4, <2>1 DEF Decided
<1>5. ASSUME NEW j \in DOMAIN sessions, NEW d, GetSession(j, d)
      PROVE  Decided(i)
  <2>1. ~Expired(j) /\ (sessions' = Active(j) \/ sessions' = Remaining({j}))
    BY <1>5 DEF GetSession
  <2> QED
    BY <1>2, <1>3, <2>1
<1>6. ASSUME NEW j \in DOMAIN sessions, GetExpired(j) \/ TerminateSession(j)
      PROVE  Decided(i)
  <2>1. sessions' = Remaining({j})
    BY <1>6 DEF GetExpired, TerminateSession, End
  <2> QED
    BY <1>2, <2>1
<1>7. ASSUME NEW u \in Users, NEW j, TerminateAllUserSessions(u, j)
      PROVE  Decided(i)
  <2>1. sessions' = Remaining(userSessions[u] \ {j})
    BY <1>7 DEF TerminateAllUserSessions, End
  <2> QED
    BY <1>2, <2>1
<1> QED
  BY <1>1, <1>4, <1>5, <1>6, <1>7 DEF Next, Tick, vars

(* A timed out session is never used again and neither counts nor protects *)
(* at a login, which ends no session but the oldest of a full set of those *)
(* that have not timed out (enhanced_session_manager.py:145 and :229).     *)
THEOREM TimeoutsAreDecisive == Spec => TimeoutsDecide
<1>1. IInv /\ [Next]_vars => [\A i \in DOMAIN sessions : Decided(i)]_vars
  BY NextDecides
<1> QED
  BY <1>1, SessionsAreFinite, PTL DEF Spec, TimeoutsDecide
=============================================================================
