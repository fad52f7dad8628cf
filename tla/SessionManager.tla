--------------------------- MODULE SessionManager ---------------------------
(***************************************************************************)
(* The table of login sessions of utils/enhanced_session_manager.py: its   *)
(* index by user, the devices it remembers for every user, the limits on   *)
(* both, and the two timeouts.  Nothing is swept in the background: a      *)
(* session that has timed out stays until it is used or somebody logs in.  *)
(*                                                                         *)
(* A device object belongs to the session whose login made it and follows  *)
(* that session's activity; a later login from the same device puts its    *)
(* own object in the place of it.  Audit events are left out.              *)
(***************************************************************************)
EXTENDS Naturals, FiniteSets

CONSTANTS Users,
          Devices,          \* the device fingerprints
          Tokens,           \* bound: the session ids, drawn anew for every login
          None,             \* no device given, or no session
          MaxConcurrent,    \* max_concurrent_sessions
          MaxDevices,       \* max_devices_per_user
          SessionTimeout,   \* session_timeout, of inactivity
          AbsoluteTimeout,  \* absolute_timeout, since the login
          MaxNow            \* bound: the clock

ASSUME SessionAssumption ==
    /\ MaxConcurrent \in Nat \ {0}
    /\ MaxDevices \in Nat \ {0}
    /\ SessionTimeout \in Nat
    /\ AbsoluteTimeout \in Nat
    /\ None \notin Tokens \cup Devices

VARIABLES now,
          sessions,       \* [user, device, created, active], by id
          userSessions,   \* the ids of every user
          userDevices     \* the remembered devices of every user: [seen, session]

vars == <<now, sessions, userSessions, userDevices>>

Init == /\ now = 0
        /\ sessions = [i \in {} |-> {}]
        /\ userSessions = [u \in Users |-> {}]
        /\ userDevices = [u \in Users |-> [d \in {} |-> {}]]

Tick == /\ now < MaxNow
        /\ now' = now + 1
        /\ UNCHANGED <<sessions, userSessions, userDevices>>

Expired(i) == \/ now - sessions[i].active > SessionTimeout
              \/ now - sessions[i].created > AbsoluteTimeout

---------------------------------------------------------------------------
(* terminate_session, for the ids in S. *)
Remaining(S) == [i \in DOMAIN sessions \ S |-> sessions[i]]

RemainingOf(u, S) == userSessions[u] \ S

(* The device objects outlive their sessions. *)
Left(u, S) == [d \in DOMAIN userDevices[u] |->
                 IF userDevices[u][d].session \in S
                 THEN [userDevices[u][d] EXCEPT !.session = None]
                 ELSE userDevices[u][d]]

End(S) == /\ sessions' = Remaining(S)
          /\ userSessions' = [u \in Users |-> RemainingOf(u, S)]
          /\ userDevices' = [u \in Users |-> Left(u, S)]

(* Seeded bug: the limit is applied to one session too many. *)
Crowded_OffByOne(ids) ==
    IF Cardinality(ids) > MaxConcurrent
    THEN {{i} : i \in {j \in ids : \A k \in ids : sessions[j].created <= sessions[k].created}}
    ELSE {{}}

(* _handle_concurrent_login ends one of the oldest of the ids. *)
Oldest(ids) == {i \in ids : \A j \in ids : sessions[i].created <= sessions[j].created}

Crowded(ids) ==
    IF Cardinality(ids) >= MaxConcurrent THEN {{i} : i \in Oldest(ids)} ELSE {{}}

(* _cleanup_old_devices keeps the devices seen last, of those seen at one  *)
(* time in any order.                                                      *)
Trimmed(devices) ==
    IF Cardinality(DOMAIN devices) <= MaxDevices THEN {devices}
    ELSE {[d \in kept |-> devices[d]] :
            kept \in {K \in SUBSET DOMAIN devices :
                        /\ Cardinality(K) = MaxDevices
                        /\ \A d \in K, e \in DOMAIN devices \ K :
                              devices[e].seen <= devices[d].seen}}

(* Seeded bug: the expired sessions end after the limit was applied. *)
CreateSession_LateCleanup(u, d, i) ==
    LET expired == {j \in DOMAIN sessions : Expired(j)}
        entered == [user |-> u, device |-> d, created |-> now, active |-> now]
    IN /\ i \in Tokens \ DOMAIN sessions
       /\ \E victim \in Crowded(userSessions[u]) :
             LET gone == expired \cup victim
                 known == [e \in DOMAIN userDevices[u] \cup {d} |->
                             IF e = d THEN [seen |-> now, session |-> i]
                                      ELSE Left(u, gone)[e]]
             IN /\ sessions' = [j \in DOMAIN Remaining(gone) \cup {i} |->
                                  IF j = i THEN entered ELSE sessions[j]]
                /\ userSessions' = [v \in Users |->
                      IF v = u THEN RemainingOf(u, gone) \cup {i} ELSE RemainingOf(v, gone)]
                /\ \E devices \in Trimmed(known) :
                      userDevices' = [v \in Users |-> IF v = u THEN devices ELSE Left(v, gone)]
       /\ UNCHANGED now

(* A login: the expired sessions of all users end, then one of the oldest  *)
(* of this user if it still has too many, and the new one is entered.      *)
CreateSession(u, d, i) ==
    LET expired == {j \in DOMAIN sessions : Expired(j)}
        existing == RemainingOf(u, expired)
        entered == [user |-> u, device |-> d, created |-> now, active |-> now]
    IN /\ i \in Tokens \ DOMAIN sessions
       /\ \E victim \in Crowded(existing) :
             LET gone == expired \cup victim
                 known == [e \in DOMAIN userDevices[u] \cup {d} |->
                             IF e = d THEN [seen |-> now, session |-> i]
                                      ELSE Left(u, gone)[e]]
             IN /\ sessions' = [j \in DOMAIN Remaining(gone) \cup {i} |->
                                  IF j = i THEN entered ELSE sessions[j]]
                /\ userSessions' = [v \in Users |->
                      IF v = u THEN RemainingOf(u, gone) \cup {i} ELSE RemainingOf(v, gone)]
                /\ \E devices \in Trimmed(known) :
                      userDevices' = [v \in Users |-> IF v = u THEN devices ELSE Left(v, gone)]
       /\ UNCHANGED now

(* get_session finds the session timed out ... *)
GetExpired(i) == /\ Expired(i)
                 /\ End({i})
                 /\ UNCHANGED now

(* ... or records the activity, in the session and in its device object,   *)
(* and then ends it if the request comes from another device.              *)
Active(i) == [sessions EXCEPT ![i].active = now]

Seen(u, i) == [d \in DOMAIN userDevices[u] |->
                 IF userDevices[u][d].session = i
                 THEN [userDevices[u][d] EXCEPT !.seen = now]
                 ELSE userDevices[u][d]]

GetSession(i, d) ==
    /\ ~Expired(i)
    /\ IF d \in {None, sessions[i].device}
       THEN /\ sessions' = Active(i)
            /\ userDevices' = [u \in Users |-> Seen(u, i)]
            /\ UNCHANGED userSessions
       ELSE /\ sessions' = Remaining({i})
            /\ userSessions' = [u \in Users |-> RemainingOf(u, {i})]
            /\ userDevices' = [u \in Users |-> [e \in DOMAIN userDevices[u] |->
                  IF userDevices[u][e].session = i THEN [seen |-> now, session |-> None]
                                                   ELSE userDevices[u][e]]]
    /\ UNCHANGED now

TerminateSession(i) == End({i}) /\ UNCHANGED now

TerminateAllUserSessions(u, except) == End(userSessions[u] \ {except}) /\ UNCHANGED now

Next == \/ Tick
        \/ \E u \in Users, d \in Devices, i \in Tokens : CreateSession(u, d, i)
        \/ \E i \in DOMAIN sessions :
              \/ GetExpired(i)
              \/ \E d \in Devices \cup {None} : GetSession(i, d)
              \/ TerminateSession(i)
        \/ \E u \in Users, i \in Tokens \cup {None} : TerminateAllUserSessions(u, i)

Spec == Init /\ [][Next]_vars

---------------------------------------------------------------------------
(* The index and the table agree, both limits hold, a device that follows  *)
(* a session shows its last activity, and no session was used past its     *)
(* absolute limit.                                                         *)
SessionsOK ==
    \A i \in DOMAIN sessions :
        /\ i \in Tokens
        /\ sessions[i] \in [user : Users, device : Devices, created : Nat, active : Nat]
        /\ sessions[i].created <= sessions[i].active
        /\ sessions[i].active <= now
        /\ sessions[i].active <= sessions[i].created + AbsoluteTimeout

IndexOK ==
    /\ userSessions \in [Users -> SUBSET Tokens]
    /\ \A u \in Users :
          /\ userSessions[u] = {i \in DOMAIN sessions : sessions[i].user = u}
          /\ Cardinality(userSessions[u]) <= MaxConcurrent

DevicesOK ==
    /\ DOMAIN userDevices = Users
    /\ \A u \in Users :
          /\ DOMAIN userDevices[u] \subseteq Devices
          /\ Cardinality(DOMAIN userDevices[u]) <= MaxDevices
          /\ \A d \in DOMAIN userDevices[u] :
                LET object == userDevices[u][d]
                IN /\ object \in [seen : Nat, session : Tokens \cup {None}]
                   /\ object.session # None =>
                        /\ object.session \in DOMAIN sessions
                        /\ sessions[object.session].user = u
                        /\ sessions[object.session].device = d
                        /\ sessions[object.session].active = object.seen

TypeOK == now \in Nat /\ SessionsOK /\ IndexOK /\ DevicesOK

(* A session that has timed out is out, though it stays in the table: no   *)
(* step records activity of it (enhanced_session_manager.py:229), and at a *)
(* login it neither counts nor protects (:145): a login ends a session     *)
(* that has not timed out only if the user has as many of those as it may  *)
(* have, this one is the oldest of them, and no other one is ended.        *)
Live(u) == {i \in userSessions[u] : ~Expired(i)}

Ended == DOMAIN sessions \ DOMAIN sessions'

LoggedIn == {sessions'[i].user : i \in DOMAIN sessions' \ DOMAIN sessions}

Decided(i) ==
    IF Expired(i) THEN i \in Ended \/ sessions'[i] = sessions[i]
    ELSE \A u \in LoggedIn :
            i \in Ended => /\ Ended \cap Live(u) = {i}
                           /\ Cardinality(Live(u)) = MaxConcurrent
                           /\ i \in Oldest(Live(u))

TimeoutsDecide == [][\A i \in DOMAIN sessions : Decided(i)]_vars
=============================================================================
