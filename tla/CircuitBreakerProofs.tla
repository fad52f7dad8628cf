------------------------ MODULE CircuitBreakerProofs ------------------------
(***************************************************************************)
(* Proofs about the circuit breaker for any number of calls, any threshold *)
(* and any limits.  The three invariants are inductive together with what  *)
(* a locked section may rely on: the counts stay in their ranges because   *)
(* the state is what they say, the number of calls in progress is what     *)
(* their places in the code say, and what a thread found when it decided   *)
(* to write the state still holds unless a reset has written since.        *)
(***************************************************************************)
EXTENDS CircuitBreaker, FiniteSetTheorems, TLAPS

(* What the thread in a locked section found there. *)
SectionsHold ==
  \A c \in Threads :
    /\ call[c] = "probing" => /\ sinceFailure = RecoveryTimeout
                              /\ state = "open" \/ crossed
    /\ call[c] \in {"deciding", "opening"} => sinceFailure # Never
    /\ call[c] = "opening" => \/ state = "half_open"
                              \/ failures = FailureThreshold
                              \/ crossed

IInv == TypeOK /\ PlacesAreGivenBack /\ CountsMatchState /\ SectionsHold

Places == {"idle", "checked", "running", "leaving"} \cup Locked

Outside == {"idle", "probing", "checked"}

Inside == {c \in Calls : call[c] \notin Outside}

(* One thread at most is in a locked section, and outside them nothing is  *)
(* left of one.                                                            *)
LockHeld ==
  /\ call \in [Threads -> Places]
  /\ call[Observer] \in {"idle", "probing"}
  /\ \A c, d \in Threads : call[c] \in Locked /\ call[d] \in Locked => c = d
  /\ read # 0 => \E c \in Calls : call[c] = "counting"
  /\ LockFree => ~crossed

(* The rest of TypeOK. *)
CountsInRange ==
  /\ state \in {"closed", "open", "half_open"}
  /\ failures \in 0 .. FailureThreshold
  /\ successes \in 0 .. 2
  /\ sinceFailure \in {Never} \cup 0 .. RecoveryTimeout
  /\ read \in 0 .. FailureThreshold
  /\ resetting \in BOOLEAN
  /\ crossed \in BOOLEAN

LEMMA TypeParts ==
    TypeOK <=> LockHeld /\ CountsInRange /\ concurrent \in 0 .. Cardinality(Calls)
BY DEF TypeOK, LockHeld, CountsInRange, Places

LEMMA TypeNext ==
    ASSUME LockHeld', CountsInRange', concurrent' \in 0 .. Cardinality(Calls)
    PROVE  TypeOK'
BY DEF TypeOK, LockHeld, CountsInRange, Places

LEMMA InitIInv ==
    ASSUME Init
    PROVE  IInv
<1> USE BreakerAssumption DEF Init
<1>1. Cardinality(Calls) \in Nat
  BY FS_CardinalityType
<1>2. {c \in Calls : call[c] \notin {"idle", "probing", "checked"}} = {}
  BY DEF Threads
<1>3. PlacesAreGivenBack
  BY <1>2, FS_EmptySet DEF PlacesAreGivenBack
<1>4. LockHeld
  BY DEF LockHeld, Places, Threads, Locked
<1>5. CountsInRange
  <2>1. /\ state = "closed" /\ failures = 0 /\ successes = 0 /\ sinceFailure = Never
        /\ read = 0 /\ resetting = FALSE /\ crossed = FALSE
    OBVIOUS
  <2>2. resetting \in BOOLEAN /\ crossed \in BOOLEAN
    BY <2>1, Zenon
  <2> QED
    BY <2>1, <2>2 DEF CountsInRange
<1>6. SectionsHold
  BY DEF SectionsHold
<1> QED
  BY <1>1, <1>3, <1>4, <1>5, <1>6, TypeParts DEF IInv, CountsMatchState

(* The calls in progress are a finite set, so their number is in range. *)
LEMMA InsideCounts ==
    ASSUME NEW S \in SUBSET Calls
    PROVE  IsFiniteSet(S) /\ Cardinality(S) \in 0..Cardinality(Calls)
<1>1. IsFiniteSet(S) /\ Cardinality(S) <= Cardinality(Calls)
  BY BreakerAssumption, FS_Subset
<1>2. Cardinality(S) \in Nat /\ Cardinality(Calls) \in Nat
  BY <1>1, BreakerAssumption, FS_CardinalityType
<1> QED
  BY <1>1, <1>2

---------------------------------------------------------------------------
(* A thread that takes the lock, or none, from a free lock. *)
LEMMA FreshSection ==
    ASSUME LockHeld, LockFree, NEW c \in Threads, NEW at \in Places,
           c = Observer => at \in {"idle", "probing"},
           Goto(c, at),
           UNCHANGED crossed,
           at # "counting" => UNCHANGED read
    PROVE  LockHeld'
<1>1. read = 0
  BY DEF LockHeld, LockFree, Locked, Threads
<1> QED
  BY <1>1, BreakerAssumption DEF LockHeld, LockFree, Goto, Threads

(* The thread that holds it goes on. *)
LEMMA SameSection ==
    ASSUME LockHeld, NEW c \in Calls, NEW at \in Locked, call[c] \in Locked, Goto(c, at),
           read' = 0
    PROVE  LockHeld'
<1>1. c \in Threads /\ c # Observer /\ at \in Places
  BY BreakerAssumption DEF Threads, Places
<1>2. /\ call' \in [Threads -> Places]
      /\ call'[Observer] \in {"idle", "probing"}
      /\ call'[c] = at
      /\ \A d \in Threads : d # c => call'[d] = call[d]
  BY <1>1 DEF LockHeld, Goto, Threads
<1>3. ~LockFree'
  BY <1>1, <1>2 DEF LockFree
<1> QED
  BY <1>1, <1>2, <1>3 DEF LockHeld

(* It gives the lock back, and the section leaves nothing. *)
LEMMA EndOfSection ==
    ASSUME LockHeld, NEW c \in Threads, NEW at \in {"idle", "checked", "leaving"},
           c = Observer => at = "idle",
           call[c] \in Locked \ {"counting"}, Goto(c, at), read' = read, crossed' = FALSE
    PROVE  LockHeld'
<1>0. read = 0
  BY DEF LockHeld, Locked, Threads
<1>1. at \in Places /\ at \notin Locked
  BY DEF Places, Locked
<1>2. /\ call' \in [Threads -> Places]
      /\ call'[Observer] \in {"idle", "probing"}
      /\ call'[c] = at
      /\ \A d \in Threads : d # c => call'[d] = call[d]
  BY <1>1 DEF LockHeld, Goto, Threads
<1> QED
  BY <1>0, <1>1, <1>2 DEF LockHeld, LockFree

(* While one thread holds it the others stand outside their sections. *)
LEMMA OnlyHolder ==
    ASSUME LockHeld, NEW c \in Threads, call[c] \in Locked, NEW at, Goto(c, at),
           NEW d \in Threads, d # c
    PROVE  call[d] \notin Locked /\ call'[d] = call[d]
BY DEF LockHeld, Goto

(* A call that moves on within the breaker, or outside it, moves no place. *)
LEMMA PlaceKept ==
    ASSUME IInv, NEW c \in Threads, NEW at, Goto(c, at), UNCHANGED concurrent,
           c \in Calls => (call[c] \in Outside <=> at \in Outside)
    PROVE  PlacesAreGivenBack'
<1>1. /\ call \in [Threads -> Places]
      /\ call' = [call EXCEPT ![c] = at]
  BY TypeParts DEF IInv, LockHeld, Goto
<1>2. {d \in Calls : call'[d] \notin {"idle", "probing", "checked"}} = Inside
  BY <1>1 DEF Inside, Outside, Threads
<1> QED
  BY <1>1, <1>2 DEF IInv, PlacesAreGivenBack, Inside, Outside

(* Steps that change neither the state nor what is counted. *)
LEMMA CountsKept ==
    ASSUME IInv, UNCHANGED <<state, failures, successes, sinceFailure, resetting>>,
           NEW c \in Threads, NEW at, Goto(c, at),
           c \in Calls => (call[c] \notin {"deciding", "opening"}) \/ at \in {"deciding", "opening"}
    PROVE  CountsMatchState'
<1>1. \A d \in Calls : call[d] \in {"deciding", "opening"} => call'[d] \in {"deciding", "opening"}
  BY TypeParts DEF IInv, LockHeld, Goto, Threads
<1> QED
  BY <1>1 DEF IInv, CountsMatchState

(* A step that ends outside the locked sections keeps what they rely on.   *)
LEMMA SectionsKept ==
    ASSUME IInv, LockFree, NEW c \in Threads, NEW at, Goto(c, at),
           at \notin {"probing", "deciding", "opening"}
    PROVE  SectionsHold'
<1>1. \A d \in Threads : call'[d] \notin {"probing", "deciding", "opening"}
  BY TypeParts DEF IInv, LockHeld, LockFree, Goto, Locked
<1> QED
  BY <1>1 DEF SectionsHold

(* Within a section only the holder's own part has to be shown. *)
LEMMA SectionsOfHolder ==
    ASSUME IInv, NEW c \in Threads, NEW at, call[c] \in Locked, Goto(c, at),
           at = "probing" => FALSE,
           at \in {"deciding", "opening"} => sinceFailure' # Never,
           at = "opening" => \/ state' = "half_open"
                             \/ failures' = FailureThreshold
                             \/ crossed'
    PROVE  SectionsHold'
<1>1. LockHeld
  BY TypeParts DEF IInv
<1>2. call'[c] = at
  BY <1>1 DEF LockHeld, Goto
<1>3. ASSUME NEW d \in Threads, d # c
      PROVE  call'[d] \notin {"probing", "deciding", "opening"}
  BY <1>1, <1>3, OnlyHolder DEF Locked
<1> QED
  BY <1>2, <1>3 DEF SectionsHold

---------------------------------------------------------------------------
LEMMA PlaceTaken ==
    ASSUME IInv, NEW c \in Calls, Enter(c)
    PROVE  PlacesAreGivenBack' /\ concurrent' \in 0 .. Cardinality(Calls)
<1>1. /\ call \in [Threads -> Places]
      /\ call' = [call EXCEPT ![c] = "running"]
      /\ c \notin Inside
  BY TypeParts DEF IInv, LockHeld, Goto, Enter, Inside, Outside
<1>2. {d \in Calls : call'[d] \notin {"idle", "probing", "checked"}} = Inside \cup {c}
  BY <1>1 DEF Inside, Outside, Threads
<1>3. /\ IsFiniteSet(Inside) /\ concurrent = Cardinality(Inside)
      /\ concurrent \in Nat
  BY InsideCounts, FS_CardinalityType DEF IInv, PlacesAreGivenBack, Inside, Outside
<1>4. Cardinality(Inside \cup {c}) = Cardinality(Inside) + 1
  BY <1>1, <1>3, FS_AddElement
<1>5. Cardinality(Inside \cup {c}) \in 0..Cardinality(Calls)
  <2>1. Inside \cup {c} \in SUBSET Calls
    BY DEF Inside
  <2> QED
    BY <2>1, InsideCounts
<1>6. concurrent' = Cardinality(Inside \cup {c}) /\ concurrent' = concurrent + 1
  BY <1>3, <1>4 DEF Enter
<1>7. MaxConcurrent # 0 => concurrent' <= MaxConcurrent
  BY <1>3, <1>6, BreakerAssumption DEF Enter, HasSlot
<1> QED
  BY <1>2, <1>5, <1>6, <1>7 DEF PlacesAreGivenBack

LEMMA PlaceGivenBack ==
    ASSUME IInv, NEW c \in Calls, Leave(c)
    PROVE  PlacesAreGivenBack' /\ concurrent' \in 0 .. Cardinality(Calls)
<1>1. /\ call \in [Threads -> Places]
      /\ call' = [call EXCEPT ![c] = "idle"]
      /\ c \in Inside
  BY TypeParts DEF IInv, LockHeld, Goto, Leave, Inside, Outside
<1>2. {d \in Calls : call'[d] \notin {"idle", "probing", "checked"}} = Inside \ {c}
  BY <1>1 DEF Inside, Outside, Threads
<1>3. /\ IsFiniteSet(Inside) /\ concurrent = Cardinality(Inside)
      /\ concurrent \in Nat
  BY InsideCounts, FS_CardinalityType DEF IInv, PlacesAreGivenBack, Inside, Outside
<1>4. Cardinality(Inside \ {c}) = Cardinality(Inside) - 1
  BY <1>1, <1>3, FS_RemoveElement
<1>5. Cardinality(Inside \ {c}) \in 0..Cardinality(Calls)
  <2>1. Inside \ {c} \in SUBSET Calls
    BY DEF Inside
  <2> QED
    BY <2>1, InsideCounts
<1>6. concurrent' = Cardinality(Inside \ {c}) /\ concurrent' = concurrent - 1
  BY <1>3, <1>4 DEF Leave
<1>7. MaxConcurrent # 0 => concurrent' <= MaxConcurrent
  BY <1>3, <1>6, BreakerAssumption DEF IInv, PlacesAreGivenBack
<1> QED
  BY <1>2, <1>5, <1>6, <1>7 DEF PlacesAreGivenBack

---------------------------------------------------------------------------
(* The state is read: who finds the circuit open and due starts a section. *)
LEMMA CheckStateIInv ==
    ASSUME IInv, NEW c \in Threads, CheckState(c)
    PROVE  IInv'
<1> USE BreakerAssumption
<1>1. /\ LockHeld /\ CountsInRange /\ LockFree
      /\ Goto(c, AfterRead(c))
      /\ call[c] = "idle"
      /\ UNCHANGED <<state, failures, successes, sinceFailure, concurrent, read, resetting, crossed>>
  BY TypeParts DEF IInv, CheckState
<1>2. AfterRead(c) \in {"probing", "idle", "checked"}
  BY DEF AfterRead
<1>3. c = Observer => AfterRead(c) \in {"probing", "idle"}
  BY DEF AfterRead
<1>4. AfterRead(c) = "probing" => state = "open" /\ sinceFailure = RecoveryTimeout
  BY <1>1, <1>2 DEF AfterRead, ShouldAttemptReset, CountsInRange, Never
<1> HIDE DEF AfterRead
<1>5. AfterRead(c) \in Places
  BY <1>2 DEF Places, Locked
<1>6. LockHeld'
  BY <1>1, <1>3, <1>5, FreshSection
<1>7. CountsInRange'
  BY <1>1 DEF CountsInRange
<1>8. PlacesAreGivenBack'
  BY <1>1, <1>2, PlaceKept DEF Outside
<1>9. CountsMatchState'
  BY <1>1, CountsKept
<1>10. SectionsHold'
  <2>1. \A d \in Threads : d # c => call'[d] \notin Locked
    BY <1>1 DEF LockHeld, LockFree, Goto
  <2>2. call'[c] = AfterRead(c)
    BY <1>1 DEF LockHeld, Goto
  <2> QED
    BY <1>1, <1>2, <1>4, <2>1, <2>2 DEF SectionsHold, Locked
<1> QED
  BY <1>1, <1>6, <1>7, <1>8, <1>9, <1>10, TypeNext, TypeParts DEF IInv

(* The circuit becomes half open. *)
LEMMA ProbeIInv ==
    ASSUME IInv, NEW c \in Threads, Probe(c)
    PROVE  IInv'
<1> USE BreakerAssumption
<1>1. /\ LockHeld /\ CountsInRange /\ concurrent \in 0 .. Cardinality(Calls)
      /\ call[c] = "probing"
      /\ call[c] \in Locked
  BY TypeParts DEF IInv, Probe, Locked
<1>2. PICK at \in {"idle", "checked"} : Goto(c, at) /\ (c = Observer => at = "idle")
  BY DEF Probe
<1>3. sinceFailure = RecoveryTimeout
  BY <1>1 DEF IInv, SectionsHold
<1>4. LockHeld'
  <2>1. /\ call[c] \in Locked \ {"counting"} /\ at \in {"idle", "checked", "leaving"}
        /\ read' = read /\ crossed' = FALSE
    BY <1>1, <1>2 DEF Probe
  <2> QED
    BY <1>1, <1>2, <2>1, EndOfSection
<1>5. CountsInRange'
  <2>1. crossed' \in BOOLEAN
    BY Zenon DEF Probe
  <2> QED
    BY <1>1, <2>1 DEF CountsInRange, Probe
<1>6. PlacesAreGivenBack'
  BY <1>1, <1>2, PlaceKept DEF Outside, Probe
<1>7. CountsMatchState'
  BY <1>3 DEF CountsMatchState, Probe, Never
<1>8. SectionsHold'
  BY <1>1, <1>2, SectionsOfHolder
<1> QED
  BY <1>1, <1>4, <1>5, <1>6, <1>7, <1>8, TypeNext DEF IInv, Probe

(* A call is rejected for the others' sake, or leaves its function by an   *)
(* exception that is not counted.                                          *)
LEMMA AsideIInv ==
    ASSUME IInv, NEW c \in Calls, Refuse(c) \/ Abandon(c)
    PROVE  IInv'
<1>1. PICK at \in {"idle", "leaving"} :
        /\ Goto(c, at)
        /\ call[c] \in Outside <=> at \in Outside
        /\ UNCHANGED <<state, failures, successes, sinceFailure, concurrent, read, resetting, crossed>>
        /\ call[c] \in {"checked", "running"}
  BY DEF Refuse, Abandon, Outside
<1>2. /\ LockHeld /\ CountsInRange /\ concurrent \in 0 .. Cardinality(Calls)
      /\ c \in Threads /\ c # Observer
  BY TypeParts, BreakerAssumption DEF IInv, Threads
<1>3. LockHeld'
  <2>1. \A d \in Threads : call'[d] = IF d = c THEN at ELSE call[d]
    BY <1>1, <1>2 DEF LockHeld, Goto
  <2>2. call' \in [Threads -> Places]
    BY <1>1, <1>2 DEF LockHeld, Goto, Places
  <2>3. \A d \in Threads : call'[d] \in Locked <=> call[d] \in Locked
    BY <1>1, <2>1 DEF Locked
  <2>4. \A d \in Calls : call[d] = "counting" => call'[d] = "counting"
    BY <1>1, <2>1 DEF Threads
  <2>5. call'[Observer] = call[Observer] /\ (LockFree' <=> LockFree)
    BY <1>2, <2>1, <2>3 DEF LockFree, Threads
  <2> QED
    BY <1>1, <1>2, <2>2, <2>3, <2>4, <2>5 DEF LockHeld
<1>4. CountsInRange'
  BY <1>1, <1>2 DEF CountsInRange
<1>5. PlacesAreGivenBack'
  BY <1>1, <1>2, PlaceKept
<1>6. CountsMatchState'
  BY <1>1, <1>2, CountsKept
<1>7. SectionsHold'
  <2>1. call'[c] = at /\ \A d \in Threads : d # c => call'[d] = call[d]
    BY <1>1, <1>2 DEF LockHeld, Goto
  <2> QED
    BY <1>1, <2>1 DEF IInv, SectionsHold
<1> QED
  BY <1>1, <1>2, <1>3, <1>4, <1>5, <1>6, <1>7, TypeNext DEF IInv

(* A call is counted in or out. *)
LEMMA CountedIInv ==
    ASSUME IInv, NEW c \in Calls, Enter(c) \/ Leave(c)
    PROVE  IInv'
<1>1. PICK at \in {"running", "idle"} :
        /\ Goto(c, at)
        /\ LockFree
        /\ call[c] \in {"checked", "leaving"}
        /\ UNCHANGED <<state, failures, successes, sinceFailure, read, resetting, crossed>>
  BY DEF Enter, Leave
<1>2. /\ LockHeld /\ CountsInRange
      /\ c \in Threads /\ c # Observer /\ at \in Places
  BY TypeParts, BreakerAssumption DEF IInv, Threads, Places
<1>3. LockHeld'
  BY <1>1, <1>2, FreshSection
<1>4. CountsInRange'
  BY <1>1, <1>2 DEF CountsInRange
<1>5. PlacesAreGivenBack' /\ concurrent' \in 0 .. Cardinality(Calls)
  BY PlaceTaken, PlaceGivenBack
<1>6. CountsMatchState'
  BY <1>1, <1>2, CountsKept
<1>7. SectionsHold'
  BY <1>1, <1>2, SectionsKept
<1> QED
  BY <1>3, <1>4, <1>5, <1>6, <1>7, TypeNext DEF IInv

(* A call succeeds. *)
LEMMA SucceedIInv ==
    ASSUME IInv, NEW c \in Calls, Succeed(c)
    PROVE  IInv'
<1> USE BreakerAssumption
<1>1. /\ LockHeld /\ CountsInRange /\ concurrent \in 0 .. Cardinality(Calls)
      /\ c \in Threads /\ c # Observer /\ "leaving" \in Places
      /\ LockFree /\ Goto(c, "leaving") /\ call[c] = "running"
      /\ UNCHANGED <<sinceFailure, concurrent, read, resetting, crossed>>
  BY TypeParts DEF IInv, Threads, Places, Succeed
<1>2. LockHeld'
  BY <1>1, FreshSection
<1>3. CountsInRange'
  BY <1>1 DEF CountsInRange, Succeed, IInv, CountsMatchState
<1>4. PlacesAreGivenBack'
  BY <1>1, PlaceKept DEF Outside
<1>5. CountsMatchState'
  BY <1>1 DEF CountsMatchState, CountsInRange, Succeed, IInv
<1>6. SectionsHold'
  BY <1>1, SectionsKept
<1> QED
  BY <1>1, <1>2, <1>3, <1>4, <1>5, <1>6, TypeNext DEF IInv

(* A call fails: the steps of its section, one by one. *)
LEMMA CountReadIInv ==
    ASSUME IInv, NEW c \in Calls, CountRead(c)
    PROVE  IInv'
<1>1. /\ LockHeld /\ CountsInRange /\ concurrent \in 0 .. Cardinality(Calls)
      /\ c \in Threads /\ c # Observer /\ "counting" \in Places
      /\ LockFree /\ Goto(c, "counting") /\ call[c] = "running" /\ read' = failures
      /\ UNCHANGED <<state, failures, successes, sinceFailure, concurrent, resetting, crossed>>
  BY TypeParts, BreakerAssumption DEF IInv, Threads, Places, CountRead, Locked
<1>2. LockHeld'
  BY <1>1, FreshSection
<1>3. CountsInRange'
  BY <1>1 DEF CountsInRange
<1>4. PlacesAreGivenBack'
  BY <1>1, PlaceKept DEF Outside
<1>5. CountsMatchState'
  BY <1>1, CountsKept
<1>6. SectionsHold'
  BY <1>1, SectionsKept
<1> QED
  BY <1>1, <1>2, <1>3, <1>4, <1>5, <1>6, TypeNext DEF IInv

LEMMA CountWriteIInv ==
    ASSUME IInv, NEW c \in Calls, CountWrite(c)
    PROVE  IInv'
<1> USE BreakerAssumption
<1>1. /\ LockHeld /\ CountsInRange /\ concurrent \in 0 .. Cardinality(Calls)
      /\ c \in Threads /\ "deciding" \in Locked /\ call[c] \in Locked
      /\ Goto(c, "deciding") /\ call[c] = "counting" /\ read' = 0 /\ sinceFailure' = 0
      /\ UNCHANGED <<state, successes, concurrent, resetting, crossed>>
  BY TypeParts DEF IInv, Threads, Locked, CountWrite
<1>2. LockHeld'
  BY <1>1, SameSection
<1>3. CountsInRange'
  <2>1. failures' \in 0 .. FailureThreshold
    BY <1>1 DEF CountsInRange, CountWrite
  <2> QED
    BY <1>1, <2>1 DEF CountsInRange
<1>4. PlacesAreGivenBack'
  BY <1>1, PlaceKept DEF Outside
<1>5. CountsMatchState'
  <2>1. call'[c] = "deciding"
    BY <1>1 DEF LockHeld, Goto
  <2> QED
    BY <1>1, <2>1 DEF CountsMatchState, IInv, Never
<1>6. SectionsHold'
  BY <1>1, SectionsOfHolder DEF Never
<1> QED
  BY <1>1, <1>2, <1>3, <1>4, <1>5, <1>6, TypeNext DEF IInv

LEMMA DecideIInv ==
    ASSUME IInv, NEW c \in Calls, Decide(c)
    PROVE  IInv'
<1>1. /\ LockHeld /\ CountsInRange /\ concurrent \in 0 .. Cardinality(Calls)
      /\ c \in Threads /\ c # Observer /\ call[c] \in Locked \ {"counting"}
      /\ call[c] = "deciding"
      /\ UNCHANGED <<state, failures, successes, sinceFailure, concurrent, read, resetting>>
  BY TypeParts, BreakerAssumption DEF IInv, Threads, Locked, Decide
<1>2. sinceFailure # Never
  BY <1>1 DEF IInv, SectionsHold
<1>3. CASE state = "half_open" \/ failures >= FailureThreshold
  <2>1. Goto(c, "opening") /\ UNCHANGED crossed /\ "opening" \in Locked
    BY <1>3 DEF Decide, Locked
  <2>2. state = "half_open" \/ failures = FailureThreshold
    BY <1>1, <1>3, BreakerAssumption DEF CountsInRange
  <2>3. LockHeld'
    <3>1. read = 0
      BY <1>1 DEF LockHeld, Threads, Locked
    <3> QED
      BY <1>1, <2>1, <3>1, SameSection
  <2>4. CountsInRange'
    BY <1>1, <2>1 DEF CountsInRange
  <2>5. PlacesAreGivenBack'
    BY <1>1, <2>1, PlaceKept DEF Outside
  <2>6. CountsMatchState'
    BY <1>1, <2>1, CountsKept
  <2>7. SectionsHold'
    BY <1>1, <1>2, <2>1, <2>2, SectionsOfHolder
  <2> QED
    BY <1>1, <2>3, <2>4, <2>5, <2>6, <2>7, TypeNext DEF IInv
<1>4. CASE ~(state = "half_open" \/ failures >= FailureThreshold)
  <2>1. Goto(c, "leaving") /\ crossed' = FALSE
    BY <1>4 DEF Decide
  <2>2. failures < FailureThreshold
    BY <1>1, <1>4, BreakerAssumption DEF CountsInRange
  <2>3. LockHeld'
    BY <1>1, <2>1, EndOfSection
  <2>4. CountsInRange'
    BY <1>1, <2>1 DEF CountsInRange
  <2>5. PlacesAreGivenBack'
    BY <1>1, <2>1, PlaceKept DEF Outside
  <2>6. CountsMatchState'
    BY <1>1, <2>2 DEF CountsMatchState, IInv
  <2>7. SectionsHold'
    BY <1>1, <2>1, SectionsOfHolder
  <2> QED
    BY <1>1, <2>3, <2>4, <2>5, <2>6, <2>7, TypeNext DEF IInv
<1> QED
  BY <1>3, <1>4

LEMMA OpenIInv ==
    ASSUME IInv, NEW c \in Calls, OpenCircuit(c)
    PROVE  IInv'
<1>1. /\ LockHeld /\ CountsInRange /\ concurrent \in 0 .. Cardinality(Calls)
      /\ c \in Threads /\ c # Observer /\ call[c] \in Locked \ {"counting"}
      /\ call[c] = "opening" /\ Goto(c, "leaving") /\ state' = "open" /\ crossed' = FALSE
      /\ UNCHANGED <<failures, successes, sinceFailure, concurrent, read, resetting>>
  BY TypeParts, BreakerAssumption DEF IInv, Threads, Locked, OpenCircuit
<1>2. sinceFailure # Never
  BY <1>1 DEF IInv, SectionsHold
<1>3. LockHeld'
  BY <1>1, EndOfSection
<1>4. CountsInRange'
  BY <1>1 DEF CountsInRange
<1>5. PlacesAreGivenBack'
  BY <1>1, PlaceKept DEF Outside
<1>6. CountsMatchState'
  BY <1>1, <1>2 DEF CountsMatchState
<1>7. SectionsHold'
  BY <1>1, SectionsOfHolder
<1> QED
  BY <1>1, <1>3, <1>4, <1>5, <1>6, <1>7, TypeNext DEF IInv

(* A reset writes, in whatever section the lock is held. *)
LEMMA ResetIInv ==
    ASSUME IInv, ResetState \/ ResetCount
    PROVE  IInv'
<1> USE BreakerAssumption
<1>1. /\ LockHeld /\ CountsInRange /\ concurrent \in 0 .. Cardinality(Calls)
      /\ crossed' = ~LockFree
      /\ UNCHANGED <<successes, sinceFailure, concurrent, call, read>>
  BY TypeParts DEF IInv, ResetState, ResetCount
<1>2. LockHeld'
  BY <1>1 DEF LockHeld, LockFree
<1>3. CountsInRange'
  <2>1. crossed' \in BOOLEAN
    BY <1>1
  <2>2. state' \in {"closed", "open", "half_open"} /\ failures' \in 0 .. FailureThreshold
    BY <1>1 DEF CountsInRange, ResetState, ResetCount
  <2>3. resetting' \in BOOLEAN
    BY DEF ResetState, ResetCount
  <2> QED
    BY <1>1, <2>1, <2>2, <2>3 DEF CountsInRange
<1>4. PlacesAreGivenBack'
  BY <1>1 DEF IInv, PlacesAreGivenBack
<1>5. CountsMatchState'
  BY <1>1 DEF IInv, CountsMatchState, ResetState, ResetCount
<1>6. SectionsHold'
  <2>1. ASSUME NEW c \in Threads, call[c] \in Locked
        PROVE  crossed'
    BY <1>1, <2>1 DEF LockFree
  <2> QED
    BY <1>1, <2>1 DEF IInv, SectionsHold, Locked
<1> QED
  BY <1>1, <1>2, <1>3, <1>4, <1>5, <1>6, TypeNext DEF IInv

LEMMA TickIInv ==
    ASSUME IInv, Tick
    PROVE  IInv'
<1> USE BreakerAssumption
<1>1. /\ LockHeld /\ CountsInRange /\ concurrent \in 0 .. Cardinality(Calls)
      /\ sinceFailure \in 0 .. RecoveryTimeout - 1 /\ sinceFailure' = sinceFailure + 1
      /\ UNCHANGED <<state, failures, successes, concurrent, call, read, resetting, crossed>>
  BY TypeParts DEF IInv, Tick
<1>2. LockHeld'
  BY <1>1 DEF LockHeld, LockFree
<1>3. CountsInRange'
  BY <1>1 DEF CountsInRange
<1>4. PlacesAreGivenBack'
  BY <1>1 DEF IInv, PlacesAreGivenBack
<1>5. sinceFailure' # Never /\ sinceFailure # RecoveryTimeout
  BY <1>1 DEF Never
<1>6. CountsMatchState'
  BY <1>1, <1>5 DEF IInv, CountsMatchState
<1>7. SectionsHold'
  BY <1>1, <1>5 DEF IInv, SectionsHold
<1> QED
  BY <1>1, <1>2, <1>3, <1>4, <1>6, <1>7, TypeNext DEF IInv

LEMMA NextIInv ==
    ASSUME IInv, [Next]_vars
    PROVE  IInv'
<1>1. ASSUME NEW c \in Threads, CheckState(c) \/ Probe(c)
      PROVE  IInv'
  BY <1>1, CheckStateIInv, ProbeIInv
<1>2. ASSUME NEW c \in Calls, Refuse(c) \/ Abandon(c)
      PROVE  IInv'
  BY <1>2, AsideIInv
<1>3. ASSUME NEW c \in Calls, Enter(c) \/ Leave(c)
      PROVE  IInv'
  BY <1>3, CountedIInv
<1>4. ASSUME NEW c \in Calls, Succeed(c)
      PROVE  IInv'
  BY <1>4, SucceedIInv
<1>5. ASSUME NEW c \in Calls, CountRead(c) \/ CountWrite(c) \/ Decide(c) \/ OpenCircuit(c)
      PROVE  IInv'
  BY <1>5, CountReadIInv, CountWriteIInv, DecideIInv, OpenIInv
<1>6. CASE ResetState \/ ResetCount
  BY <1>6, ResetIInv
<1>7. CASE Tick
  BY <1>7, TickIInv
<1>8. CASE UNCHANGED vars
  BY <1>8 DEF vars, IInv, TypeOK, PlacesAreGivenBack, CountsMatchState, SectionsHold, LockFree
<1> QED
  BY <1>1, <1>2, <1>3, <1>4, <1>5, <1>6, <1>7, <1>8 DEF Next, CallStep

(* Whoever holds the lock of CircuitBreaker, and wherever a reset falls,   *)
(* the counts, the state and the calls in progress fit together            *)
(* (circuit_breaker.py:86).                                                *)
THEOREM BreakerInvariant == Spec => []IInv
<1>1. Init => IInv
  BY InitIInv
<1>2. IInv /\ [Next]_vars => IInv'
  BY NextIInv
<1> QED
  BY <1>1, <1>2, PTL DEF Spec

(* Every variable keeps a value the code can give it. *)
THEOREM TypeCorrect == Spec => []TypeOK
<1>1. IInv => TypeOK
  BY DEF IInv
<1> QED
  BY <1>1, BreakerInvariant, PTL

(* _concurrent_calls is the number of calls in progress, however they end, *)
(* and max_concurrent_calls bounds it (circuit_breaker.py:144).            *)
THEOREM PlacesReturned == Spec => []PlacesAreGivenBack
<1>1. IInv => PlacesAreGivenBack
  BY DEF IInv
<1> QED
  BY <1>1, BreakerInvariant, PTL

(* Late and simultaneous ends of calls, and the two writes of a reset,     *)
(* leave the state and the counts in agreement once they are through       *)
(* (circuit_breaker.py:171, 220).                                          *)
THEOREM CountsAgree == Spec => []CountsMatchState
<1>1. IInv => CountsMatchState
  BY DEF IInv
<1> QED
  BY <1>1, BreakerInvariant, PTL

---------------------------------------------------------------------------
(* The ways in which the state may change. *)
Moved == state' # state =>
       \/ ResetState
       \/ state' = "open" /\ sinceFailure # Never
                          /\ (state = "half_open" \/ failures = FailureThreshold \/ crossed)
       \/ state' = "half_open" /\ sinceFailure = RecoveryTimeout /\ successes' = 0
                               /\ (state = "open" \/ crossed)
       \/ state = "half_open" /\ state' = "closed" /\ successes' = 2 /\ failures' = 0

LEMMA NextMoves ==
    ASSUME IInv, [Next]_vars
    PROVE  Moved
<1> USE BreakerAssumption DEF Moved
<1>1. ASSUME NEW c \in Threads, Probe(c)
      PROVE  Moved
  BY <1>1 DEF Probe, IInv, SectionsHold
<1>2. ASSUME NEW c \in Calls, Succeed(c)
      PROVE  Moved
  BY <1>2 DEF Succeed, IInv, TypeOK, CountsMatchState
<1>3. ASSUME NEW c \in Calls, OpenCircuit(c)
      PROVE  Moved
  BY <1>3 DEF OpenCircuit, IInv, SectionsHold, Threads
<1>4. ASSUME NEW c \in Threads, CheckState(c)
      PROVE  Moved
  BY <1>4 DEF CheckState
<1>5. ASSUME NEW c \in Calls,
             Enter(c) \/ Refuse(c) \/ CountRead(c) \/ CountWrite(c) \/ Decide(c) \/ Abandon(c) \/ Leave(c)
      PROVE  Moved
  BY <1>5 DEF Enter, Refuse, CountRead, CountWrite, Decide, Abandon, Leave
<1>6. CASE ResetState \/ ResetCount \/ Tick \/ UNCHANGED vars
  BY <1>6 DEF ResetCount, Tick, vars
<1> HIDE DEF Moved
<1> QED
  BY <1>1, <1>2, <1>3, <1>4, <1>5, <1>6 DEF Next, CallStep

(* The circuit opens, is tried and closes only for the reasons the code    *)
(* has, whatever calls admitted earlier come to and wherever a reset falls *)
(* (circuit_breaker.py:79, 220).                                           *)
THEOREM StateMovesForAReason == Spec => CircuitMoves
<1>1. IInv /\ [Next]_vars =>
        [state' # state =>
           \/ ResetState
           \/ state' = "open" /\ sinceFailure # Never
                              /\ (state = "half_open" \/ failures = FailureThreshold \/ crossed)
           \/ state' = "half_open" /\ sinceFailure = RecoveryTimeout /\ successes' = 0
                                   /\ (state = "open" \/ crossed)
           \/ state = "half_open" /\ state' = "closed" /\ successes' = 2 /\ failures' = 0]_vars
  BY NextMoves DEF Moved
<1> QED
  BY <1>1, BreakerInvariant, PTL DEF Spec, CircuitMoves
=============================================================================
