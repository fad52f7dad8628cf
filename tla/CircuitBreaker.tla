---------------------------- MODULE CircuitBreaker ----------------------------
(***************************************************************************)
(* services/core/circuit_breaker.py: calls of a service go through a       *)
(* breaker that opens after a number of failures, rejects calls while it   *)
(* is open, and lets them probe the service again after a time.            *)
(*                                                                         *)
(* A call takes the breaker's lock four times: to read the state, to be    *)
(* counted in, when its function ends and to be counted out, and any       *)
(* number of calls can be anywhere in between.  The manager's reset holds  *)
(* another lock: it writes the state and then the count of failures, and   *)
(* either write can fall inside a section locked by a call.  A section is  *)
(* one action where that makes no difference and several where it does.    *)
(* The function called belongs to the caller and ends in one of three ways.*)
(***************************************************************************)
EXTENDS Integers, FiniteSets

CONSTANTS Calls,             \* the calls that can be in progress at once
          Observer,          \* whoever asks for get_state_info
          FailureThreshold,  \* failure_threshold
          RecoveryTimeout,   \* recovery_timeout, in ticks
          MaxConcurrent      \* max_concurrent_calls, 0 for None

ASSUME BreakerAssumption ==
  /\ IsFiniteSet(Calls)
  /\ Observer \notin Calls
  /\ FailureThreshold \in Nat \ {0}
  /\ RecoveryTimeout \in Nat
  /\ MaxConcurrent \in Nat

VARIABLES state,       \* _state
          failures,    \* _failure_count, counted no further than the threshold
          successes,   \* _success_count
          sinceFailure,\* ticks since _last_failure_time, no further than the timeout
          concurrent,  \* _concurrent_calls
          call,        \* where each call, and the observer, stands
          read,        \* the count of failures that += 1 has read, else 0
          resetting,   \* a reset has written the state and not yet the count
          crossed      \* history: a reset has written inside the section now locked

vars == <<state, failures, successes, sinceFailure, concurrent, call, read, resetting, crossed>>

Threads == Calls \cup {Observer}

(* No failure yet: _last_failure_time is None. *)
Never == -1

Init ==
  /\ state = "closed"
  /\ failures = 0
  /\ successes = 0
  /\ sinceFailure = Never
  /\ concurrent = 0
  /\ call = [c \in Threads |-> "idle"]
  /\ read = 0
  /\ resetting = FALSE
  /\ crossed = FALSE

Goto(c, at) == call' = [call EXCEPT ![c] = at]

(* Where a thread holds the breaker's lock from one action to the next. *)
Locked == {"probing", "counting", "deciding", "opening"}

LockFree == \A c \in Threads : call[c] \notin Locked

ShouldAttemptReset == sinceFailure >= RecoveryTimeout

(* The state property: reading it is what moves an open circuit on.        *)
(* Whoever finds it open and due goes on to Probe, a call that finds it    *)
(* open otherwise is rejected, and anybody may ask, through get_state_info.*)
AfterRead(c) ==
  CASE state = "open" /\ ShouldAttemptReset -> "probing"
    [] c = Observer \/ (state = "open" /\ ~ShouldAttemptReset) -> "idle"
    [] OTHER -> "checked"

(* Seeded bug: a rejected call counts as a failure of the service. *)
CheckState_Counts(c) ==
  /\ call[c] = "idle"
  /\ LockFree
  /\ Goto(c, AfterRead(c))
  /\ sinceFailure' = IF state = "open" /\ ~ShouldAttemptReset THEN 0 ELSE sinceFailure
  /\ UNCHANGED <<state, failures, successes, concurrent, read, resetting, crossed>>

(* current_state = self.state *)
CheckState(c) ==
  /\ call[c] = "idle"
  /\ LockFree
  /\ Goto(c, AfterRead(c))
  /\ UNCHANGED <<state, failures, successes, sinceFailure, concurrent, read, resetting, crossed>>

(* The circuit was open and due when it was looked at; it is half open     *)
(* now, also if a reset has closed it since.                               *)
Probe(c) ==
  /\ call[c] = "probing"
  /\ state' = "half_open"
  /\ successes' = 0
  /\ crossed' = FALSE
  /\ Goto(c, IF c = Observer THEN "idle" ELSE "checked")
  /\ UNCHANGED <<failures, sinceFailure, concurrent, read, resetting>>

(* Seeded bug: the limit is checked for one call too many. *)
HasSlot_OffByOne == MaxConcurrent = 0 \/ concurrent <= MaxConcurrent

HasSlot == MaxConcurrent = 0 \/ concurrent < MaxConcurrent

(* The call is counted in, whatever the state is by now ... *)
Enter(c) ==
  /\ call[c] = "checked"
  /\ LockFree
  /\ HasSlot
  /\ concurrent' = concurrent + 1
  /\ Goto(c, "running")
  /\ UNCHANGED <<state, failures, successes, sinceFailure, read, resetting, crossed>>

(* ... or rejected for the others' sake. *)
Refuse(c) ==
  /\ call[c] = "checked"
  /\ LockFree
  /\ ~HasSlot
  /\ Goto(c, "idle")
  /\ UNCHANGED <<state, failures, successes, sinceFailure, concurrent, read, resetting, crossed>>

(* Seeded bug: any success closes the circuit, in whatever state it is. *)
Succeed_Closes(c) ==
  /\ call[c] = "running"
  /\ LockFree
  /\ failures' = 0
  /\ state' = "closed"
  /\ Goto(c, "leaving")
  /\ UNCHANGED <<successes, sinceFailure, concurrent, read, resetting, crossed>>

(* _on_success, of a call admitted however long ago.  One action: what it  *)
(* writes, a reset that falls inside it writes too.                        *)
Succeed(c) ==
  /\ call[c] = "running"
  /\ LockFree
  /\ failures' = 0
  /\ IF state = "half_open"
       THEN /\ successes' = successes + 1
            /\ state' = IF successes + 1 >= 2 THEN "closed" ELSE state
       ELSE UNCHANGED <<state, successes>>
  /\ Goto(c, "leaving")
  /\ UNCHANGED <<sinceFailure, concurrent, read, resetting, crossed>>

(* _on_failure, on the expected exception: the count is read ... *)
CountRead(c) ==
  /\ call[c] = "running"
  /\ LockFree
  /\ read' = failures
  /\ Goto(c, "counting")
  /\ UNCHANGED <<state, failures, successes, sinceFailure, concurrent, resetting, crossed>>

(* ... and written one higher, with the time of the failure, ... *)
CountWrite(c) ==
  /\ call[c] = "counting"
  /\ failures' = IF read < FailureThreshold THEN read + 1 ELSE read
  /\ sinceFailure' = 0
  /\ read' = 0
  /\ Goto(c, "deciding")
  /\ UNCHANGED <<state, successes, concurrent, resetting, crossed>>

(* Seeded bug: the threshold is compared with the count before this one. *)
Decide_StaleCount(c) ==
  /\ call[c] = "deciding"
  /\ IF state = "half_open" \/ failures - 1 >= FailureThreshold
       THEN Goto(c, "opening") /\ UNCHANGED crossed
       ELSE Goto(c, "leaving") /\ crossed' = FALSE
  /\ UNCHANGED <<state, failures, successes, sinceFailure, concurrent, read, resetting>>

(* ... the state and the count say whether to open the circuit, ... *)
Decide(c) ==
  /\ call[c] = "deciding"
  /\ IF state = "half_open" \/ failures >= FailureThreshold
       THEN Goto(c, "opening") /\ UNCHANGED crossed
       ELSE Goto(c, "leaving") /\ crossed' = FALSE
  /\ UNCHANGED <<state, failures, successes, sinceFailure, concurrent, read, resetting>>

(* ... and it is opened, also if a reset has closed it since. *)
OpenCircuit(c) ==
  /\ call[c] = "opening"
  /\ state' = "open"
  /\ crossed' = FALSE
  /\ Goto(c, "leaving")
  /\ UNCHANGED <<failures, successes, sinceFailure, concurrent, read, resetting>>

(* Seeded bug: an abandoned call is counted out here and in finally. *)
Abandon_CountsOut(c) ==
  /\ call[c] = "running"
  /\ concurrent' = concurrent - 1
  /\ Goto(c, "leaving")
  /\ UNCHANGED <<state, failures, successes, sinceFailure, read, resetting, crossed>>

(* Another exception, or a cancellation, is neither. *)
Abandon(c) ==
  /\ call[c] = "running"
  /\ Goto(c, "leaving")
  /\ UNCHANGED <<state, failures, successes, sinceFailure, concurrent, read, resetting, crossed>>

(* finally: self._concurrent_calls -= 1 *)
Leave(c) ==
  /\ call[c] = "leaving"
  /\ LockFree
  /\ concurrent' = concurrent - 1
  /\ Goto(c, "idle")
  /\ UNCHANGED <<state, failures, successes, sinceFailure, read, resetting, crossed>>

(* CircuitBreakerManager.reset and, for each breaker, reset_all, under the *)
(* manager's lock: first the state ...                                     *)
ResetState ==
  /\ ~resetting
  /\ resetting' = TRUE
  /\ state' = "closed"
  /\ crossed' = ~LockFree
  /\ UNCHANGED <<failures, successes, sinceFailure, concurrent, call, read>>

(* ... then the count of failures.  The time of the last failure and the   *)
(* count of successes stay.                                                *)
ResetCount ==
  /\ resetting
  /\ resetting' = FALSE
  /\ failures' = 0
  /\ crossed' = ~LockFree
  /\ UNCHANGED <<state, successes, sinceFailure, concurrent, call, read>>

Tick ==
  /\ sinceFailure \in 0 .. RecoveryTimeout - 1
  /\ sinceFailure' = sinceFailure + 1
  /\ UNCHANGED <<state, failures, successes, concurrent, call, read, resetting, crossed>>

CallStep(c) ==
  \/ Enter(c)
  \/ Refuse(c)
  \/ Succeed(c)
  \/ CountRead(c)
  \/ CountWrite(c)
  \/ Decide(c)
  \/ OpenCircuit(c)
  \/ Abandon(c)
  \/ Leave(c)

Next ==
  \/ \E c \in Threads : CheckState(c) \/ Probe(c)
  \/ \E c \in Calls : CallStep(c)
  \/ ResetState
  \/ ResetCount
  \/ Tick

Spec == Init /\ [][Next]_vars

(* Time passes, calls that have begun end, callers keep trying and whoever *)
(* holds the lock goes on; nobody has to look at the breaker or reset it,  *)
(* and a reset need not be finished.                                       *)
Fairness ==
  /\ WF_vars(Tick)
  /\ \A c \in Calls : WF_vars(CallStep(c)) /\ WF_vars(CheckState(c))
  /\ \A c \in Threads : WF_vars(Probe(c))

FairSpec == Spec /\ Fairness

-----------------------------------------------------------------------------
(* Every variable holds a value the code can give it, one thread at most   *)
(* holds the lock, and read and crossed mean something only while it does. *)
TypeOK ==
  /\ state \in {"closed", "open", "half_open"}
  /\ failures \in 0 .. FailureThreshold
  /\ successes \in 0 .. 2
  /\ sinceFailure \in {Never} \cup 0 .. RecoveryTimeout
  /\ concurrent \in 0 .. Cardinality(Calls)
  /\ call \in [Threads -> {"idle", "checked", "running", "leaving"} \cup Locked]
  /\ call[Observer] \in {"idle", "probing"}
  /\ read \in 0 .. FailureThreshold
  /\ resetting \in BOOLEAN
  /\ crossed \in BOOLEAN
  /\ \A c, d \in Threads : call[c] \in Locked /\ call[d] \in Locked => c = d
  /\ read # 0 => \E c \in Calls : call[c] = "counting"
  /\ LockFree => ~crossed

(* However calls end, each gives its place back: _concurrent_calls is the  *)
(* number of calls in progress, and max_concurrent_calls bounds it.        *)
PlacesAreGivenBack ==
  /\ concurrent = Cardinality({c \in Calls : call[c] \notin {"idle", "probing", "checked"}})
  /\ MaxConcurrent # 0 => concurrent <= MaxConcurrent

(* Calls that end late or several at once, and resets that fall among      *)
(* them, never leave a circuit closed that has reached its threshold, half *)
(* open after two successes, or open with no failure from which to wait.   *)
(* The count may stand at the threshold only while a reset has yet to      *)
(* clear it or the call that brought it there has yet to open the circuit. *)
CountsMatchState ==
  /\ \/ state # "closed"
     \/ failures < FailureThreshold
     \/ resetting
     \/ \E c \in Calls : call[c] \in {"deciding", "opening"}
  /\ state = "half_open" => successes < 2
  /\ state # "closed" => sinceFailure # Never

(* The circuit opens only on a failed try or with its failures at the      *)
(* threshold; it is tried only when the wait is over, and from open;       *)
(* it is closed only by a reset, whatever calls admitted before it opened  *)
(* come to, or at the second success since it was last tried.  A reset can *)
(* be undone: where it falls between a decision to open or to try the      *)
(* circuit and the write, that write comes last.                           *)
CircuitMoves ==
  [][state' # state =>
       \/ ResetState
       \/ state' = "open" /\ sinceFailure # Never
                          /\ (state = "half_open" \/ failures = FailureThreshold \/ crossed)
       \/ state' = "half_open" /\ sinceFailure = RecoveryTimeout /\ successes' = 0
                               /\ (state = "open" \/ crossed)
       \/ state = "half_open" /\ state' = "closed" /\ successes' = 2 /\ failures' = 0]_vars

(* As long as there are callers, an open circuit does not stay open. *)
OpenIsTriedAgain == state = "open" ~> state # "open"

=============================================================================
