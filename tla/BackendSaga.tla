----------------------------- MODULE BackendSaga -----------------------------
(***************************************************************************)
(* backend/app/services/saga_pattern.py: sagas are sequences of steps, each *)
(* an action with a compensation, run by an orchestrator that retries a    *)
(* step, compensates the completed ones when it gives up, and puts a saga  *)
(* whose compensation fails into the dead letter list.                     *)
(*                                                                         *)
(* execute and retry_saga return before the thread that drives the         *)
(* orchestrator makes its next call, so one call is in progress at a time. *)
(* Actions and compensations belong to the caller: each has its effect or  *)
(* raises, having had none.                                                *)
(***************************************************************************)
EXTENDS Integers, SequencesExt

CONSTANTS Sagas,       \* saga ids
          NoSaga,      \* no saga
          MaxSteps,    \* bound on the steps of a saga
          MaxRetries,  \* max_retries of every step: how often it is attempted
          MaxRuns,     \* bound on the runs of a saga
          Reexecute    \* whether callers execute a saga that has run already

ASSUME SagaAssumption ==
  /\ NoSaga \notin Sagas
  /\ MaxSteps \in Nat /\ MaxRuns \in Nat
  /\ MaxRetries \in Nat \ {0}
  /\ Reexecute \in BOOLEAN

VARIABLES status,      \* SagaContext.status, "absent" before create_saga
          steps,       \* the status of each step of SagaContext.steps
          completed,   \* SagaContext.completed_steps, as positions in steps
          deadletter,  \* _deadletter
          run,         \* the call to execute in progress
          runs,        \* how often each saga was run
          effects,     \* how often each step is in effect: applied, not compensated
          forgotten    \* history: the effects there were when a run began

vars == <<status, steps, completed, deadletter, run, runs, effects, forgotten>>

SagaStatuses == {"absent", "pending", "in_progress", "completed", "compensating",
                 "failed", "rolled_back"}
StepStatuses == {"pending", "executing", "completed", "failed", "compensating",
                 "compensated"}

(* A call is at the head of the loop over the steps, in the attempts of    *)
(* the step at pos, or at position pos of completed_steps on the way back. *)
NoRun == [saga |-> NoSaga, at |-> "idle", pos |-> 0, attempts |-> 0]

Init ==
  /\ status = [s \in Sagas |-> "absent"]
  /\ steps = [s \in Sagas |-> <<>>]
  /\ completed = [s \in Sagas |-> <<>>]
  /\ deadletter = <<>>
  /\ run = NoRun
  /\ runs = [s \in Sagas |-> 0]
  /\ effects = [s \in Sagas |-> <<>>]
  /\ forgotten = [s \in Sagas |-> <<>>]

-----------------------------------------------------------------------------
(* The calls. *)

CreateSaga(s) ==
  /\ run = NoRun
  /\ status[s] = "absent"
  /\ status' = [status EXCEPT ![s] = "pending"]
  /\ UNCHANGED <<steps, completed, deadletter, run, runs, effects, forgotten>>

(* A step may be added at any time, to a saga that has run too. *)
AddStep(s) ==
  /\ run = NoRun
  /\ status[s] # "absent"
  /\ Len(steps[s]) < MaxSteps
  /\ steps' = [steps EXCEPT ![s] = Append(@, "pending")]
  /\ effects' = [effects EXCEPT ![s] = Append(@, 0)]
  /\ forgotten' = [forgotten EXCEPT ![s] = Append(@, 0)]
  /\ UNCHANGED <<status, completed, deadletter, run, runs>>

Begin(s) ==
  /\ runs[s] < MaxRuns
  /\ runs' = [runs EXCEPT ![s] = @ + 1]
  /\ status' = [status EXCEPT ![s] = "in_progress"]
  /\ run' = [saga |-> s, at |-> "loop", pos |-> 1, attempts |-> 0]
  /\ forgotten' = [forgotten EXCEPT ![s] = effects[s]]

Execute(s) ==
  /\ run = NoRun
  /\ status[s] # "absent"
  /\ Reexecute \/ status[s] = "pending"
  /\ Begin(s)
  /\ UNCHANGED <<steps, completed, deadletter, effects>>

(* Seeded bug: the saga stays in the dead letter list. *)
RetrySaga_KeepsLetter(s) ==
  /\ run = NoRun
  /\ status[s] # "absent"
  /\ Begin(s)
  /\ completed' = [completed EXCEPT ![s] = <<>>]
  /\ steps' = [steps EXCEPT ![s] = [k \in DOMAIN @ |-> "pending"]]
  /\ UNCHANGED <<deadletter, effects>>

(* [letter for letter in letters if letter is not s] *)
Without(letters, s) ==
  LET kept[i \in 0 .. Len(letters)] ==
        IF i = 0 THEN <<>>
        ELSE IF letters[i] = s THEN kept[i - 1]
        ELSE Append(kept[i - 1], letters[i])
  IN kept[Len(letters)]

(* Everything the saga knows of its earlier runs is reset, whatever came   *)
(* of them; then it is executed again.                                     *)
RetrySaga(s) ==
  /\ run = NoRun
  /\ status[s] # "absent"
  /\ Begin(s)
  /\ completed' = [completed EXCEPT ![s] = <<>>]
  /\ steps' = [steps EXCEPT ![s] = [k \in DOMAIN @ |-> "pending"]]
  /\ deadletter' = Without(deadletter, s)
  /\ UNCHANGED effects

-----------------------------------------------------------------------------
(* execute, _execute_step and _compensate. *)

SetStep(k, st) == steps' = [steps EXCEPT ![run.saga][k] = st]
SetStatus(st) == status' = [status EXCEPT ![run.saga] = st]

(* Seeded bug: the step is listed before its action is called, as if it    *)
(* could not fail.                                                         *)
BeginStep_Lists ==
  /\ run.at = "loop"
  /\ run.pos <= Len(steps[run.saga])
  /\ SetStep(run.pos, "executing")
  /\ completed' = [completed EXCEPT ![run.saga] = Append(@, run.pos)]
  /\ run' = [run EXCEPT !.at = "attempts", !.attempts = 0]
  /\ UNCHANGED <<status, deadletter, runs, effects, forgotten>>

BeginStep ==
  /\ run.at = "loop"
  /\ run.pos <= Len(steps[run.saga])
  /\ SetStep(run.pos, "executing")
  /\ run' = [run EXCEPT !.at = "attempts", !.attempts = 0]
  /\ UNCHANGED <<status, completed, deadletter, runs, effects, forgotten>>

Finish ==
  /\ run.at = "loop"
  /\ run.pos > Len(steps[run.saga])
  /\ SetStatus("completed")
  /\ run' = NoRun
  /\ UNCHANGED <<steps, completed, deadletter, runs, effects, forgotten>>

ActionSucceeds ==
  /\ run.at = "attempts"
  /\ effects' = [effects EXCEPT ![run.saga][run.pos] = @ + 1]
  /\ SetStep(run.pos, "completed")
  /\ completed' = [completed EXCEPT ![run.saga] = Append(@, run.pos)]
  /\ run' = [run EXCEPT !.at = "loop", !.pos = @ + 1]
  /\ UNCHANGED <<status, deadletter, runs, forgotten>>

(* Seeded bug: the step is begun anew, and the attempts with it. *)
ActionRaises_StartsOver ==
  /\ run.at = "attempts"
  /\ run.attempts + 1 < MaxRetries
  /\ run' = [run EXCEPT !.at = "loop"]
  /\ UNCHANGED <<status, steps, completed, deadletter, runs, effects, forgotten>>

(* step.action raises and there is an attempt left. *)
ActionRaises ==
  /\ run.at = "attempts"
  /\ run.attempts + 1 < MaxRetries
  /\ run' = [run EXCEPT !.attempts = @ + 1]
  /\ UNCHANGED <<status, steps, completed, deadletter, runs, effects, forgotten>>

(* It raises for the last time: the saga compensates, last step first. *)
GiveUp ==
  /\ run.at = "attempts"
  /\ run.attempts + 1 = MaxRetries
  /\ SetStep(run.pos, "failed")
  /\ SetStatus("compensating")
  /\ run' = [run EXCEPT !.at = "back", !.pos = Len(completed[run.saga])]
  /\ UNCHANGED <<completed, deadletter, runs, effects, forgotten>>

(* Seeded bug: completed_steps is walked from the front. *)
Undone_First == completed[run.saga][Len(completed[run.saga]) + 1 - run.pos]

(* The step compensated next. *)
Undone == completed[run.saga][run.pos]

CompensationSucceeds ==
  /\ run.at = "back"
  /\ run.pos > 0
  /\ effects' = [effects EXCEPT ![run.saga][Undone] = @ - 1]
  /\ SetStep(Undone, "compensated")
  /\ run' = [run EXCEPT !.pos = @ - 1]
  /\ UNCHANGED <<status, completed, deadletter, runs, forgotten>>

(* Seeded bug: a compensation that fails is passed over. *)
CompensationRaises_GoesOn ==
  /\ run.at = "back"
  /\ run.pos > 0
  /\ SetStep(Undone, "compensating")
  /\ run' = [run EXCEPT !.pos = @ - 1]
  /\ UNCHANGED <<status, completed, deadletter, runs, effects, forgotten>>

(* The earlier steps are left as they are. *)
CompensationRaises ==
  /\ run.at = "back"
  /\ run.pos > 0
  /\ SetStep(Undone, "compensating")
  /\ SetStatus("failed")
  /\ deadletter' = Append(deadletter, run.saga)
  /\ run' = NoRun
  /\ UNCHANGED <<completed, runs, effects, forgotten>>

RolledBack ==
  /\ run.at = "back"
  /\ run.pos = 0
  /\ SetStatus("rolled_back")
  /\ run' = NoRun
  /\ UNCHANGED <<steps, completed, deadletter, runs, effects, forgotten>>

RunStep ==
  \/ BeginStep
  \/ ActionSucceeds
  \/ ActionRaises
  \/ GiveUp
  \/ Finish
  \/ CompensationSucceeds
  \/ CompensationRaises
  \/ RolledBack

Call(s) ==
  \/ CreateSaga(s)
  \/ AddStep(s)
  \/ Execute(s)
  \/ RetrySaga(s)

Next == RunStep \/ \E s \in Sagas : Call(s)

Spec == Init /\ [][Next]_vars

(* A call that has begun is carried on; nobody has to make one. *)
FairSpec == Spec /\ WF_vars(RunStep)

-----------------------------------------------------------------------------
(* Every variable holds a value the code can give it. *)
TypeOK ==
  /\ status \in [Sagas -> SagaStatuses]
  /\ deadletter \in Seq(Sagas)
  /\ run \in [saga : Sagas \cup {NoSaga}, at : {"idle", "loop", "attempts", "back"},
              pos : 0 .. MaxSteps + 1, attempts : 0 .. MaxRetries - 1]
  /\ runs \in [Sagas -> 0 .. MaxRuns]
  /\ \A s \in Sagas :
       /\ steps[s] \in Seq(StepStatuses) /\ Len(steps[s]) <= MaxSteps
       /\ completed[s] \in Seq(DOMAIN steps[s])
       /\ effects[s] \in [DOMAIN steps[s] -> Nat]
       /\ forgotten[s] \in [DOMAIN steps[s] -> Nat]

AtRest(s) == run.saga # s
Times(seq, k) == Cardinality({i \in DOMAIN seq : seq[i] = k})

(* What a run leaves behind is what the saga's status says: all its steps  *)
(* in effect once more if it completed, none if it rolled back, and the    *)
(* steps up to the one whose compensation failed if it failed.             *)
OutcomeTellsEffects ==
  \A s \in Sagas :
    LET Left(prefix) ==
          \A k \in DOMAIN steps[s] : effects[s][k] - forgotten[s][k] = Times(prefix, k)
        done == completed[s]
    IN AtRest(s) =>
         CASE status[s] = "completed" -> Left(done)
           [] status[s] = "failed"    ->
                \E j \in 1 .. Len(done) :
                  /\ Left(SubSeq(done, 1, j))
                  /\ steps[s][done[j]] = "compensating"
           [] OTHER                   -> Left(<<>>)

(* At every moment the steps read, from the first: completed, one being    *)
(* compensated at most, compensated, one being executed or failed at most, *)
(* and pending.  So a run stops at its first failure, and compensation     *)
(* goes strictly backwards from it and stops at its first failure.         *)
StepsInOrder ==
  LET Rank == [completed |-> 1, compensating |-> 2, compensated |-> 3,
               executing |-> 4, failed |-> 4, pending |-> 5]
  IN \A s \in Sagas : \A i, j \in DOMAIN steps[s] :
       i < j => \/ Rank[steps[s][i]] < Rank[steps[s][j]]
                \/ steps[s][i] = steps[s][j] /\ Rank[steps[s][i]] \in {1, 3, 5}

(* "Get failed sagas" (saga_pattern.py:270): between calls the dead letter *)
(* list holds the failed sagas, each once, and no other.                   *)
DeadletterIsFailed ==
  run = NoRun =>
    /\ \A s \in Sagas : status[s] = "failed" <=> \E i \in DOMAIN deadletter : deadletter[i] = s
    /\ \A i, j \in DOMAIN deadletter : deadletter[i] = deadletter[j] => i = j

(* A call to execute or retry_saga returns, with an outcome. *)
RunsEnd ==
  \A s \in Sagas :
    run.saga = s ~> AtRest(s) /\ status[s] \in {"completed", "rolled_back", "failed"}

(* "Execute compensation for all completed steps" (saga_pattern.py:238): a *)
(* saga that is rolled back has no step in effect.                         *)
RolledBackMeansUndone ==
  \A s \in Sagas :
    AtRest(s) /\ status[s] = "rolled_back" => \A k \in DOMAIN steps[s] : effects[s][k] = 0

=============================================================================
