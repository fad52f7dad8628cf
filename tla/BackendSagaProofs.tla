-------------------------- MODULE BackendSagaProofs --------------------------
(***************************************************************************)
(* Proofs about the saga orchestrator for any sagas, any number of steps,  *)
(* retries and runs, when callers execute a saga once and retry it after   *)
(* that (Reexecute is FALSE).                                              *)
(*                                                                         *)
(* The invariant says where a saga stands (Placed): completed_steps is     *)
(* always the first steps in order, and how the steps read, and which of   *)
(* them are in effect, follows from its length, the status and, for a saga *)
(* in a run, the place the run has reached.                                *)
(***************************************************************************)
EXTENDS BackendSaga, SequenceTheorems, FiniteSetTheorems, WellFoundedInduction, TLAPS

(* The steps before position j are completed, the one at j is as given,    *)
(* the rest of completed_steps is compensated, the step after them is as   *)
(* given and the others are pending.                                       *)
Reads(s, j, at, next) ==
  \A k \in DOMAIN steps[s] :
    steps[s][k] = IF k < j THEN "completed"
                  ELSE IF k = j THEN at
                  ELSE IF k <= Len(completed[s]) THEN "compensated"
                  ELSE IF k = Len(completed[s]) + 1 THEN next
                  ELSE "pending"

(* The run has left the steps up to position j in effect. *)
InEffect(s, j) ==
  \A k \in DOMAIN steps[s] : effects[s][k] = forgotten[s][k] + (IF k <= j THEN 1 ELSE 0)

Stands(s, j, at, next) == Reads(s, j, at, next) /\ InEffect(s, j)

Placed(s) ==
  LET m == Len(completed[s])
  IN \/ /\ run.saga = s /\ run.at = "loop" /\ status[s] = "in_progress"
        /\ run.pos = m + 1
        /\ Stands(s, m, "completed", "pending")
     \/ /\ run.saga = s /\ run.at = "attempts" /\ status[s] = "in_progress"
        /\ run.pos = m + 1 /\ m < Len(steps[s])
        /\ Stands(s, m, "completed", "executing")
     \/ /\ run.saga = s /\ run.at = "back" /\ status[s] = "compensating"
        /\ run.pos \in 0 .. m /\ m < Len(steps[s])
        /\ Stands(s, run.pos, "completed", "failed")
     \/ /\ run.saga # s /\ status[s] \in {"absent", "pending"} /\ m = 0
        /\ Stands(s, 0, "completed", "pending")
     \/ /\ run.saga # s /\ status[s] = "completed"
        /\ Stands(s, m, "completed", "pending")
     \/ /\ run.saga # s /\ status[s] = "failed" /\ m < Len(steps[s])
        /\ \E j \in 1 .. m : Stands(s, j, "compensating", "failed")
     \/ /\ run.saga # s /\ status[s] = "rolled_back" /\ m < Len(steps[s])
        /\ Stands(s, 0, "completed", "failed")

(* The lists of a saga are as long as each other, and completed_steps is   *)
(* the first steps in order.                                               *)
Fits(s) ==
  /\ Len(steps[s]) <= MaxSteps
  /\ Len(effects[s]) = Len(steps[s]) /\ Len(forgotten[s]) = Len(steps[s])
  /\ Len(completed[s]) <= Len(steps[s])
  /\ \A i \in 1 .. Len(completed[s]) : completed[s][i] = i

Typed ==
  /\ status \in [Sagas -> SagaStatuses]
  /\ steps \in [Sagas -> Seq(StepStatuses)]
  /\ completed \in [Sagas -> Seq(Nat)]
  /\ effects \in [Sagas -> Seq(Nat)]
  /\ forgotten \in [Sagas -> Seq(Nat)]
  /\ runs \in [Sagas -> 0 .. MaxRuns]
  /\ run \in [saga : Sagas \cup {NoSaga}, at : {"idle", "loop", "attempts", "back"},
              pos : 0 .. MaxSteps + 1, attempts : 0 .. MaxRetries - 1]
  /\ run = NoRun \/ run.saga \in Sagas

In(letters, s) == \E i \in DOMAIN letters : letters[i] = s
NoDup(letters) == \A i, j \in DOMAIN letters : letters[i] = letters[j] => i = j

Letters ==
  /\ deadletter \in Seq(Sagas)
  /\ \A s \in Sagas : status[s] = "failed" <=> In(deadletter, s)
  /\ NoDup(deadletter)

IInv == Typed /\ Letters /\ \A s \in Sagas : Fits(s) /\ Placed(s)

---------------------------------------------------------------------------
(* Taking a saga out of the dead letter list.                              *)

(* The natural numbers are well-founded: a non-empty set has a least one. *)
LEMMA LeastNatural ==
    ASSUME NEW U, U \subseteq Nat, U # {}
    PROVE  \E x \in U : \A y \in U : x <= y
<1> DEFINE R == OpToRel(<, Nat)
<1>1. \E x \in U : \A y \in U : ~(<<y, x>> \in R)
  BY NatLessThanWellFounded, WFMin
<1>2. ASSUME NEW x \in Nat, NEW y \in Nat, ~(<<y, x>> \in R)
      PROVE  x <= y
  BY <1>2 DEF OpToRel
<1> QED
  BY <1>1, <1>2

(* Induction up to n, for membership of a set. *)
LEMMA UpTo ==
    ASSUME NEW n \in Nat, NEW G, 0 \in G, \A i \in 1 .. n : i - 1 \in G => i \in G
    PROVE  \A i \in 0 .. n : i \in G
<1> DEFINE Bad == {i \in 0 .. n : i \notin G}
<1> SUFFICES ASSUME Bad # {}
             PROVE  FALSE
  OBVIOUS
<1>1. PICK i \in Bad : \A k \in Bad : i <= k
  <2>1. Bad \subseteq Nat
    OBVIOUS
  <2> HIDE DEF Bad
  <2> QED
    BY <2>1, LeastNatural
<1>2. i \in 1 .. n /\ i - 1 \in 0 .. n
  OBVIOUS
<1>3. i - 1 \in G
  BY <1>1, <1>2
<1> QED
  BY <1>2, <1>3

(* What Without does at position i of the list. *)
Keep(letters, s, f, i) ==
  IF i = 0 THEN <<>>
  ELSE IF letters[i] = s THEN f[i - 1]
  ELSE Append(f[i - 1], letters[i])

LEMMA KeptExists ==
    ASSUME NEW letters, NEW s, NEW n \in Nat
    PROVE  \E f : f = [i \in 0 .. n |-> Keep(letters, s, f, i)]
<1> DEFINE G == {m \in 0 .. n : \E f : f = [i \in 0 .. m |-> Keep(letters, s, f, i)]}
<1>1. 0 \in G
  <2> DEFINE z == [i \in 0 .. 0 |-> <<>>]
  <2>1. z = [i \in 0 .. 0 |-> Keep(letters, s, z, i)]
    BY DEF Keep
  <2> QED
    BY <2>1
<1>2. ASSUME NEW m \in 1 .. n, m - 1 \in G
      PROVE  m \in G
  <2>1. PICK f : f = [i \in 0 .. m - 1 |-> Keep(letters, s, f, i)]
    BY <1>2
  <2> DEFINE g == [i \in 0 .. m |-> IF i = m THEN Keep(letters, s, f, m) ELSE f[i]]
  <2>2. ASSUME NEW i \in 0 .. m
        PROVE  g[i] = Keep(letters, s, g, i)
    <3>1. i # 0 => i - 1 \in 0 .. m - 1 /\ g[i - 1] = f[i - 1]
      OBVIOUS
    <3>2. g[i] = Keep(letters, s, f, i)
      <4>1. i # m => i \in 0 .. m - 1 /\ g[i] = f[i]
        OBVIOUS
      <4> QED
        BY <2>1, <4>1
    <3> QED
      BY <3>1, <3>2 DEF Keep
  <2>3. g = [i \in 0 .. m |-> Keep(letters, s, g, i)]
    BY <2>2
  <2>4. \E f2 : f2 = [i \in 0 .. m |-> Keep(letters, s, f2, i)]
    <3> HIDE DEF g
    <3> QED
      BY <2>3
  <2> QED
    BY <2>4
<1>3. n \in G
  <2> HIDE DEF G
  <2>1. \A i \in 1 .. n : i - 1 \in G => i \in G
    BY <1>2
  <2>2. \A i \in 0 .. n : i \in G
    BY <1>1, <2>1, UpTo
  <2> QED
    BY <2>2
<1> QED
  BY <1>3

LEMMA KeptUnfolds ==
    ASSUME NEW letters, NEW s, Len(letters) \in Nat
    PROVE  \E f : /\ f = [i \in 0 .. Len(letters) |-> Keep(letters, s, f, i)]
                  /\ Without(letters, s) = f[Len(letters)]
<1> DEFINE F == CHOOSE f : f = [i \in 0 .. Len(letters) |-> Keep(letters, s, f, i)]
<1>1. F = [i \in 0 .. Len(letters) |-> Keep(letters, s, F, i)]
  BY KeptExists
<1>2. Without(letters, s) = F[Len(letters)]
  BY DEF Without, Keep
<1> QED
  BY <1>1, <1>2

LEMMA WithoutFacts ==
    ASSUME NEW letters \in Seq(Sagas), NEW s
    PROVE  /\ Without(letters, s) \in Seq(Sagas)
           /\ \A x : In(Without(letters, s), x) <=> In(letters, x) /\ x # s
           /\ NoDup(letters) => NoDup(Without(letters, s))
<1>1. Len(letters) \in Nat /\ DOMAIN letters = 1 .. Len(letters)
  OBVIOUS
<1>2. PICK f : /\ f = [i \in 0 .. Len(letters) |-> Keep(letters, s, f, i)]
               /\ Without(letters, s) = f[Len(letters)]
  BY <1>1, KeptUnfolds
<1> DEFINE Right(i) == /\ f[i] \in Seq(Sagas)
                       /\ \A x : In(f[i], x) <=> x # s /\ \E j \in 1 .. i : letters[j] = x
                       /\ NoDup(letters) => NoDup(f[i])
           G == {i \in 0 .. Len(letters) : Right(i)}
<1>3. 0 \in G
  <2>1. f[0] = <<>>
    BY <1>1, <1>2 DEF Keep
  <2>2. <<>> \in Seq(Sagas) /\ NoDup(<<>>) /\ \A x : ~In(<<>>, x)
    BY DEF In, NoDup
  <2>3. \A x : ~\E j \in 1 .. 0 : letters[j] = x
    OBVIOUS
  <2>4. Right(0)
    BY <2>1, <2>2, <2>3
  <2> HIDE DEF Right
  <2> QED
    BY <1>1, <2>4
<1>4. ASSUME NEW i \in 1 .. Len(letters), i - 1 \in G
      PROVE  i \in G
  <2>3. f[i] = Keep(letters, s, f, i)
    BY <1>2
  <2>5. Right(i - 1)
    BY <1>4
  <2>6. letters[i] \in Sagas
    BY <1>1
  <2>7. \A x : (\E j \in 1 .. i : letters[j] = x) <=> (\E j \in 1 .. i - 1 : letters[j] = x) \/ letters[i] = x
    BY <1>1
  <2>8. CASE letters[i] = s
    <3>1. f[i] = f[i - 1]
      BY <2>3, <2>8 DEF Keep
    <3> QED
      BY <2>5, <2>7, <2>8, <3>1
  <2>9. CASE letters[i] # s
    <3> DEFINE old == f[i - 1]
    <3>1. f[i] = Append(old, letters[i])
      BY <2>3, <2>9 DEF Keep
    <3>2. /\ old \in Seq(Sagas) /\ Len(old) \in Nat /\ DOMAIN old = 1 .. Len(old)
          /\ \A x : In(old, x) <=> x # s /\ \E j \in 1 .. i - 1 : letters[j] = x
          /\ NoDup(letters) => NoDup(old)
      BY <2>5
    <3> HIDE DEF old
    <3>3. /\ f[i] \in Seq(Sagas) /\ DOMAIN f[i] = 1 .. (Len(old) + 1)
          /\ f[i][Len(old) + 1] = letters[i]
          /\ \A j \in 1 .. Len(old) : f[i][j] = old[j]
      BY <2>6, <3>1, <3>2
    <3>4. \A x : In(f[i], x) <=> In(old, x) \/ x = letters[i]
      BY <3>2, <3>3 DEF In
    <3>5. \A x : In(f[i], x) <=> x # s /\ \E j \in 1 .. i : letters[j] = x
      BY <2>7, <2>9, <3>2, <3>4
    <3>6. ASSUME NoDup(letters)
          PROVE  NoDup(f[i])
      <4>1. ~In(old, letters[i])
        <5>1. \A j \in 1 .. i - 1 : letters[j] # letters[i]
          BY <1>1, <3>6 DEF NoDup
        <5> QED
          BY <3>2, <5>1
      <4> QED
        BY <3>2, <3>3, <3>6, <4>1 DEF NoDup, In
    <3> QED
      BY <3>3, <3>5, <3>6
  <2> QED
    BY <2>8, <2>9
<1>5. Len(letters) \in G
  <2> HIDE DEF G
  <2>1. \A i \in 1 .. Len(letters) : i - 1 \in G => i \in G
    BY <1>4
  <2>2. \A i \in 0 .. Len(letters) : i \in G
    BY <1>1, <1>3, <2>1, UpTo
  <2> QED
    BY <1>1, <2>2
<1> QED
  BY <1>1, <1>2, <1>5 DEF In

---------------------------------------------------------------------------
(* What a step does to the lists of the sagas.                             *)

LEMMA SetOne ==
    ASSUME NEW S, NEW f \in [Sagas -> Seq(S)], NEW s \in Sagas, NEW k \in DOMAIN f[s],
           NEW x \in S
    PROVE  /\ [f EXCEPT ![s][k] = x] \in [Sagas -> Seq(S)]
           /\ \A t \in Sagas \ {s} : [f EXCEPT ![s][k] = x][t] = f[t]
           /\ Len([f EXCEPT ![s][k] = x][s]) = Len(f[s])
           /\ DOMAIN [f EXCEPT ![s][k] = x][s] = DOMAIN f[s]
           /\ \A i \in DOMAIN f[s] :
                [f EXCEPT ![s][k] = x][s][i] = IF i = k THEN x ELSE f[s][i]
<1> DEFINE new == [f[s] EXCEPT ![k] = x]
<1>1. f[s] \in Seq(S)
  OBVIOUS
<1>2. /\ new \in Seq(S) /\ Len(new) = Len(f[s]) /\ DOMAIN new = DOMAIN f[s]
      /\ \A i \in DOMAIN f[s] : new[i] = IF i = k THEN x ELSE f[s][i]
  BY <1>1
<1>3. [f EXCEPT ![s][k] = x] = [f EXCEPT ![s] = new]
  OBVIOUS
<1> HIDE DEF new
<1>4. /\ [f EXCEPT ![s] = new] \in [Sagas -> Seq(S)]
      /\ [f EXCEPT ![s] = new][s] = new
      /\ \A t \in Sagas \ {s} : [f EXCEPT ![s] = new][t] = f[t]
  BY <1>2
<1> QED
  BY <1>2, <1>3, <1>4

LEMMA AppendOne ==
    ASSUME NEW S, NEW f \in [Sagas -> Seq(S)], NEW s \in Sagas, NEW x \in S
    PROVE  /\ [f EXCEPT ![s] = Append(f[s], x)] \in [Sagas -> Seq(S)]
           /\ \A t \in Sagas \ {s} : [f EXCEPT ![s] = Append(f[s], x)][t] = f[t]
           /\ Len(f[s]) \in Nat /\ DOMAIN f[s] = 1 .. Len(f[s])
           /\ Len([f EXCEPT ![s] = Append(f[s], x)][s]) = Len(f[s]) + 1
           /\ DOMAIN [f EXCEPT ![s] = Append(f[s], x)][s] = 1 .. (Len(f[s]) + 1)
           /\ \A i \in 1 .. Len(f[s]) : [f EXCEPT ![s] = Append(f[s], x)][s][i] = f[s][i]
           /\ [f EXCEPT ![s] = Append(f[s], x)][s][Len(f[s]) + 1] = x
<1> DEFINE new == Append(f[s], x)
<1>1. f[s] \in Seq(S)
  OBVIOUS
<1>2. /\ new \in Seq(S) /\ Len(new) = Len(f[s]) + 1 /\ DOMAIN new = 1 .. (Len(f[s]) + 1)
      /\ \A i \in 1 .. Len(f[s]) : new[i] = f[s][i]
      /\ new[Len(f[s]) + 1] = x
      /\ Len(f[s]) \in Nat /\ DOMAIN f[s] = 1 .. Len(f[s])
  BY <1>1
<1> HIDE DEF new
<1>3. /\ [f EXCEPT ![s] = new] \in [Sagas -> Seq(S)]
      /\ [f EXCEPT ![s] = new][s] = new
      /\ \A t \in Sagas \ {s} : [f EXCEPT ![s] = new][t] = f[t]
  BY <1>2
<1> QED
  BY <1>2, <1>3 DEF new

(* A saga a step does not concern stands where it stood. *)
LEMMA OtherStays ==
    ASSUME NEW t \in Sagas, Fits(t), Placed(t), run.saga # t, run'.saga # t,
           status'[t] = status[t], steps'[t] = steps[t], completed'[t] = completed[t],
           effects'[t] = effects[t], forgotten'[t] = forgotten[t]
    PROVE  Fits(t)' /\ Placed(t)'
<1>1. Fits(t)'
  BY DEF Fits
<1>2. \A j, at, next : Stands(t, j, at, next)' <=> Stands(t, j, at, next)
  BY DEF Stands, Reads, InEffect
<1>3. Placed(t)'
  BY <1>2 DEF Placed
<1> QED
  BY <1>1, <1>3

(* The lists of one saga. *)
LEMMA ListsTyped ==
    ASSUME Typed, NEW s \in Sagas, Fits(s)
    PROVE  /\ Len(steps[s]) \in Nat /\ Len(completed[s]) \in Nat
           /\ DOMAIN steps[s] = 1 .. Len(steps[s])
           /\ DOMAIN effects[s] = 1 .. Len(steps[s])
           /\ DOMAIN forgotten[s] = 1 .. Len(steps[s])
           /\ DOMAIN completed[s] = 1 .. Len(completed[s])
           /\ Len(completed[s]) <= Len(steps[s])
           /\ \A k \in 1 .. Len(steps[s]) : /\ steps[s][k] \in StepStatuses
                                            /\ effects[s][k] \in Nat
                                            /\ forgotten[s][k] \in Nat
<1>1. /\ steps[s] \in Seq(StepStatuses) /\ completed[s] \in Seq(Nat)
      /\ effects[s] \in Seq(Nat) /\ forgotten[s] \in Seq(Nat)
  BY DEF Typed
<1>2. /\ Len(steps[s]) \in Nat /\ DOMAIN steps[s] = 1 .. Len(steps[s])
      /\ Len(completed[s]) \in Nat /\ DOMAIN completed[s] = 1 .. Len(completed[s])
      /\ DOMAIN effects[s] = 1 .. Len(effects[s])
      /\ DOMAIN forgotten[s] = 1 .. Len(forgotten[s])
  BY <1>1, LenProperties
<1>3. /\ Len(effects[s]) = Len(steps[s]) /\ Len(forgotten[s]) = Len(steps[s])
      /\ Len(completed[s]) <= Len(steps[s])
  BY DEF Fits
<1>4. ASSUME NEW k \in 1 .. Len(steps[s])
      PROVE  steps[s][k] \in StepStatuses /\ effects[s][k] \in Nat /\ forgotten[s][k] \in Nat
  <2>1. steps[s][k] \in StepStatuses
    BY <1>1, ElementOfSeq
  <2>2. effects[s][k] \in Nat
    BY <1>1, <1>3, ElementOfSeq
  <2>3. forgotten[s][k] \in Nat
    BY <1>1, <1>3, ElementOfSeq
  <2> QED
    BY <2>1, <2>2, <2>3
<1> QED
  BY <1>2, <1>3, <1>4

---------------------------------------------------------------------------
(* The calls. *)

LEMMA InitIInv ==
    ASSUME Init
    PROVE  IInv
<1> USE SagaAssumption DEF Init
<1>1. NoRun \in [saga : Sagas \cup {NoSaga}, at : {"idle", "loop", "attempts", "back"},
                 pos : 0 .. MaxSteps + 1, attempts : 0 .. MaxRetries - 1]
  BY DEF NoRun
<1>2. Typed
  BY <1>1 DEF Typed, SagaStatuses
<1>3. Letters
  BY DEF Letters, In, NoDup
<1>4. ASSUME NEW s \in Sagas
      PROVE  Fits(s) /\ Placed(s)
  <2>1. /\ steps[s] = <<>> /\ completed[s] = <<>> /\ effects[s] = <<>> /\ forgotten[s] = <<>>
        /\ status[s] = "absent" /\ run.saga # s
    BY DEF NoRun
  <2> QED
    BY <2>1 DEF Fits, Placed, Stands, Reads, InEffect
<1> QED
  BY <1>2, <1>3, <1>4 DEF IInv

(* Between calls no saga is in a run. *)
LEMMA AtRestFacts ==
    ASSUME run = NoRun
    PROVE  run.saga = NoSaga /\ run.saga \notin Sagas
BY SagaAssumption DEF NoRun

LEMMA CreateIInv ==
    ASSUME IInv, NEW s \in Sagas, CreateSaga(s)
    PROVE  IInv'
<1>1. /\ run = NoRun /\ status[s] = "absent" /\ status' = [status EXCEPT ![s] = "pending"]
      /\ steps' = steps /\ completed' = completed /\ deadletter' = deadletter /\ run' = run
      /\ runs' = runs /\ effects' = effects /\ forgotten' = forgotten
  BY DEF CreateSaga
<1>2. /\ status' \in [Sagas -> SagaStatuses] /\ status'[s] = "pending"
      /\ \A t \in Sagas \ {s} : status'[t] = status[t]
  BY <1>1 DEF IInv, Typed, SagaStatuses
<1>3. Typed'
  BY <1>1, <1>2 DEF IInv, Typed
<1>4. Letters'
  BY <1>1, <1>2 DEF IInv, Letters
<1>5. Fits(s)' /\ Placed(s)'
  <2>1. Fits(s) /\ Placed(s) /\ run.saga # s
    BY <1>1, AtRestFacts DEF IInv
  <2>2. \A j, at, next : Stands(s, j, at, next)' <=> Stands(s, j, at, next)
    BY <1>1 DEF Stands, Reads, InEffect
  <2> QED
    BY <1>1, <1>2, <2>1, <2>2 DEF Fits, Placed
<1>6. \A t \in Sagas \ {s} : Fits(t)' /\ Placed(t)'
  BY <1>1, <1>2, AtRestFacts, OtherStays DEF IInv
<1> QED
  BY <1>3, <1>4, <1>5, <1>6 DEF IInv

LEMMA AddStepIInv ==
    ASSUME IInv, NEW s \in Sagas, AddStep(s)
    PROVE  IInv'
<1>1. /\ run = NoRun /\ status[s] # "absent" /\ Len(steps[s]) < MaxSteps
      /\ steps' = [steps EXCEPT ![s] = Append(steps[s], "pending")]
      /\ effects' = [effects EXCEPT ![s] = Append(effects[s], 0)]
      /\ forgotten' = [forgotten EXCEPT ![s] = Append(forgotten[s], 0)]
      /\ status' = status /\ completed' = completed /\ deadletter' = deadletter
      /\ run' = run /\ runs' = runs
  BY DEF AddStep
<1>2. /\ steps \in [Sagas -> Seq(StepStatuses)] /\ "pending" \in StepStatuses
      /\ effects \in [Sagas -> Seq(Nat)] /\ forgotten \in [Sagas -> Seq(Nat)] /\ 0 \in Nat
  BY DEF IInv, Typed, StepStatuses
<1> DEFINE n == Len(steps[s])
<1>3. /\ n \in Nat /\ Len(completed[s]) \in Nat /\ Len(completed[s]) <= n
      /\ Len(effects[s]) = n /\ Len(forgotten[s]) = n
      /\ DOMAIN steps[s] = 1 .. n
  BY ListsTyped DEF IInv, Fits
<1>4. /\ steps' \in [Sagas -> Seq(StepStatuses)]
      /\ \A t \in Sagas \ {s} : steps'[t] = steps[t]
      /\ Len(steps'[s]) = n + 1 /\ DOMAIN steps'[s] = 1 .. n + 1
      /\ \A i \in 1 .. n : steps'[s][i] = steps[s][i]
      /\ steps'[s][n + 1] = "pending"
  BY <1>1, <1>2, AppendOne
<1>5. /\ effects' \in [Sagas -> Seq(Nat)]
      /\ \A t \in Sagas \ {s} : effects'[t] = effects[t]
      /\ Len(effects'[s]) = n + 1
      /\ \A i \in 1 .. n : effects'[s][i] = effects[s][i]
      /\ effects'[s][n + 1] = 0
  BY <1>1, <1>2, <1>3, AppendOne
<1>6. /\ forgotten' \in [Sagas -> Seq(Nat)]
      /\ \A t \in Sagas \ {s} : forgotten'[t] = forgotten[t]
      /\ Len(forgotten'[s]) = n + 1
      /\ \A i \in 1 .. n : forgotten'[s][i] = forgotten[s][i]
      /\ forgotten'[s][n + 1] = 0
  BY <1>1, <1>2, <1>3, AppendOne
<1>7. Typed'
  BY <1>1, <1>4, <1>5, <1>6 DEF IInv, Typed
<1>8. Letters'
  BY <1>1 DEF IInv, Letters
<1>9. Fits(s)'
  BY <1>1, <1>3, <1>4, <1>5, <1>6, SagaAssumption DEF IInv, Fits
<1>10. ASSUME NEW j \in 0 .. Len(completed[s]), NEW at, NEW next, Stands(s, j, at, next),
              next = "pending" \/ Len(completed[s]) < n
       PROVE  Stands(s, j, at, next)'
  <2> HIDE DEF n
  <2>1. Reads(s, j, at, next)'
    <3> SUFFICES ASSUME NEW k \in 1 .. n + 1
                 PROVE  steps'[s][k] = IF k < j THEN "completed"
                          ELSE IF k = j THEN at
                          ELSE IF k <= Len(completed[s]) THEN "compensated"
                          ELSE IF k = Len(completed[s]) + 1 THEN next
                          ELSE "pending"
      BY <1>1, <1>4 DEF Reads
    <3>1. CASE k \in 1 .. n
      BY <1>3, <1>4, <1>10, <3>1 DEF Stands, Reads
    <3>2. CASE k = n + 1
      BY <1>3, <1>4, <1>10, <3>2
    <3> QED
      BY <1>3, <3>1, <3>2
  <2>2. InEffect(s, j)'
    <3> SUFFICES ASSUME NEW k \in 1 .. n + 1
                 PROVE  effects'[s][k] = forgotten'[s][k] + (IF k <= j THEN 1 ELSE 0)
      BY <1>4 DEF InEffect
    <3>1. CASE k \in 1 .. n
      BY <1>3, <1>5, <1>6, <1>10, <3>1 DEF Stands, InEffect
    <3>2. CASE k = n + 1
      BY <1>3, <1>5, <1>6, <3>2
    <3> QED
      BY <1>3, <3>1, <3>2
  <2> QED
    BY <2>1, <2>2 DEF Stands
<1>11. Placed(s)'
  <2>1. Placed(s) /\ run.saga # s /\ run'.saga # s
    BY <1>1, AtRestFacts DEF IInv
  <2>2. 0 \in 0 .. Len(completed[s]) /\ Len(completed[s]) \in 0 .. Len(completed[s])
        /\ \A j \in 1 .. Len(completed[s]) : j \in 0 .. Len(completed[s])
    BY <1>3
  <2>3. CASE status[s] \in {"absent", "pending"}
    BY <1>1, <1>10, <2>1, <2>2, <2>3 DEF Placed
  <2>4. CASE status[s] = "completed"
    BY <1>1, <1>10, <2>1, <2>2, <2>4 DEF Placed
  <2>5. CASE status[s] = "failed"
    <3>1. PICK j \in 1 .. Len(completed[s]) : Stands(s, j, "compensating", "failed")
      BY <2>1, <2>5 DEF Placed
    <3>2. Len(completed[s]) < n
      BY <2>1, <2>5 DEF Placed
    <3>3. Stands(s, j, "compensating", "failed")'
      BY <1>10, <2>2, <3>1, <3>2
    <3> QED
      BY <1>1, <1>3, <1>4, <2>1, <2>5, <3>2, <3>3 DEF Placed
  <2>6. CASE status[s] = "rolled_back"
    BY <1>1, <1>3, <1>4, <1>10, <2>1, <2>2, <2>6 DEF Placed
  <2> QED
    BY <2>1, <2>3, <2>4, <2>5, <2>6 DEF Placed
<1>12. \A t \in Sagas \ {s} : Fits(t)' /\ Placed(t)'
  BY <1>1, <1>4, <1>5, <1>6, AtRestFacts, OtherStays DEF IInv
<1> QED
  BY <1>7, <1>8, <1>9, <1>11, <1>12 DEF IInv

(* A run begins at the head of the loop over the steps, with everything    *)
(* that is in effect counted as having been there before.                  *)
LEMMA BeginFacts ==
    ASSUME IInv, run = NoRun, NEW s \in Sagas, Begin(s)
    PROVE  /\ status' = [status EXCEPT ![s] = "in_progress"]
           /\ status' \in [Sagas -> SagaStatuses] /\ status'[s] = "in_progress"
           /\ \A t \in Sagas \ {s} : status'[t] = status[t]
           /\ forgotten' \in [Sagas -> Seq(Nat)] /\ forgotten'[s] = effects[s]
           /\ \A t \in Sagas \ {s} : forgotten'[t] = forgotten[t]
           /\ runs' \in [Sagas -> 0 .. MaxRuns]
           /\ run' = [saga |-> s, at |-> "loop", pos |-> 1, attempts |-> 0]
           /\ run' \in [saga : Sagas \cup {NoSaga}, at : {"idle", "loop", "attempts", "back"},
                        pos : 0 .. MaxSteps + 1, attempts : 0 .. MaxRetries - 1]
           /\ run'.saga = s /\ run'.at = "loop" /\ run'.pos = 1
           /\ run.saga \notin Sagas
<1>1. /\ status \in [Sagas -> SagaStatuses] /\ forgotten \in [Sagas -> Seq(Nat)]
      /\ effects[s] \in Seq(Nat) /\ runs \in [Sagas -> 0 .. MaxRuns]
  BY DEF IInv, Typed
<1>2. /\ runs[s] < MaxRuns /\ runs' = [runs EXCEPT ![s] = runs[s] + 1]
      /\ status' = [status EXCEPT ![s] = "in_progress"]
      /\ run' = [saga |-> s, at |-> "loop", pos |-> 1, attempts |-> 0]
      /\ forgotten' = [forgotten EXCEPT ![s] = effects[s]]
  BY DEF Begin
<1>3. /\ status' \in [Sagas -> SagaStatuses] /\ status'[s] = "in_progress"
      /\ \A t \in Sagas \ {s} : status'[t] = status[t]
  BY <1>1, <1>2 DEF SagaStatuses
<1>4. /\ forgotten' \in [Sagas -> Seq(Nat)] /\ forgotten'[s] = effects[s]
      /\ \A t \in Sagas \ {s} : forgotten'[t] = forgotten[t]
  BY <1>1, <1>2
<1>5. runs' \in [Sagas -> 0 .. MaxRuns]
  <2>1. runs[s] + 1 \in 0 .. MaxRuns
    BY <1>1, <1>2, SagaAssumption
  <2> QED
    BY <1>1, <1>2, <2>1
<1>6. run' \in [saga : Sagas \cup {NoSaga}, at : {"idle", "loop", "attempts", "back"},
                pos : 0 .. MaxSteps + 1, attempts : 0 .. MaxRetries - 1]
  <2>1. 1 \in 0 .. MaxSteps + 1 /\ 0 \in 0 .. MaxRetries - 1
    BY SagaAssumption
  <2> QED
    BY <1>2, <2>1
<1>7. run'.saga = s /\ run'.at = "loop" /\ run'.pos = 1
  BY <1>2
<1> QED
  BY <1>2, <1>3, <1>4, <1>5, <1>6, <1>7, AtRestFacts

LEMMA ExecuteIInv ==
    ASSUME ~Reexecute, IInv, NEW s \in Sagas, Execute(s)
    PROVE  IInv'
<1>1. /\ run = NoRun /\ status[s] = "pending" /\ Begin(s)
      /\ steps' = steps /\ completed' = completed /\ deadletter' = deadletter
      /\ effects' = effects
  BY DEF Execute
<1>2. /\ status' \in [Sagas -> SagaStatuses] /\ status'[s] = "in_progress"
      /\ \A t \in Sagas \ {s} : status'[t] = status[t]
      /\ forgotten' \in [Sagas -> Seq(Nat)] /\ forgotten'[s] = effects[s]
      /\ \A t \in Sagas \ {s} : forgotten'[t] = forgotten[t]
      /\ runs' \in [Sagas -> 0 .. MaxRuns]
      /\ run' \in [saga : Sagas \cup {NoSaga}, at : {"idle", "loop", "attempts", "back"},
                   pos : 0 .. MaxSteps + 1, attempts : 0 .. MaxRetries - 1]
      /\ run'.saga = s /\ run'.at = "loop" /\ run'.pos = 1
      /\ run.saga \notin Sagas
  BY <1>1, BeginFacts
<1>3. Typed'
  BY <1>1, <1>2 DEF IInv, Typed
<1>4. Letters'
  <2>1. status[s] # "failed" /\ status'[s] # "failed"
    BY <1>1, <1>2
  <2>2. \A t \in Sagas : status'[t] = "failed" <=> status[t] = "failed"
    BY <1>2, <2>1
  <2> QED
    BY <1>1, <2>2 DEF IInv, Letters
<1>5. Fits(s)' /\ Placed(s)'
  <2>1. /\ Fits(s) /\ Len(completed[s]) = 0 /\ Reads(s, 0, "completed", "pending")
    BY <1>1, <1>2 DEF IInv, Placed, Stands
  <2>2. Fits(s)'
    BY <1>1, <1>2, <2>1 DEF Fits
  <2>3. Reads(s, 0, "completed", "pending")'
    BY <1>1, <2>1 DEF Reads
  <2>4. InEffect(s, 0)'
    <3>1. \A k \in 1 .. Len(steps[s]) : effects[s][k] \in Nat
      BY ListsTyped DEF IInv
    <3>2. \A k \in DOMAIN steps[s] : ~(k <= 0)
      BY ListsTyped DEF IInv
    <3> QED
      BY <1>1, <1>2, <3>1, <3>2, ListsTyped DEF IInv, InEffect
  <2> QED
    BY <1>1, <1>2, <2>1, <2>2, <2>3, <2>4 DEF Placed, Stands
<1>6. \A t \in Sagas \ {s} : Fits(t)' /\ Placed(t)'
  BY <1>1, <1>2, OtherStays DEF IInv
<1> QED
  BY <1>3, <1>4, <1>5, <1>6 DEF IInv

LEMMA RetryIInv ==
    ASSUME IInv, NEW s \in Sagas, RetrySaga(s)
    PROVE  IInv'
<1> DEFINE fresh == [k \in DOMAIN steps[s] |-> "pending"]
<1>1. /\ run = NoRun /\ Begin(s)
      /\ completed' = [completed EXCEPT ![s] = <<>>]
      /\ steps' = [steps EXCEPT ![s] = fresh]
      /\ deadletter' = Without(deadletter, s)
      /\ effects' = effects
  BY DEF RetrySaga
<1>2. /\ status' \in [Sagas -> SagaStatuses] /\ status'[s] = "in_progress"
      /\ \A t \in Sagas \ {s} : status'[t] = status[t]
      /\ forgotten' \in [Sagas -> Seq(Nat)] /\ forgotten'[s] = effects[s]
      /\ \A t \in Sagas \ {s} : forgotten'[t] = forgotten[t]
      /\ runs' \in [Sagas -> 0 .. MaxRuns]
      /\ run' \in [saga : Sagas \cup {NoSaga}, at : {"idle", "loop", "attempts", "back"},
                   pos : 0 .. MaxSteps + 1, attempts : 0 .. MaxRetries - 1]
      /\ run'.saga = s /\ run'.at = "loop" /\ run'.pos = 1
      /\ run.saga \notin Sagas
  BY <1>1, BeginFacts
<1>3. /\ Len(steps[s]) \in Nat /\ DOMAIN steps[s] = 1 .. Len(steps[s])
      /\ \A k \in 1 .. Len(steps[s]) : effects[s][k] \in Nat
  BY ListsTyped DEF IInv
<1>4. /\ fresh \in Seq(StepStatuses) /\ Len(fresh) = Len(steps[s])
      /\ DOMAIN fresh = DOMAIN steps[s]
      /\ \A k \in DOMAIN steps[s] : fresh[k] = "pending"
  BY <1>3 DEF StepStatuses
<1> HIDE DEF fresh
<1>5. /\ steps' \in [Sagas -> Seq(StepStatuses)] /\ steps'[s] = fresh
      /\ \A t \in Sagas \ {s} : steps'[t] = steps[t]
  BY <1>1, <1>4 DEF IInv, Typed
<1>6. /\ completed' \in [Sagas -> Seq(Nat)] /\ completed'[s] = <<>>
      /\ \A t \in Sagas \ {s} : completed'[t] = completed[t]
  <2>1. <<>> \in Seq(Nat)
    OBVIOUS
  <2> QED
    BY <1>1, <2>1 DEF IInv, Typed
<1>7. Typed'
  BY <1>1, <1>2, <1>5, <1>6 DEF IInv, Typed
<1>8. Letters'
  <2>1. /\ deadletter \in Seq(Sagas) /\ NoDup(deadletter)
        /\ \A t \in Sagas : status[t] = "failed" <=> In(deadletter, t)
    BY DEF IInv, Letters
  <2>2. /\ deadletter' \in Seq(Sagas) /\ NoDup(deadletter')
        /\ \A t : In(deadletter', t) <=> In(deadletter, t) /\ t # s
    BY <1>1, <2>1, WithoutFacts
  <2>3. ASSUME NEW t \in Sagas
        PROVE  status'[t] = "failed" <=> In(deadletter', t)
    <3>1. CASE t = s
      BY <1>2, <2>2, <3>1
    <3>2. CASE t # s
      <4>1. status'[t] = status[t]
        BY <1>2, <3>2
      <4> QED
        BY <2>1, <2>2, <3>2, <4>1
    <3> QED
      BY <3>1, <3>2
  <2> QED
    BY <2>2, <2>3 DEF Letters
<1>9. Fits(s)' /\ Placed(s)'
  <2>1. Len(completed'[s]) = 0
    BY <1>6
  <2>2. Fits(s)'
    BY <1>1, <1>2, <1>3, <1>4, <1>5, <2>1 DEF IInv, Fits
  <2>3. Reads(s, 0, "completed", "pending")'
    BY <1>3, <1>4, <1>5, <2>1 DEF Reads
  <2>4. InEffect(s, 0)'
    BY <1>1, <1>2, <1>3, <1>4, <1>5 DEF InEffect
  <2> QED
    BY <1>2, <2>1, <2>2, <2>3, <2>4 DEF Placed, Stands
<1>10. \A t \in Sagas \ {s} : Fits(t)' /\ Placed(t)'
  BY <1>1, <1>2, <1>5, <1>6, OtherStays DEF IInv
<1> QED
  BY <1>7, <1>8, <1>9, <1>10 DEF IInv

---------------------------------------------------------------------------
(* The steps of a run.  Each says what becomes of the saga that is run;    *)
(* RunKeeps adds that the others stay.                                     *)

Runs == [saga : Sagas \cup {NoSaga}, at : {"idle", "loop", "attempts", "back"},
         pos : 0 .. MaxSteps + 1, attempts : 0 .. MaxRetries - 1]

(* Saga s is run; it has n steps and m completed ones. *)
Running(s, m, n) ==
  /\ run.saga = s /\ run \in Runs /\ Fits(s)
  /\ Len(completed[s]) = m /\ Len(steps[s]) = n /\ m <= n /\ n <= MaxSteps
  /\ DOMAIN steps[s] = 1 .. n /\ DOMAIN effects[s] = 1 .. n
  /\ \A k \in 1 .. n : effects[s][k] \in Nat /\ forgotten[s][k] \in Nat

LEMMA RunFacts ==
    ASSUME IInv, run.at # "idle"
    PROVE  \E s \in Sagas, m, n \in Nat : Running(s, m, n)
<1>1. run.saga \in Sagas
  BY DEF IInv, Typed, NoRun
<1>2. Running(run.saga, Len(completed[run.saga]), Len(steps[run.saga]))
  BY <1>1, ListsTyped DEF IInv, Typed, Fits, Running, Runs
<1> QED
  BY <1>1, <1>2, ListsTyped DEF IInv

LEMMA RunKeeps ==
    ASSUME IInv, NEW s \in Sagas, run.saga = s, run'.saga \in {s, NoSaga},
           \A t \in Sagas \ {s} :
             /\ status'[t] = status[t] /\ steps'[t] = steps[t]
             /\ completed'[t] = completed[t] /\ effects'[t] = effects[t],
           UNCHANGED forgotten,
           Typed', Letters', Fits(s)', Placed(s)'
    PROVE  IInv'
<1>1. \A t \in Sagas \ {s} : Fits(t)' /\ Placed(t)'
  <2> TAKE t \in Sagas \ {s}
  <2>1. run.saga # t /\ run'.saga # t
    BY SagaAssumption
  <2> QED
    BY <2>1, OtherStays DEF IInv
<1> QED
  BY <1>1 DEF IInv

(* Where a run stands, from the place it has reached. *)
LEMMA RunPlaced ==
    ASSUME IInv, NEW s \in Sagas, run.saga = s
    PROVE  /\ run.at = "loop" => /\ status[s] = "in_progress"
                                 /\ run.pos = Len(completed[s]) + 1
                                 /\ Stands(s, Len(completed[s]), "completed", "pending")
           /\ run.at = "attempts" => /\ status[s] = "in_progress"
                                     /\ run.pos = Len(completed[s]) + 1
                                     /\ Len(completed[s]) < Len(steps[s])
                                     /\ Stands(s, Len(completed[s]), "completed", "executing")
           /\ run.at = "back" => /\ status[s] = "compensating"
                                 /\ run.pos \in 0 .. Len(completed[s])
                                 /\ Len(completed[s]) < Len(steps[s])
                                 /\ Stands(s, run.pos, "completed", "failed")
BY DEF IInv, Placed

(* The letters stay when no failed saga is concerned. *)
LEMMA LettersStay ==
    ASSUME IInv, UNCHANGED deadletter, NEW s \in Sagas,
           status[s] # "failed", status'[s] # "failed",
           \A t \in Sagas \ {s} : status'[t] = status[t]
    PROVE  Letters'
<1>1. \A t \in Sagas : status'[t] = "failed" <=> status[t] = "failed"
  OBVIOUS
<1> QED
  BY <1>1 DEF IInv, Letters

LEMMA SetStepFacts ==
    ASSUME IInv, NEW s \in Sagas, run.saga = s, NEW n \in Nat, Len(steps[s]) = n,
           NEW k \in 1 .. n, NEW st \in StepStatuses, SetStep(k, st)
    PROVE  /\ steps' \in [Sagas -> Seq(StepStatuses)]
           /\ \A t \in Sagas \ {s} : steps'[t] = steps[t]
           /\ Len(steps'[s]) = n
           /\ DOMAIN steps'[s] = 1 .. n
           /\ \A i \in 1 .. n : steps'[s][i] = IF i = k THEN st ELSE steps[s][i]
<1>1. steps' = [steps EXCEPT ![s][k] = st] /\ steps \in [Sagas -> Seq(StepStatuses)]
  BY DEF SetStep, IInv, Typed
<1>2. DOMAIN steps[s] = 1 .. n
  BY ListsTyped DEF IInv
<1> QED
  BY <1>1, <1>2, SetOne

LEMMA SetStatusFacts ==
    ASSUME IInv, NEW s \in Sagas, run.saga = s, NEW st \in SagaStatuses, SetStatus(st)
    PROVE  /\ status' \in [Sagas -> SagaStatuses] /\ status'[s] = st
           /\ \A t \in Sagas \ {s} : status'[t] = status[t]
BY DEF IInv, Typed, SetStatus

(* A run whose parts are in order is one. *)
LEMMA RunMoves ==
    ASSUME NEW r, NEW s \in Sagas, NEW at \in {"loop", "attempts", "back"},
           NEW pos \in 0 .. MaxSteps + 1, NEW attempts \in 0 .. MaxRetries - 1,
           r = [saga |-> s, at |-> at, pos |-> pos, attempts |-> attempts]
    PROVE  r \in Runs /\ r.saga = s /\ r.at = at /\ r.pos = pos /\ r.attempts = attempts
BY DEF Runs

(* What a record of a run consists of, and what a step makes of it. *)
LEMMA RunBounds ==
    ASSUME NEW r \in Runs
    PROVE  r.pos \in 0 .. MaxSteps + 1 /\ r.attempts \in 0 .. MaxRetries - 1
BY DEF Runs

LEMMA SetsPos ==
    ASSUME NEW r \in Runs, NEW pos
    PROVE  [r EXCEPT !.pos = pos]
             = [saga |-> r.saga, at |-> r.at, pos |-> pos, attempts |-> r.attempts]
BY DEF Runs

LEMMA SetsAttempts ==
    ASSUME NEW r \in Runs, NEW attempts
    PROVE  [r EXCEPT !.attempts = attempts]
             = [saga |-> r.saga, at |-> r.at, pos |-> r.pos, attempts |-> attempts]
BY DEF Runs

LEMMA SetsAt ==
    ASSUME NEW r \in Runs, NEW at
    PROVE  [r EXCEPT !.at = at]
             = [saga |-> r.saga, at |-> at, pos |-> r.pos, attempts |-> r.attempts]
BY DEF Runs

LEMMA SetsAtAndAttempts ==
    ASSUME NEW r \in Runs, NEW at, NEW attempts
    PROVE  [r EXCEPT !.at = at, !.attempts = attempts]
             = [saga |-> r.saga, at |-> at, pos |-> r.pos, attempts |-> attempts]
<1>1. [[saga |-> r.saga, at |-> at, pos |-> r.pos, attempts |-> r.attempts]
         EXCEPT !.attempts = attempts]
        = [saga |-> r.saga, at |-> at, pos |-> r.pos, attempts |-> attempts]
  OBVIOUS
<1>2. [r EXCEPT !.at = at, !.attempts = attempts]
        = [[r EXCEPT !.at = at] EXCEPT !.attempts = attempts]
  OBVIOUS
<1> QED
  BY <1>1, <1>2, SetsAt

LEMMA SetsAtAndPos ==
    ASSUME NEW r \in Runs, NEW at, NEW pos
    PROVE  [r EXCEPT !.at = at, !.pos = pos]
             = [saga |-> r.saga, at |-> at, pos |-> pos, attempts |-> r.attempts]
<1>1. [[saga |-> r.saga, at |-> at, pos |-> r.pos, attempts |-> r.attempts]
         EXCEPT !.pos = pos]
        = [saga |-> r.saga, at |-> at, pos |-> pos, attempts |-> r.attempts]
  OBVIOUS
<1>2. [r EXCEPT !.at = at, !.pos = pos] = [[r EXCEPT !.at = at] EXCEPT !.pos = pos]
  OBVIOUS
<1> QED
  BY <1>1, <1>2, SetsAt

LEMMA BeginStepIInv ==
    ASSUME IInv, NEW s \in Sagas, NEW m \in Nat, NEW n \in Nat, Running(s, m, n), BeginStep
    PROVE  IInv'
<1> USE DEF Running
<1>1. /\ status[s] = "in_progress" /\ run.pos = m + 1 /\ run.pos <= n
      /\ Stands(s, m, "completed", "pending")
  BY RunPlaced DEF BeginStep
<1>2. /\ steps' \in [Sagas -> Seq(StepStatuses)]
      /\ \A t \in Sagas \ {s} : steps'[t] = steps[t]
      /\ Len(steps'[s]) = n
      /\ DOMAIN steps'[s] = 1 .. n
      /\ \A i \in 1 .. n : steps'[s][i] = IF i = m + 1 THEN "executing" ELSE steps[s][i]
  <2>1. m + 1 \in 1 .. n /\ "executing" \in StepStatuses /\ SetStep(m + 1, "executing")
    BY <1>1 DEF BeginStep, StepStatuses
  <2>2. run.saga = s /\ Len(steps[s]) = n
    BY <2>1
  <2> HIDE DEF Running
  <2> QED
    BY <2>1, <2>2, SetStepFacts
<1>3. /\ run' = [run EXCEPT !.at = "attempts", !.attempts = 0]
      /\ status' = status /\ completed' = completed /\ deadletter' = deadletter
      /\ runs' = runs /\ effects' = effects /\ forgotten' = forgotten
  BY DEF BeginStep
<1>4. /\ run' \in Runs /\ run'.saga = s /\ run'.at = "attempts" /\ run'.pos = m + 1
  <2>1. run' = [saga |-> s, at |-> "attempts", pos |-> m + 1, attempts |-> 0]
    <3>1. run.saga = s /\ run \in Runs /\ run.pos = m + 1
      BY <1>1
    <3> HIDE DEF Running
    <3> QED
      BY <1>3, <3>1, SetsAtAndAttempts
  <2>2. m + 1 \in 0 .. MaxSteps + 1 /\ 0 \in 0 .. MaxRetries - 1
    BY SagaAssumption
  <2> QED
    BY <2>1, <2>2, RunMoves
<1>5. Typed'
  BY <1>2, <1>3, <1>4 DEF IInv, Typed, Runs
<1>6. Letters'
  BY <1>3 DEF IInv, Letters
<1>7. Fits(s)'
  BY <1>2, <1>3 DEF Fits
<1>8. Stands(s, m, "completed", "executing")'
  <2>1. Reads(s, m, "completed", "executing")'
    BY <1>1, <1>2, <1>3 DEF Stands, Reads
  <2>2. InEffect(s, m)'
    BY <1>1, <1>2, <1>3 DEF Stands, InEffect
  <2> QED
    BY <2>1, <2>2 DEF Stands
<1>9. Placed(s)'
  BY <1>1, <1>2, <1>3, <1>4, <1>8 DEF Placed
<1> QED
  BY <1>2, <1>3, <1>4, <1>5, <1>6, <1>7, <1>9, RunKeeps

LEMMA FinishIInv ==
    ASSUME IInv, NEW s \in Sagas, NEW m \in Nat, NEW n \in Nat, Running(s, m, n), Finish
    PROVE  IInv'
<1> USE DEF Running
<1>1. /\ status[s] = "in_progress" /\ Stands(s, m, "completed", "pending")
  BY RunPlaced DEF Finish
<1>2. /\ status' \in [Sagas -> SagaStatuses] /\ status'[s] = "completed"
      /\ \A t \in Sagas \ {s} : status'[t] = status[t]
  BY SetStatusFacts DEF Finish, SagaStatuses
<1>3. /\ run' = NoRun
      /\ steps' = steps /\ completed' = completed /\ deadletter' = deadletter
      /\ runs' = runs /\ effects' = effects /\ forgotten' = forgotten
  BY DEF Finish
<1>4. run' \in Runs /\ run'.saga = NoSaga /\ run'.saga # s
  BY <1>3, SagaAssumption DEF Runs, NoRun
<1>5. Typed'
  BY <1>2, <1>3, <1>4 DEF IInv, Typed, Runs, NoRun
<1>6. Letters'
  BY <1>1, <1>2, <1>3, LettersStay
<1>7. Fits(s)'
  BY <1>3 DEF Fits
<1>8. Stands(s, m, "completed", "pending")'
  BY <1>1, <1>3 DEF Stands, Reads, InEffect
<1>9. Placed(s)'
  BY <1>2, <1>3, <1>4, <1>8 DEF Placed
<1> QED
  BY <1>2, <1>3, <1>4, <1>5, <1>6, <1>7, <1>9, RunKeeps

LEMMA ActionSucceedsIInv ==
    ASSUME IInv, NEW s \in Sagas, NEW m \in Nat, NEW n \in Nat, Running(s, m, n),
           ActionSucceeds
    PROVE  IInv'
<1> USE DEF Running
<1>1. /\ status[s] = "in_progress" /\ run.pos = m + 1 /\ m < n
      /\ Stands(s, m, "completed", "executing")
  BY RunPlaced DEF ActionSucceeds
<1>2. /\ steps' \in [Sagas -> Seq(StepStatuses)]
      /\ \A t \in Sagas \ {s} : steps'[t] = steps[t]
      /\ Len(steps'[s]) = n
      /\ DOMAIN steps'[s] = 1 .. n
      /\ \A i \in 1 .. n : steps'[s][i] = IF i = m + 1 THEN "completed" ELSE steps[s][i]
  <2>1. m + 1 \in 1 .. n /\ "completed" \in StepStatuses /\ SetStep(m + 1, "completed")
    BY <1>1 DEF ActionSucceeds, StepStatuses
  <2>2. run.saga = s /\ Len(steps[s]) = n
    BY <2>1
  <2> HIDE DEF Running
  <2> QED
    BY <2>1, <2>2, SetStepFacts
<1>3. /\ run' = [run EXCEPT !.at = "loop", !.pos = run.pos + 1]
      /\ completed' = [completed EXCEPT ![s] = Append(completed[s], m + 1)]
      /\ effects' = [effects EXCEPT ![s][m + 1] = effects[s][m + 1] + 1]
      /\ status' = status /\ deadletter' = deadletter
      /\ runs' = runs /\ forgotten' = forgotten
  BY <1>1 DEF ActionSucceeds
<1>4. /\ run' \in Runs /\ run'.saga = s /\ run'.at = "loop" /\ run'.pos = m + 2
  <2>1. run' = [saga |-> s, at |-> "loop", pos |-> m + 2, attempts |-> run.attempts]
    <3>1. run.saga = s /\ run \in Runs /\ run.pos + 1 = m + 2
      BY <1>1
    <3> HIDE DEF Running
    <3> QED
      BY <1>3, <3>1, SetsAtAndPos
  <2>2. m + 2 \in 0 .. MaxSteps + 1 /\ run.attempts \in 0 .. MaxRetries - 1
    BY <1>1, RunBounds, SagaAssumption
  <2> QED
    BY <2>1, <2>2, RunMoves
<1>5. /\ completed' \in [Sagas -> Seq(Nat)]
      /\ \A t \in Sagas \ {s} : completed'[t] = completed[t]
      /\ Len(completed'[s]) = m + 1
      /\ \A i \in 1 .. m : completed'[s][i] = completed[s][i]
      /\ completed'[s][m + 1] = m + 1
  <2>1. completed \in [Sagas -> Seq(Nat)] /\ m + 1 \in Nat /\ Len(completed[s]) = m
    BY DEF IInv, Typed
  <2> HIDE DEF Running
  <2> QED
    BY <1>3, <2>1, AppendOne
<1>6. /\ effects' \in [Sagas -> Seq(Nat)]
      /\ \A t \in Sagas \ {s} : effects'[t] = effects[t]
      /\ Len(effects'[s]) = Len(effects[s])
      /\ \A i \in 1 .. n : effects'[s][i] = IF i = m + 1 THEN effects[s][i] + 1
                                             ELSE effects[s][i]
  <2>1. m + 1 \in DOMAIN effects[s] /\ effects[s][m + 1] + 1 \in Nat
    BY <1>1
  <2>2. effects \in [Sagas -> Seq(Nat)]
    BY DEF IInv, Typed
  <2> QED
    BY <1>3, <2>1, <2>2, SetOne
<1>7. Typed'
  BY <1>2, <1>3, <1>4, <1>5, <1>6 DEF IInv, Typed, Runs
<1>8. Letters'
  BY <1>3 DEF IInv, Letters
<1>9. Fits(s)'
  BY <1>1, <1>2, <1>3, <1>5, <1>6 DEF Fits
<1>10. Stands(s, m + 1, "completed", "pending")'
  <2>1. Reads(s, m + 1, "completed", "pending")'
    <3>1. \A k \in 1 .. n : steps[s][k] = IF k < m THEN "completed"
                                          ELSE IF k = m THEN "completed"
                                          ELSE IF k <= m THEN "compensated"
                                          ELSE IF k = m + 1 THEN "executing"
                                          ELSE "pending"
      BY <1>1 DEF Stands, Reads
    <3>2. /\ Len(completed'[s]) = m + 1 /\ DOMAIN steps'[s] = 1 .. n
          /\ \A k \in 1 .. n : steps'[s][k] = IF k = m + 1 THEN "completed" ELSE steps[s][k]
      BY <1>2, <1>5
    <3> HIDE DEF Running
    <3> QED
      BY <1>1, <3>1, <3>2 DEF Reads
  <2>2. InEffect(s, m + 1)'
    BY <1>1, <1>2, <1>3, <1>6 DEF Stands, InEffect
  <2> QED
    BY <2>1, <2>2 DEF Stands
<1>11. Placed(s)'
  BY <1>1, <1>3, <1>4, <1>5, <1>10 DEF Placed
<1> QED
  BY <1>2, <1>3, <1>4, <1>5, <1>6, <1>7, <1>8, <1>9, <1>11, RunKeeps

LEMMA ActionRaisesIInv ==
    ASSUME IInv, NEW s \in Sagas, NEW m \in Nat, NEW n \in Nat, Running(s, m, n),
           ActionRaises
    PROVE  IInv'
<1> USE DEF Running
<1>1. /\ status[s] = "in_progress" /\ run.pos = m + 1 /\ m < n
      /\ Stands(s, m, "completed", "executing")
  BY RunPlaced DEF ActionRaises
<1>2. /\ run' = [run EXCEPT !.attempts = run.attempts + 1]
      /\ steps' = steps /\ status' = status /\ completed' = completed
      /\ deadletter' = deadletter /\ runs' = runs /\ effects' = effects
      /\ forgotten' = forgotten
      /\ run.at = "attempts" /\ run.attempts + 1 < MaxRetries
  BY DEF ActionRaises
<1>3. /\ run' \in Runs /\ run'.saga = s /\ run'.at = "attempts" /\ run'.pos = m + 1
  <2>1. run.saga = s /\ run \in Runs /\ run.pos = m + 1
    BY <1>1
  <2>2. /\ m + 1 \in 0 .. MaxSteps + 1
        /\ run.attempts + 1 \in 0 .. MaxRetries - 1
    BY <1>1, <1>2, RunBounds, SagaAssumption
  <2> HIDE DEF Running
  <2>3. run' = [saga |-> s, at |-> "attempts", pos |-> m + 1, attempts |-> run.attempts + 1]
    BY <1>2, <2>1, SetsAttempts
  <2> QED
    BY <2>2, <2>3, RunMoves
<1>4. Typed'
  BY <1>2, <1>3 DEF IInv, Typed, Runs
<1>5. Letters'
  BY <1>2 DEF IInv, Letters
<1>6. Fits(s)'
  BY <1>2 DEF Fits
<1>7. Stands(s, m, "completed", "executing")'
  BY <1>1, <1>2 DEF Stands, Reads, InEffect
<1>8. Placed(s)'
  BY <1>1, <1>2, <1>3, <1>7 DEF Placed
<1> QED
  BY <1>2, <1>3, <1>4, <1>5, <1>6, <1>8, RunKeeps

LEMMA GiveUpIInv ==
    ASSUME IInv, NEW s \in Sagas, NEW m \in Nat, NEW n \in Nat, Running(s, m, n), GiveUp
    PROVE  IInv'
<1> USE DEF Running
<1>1. /\ status[s] = "in_progress" /\ run.pos = m + 1 /\ m < n
      /\ Stands(s, m, "completed", "executing")
  BY RunPlaced DEF GiveUp
<1>2. /\ steps' \in [Sagas -> Seq(StepStatuses)]
      /\ \A t \in Sagas \ {s} : steps'[t] = steps[t]
      /\ Len(steps'[s]) = n
      /\ DOMAIN steps'[s] = 1 .. n
      /\ \A i \in 1 .. n : steps'[s][i] = IF i = m + 1 THEN "failed" ELSE steps[s][i]
  <2>1. m + 1 \in 1 .. n /\ "failed" \in StepStatuses /\ SetStep(m + 1, "failed")
    BY <1>1 DEF GiveUp, StepStatuses
  <2>2. run.saga = s /\ Len(steps[s]) = n
    BY <2>1
  <2>3. PICK k \in 1 .. n : k = m + 1
    BY <2>1
  <2>4. SetStep(k, "failed")
    BY <2>1, <2>3
  <2> HIDE DEF Running
  <2>5. /\ steps' \in [Sagas -> Seq(StepStatuses)]
        /\ \A t \in Sagas \ {s} : steps'[t] = steps[t]
        /\ Len(steps'[s]) = n
        /\ DOMAIN steps'[s] = 1 .. n
        /\ \A i \in 1 .. n : steps'[s][i] = IF i = k THEN "failed" ELSE steps[s][i]
    BY <2>1, <2>2, <2>4, SetStepFacts
  <2> QED
    BY <2>3, <2>5
<1>3. /\ status' \in [Sagas -> SagaStatuses] /\ status'[s] = "compensating"
      /\ \A t \in Sagas \ {s} : status'[t] = status[t]
  BY SetStatusFacts DEF GiveUp, SagaStatuses
<1>4. /\ run' = [run EXCEPT !.at = "back", !.pos = m]
      /\ completed' = completed /\ deadletter' = deadletter
      /\ runs' = runs /\ effects' = effects /\ forgotten' = forgotten
  BY DEF GiveUp
<1>5. /\ run' \in Runs /\ run'.saga = s /\ run'.at = "back" /\ run'.pos = m
  <2>1. run.saga = s /\ run \in Runs
    OBVIOUS
  <2>2. m \in 0 .. MaxSteps + 1 /\ run.attempts \in 0 .. MaxRetries - 1
    BY <1>1, RunBounds, SagaAssumption
  <2> HIDE DEF Running
  <2>3. run' = [saga |-> s, at |-> "back", pos |-> m, attempts |-> run.attempts]
    BY <1>4, <2>1, SetsAtAndPos
  <2> QED
    BY <2>2, <2>3, RunMoves
<1>6. Typed'
  BY <1>2, <1>3, <1>4, <1>5 DEF IInv, Typed, Runs
<1>7. Letters'
  BY <1>1, <1>3, <1>4, LettersStay
<1>8. Fits(s)'
  BY <1>2, <1>4 DEF Fits
<1>9. Stands(s, m, "completed", "failed")'
  <2>1. Reads(s, m, "completed", "failed")'
    BY <1>1, <1>2, <1>4 DEF Stands, Reads
  <2>2. InEffect(s, m)'
    BY <1>1, <1>2, <1>4 DEF Stands, InEffect
  <2> QED
    BY <2>1, <2>2 DEF Stands
<1>10. Placed(s)'
  <2>1. /\ Len(completed'[s]) = m /\ Len(steps'[s]) = n /\ run'.pos \in 0 .. m
    BY <1>2, <1>4, <1>5
  <2> QED
    BY <1>1, <1>3, <1>5, <1>9, <2>1 DEF Placed
<1> QED
  BY <1>2, <1>3, <1>4, <1>5, <1>6, <1>7, <1>8, <1>10, RunKeeps

(* The step compensated next is the one the run has come back to. *)
LEMMA UndoneIsNext ==
    ASSUME IInv, NEW s \in Sagas, NEW m \in Nat, NEW n \in Nat, Running(s, m, n),
           run.at = "back", run.pos > 0
    PROVE  /\ status[s] = "compensating" /\ m < n
           /\ run.pos \in 1 .. m /\ run.pos \in 1 .. n
           /\ Undone = run.pos
           /\ Stands(s, run.pos, "completed", "failed")
<1>1. /\ status[s] = "compensating" /\ run.pos \in 0 .. m /\ m < n
      /\ Stands(s, run.pos, "completed", "failed")
  BY RunPlaced DEF Running
<1> QED
  BY <1>1 DEF Running, Fits, Undone

LEMMA CompensationSucceedsIInv ==
    ASSUME IInv, NEW s \in Sagas, NEW m \in Nat, NEW n \in Nat, Running(s, m, n),
           CompensationSucceeds
    PROVE  IInv'
<1> USE DEF Running
<1> PICK p \in 1 .. m : p = run.pos
  BY UndoneIsNext DEF CompensationSucceeds
<1>1. /\ status[s] = "compensating" /\ run.pos = p /\ Undone = p /\ m < n
      /\ p \in 1 .. n /\ p - 1 \in 0 .. m
      /\ Stands(s, p, "completed", "failed")
  BY UndoneIsNext DEF CompensationSucceeds
<1>2. /\ steps' \in [Sagas -> Seq(StepStatuses)]
      /\ \A t \in Sagas \ {s} : steps'[t] = steps[t]
      /\ Len(steps'[s]) = n
      /\ DOMAIN steps'[s] = 1 .. n
      /\ \A i \in 1 .. n : steps'[s][i] = IF i = p THEN "compensated" ELSE steps[s][i]
  <2>1. "compensated" \in StepStatuses /\ SetStep(p, "compensated")
    BY <1>1 DEF CompensationSucceeds, StepStatuses
  <2>2. run.saga = s /\ Len(steps[s]) = n
    BY <1>1
  <2> HIDE DEF Running
  <2> QED
    BY <1>1, <2>1, <2>2, SetStepFacts
<1>3. /\ run' = [run EXCEPT !.pos = p - 1]
      /\ effects' = [effects EXCEPT ![s][p] = effects[s][p] - 1]
      /\ status' = status /\ completed' = completed /\ deadletter' = deadletter
      /\ runs' = runs /\ forgotten' = forgotten
      /\ run.at = "back"
  BY <1>1 DEF CompensationSucceeds
<1>4. /\ run' \in Runs /\ run'.saga = s /\ run'.at = "back" /\ run'.pos = p - 1
  <2>1. run.saga = s /\ run \in Runs
    OBVIOUS
  <2>2. p - 1 \in 0 .. MaxSteps + 1 /\ run.attempts \in 0 .. MaxRetries - 1
    BY <1>1, RunBounds, SagaAssumption
  <2> HIDE DEF Running
  <2>3. run' = [saga |-> s, at |-> "back", pos |-> p - 1, attempts |-> run.attempts]
    BY <1>3, <2>1, SetsPos
  <2> QED
    BY <2>2, <2>3, RunMoves
<1>5. /\ effects' \in [Sagas -> Seq(Nat)]
      /\ \A t \in Sagas \ {s} : effects'[t] = effects[t]
      /\ Len(effects'[s]) = Len(effects[s])
      /\ \A i \in 1 .. n : effects'[s][i] = IF i = p THEN effects[s][i] - 1
                                             ELSE effects[s][i]
  <2>1. p \in DOMAIN effects[s] /\ DOMAIN effects[s] = 1 .. n
    BY <1>1
  <2>2. effects[s][p] - 1 \in Nat
    <3>1. /\ effects[s][p] = forgotten[s][p] + (IF p <= p THEN 1 ELSE 0)
          /\ forgotten[s][p] \in Nat
      BY <1>1 DEF Stands, InEffect
    <3> QED
      BY <3>1
  <2>3. effects \in [Sagas -> Seq(Nat)]
    BY DEF IInv, Typed
  <2> HIDE DEF Running
  <2> QED
    BY <1>3, <2>1, <2>2, <2>3, SetOne
<1>6. Typed'
  BY <1>2, <1>3, <1>4, <1>5 DEF IInv, Typed, Runs
<1>7. Letters'
  BY <1>3 DEF IInv, Letters
<1>8. Fits(s)'
  BY <1>1, <1>2, <1>3, <1>5 DEF Fits
<1>9. Stands(s, p - 1, "completed", "failed")'
  <2>1. Reads(s, p - 1, "completed", "failed")'
    <3>1. \A k \in 1 .. n : steps[s][k] = IF k < p THEN "completed"
                                          ELSE IF k = p THEN "completed"
                                          ELSE IF k <= m THEN "compensated"
                                          ELSE IF k = m + 1 THEN "failed"
                                          ELSE "pending"
      BY <1>1 DEF Stands, Reads
    <3>2. /\ Len(completed'[s]) = m /\ DOMAIN steps'[s] = 1 .. n
          /\ \A k \in 1 .. n : steps'[s][k] = IF k = p THEN "compensated" ELSE steps[s][k]
      BY <1>2, <1>3
    <3> HIDE DEF Running
    <3> QED
      BY <1>1, <3>1, <3>2 DEF Reads
  <2>2. InEffect(s, p - 1)'
    <3>1. \A k \in 1 .. n : effects[s][k] = forgotten[s][k] + (IF k <= p THEN 1 ELSE 0)
      BY <1>1 DEF Stands, InEffect
    <3>2. /\ DOMAIN steps'[s] = 1 .. n /\ forgotten'[s] = forgotten[s]
          /\ \A k \in 1 .. n : /\ effects[s][k] \in Nat /\ forgotten[s][k] \in Nat
                               /\ effects'[s][k] = IF k = p THEN effects[s][k] - 1
                                                   ELSE effects[s][k]
      BY <1>2, <1>3, <1>5
    <3>3. ASSUME NEW k \in 1 .. n
          PROVE  effects'[s][k] = forgotten[s][k] + (IF k <= p - 1 THEN 1 ELSE 0)
      <4>1. /\ k \in Nat /\ p \in Nat /\ effects[s][k] \in Nat /\ forgotten[s][k] \in Nat
            /\ effects[s][k] = forgotten[s][k] + (IF k <= p THEN 1 ELSE 0)
            /\ effects'[s][k] = IF k = p THEN effects[s][k] - 1 ELSE effects[s][k]
        BY <1>1, <3>1, <3>2
      <4> HIDE DEF Running
      <4> QED
        BY <4>1
    <3> QED
      BY <3>2, <3>3 DEF InEffect
  <2> QED
    BY <2>1, <2>2 DEF Stands
<1>10. Placed(s)'
  <2>1. /\ Len(completed'[s]) = m /\ Len(steps'[s]) = n /\ run'.pos \in 0 .. m
        /\ status'[s] = "compensating"
    BY <1>1, <1>2, <1>3, <1>4
  <2> QED
    BY <1>1, <1>4, <1>9, <2>1 DEF Placed
<1> QED
  BY <1>2, <1>3, <1>4, <1>5, <1>6, <1>7, <1>8, <1>10, RunKeeps

(* A saga that is in a run has no letter: it gets one. *)
LEMMA LetterAdded ==
    ASSUME IInv, NEW s \in Sagas, status[s] # "failed", status'[s] = "failed",
           \A t \in Sagas \ {s} : status'[t] = status[t],
           deadletter' = Append(deadletter, s)
    PROVE  Letters'
<1> DEFINE n == Len(deadletter)
<1>1. /\ deadletter \in Seq(Sagas) /\ NoDup(deadletter)
      /\ \A t \in Sagas : status[t] = "failed" <=> In(deadletter, t)
  BY DEF IInv, Letters
<1>2. /\ n \in Nat /\ DOMAIN deadletter = 1 .. n
      /\ deadletter' \in Seq(Sagas) /\ DOMAIN deadletter' = 1 .. (n + 1)
      /\ deadletter'[n + 1] = s
      /\ \A i \in 1 .. n : deadletter'[i] = deadletter[i]
  BY <1>1
<1> HIDE DEF n
<1>3. \A t : In(deadletter', t) <=> In(deadletter, t) \/ t = s
  BY <1>2 DEF In
<1>4. ~In(deadletter, s)
  BY <1>1
<1>5. NoDup(deadletter')
  BY <1>1, <1>2, <1>4 DEF NoDup, In
<1>6. ASSUME NEW t \in Sagas
      PROVE  status'[t] = "failed" <=> In(deadletter', t)
  <2>1. CASE t = s
    BY <1>3, <2>1
  <2>2. CASE t # s
    <3>1. status'[t] = status[t]
      BY <2>2
    <3> QED
      BY <1>1, <1>3, <2>2, <3>1
  <2> QED
    BY <2>1, <2>2
<1> QED
  BY <1>2, <1>5, <1>6 DEF Letters

LEMMA CompensationRaisesIInv ==
    ASSUME IInv, NEW s \in Sagas, NEW m \in Nat, NEW n \in Nat, Running(s, m, n),
           CompensationRaises
    PROVE  IInv'
<1> USE DEF Running
<1> PICK p \in 1 .. m : p = run.pos
  BY UndoneIsNext DEF CompensationRaises
<1>1. /\ status[s] = "compensating" /\ run.pos = p /\ Undone = p /\ m < n
      /\ p \in 1 .. n
      /\ Stands(s, p, "completed", "failed")
  BY UndoneIsNext DEF CompensationRaises
<1>2. /\ steps' \in [Sagas -> Seq(StepStatuses)]
      /\ \A t \in Sagas \ {s} : steps'[t] = steps[t]
      /\ Len(steps'[s]) = n
      /\ DOMAIN steps'[s] = 1 .. n
      /\ \A i \in 1 .. n : steps'[s][i] = IF i = p THEN "compensating" ELSE steps[s][i]
  <2>1. "compensating" \in StepStatuses /\ SetStep(p, "compensating")
    BY <1>1 DEF CompensationRaises, StepStatuses
  <2>2. run.saga = s /\ Len(steps[s]) = n
    BY <1>1
  <2> HIDE DEF Running
  <2> QED
    BY <1>1, <2>1, <2>2, SetStepFacts
<1>3. /\ status' \in [Sagas -> SagaStatuses] /\ status'[s] = "failed"
      /\ \A t \in Sagas \ {s} : status'[t] = status[t]
  BY SetStatusFacts DEF CompensationRaises, SagaStatuses
<1>4. /\ run' = NoRun
      /\ completed' = completed /\ deadletter' = Append(deadletter, s)
      /\ runs' = runs /\ effects' = effects /\ forgotten' = forgotten
  BY DEF CompensationRaises
<1>5. run' \in Runs /\ run'.saga = NoSaga /\ run'.saga # s
  BY <1>4, SagaAssumption DEF Runs, NoRun
<1>6. Typed'
  BY <1>2, <1>3, <1>4, <1>5 DEF IInv, Typed, Runs, NoRun
<1>7. Letters'
  <2>1. status[s] # "failed"
    BY <1>1
  <2> HIDE DEF Running
  <2> QED
    BY <1>3, <1>4, <2>1, LetterAdded
<1>8. Fits(s)'
  BY <1>2, <1>4 DEF Fits
<1>9. Stands(s, p, "compensating", "failed")'
  <2>1. Reads(s, p, "compensating", "failed")'
    <3>1. \A k \in 1 .. n : steps[s][k] = IF k < p THEN "completed"
                                          ELSE IF k = p THEN "completed"
                                          ELSE IF k <= m THEN "compensated"
                                          ELSE IF k = m + 1 THEN "failed"
                                          ELSE "pending"
      BY <1>1 DEF Stands, Reads
    <3>2. /\ Len(completed'[s]) = m /\ DOMAIN steps'[s] = 1 .. n
          /\ \A k \in 1 .. n : steps'[s][k] = IF k = p THEN "compensating" ELSE steps[s][k]
      BY <1>2, <1>4
    <3> HIDE DEF Running
    <3> QED
      BY <1>1, <3>1, <3>2 DEF Reads
  <2>2. InEffect(s, p)'
    BY <1>1, <1>2, <1>4 DEF Stands, InEffect
  <2> QED
    BY <2>1, <2>2 DEF Stands
<1>10. Placed(s)'
  <2>1. Len(completed'[s]) = m /\ Len(steps'[s]) = n /\ p \in 1 .. Len(completed'[s])
    BY <1>2, <1>4
  <2>2. \E j \in 1 .. Len(completed'[s]) : Stands(s, j, "compensating", "failed")'
    BY <1>9, <2>1
  <2> QED
    BY <1>1, <1>3, <1>5, <2>1, <2>2 DEF Placed
<1> QED
  BY <1>2, <1>3, <1>4, <1>5, <1>6, <1>7, <1>8, <1>10, RunKeeps

LEMMA RolledBackIInv ==
    ASSUME IInv, NEW s \in Sagas, NEW m \in Nat, NEW n \in Nat, Running(s, m, n),
           RolledBack
    PROVE  IInv'
<1> USE DEF Running
<1>1. /\ status[s] = "compensating" /\ m < n /\ Stands(s, 0, "completed", "failed")
  BY RunPlaced DEF RolledBack
<1>2. /\ status' \in [Sagas -> SagaStatuses] /\ status'[s] = "rolled_back"
      /\ \A t \in Sagas \ {s} : status'[t] = status[t]
  BY SetStatusFacts DEF RolledBack, SagaStatuses
<1>3. /\ run' = NoRun
      /\ steps' = steps /\ completed' = completed /\ deadletter' = deadletter
      /\ runs' = runs /\ effects' = effects /\ forgotten' = forgotten
  BY DEF RolledBack
<1>4. run' \in Runs /\ run'.saga = NoSaga /\ run'.saga # s
  BY <1>3, SagaAssumption DEF Runs, NoRun
<1>5. Typed'
  BY <1>2, <1>3, <1>4 DEF IInv, Typed, Runs, NoRun
<1>6. Letters'
  BY <1>1, <1>2, <1>3, LettersStay
<1>7. Fits(s)'
  BY <1>3 DEF Fits
<1>8. Stands(s, 0, "completed", "failed")'
  BY <1>1, <1>3 DEF Stands, Reads, InEffect
<1>9. Placed(s)'
  BY <1>1, <1>2, <1>3, <1>4, <1>8 DEF Placed
<1> QED
  BY <1>2, <1>3, <1>4, <1>5, <1>6, <1>7, <1>9, RunKeeps

---------------------------------------------------------------------------
(* The invariant is inductive. *)

LEMMA NextIInv ==
    ASSUME ~Reexecute, IInv, [Next]_vars
    PROVE  IInv'
<1>1. ASSUME RunStep
      PROVE  IInv'
  <2>1. run.at # "idle"
    BY <1>1 DEF RunStep, BeginStep, ActionSucceeds, ActionRaises, GiveUp, Finish,
                CompensationSucceeds, CompensationRaises, RolledBack
  <2>2. PICK s \in Sagas, m \in Nat, n \in Nat : Running(s, m, n)
    BY <2>1, RunFacts
  <2> QED
    BY <1>1, <2>2, BeginStepIInv, ActionSucceedsIInv, ActionRaisesIInv, GiveUpIInv,
       FinishIInv, CompensationSucceedsIInv, CompensationRaisesIInv, RolledBackIInv
       DEF RunStep
<1>2. ASSUME NEW s \in Sagas, Call(s)
      PROVE  IInv'
  BY <1>2, CreateIInv, AddStepIInv, ExecuteIInv, RetryIInv DEF Call
<1>3. ASSUME UNCHANGED vars
      PROVE  IInv'
  BY <1>3 DEF vars, IInv, Typed, Letters, Fits, Placed, Stands, Reads, InEffect
<1> QED
  BY <1>1, <1>2, <1>3 DEF Next

LEMMA SagaInvariant == ~Reexecute => (Spec => []IInv)
<1> SUFFICES ASSUME ~Reexecute
             PROVE  Spec => []IInv
  OBVIOUS
<1>1. Init => IInv
  BY InitIInv
<1>2. IInv /\ [Next]_vars => IInv'
  BY NextIInv
<1> QED
  BY <1>1, <1>2, PTL DEF Spec

---------------------------------------------------------------------------
(* What the invariant says of a saga at rest.                              *)

LEMMA ListOver ==
    ASSUME NEW A, NEW B, NEW q \in Seq(A), \A i \in 1 .. Len(q) : q[i] \in B
    PROVE  q \in Seq(B) /\ q \in [1 .. Len(q) -> B]
<1>1. Len(q) \in Nat /\ q \in [1 .. Len(q) -> A]
  BY LenProperties
<1>2. q \in [1 .. Len(q) -> B]
  BY <1>1
<1> QED
  BY <1>1, <1>2, SeqDef

LEMMA IsTyped ==
    ASSUME IInv
    PROVE  TypeOK
<1>1. ASSUME NEW s \in Sagas
      PROVE  /\ steps[s] \in Seq(StepStatuses) /\ Len(steps[s]) <= MaxSteps
             /\ completed[s] \in Seq(DOMAIN steps[s])
             /\ effects[s] \in [DOMAIN steps[s] -> Nat]
             /\ forgotten[s] \in [DOMAIN steps[s] -> Nat]
  <2>1. /\ steps[s] \in Seq(StepStatuses) /\ completed[s] \in Seq(Nat)
        /\ effects[s] \in Seq(Nat) /\ forgotten[s] \in Seq(Nat) /\ Fits(s)
    BY DEF IInv, Typed
  <2>2. DOMAIN steps[s] = 1 .. Len(steps[s])
    BY <2>1
  <2>3. \A i \in 1 .. Len(completed[s]) : completed[s][i] \in 1 .. Len(steps[s])
    <3>1. /\ Len(completed[s]) \in Nat /\ Len(steps[s]) \in Nat
          /\ Len(completed[s]) <= Len(steps[s])
      BY <2>1, LenProperties DEF Fits
    <3>2. \A i \in 1 .. Len(completed[s]) : completed[s][i] = i
      BY <2>1 DEF Fits
    <3> QED
      BY <3>1, <3>2
  <2>4. completed[s] \in Seq(DOMAIN steps[s])
    BY <2>1, <2>2, <2>3, ListOver
  <2>5. /\ effects[s] \in [1 .. Len(effects[s]) -> Nat]
        /\ forgotten[s] \in [1 .. Len(forgotten[s]) -> Nat]
    BY <2>1, LenProperties
  <2> QED
    BY <2>1, <2>2, <2>4, <2>5 DEF Fits
<1> QED
  BY <1>1 DEF IInv, Typed, Letters, TypeOK

(* Every way a saga stands is an order of its steps. *)
LEMMA IsInOrder ==
    ASSUME IInv
    PROVE  StepsInOrder
<1> DEFINE Rank == [completed |-> 1, compensating |-> 2, compensated |-> 3,
                    executing |-> 4, failed |-> 4, pending |-> 5]
           Follows(a, b) == \/ Rank[a] < Rank[b]
                            \/ a = b /\ Rank[a] \in {1, 3, 5}
<1>1. ASSUME NEW s \in Sagas, NEW j \in 0 .. Len(completed[s]),
             NEW at \in {"completed", "compensating"},
             NEW next \in {"pending", "executing", "failed"},
             Reads(s, j, at, next),
             NEW a \in DOMAIN steps[s], NEW b \in DOMAIN steps[s], a < b
      PROVE  Follows(steps[s][a], steps[s][b])
  <2>1. /\ Len(completed[s]) \in Nat /\ a \in Nat /\ b \in Nat
    BY ListsTyped DEF IInv
  <2> DEFINE Reading(k) == IF k < j THEN "completed"
                           ELSE IF k = j THEN at
                           ELSE IF k <= Len(completed[s]) THEN "compensated"
                           ELSE IF k = Len(completed[s]) + 1 THEN next
                           ELSE "pending"
  <2>2. steps[s][a] = Reading(a) /\ steps[s][b] = Reading(b)
    BY <1>1 DEF Reads
  <2>3. Follows(Reading(a), Reading(b))
    BY <1>1, <2>1
  <2> HIDE DEF Reading, Follows
  <2> QED
    BY <2>2, <2>3
<1>2. ASSUME NEW s \in Sagas
      PROVE  \E j \in 0 .. Len(completed[s]), at \in {"completed", "compensating"},
                next \in {"pending", "executing", "failed"} : Reads(s, j, at, next)
  <2>1. Placed(s) /\ Len(completed[s]) \in Nat
    BY ListsTyped DEF IInv
  <2> QED
    BY <2>1 DEF Placed, Stands
<1>3. \A s \in Sagas : \A a, b \in DOMAIN steps[s] :
        a < b => Follows(steps[s][a], steps[s][b])
  <2> HIDE DEF Follows
  <2> QED
    BY <1>1, <1>2
<1> QED
  BY <1>3 DEF StepsInOrder

(* How often a step is in a list of the first steps. *)
LEMMA TimesOfFirst ==
    ASSUME NEW q, NEW j \in Nat, DOMAIN q = 1 .. j, \A i \in 1 .. j : q[i] = i,
           NEW k \in Nat \ {0}
    PROVE  Times(q, k) = IF k <= j THEN 1 ELSE 0
<1>1. CASE k <= j
  <2>1. {i \in DOMAIN q : q[i] = k} = {k}
    BY <1>1
  <2> QED
    BY <1>1, <2>1, FS_Singleton DEF Times
<1>2. CASE ~(k <= j)
  <2>1. {i \in DOMAIN q : q[i] = k} = {}
    BY <1>2
  <2> QED
    BY <1>2, <2>1, FS_EmptySet DEF Times
<1> QED
  BY <1>1, <1>2

LEMMA IsTold ==
    ASSUME IInv
    PROVE  OutcomeTellsEffects
<1> SUFFICES ASSUME NEW s \in Sagas, AtRest(s)
             PROVE  LET Left(prefix) ==
                          \A k \in DOMAIN steps[s] :
                            effects[s][k] - forgotten[s][k] = Times(prefix, k)
                    IN /\ status[s] = "completed" => Left(completed[s])
                       /\ status[s] = "failed" =>
                            \E j \in 1 .. Len(completed[s]) :
                              /\ Left(SubSeq(completed[s], 1, j))
                              /\ steps[s][completed[s][j]] = "compensating"
                       /\ status[s] # "completed" /\ status[s] # "failed" => Left(<<>>)
  BY DEF OutcomeTellsEffects
<1> DEFINE Left(prefix) ==
             \A k \in DOMAIN steps[s] : effects[s][k] - forgotten[s][k] = Times(prefix, k)
           m == Len(completed[s])
<1>1. /\ Placed(s) /\ Fits(s) /\ completed[s] \in Seq(Nat)
      /\ m \in Nat /\ DOMAIN completed[s] = 1 .. m /\ m <= Len(steps[s])
      /\ DOMAIN steps[s] = 1 .. Len(steps[s]) /\ Len(steps[s]) \in Nat
      /\ \A i \in 1 .. m : completed[s][i] = i
      /\ \A k \in 1 .. Len(steps[s]) : effects[s][k] \in Nat /\ forgotten[s][k] \in Nat
  BY ListsTyped DEF IInv, Typed, Fits
<1>2. ASSUME NEW q, NEW j \in 0 .. m, DOMAIN q = 1 .. j, \A i \in 1 .. j : q[i] = i,
             InEffect(s, j)
      PROVE  Left(q)
  <2> TAKE k \in DOMAIN steps[s]
  <2>1. Times(q, k) = IF k <= j THEN 1 ELSE 0
    <3>1. k \in Nat \ {0} /\ j \in Nat
      BY <1>1
    <3>2. DOMAIN q = 1 .. j /\ \A i \in 1 .. j : q[i] = i
      BY <1>2
    <3> QED
      BY <3>1, <3>2, TimesOfFirst
  <2>2. effects[s][k] = forgotten[s][k] + (IF k <= j THEN 1 ELSE 0)
    BY <1>2 DEF InEffect
  <2> QED
    BY <1>1, <2>1, <2>2
<1>3. ASSUME status[s] = "completed"
      PROVE  Left(completed[s])
  <2>1. InEffect(s, m)
    BY <1>1, <1>3 DEF Placed, AtRest, Stands
  <2> HIDE DEF Left
  <2> QED
    BY <1>1, <1>2, <2>1
<1>4. ASSUME status[s] = "failed"
      PROVE  \E j \in 1 .. m : /\ Left(SubSeq(completed[s], 1, j))
                              /\ steps[s][completed[s][j]] = "compensating"
  <2>1. PICK j \in 1 .. m : Stands(s, j, "compensating", "failed")
    BY <1>1, <1>4 DEF Placed, AtRest
  <2> DEFINE q == SubSeq(completed[s], 1, j)
  <2>2. DOMAIN q = 1 .. j /\ \A i \in 1 .. j : q[i] = i
    BY <1>1
  <2>3. Left(q)
    <3>1. InEffect(s, j)
      BY <2>1 DEF Stands
    <3> HIDE DEF Left, q
    <3> QED
      BY <1>1, <1>2, <2>2, <3>1
  <2>4. steps[s][completed[s][j]] = "compensating"
    BY <1>1, <2>1 DEF Stands, Reads
  <2> HIDE DEF Left
  <2> QED
    BY <2>3, <2>4
<1>5. ASSUME status[s] # "completed", status[s] # "failed"
      PROVE  Left(<<>>)
  <2>1. InEffect(s, 0)
    BY <1>1, <1>5 DEF Placed, AtRest, Stands
  <2>2. DOMAIN <<>> = 1 .. 0
    OBVIOUS
  <2> HIDE DEF Left
  <2> QED
    BY <1>1, <1>2, <2>1, <2>2
<1> QED
  BY <1>3, <1>4, <1>5

LEMMA IsListed ==
    ASSUME IInv
    PROVE  DeadletterIsFailed
BY DEF IInv, Letters, In, NoDup, DeadletterIsFailed

---------------------------------------------------------------------------

(* The orchestrator never leaves a status, a step, a list or a run the     *)
(* code cannot give it (execute, retry_saga, _execute_step, _compensate).  *)
THEOREM TypeCorrect == ~Reexecute => (Spec => []TypeOK)
<1> SUFFICES ASSUME ~Reexecute
             PROVE  Spec => []TypeOK
  OBVIOUS
<1>1. Spec => []IInv
  BY SagaInvariant
<1> QED
  BY <1>1, IsTyped, PTL

(* A run stops at its first failure and compensates strictly backwards,    *)
(* stopping at the first compensation that fails (execute, _compensate).   *)
THEOREM FailureStopsTheRun == ~Reexecute => (Spec => []StepsInOrder)
<1> SUFFICES ASSUME ~Reexecute
             PROVE  Spec => []StepsInOrder
  OBVIOUS
<1>1. Spec => []IInv
  BY SagaInvariant
<1> QED
  BY <1>1, IsInOrder, PTL

(* The status a run leaves says which of its effects it leaves: all if it  *)
(* completed, none if it rolled back, and those up to the step whose       *)
(* compensation failed if it failed (execute, _compensate).                *)
THEOREM StatusTellsEffects == ~Reexecute => (Spec => []OutcomeTellsEffects)
<1> SUFFICES ASSUME ~Reexecute
             PROVE  Spec => []OutcomeTellsEffects
  OBVIOUS
<1>1. Spec => []IInv
  BY SagaInvariant
<1> QED
  BY <1>1, IsTold, PTL

(* Between calls the dead letter list is the failed sagas, each once       *)
(* (_compensate, retry_saga, get_failed_sagas).                            *)
THEOREM LettersAreFailures == ~Reexecute => (Spec => []DeadletterIsFailed)
<1> SUFFICES ASSUME ~Reexecute
             PROVE  Spec => []DeadletterIsFailed
  OBVIOUS
<1>1. Spec => []IInv
  BY SagaInvariant
<1> QED
  BY <1>1, IsListed, PTL

---------------------------------------------------------------------------
(* Rolling back when no run begins on top of an earlier one's effects.     *)

(* No run begins with effects of an earlier one.                           *)
Clean == \A s \in Sagas : \A k \in 1 .. Len(forgotten[s]) : forgotten[s][k] = 0

(* A saga is run again only when it was rolled back.                       *)
RunsAfterRollback ==
  \A s \in Sagas : runs'[s] # runs[s] => status[s] \in {"pending", "rolled_back"}

LEMMA BeginsClean ==
    ASSUME IInv, Clean, run = NoRun, NEW s \in Sagas, Begin(s), RunsAfterRollback
    PROVE  Clean'
<1>1. /\ forgotten'[s] = effects[s]
      /\ \A t \in Sagas \ {s} : forgotten'[t] = forgotten[t]
  BY BeginFacts
<1>2. status[s] \in {"pending", "rolled_back"}
  <2>1. runs' = [runs EXCEPT ![s] = @ + 1] /\ runs \in [Sagas -> 0 .. MaxRuns]
    BY DEF Begin, IInv, Typed
  <2>2. runs[s] \in 0 .. MaxRuns /\ runs'[s] = runs[s] + 1
    BY <2>1
  <2>3. runs'[s] # runs[s]
    BY <2>2, SagaAssumption
  <2> QED
    BY <2>3 DEF RunsAfterRollback
<1>3. InEffect(s, 0)
  <2>1. Placed(s) /\ run.saga # s
    BY AtRestFacts DEF IInv
  <2> QED
    BY <1>2, <2>1 DEF Placed, Stands
<1>4. ASSUME NEW k \in 1 .. Len(effects[s])
      PROVE  effects[s][k] = 0
  <2>1. k \in DOMAIN steps[s] /\ k \in 1 .. Len(forgotten[s]) /\ k \in Nat /\ ~(k <= 0)
    BY <1>4, ListsTyped DEF IInv, Fits
  <2>2. forgotten[s][k] = 0
    BY <2>1 DEF Clean
  <2> QED
    BY <1>3, <2>1, <2>2 DEF InEffect
<1>5. \A k \in 1 .. Len(forgotten'[s]) : forgotten'[s][k] = 0
  BY <1>1, <1>4
<1>6. \A t \in Sagas \ {s} : \A k \in 1 .. Len(forgotten'[t]) : forgotten'[t][k] = 0
  BY <1>1 DEF Clean
<1> QED
  BY <1>5, <1>6 DEF Clean

LEMMA AddsClean ==
    ASSUME IInv, Clean, NEW s \in Sagas, AddStep(s)
    PROVE  Clean'
<1> DEFINE n == Len(forgotten[s])
<1>1. /\ forgotten \in [Sagas -> Seq(Nat)] /\ 0 \in Nat /\ n \in Nat
      /\ forgotten' = [forgotten EXCEPT ![s] = Append(forgotten[s], 0)]
  BY ListsTyped DEF AddStep, IInv, Typed
<1>2. /\ \A t \in Sagas \ {s} : forgotten'[t] = forgotten[t]
      /\ Len(forgotten'[s]) = n + 1
      /\ \A i \in 1 .. n : forgotten'[s][i] = forgotten[s][i]
      /\ forgotten'[s][n + 1] = 0
  BY <1>1, AppendOne
<1>3. \A k \in 1 .. n + 1 : k \in 1 .. n \/ k = n + 1
  <2> HIDE DEF n
  <2> QED
    BY <1>1
<1>4. \A k \in 1 .. Len(forgotten'[s]) : forgotten'[s][k] = 0
  BY <1>2, <1>3 DEF Clean
<1>5. \A t \in Sagas \ {s} : \A k \in 1 .. Len(forgotten'[t]) : forgotten'[t][k] = 0
  BY <1>2 DEF Clean
<1> QED
  BY <1>4, <1>5 DEF Clean

LEMMA StaysClean ==
    ASSUME IInv, Clean, [Next]_vars, [RunsAfterRollback]_vars
    PROVE  Clean'
<1>1. ASSUME forgotten' = forgotten
      PROVE  Clean'
  BY <1>1 DEF Clean
<1>2. CASE RunStep
  BY <1>1, <1>2 DEF RunStep, BeginStep, ActionSucceeds, ActionRaises, GiveUp, Finish,
     CompensationSucceeds, CompensationRaises, RolledBack
<1>3. ASSUME NEW s \in Sagas, CreateSaga(s)
      PROVE  Clean'
  BY <1>1, <1>3 DEF CreateSaga
<1>4. ASSUME NEW s \in Sagas, AddStep(s)
      PROVE  Clean'
  BY <1>4, AddsClean
<1>5. ASSUME NEW s \in Sagas, Execute(s) \/ RetrySaga(s)
      PROVE  Clean'
  <2>1. run = NoRun /\ Begin(s)
    BY <1>5 DEF Execute, RetrySaga
  <2>2. runs' # runs
    <3>1. runs' = [runs EXCEPT ![s] = @ + 1] /\ runs \in [Sagas -> 0 .. MaxRuns]
      BY <2>1 DEF Begin, IInv, Typed
    <3>2. runs[s] \in 0 .. MaxRuns /\ runs'[s] = runs[s] + 1
      BY <3>1
    <3> QED
      BY <3>2, SagaAssumption
  <2>3. RunsAfterRollback
    BY <2>2 DEF vars
  <2> QED
    BY <2>1, <2>3, BeginsClean
<1>6. CASE UNCHANGED vars
  BY <1>1, <1>6 DEF vars
<1> QED
  BY <1>2, <1>3, <1>4, <1>5, <1>6 DEF Next, Call

(* "Execute compensation for all completed steps" (saga_pattern.py:238): a *)
(* rolled-back saga has no step in effect, however often sagas are rerun,  *)
(* as long as retry_saga is not called on one that completed or failed.    *)
(* Without that condition the run saga_retry shows it does not hold:       *)
(* retry_saga (saga_pattern.py:275) forgets what such a saga left done.    *)
THEOREM RollbackUndoesAll ==
  ~Reexecute => (Spec /\ [][RunsAfterRollback]_vars => []RolledBackMeansUndone)
<1> SUFFICES ASSUME ~Reexecute
             PROVE  Spec /\ [][RunsAfterRollback]_vars => []RolledBackMeansUndone
  OBVIOUS
<1>1. Spec => []IInv
  BY SagaInvariant
<1>2. Init => Clean
  BY DEF Init, Clean
<1>3. IInv /\ Clean /\ [Next]_vars /\ [RunsAfterRollback]_vars => Clean'
  BY StaysClean
<1>4. IInv /\ Clean => RolledBackMeansUndone
  <2> SUFFICES ASSUME IInv, Clean, NEW s \in Sagas, AtRest(s), status[s] = "rolled_back",
                      NEW k \in DOMAIN steps[s]
               PROVE  effects[s][k] = 0
    BY DEF RolledBackMeansUndone
  <2>1. InEffect(s, 0)
    BY DEF IInv, Placed, Stands, AtRest
  <2>2. k \in 1 .. Len(forgotten[s]) /\ k \in Nat /\ ~(k <= 0)
    BY ListsTyped DEF IInv, Fits
  <2>3. forgotten[s][k] = 0
    BY <2>2 DEF Clean
  <2> QED
    BY <2>1, <2>2, <2>3 DEF InEffect
<1> QED
  BY <1>1, <1>2, <1>3, <1>4, PTL DEF Spec
=============================================================================
