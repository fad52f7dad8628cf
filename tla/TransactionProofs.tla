-------------------------- MODULE TransactionProofs --------------------------
(***************************************************************************)
(* Proofs about the transaction system, for any number of accounts,        *)
(* transactions, contexts and any queue bound.                             *)
(*                                                                         *)
(* The first part is about the worker, the client and the status tables.   *)
(* The second is about the Ledger the system implements, and about the     *)
(* event log as a true record of it: the money held is the money the log   *)
(* tells of, the balances it records are right, and the trail of each      *)
(* transaction tells its outcome.  The third is about moving the money of  *)
(* a transaction once, through the queue and through the adapter.          *)
(***************************************************************************)
EXTENDS TransactionProperties, TransactionAdapter, SequenceTheorems, FiniteSetTheorems,
        WellFoundedInduction, TLAPS

LEMMA WalletsOfACall ==
  ASSUME TypeOK, NEW t \in Txs, HasAccounts(t)
  PROVE  /\ ctx[t].from \in Accounts
         /\ IsTransfer(t) => ctx[t].to \in Accounts
         /\ SourceWallet(t) \in Wallets
         /\ IsTransfer(t) => TargetWallet(t) \in Wallets
         /\ ctx[t].amount \in Nat
BY HandlerAssumption
   DEF TypeOK, HasAccounts, SourceWallet, TargetWallet, Wallets, Context, IsTransfer

LEMMA InitTyped == Init => TypeOK
<1> SUFFICES ASSUME Init PROVE TypeOK
  OBVIOUS
<1>1. funds \in [Wallets -> Int]
  BY HandlerAssumption DEF Init, HandlerInit
<1>2. call \in [Threads -> [at : Statements, tx : Txs \cup {NoTx}, source : Int, target : Int]]
  BY DEF Init, HandlerInit, NoCall, NewCall, Statements
<1>3. /\ log \in Seq([tx : Txs, kind : EventKinds, left : Int])
      /\ queue \in Seq(Txs) /\ Len(queue) <= MaxQueue
  BY CoordinatorAssumption DEF Init, HandlerInit, CoordinatorInit
<1> QED
  BY <1>1, <1>2, <1>3, HandlerAssumption
     DEF Init, HandlerInit, CoordinatorInit, TypeOK, States, ClientStatements,
         WorkerStatements

(* Recording an event keeps the log a sequence of events. *)
LEMMA RecordTyped ==
  ASSUME log \in Seq([tx : Txs, kind : EventKinds, left : Int]),
         NEW t \in Txs, NEW kind \in EventKinds, NEW left \in Int,
         Record(t, kind, left)
  PROVE  log' \in Seq([tx : Txs, kind : EventKinds, left : Int])
BY DEF Record, Event

(* What the worker holds in a handler is a transaction with a context. *)
LEMMA CallOfTheWorker ==
  ASSUME TypeOK, WorkerFits, CallFits, call[Worker].at # "idle"
  PROVE  /\ call[Worker].tx \in Txs
         /\ call[Worker].tx = worker.tx
         /\ ctx[call[Worker].tx] \in Contexts
         /\ ctx[call[Worker].tx].amount \in Nat
         /\ call[Worker].source \in Int
         /\ call[Worker].target \in Int
BY HandlerAssumption, CoordinatorAssumption
   DEF TypeOK, WorkerFits, CallFits, Context

LEMMA BumpTyped ==
  ASSUME NEW f \in [Accounts -> Nat], NEW x
  PROVE  [f EXCEPT ![x] = @ + 1] \in [Accounts -> Nat]
<1>1. CASE x \in Accounts
  BY <1>1
<1>2. CASE x \notin Accounts
  BY <1>2
<1> QED
  BY <1>1, <1>2

LEMMA HandlerTyped ==
  ASSUME TypeOK, WorkerFits, CallFits, HandlerStep(Worker)
  PROVE  /\ funds' \in [Wallets -> Int]
         /\ version' \in [Accounts -> Nat]
         /\ call' \in [Threads -> [at : Statements, tx : Txs \cup {NoTx},
                                   source : Int, target : Int]]
         /\ log' \in Seq([tx : Txs, kind : EventKinds, left : Int])
         /\ ctx' = ctx
<1> DEFINE c == call[Worker]
           t == c.tx
<1>0. /\ Worker \in Threads
      /\ call \in [Threads -> [at : Statements, tx : Txs \cup {NoTx}, source : Int, target : Int]]
      /\ funds \in [Wallets -> Int]
      /\ version \in [Accounts -> Nat]
      /\ log \in Seq([tx : Txs, kind : EventKinds, left : Int])
  BY CoordinatorAssumption DEF TypeOK
<1>1. CASE ReadSource(Worker)
  <2>1. t \in Txs /\ HasAccounts(t)
    BY <1>1, CallOfTheWorker DEF ReadSource, CallFits
  <2>2. funds[SourceWallet(t)] \in Int
    BY <2>1, <1>0, WalletsOfACall
  <2> QED
    BY <1>0, <1>1, <2>1, <2>2 DEF ReadSource, AfterCheck, Statements
<1>2. CASE ReadTarget(Worker)
  <2>1. t \in Txs /\ HasAccounts(t) /\ IsTransfer(t)
    BY <1>2, CallOfTheWorker DEF ReadTarget, CallFits
  <2>2. funds[TargetWallet(t)] \in Int
    BY <2>1, <1>0, WalletsOfACall
  <2> QED
    BY <1>0, <1>2, <2>1, <2>2 DEF ReadTarget, AfterCheck, Statements
<1>3. CASE WriteSource(Worker)
  <2>1. NewSource(Worker) \in Int
    BY <1>3, CallOfTheWorker DEF WriteSource, NewSource
  <2> QED
    BY <1>0, <1>3, <2>1 DEF WriteSource, Goto, Statements
<1>4. CASE WriteTarget(Worker)
  <2>1. NewTarget(Worker) \in Int
    BY <1>4, CallOfTheWorker DEF WriteTarget, NewTarget
  <2> QED
    BY <1>0, <1>4, <2>1 DEF WriteTarget, Goto, Statements
<1>5. CASE BumpVersion(Worker)
  <2>1. call' \in [Threads -> [at : Statements, tx : Txs \cup {NoTx}, source : Int, target : Int]]
    BY <1>0, <1>5 DEF BumpVersion, Goto, Statements
  <2> DEFINE bumped == [version EXCEPT ![ctx[t].from] = @ + 1]
  <2>2. version' \in [Accounts -> Nat]
    <3>1. bumped \in [Accounts -> Nat]
      BY <1>0, BumpTyped
    <3>2. version' \in {bumped, [bumped EXCEPT ![ctx[t].to] = @ + 1]}
      BY <1>5 DEF BumpVersion
    <3> HIDE DEF bumped
    <3> QED
      BY <3>1, <3>2, BumpTyped
  <2> QED
    BY <1>0, <1>5, <2>1, <2>2 DEF BumpVersion
<1>6. CASE RecordSource(Worker)
  <2>1. t \in Txs /\ NewSource(Worker) \in Int
    BY <1>6, CallOfTheWorker DEF RecordSource, NewSource
  <2>2. call' \in [Threads -> [at : Statements, tx : Txs \cup {NoTx}, source : Int, target : Int]]
    BY <1>0, <1>6 DEF RecordSource, Goto, Statements
  <2>3. SourceEvent[ctx[t].kind] \in EventKinds
    <3>1. PICK k : k = ctx[t].kind
      OBVIOUS
    <3>2. k \in Kinds
      BY <1>6, <3>1 DEF RecordSource, CallFits
    <3> QED
      BY <3>1, <3>2 DEF Kinds, SourceEvent, EventKinds
  <2> DEFINE kind == SourceEvent[ctx[t].kind]
             left == IF kind = "DEBIT" THEN NewSource(Worker) ELSE 0
  <2>4. log' \in Seq([tx : Txs, kind : EventKinds, left : Int])
    <3>1. Record(t, kind, left)
      BY <1>6 DEF RecordSource
    <3>2. left \in Int
      BY <2>1
    <3> HIDE DEF kind, left
    <3> QED
      BY <1>0, <2>1, <2>3, <3>1, <3>2, RecordTyped DEF kind
  <2> QED
    BY <1>0, <1>6, <2>2, <2>4 DEF RecordSource
<1>7. CASE RecordTarget(Worker)
  <2>1. t \in Txs /\ NewTarget(Worker) \in Int
    BY <1>7, CallOfTheWorker DEF RecordTarget, NewTarget
  <2>2. call' \in [Threads -> [at : Statements, tx : Txs \cup {NoTx}, source : Int, target : Int]]
    BY <1>0, <1>7 DEF RecordTarget, Goto, Statements
  <2>3. log' \in Seq([tx : Txs, kind : EventKinds, left : Int])
    BY <1>0, <1>7, <2>1, RecordTyped DEF RecordTarget, EventKinds
  <2> QED
    BY <1>0, <1>7, <2>2, <2>3 DEF RecordTarget
<1> QED
  BY <1>1, <1>2, <1>3, <1>4, <1>5, <1>6, <1>7 DEF HandlerStep

-----------------------------------------------------------------------------
(* Type correctness. *)

LEMMA CountTyped ==
  ASSUME NEW s \in [processed : Nat, completed : Nat, failed : Nat]
  PROVE  /\ [s EXCEPT !.failed = @ + 1] \in [processed : Nat, completed : Nat, failed : Nat]
         /\ [s EXCEPT !.completed = @ + 1, !.processed = @ + 1]
              \in [processed : Nat, completed : Nat, failed : Nat]
<1> /\ s.processed + 1 \in Nat
    /\ s.completed + 1 \in Nat
    /\ s.failed + 1 \in Nat
  OBVIOUS
<1> QED
  OBVIOUS

LEMMA StepTyped ==
  ASSUME TypeOK, WorkerFits, CallFits, [Next]_vars
  PROVE  TypeOK'
<1> DEFINE Log == Seq([tx : Txs, kind : EventKinds, left : Int])
           Call == [at : Statements, tx : Txs \cup {NoTx}, source : Int, target : Int]
           Held == [at : WorkerStatements, tx : Txs \cup {NoTx}]
<1>0. /\ Worker \in Threads /\ MaxQueue \in Nat
      /\ worker.at \notin {"none", "loop", "get"} => worker.tx \in Txs
  BY CoordinatorAssumption DEF TypeOK, WorkerFits
<1>c. /\ {"new", "put", "refused", "track", "submitted", "rejected"} = ClientStatements
      /\ {"pending", "processing", "completed", "failed"} = States
  BY DEF ClientStatements, States
<1>e. /\ log \in Log /\ 0 \in Int
      /\ {"initiated", "processing", "completed", "failed"} \subseteq EventKinds
  BY DEF TypeOK, EventKinds
<1>n. NoCall \in Call
  BY DEF NoCall, NewCall, Statements
<1>l. [at |-> "loop", tx |-> NoTx] \in Held
  BY DEF WorkerStatements
<1>1. ASSUME NEW t \in Txs, SubmitRecord(t) PROVE TypeOK'
  <2>1. log' \in Log
    BY <1>e, <1>1, RecordTyped DEF SubmitRecord
  <2> QED
    BY <1>1, <1>c, <2>1 DEF SubmitRecord, SubmitGoto, TypeOK
<1>2. ASSUME NEW t \in Txs, SubmitPut(t) PROVE TypeOK'
  <2>1. queue' \in Seq(Txs) /\ Len(queue') <= MaxQueue
    BY <1>0, <1>2 DEF SubmitPut, HasRoom, TypeOK
  <2> QED
    BY <1>2, <1>c, <2>1 DEF SubmitPut, SubmitGoto, TypeOK, handlerVars
<1>3. ASSUME NEW t \in Txs, SubmitFull(t) PROVE TypeOK'
  BY <1>3, <1>c DEF SubmitFull, SubmitGoto, TypeOK, handlerVars
<1>4. ASSUME NEW t \in Txs, SubmitRefused(t) PROVE TypeOK'
  <2>1. log' \in Log
    BY <1>e, <1>4, RecordTyped DEF SubmitRefused
  <2> QED
    BY <1>4, <1>c, <2>1 DEF SubmitRefused, SubmitGoto, TypeOK
<1>5. ASSUME NEW t \in Txs, SubmitTrack(t) PROVE TypeOK'
  BY <1>5, <1>c DEF SubmitTrack, SubmitGoto, TypeOK, handlerVars
<1>6. CASE WorkerLoop
  BY <1>6 DEF WorkerLoop, TypeOK, WorkerStatements, handlerVars
<1>7. CASE WorkerGet
  <2>1. queue' \in Seq(Txs) /\ Len(queue') <= MaxQueue /\ Head(queue) \in Txs
    BY <1>0, <1>7 DEF WorkerGet, TypeOK
  <2> QED
    BY <1>7, <2>1 DEF WorkerGet, TypeOK, WorkerStatements, handlerVars
<1>8. CASE WorkerEmpty
  BY <1>8 DEF WorkerEmpty, WorkerGoto, TypeOK, WorkerStatements, handlerVars
<1>9. CASE WorkerMark
  BY <1>9, <1>c DEF WorkerMark, WorkerGoto, TypeOK, WorkerStatements, handlerVars
<1>10. CASE WorkerAnnounce
  <2>1. log' \in Log
    BY <1>0, <1>e, <1>10, RecordTyped DEF WorkerAnnounce
  <2> QED
    BY <1>10, <2>1 DEF WorkerAnnounce, WorkerGoto, TypeOK, WorkerStatements
<1>11. CASE WorkerDispatch
  <2>1. call' \in [Threads -> Call]
    <3>1. PICK first \in Statements :
            call' = [call EXCEPT ![Worker] = NewCall(first, worker.tx)]
      BY <1>11 DEF WorkerDispatch, CallHandler, Statements
    <3>2. NewCall(first, worker.tx) \in Call
      BY <1>0, <1>11 DEF WorkerDispatch, NewCall
    <3> QED
      BY <3>1, <3>2 DEF TypeOK
  <2> QED
    BY <1>11, <2>1 DEF WorkerDispatch, CallHandler, WorkerGoto, TypeOK, WorkerStatements
<1>12. CASE WorkerNoHandler
  BY <1>12, <1>c DEF WorkerNoHandler, WorkerGoto, TypeOK, WorkerStatements, handlerVars
<1>13. CASE WorkerHandles
  BY <1>13, HandlerTyped DEF WorkerHandles, TypeOK, coordinatorVars
<1>14. CASE WorkerReturned
  <2>1. call' \in [Threads -> Call]
    BY <1>n, <1>14 DEF WorkerReturned, TypeOK
  <2> QED
    BY <1>14, <1>c, <2>1 DEF WorkerReturned, WorkerGoto, TypeOK, WorkerStatements
<1>15. CASE WorkerRaised
  <2>1. call' \in [Threads -> Call]
    BY <1>n, <1>15 DEF WorkerRaised, TypeOK
  <2> QED
    BY <1>15, <1>c, <2>1 DEF WorkerRaised, WorkerGoto, TypeOK, WorkerStatements
<1>16. CASE WorkerRecordCompletion
  <2>1. log' \in Log
    BY <1>0, <1>e, <1>16, RecordTyped DEF WorkerRecordCompletion
  <2> QED
    BY <1>16, <2>1 DEF WorkerRecordCompletion, WorkerGoto, TypeOK, WorkerStatements
<1>17. CASE WorkerMove
  BY <1>0, <1>17 DEF WorkerMove, WorkerGoto, TypeOK, WorkerStatements, handlerVars
<1>18. CASE WorkerCount
  <2>1. stats' \in [processed : Nat, completed : Nat, failed : Nat]
    BY <1>18, CountTyped DEF WorkerCount, TypeOK
  <2> QED
    BY <1>18, <1>l, <2>1 DEF WorkerCount, TypeOK, handlerVars
<1>19. CASE WorkerRecordFailure
  <2>1. log' \in Log
    BY <1>0, <1>e, <1>19, RecordTyped DEF WorkerRecordFailure
  <2> QED
    <3>1. stats' \in [processed : Nat, completed : Nat, failed : Nat]
      BY <1>19, CountTyped DEF WorkerRecordFailure, TypeOK
    <3>2. worker' \in Held
      BY <1>19 DEF WorkerRecordFailure, WorkerGoto, TypeOK, WorkerStatements
    <3> QED
      BY <1>19, <2>1, <3>1, <3>2 DEF WorkerRecordFailure, TypeOK
<1>20. CASE WorkerRecordAgain
  <2>1. log' \in Log
    BY <1>0, <1>e, <1>20, RecordTyped DEF WorkerRecordAgain
  <2> QED
    BY <1>20, <1>c, <2>1 DEF WorkerRecordAgain, TypeOK, WorkerStatements
<1>21. CASE StartProcessing
  <2>1. worker' \in Held /\ stop' \in BOOLEAN
    BY <1>21, <1>l DEF StartProcessing, TypeOK
  <2> QED
    BY <1>21, <2>1 DEF StartProcessing, TypeOK, handlerVars
<1>22. CASE StopProcessing
  BY <1>22 DEF StopProcessing, TypeOK, handlerVars
<1>23. CASE RegisterHandlers
  BY <1>23 DEF RegisterHandlers, TypeOK, handlerVars
<1>24. CASE UNCHANGED vars
  BY <1>24 DEF vars, handlerVars, coordinatorVars, TypeOK
<1> QED
  BY <1>1, <1>2, <1>3, <1>4, <1>5, <1>6, <1>7, <1>8, <1>9, <1>10, <1>11, <1>12, <1>13,
     <1>14, <1>15, <1>16, <1>17, <1>18, <1>19, <1>20, <1>21, <1>22, <1>23, <1>24
     DEF Next, Submit, WorkerStep, ControlStep

-----------------------------------------------------------------------------
(* Where transactions are: WorkerFits, ClientFits and HeldOnce together.   *)

LEMMA PlacesInit == Init => WorkerFits /\ ClientFits /\ HeldOnce
BY HandlerAssumption
   DEF Init, CoordinatorInit, WorkerFits, ClientFits, HeldOnce, Queued, Accepted, Decided

LEMMA PlacesStep ==
  ASSUME TypeOK, WorkerFits, ClientFits, HeldOnce, CallFits, [Next]_vars
  PROVE  WorkerFits' /\ ClientFits' /\ HeldOnce'
<1> DEFINE Goal == WorkerFits' /\ ClientFits' /\ HeldOnce'
<1> USE DEF Queued, Accepted, Decided
<1>0. /\ queue \in Seq(Txs)
      /\ state \in [Txs -> States]
      /\ client \in [Txs -> ClientStatements]
      /\ worker \in [at : WorkerStatements, tx : Txs \cup {NoTx}]
      /\ NoTx \notin Txs
  BY HandlerAssumption DEF TypeOK
<1>1. ASSUME NEW t \in Txs, SubmitRecord(t) PROVE Goal
  BY <1>0, <1>1 DEF SubmitRecord, SubmitGoto, WorkerFits, ClientFits, HeldOnce
<1>2. ASSUME NEW t \in Txs, SubmitPut(t) PROVE Goal
  <2>1. WorkerFits'
    BY <1>0, <1>2 DEF SubmitPut, WorkerFits
  <2>2. ClientFits'
    BY <1>0, <1>2 DEF SubmitPut, SubmitGoto, ClientFits
  <2>3. HeldOnce'
    BY <1>0, <1>2 DEF SubmitPut, SubmitGoto, WorkerFits, ClientFits, HeldOnce, handlerVars
  <2> QED
    BY <2>1, <2>2, <2>3
<1>3. ASSUME NEW t \in Txs, SubmitFull(t) PROVE Goal
  BY <1>0, <1>3 DEF SubmitFull, SubmitGoto, WorkerFits, ClientFits, HeldOnce, handlerVars
<1>4. ASSUME NEW t \in Txs, SubmitRefused(t) PROVE Goal
  BY <1>0, <1>4 DEF SubmitRefused, SubmitGoto, WorkerFits, ClientFits, HeldOnce
<1>5. ASSUME NEW t \in Txs, SubmitTrack(t) PROVE Goal
  BY <1>0, <1>5 DEF SubmitTrack, SubmitGoto, WorkerFits, ClientFits, HeldOnce, handlerVars
<1>6. CASE WorkerLoop
  BY <1>0, <1>6 DEF WorkerLoop, WorkerFits, ClientFits, HeldOnce, handlerVars
<1>7. CASE WorkerGet
  <2>1. /\ Len(queue) \in Nat \ {0}
        /\ DOMAIN queue = 1 .. Len(queue)
        /\ DOMAIN queue' = 1 .. Len(queue) - 1
        /\ \A i \in 1 .. Len(queue) - 1 : queue'[i] = queue[i + 1]
        /\ Head(queue) = queue[1]
        /\ Head(queue) \in Txs
    BY <1>0, <1>7 DEF WorkerGet
  <2>u. \A i, j \in 1 .. Len(queue) : queue[i] = queue[j] => i = j
    BY <2>1 DEF HeldOnce
  <2>2. \A t \in Txs : Queued(t)' <=> Queued(t) /\ t # Head(queue)
    <3> TAKE t \in Txs
    <3>1. Queued(t)' => Queued(t) /\ t # Head(queue)
      BY <2>1, <2>u
    <3>2. ASSUME Queued(t), t # Head(queue) PROVE Queued(t)'
      <4>1. PICK i \in 1 .. Len(queue) : queue[i] = t
        BY <2>1, <3>2
      <4>2. i - 1 \in 1 .. Len(queue) - 1 /\ queue'[i - 1] = t
        BY <2>1, <3>2, <4>1
      <4> QED
        BY <2>1, <4>2
    <3> QED
      BY <3>1, <3>2
  <2>3. HeldOnce'
    <3>1. \A i, j \in DOMAIN queue' : queue'[i] = queue'[j] => i = j
      BY <2>1, <2>u
    <3>2. worker.tx = NoTx /\ worker'.tx = Head(queue) /\ client' = client /\ state' = state
      BY <1>7 DEF WorkerGet, WorkerFits
    <3>3. Queued(Head(queue))
      BY <2>1
    <3> HIDE DEF Queued
    <3> QED
      BY <1>0, <2>1, <2>2, <3>1, <3>2, <3>3 DEF HeldOnce
  <2>4. Queued(Head(queue))
    BY <2>1
  <2>5. WorkerFits' /\ ClientFits'
    BY <1>0, <1>7, <2>1, <2>2, <2>4 DEF WorkerGet, WorkerFits, ClientFits
  <2> QED
    BY <2>3, <2>5
<1>8. CASE WorkerEmpty
  BY <1>0, <1>8 DEF WorkerEmpty, WorkerGoto, WorkerFits, ClientFits, HeldOnce, handlerVars
<1>9. CASE WorkerMark
  BY <1>0, <1>9 DEF WorkerMark, WorkerGoto, WorkerFits, ClientFits, HeldOnce, handlerVars
<1>10. CASE WorkerAnnounce
  BY <1>0, <1>10 DEF WorkerAnnounce, WorkerGoto, WorkerFits, ClientFits, HeldOnce
<1>11. CASE WorkerDispatch
  BY <1>0, <1>11 DEF WorkerDispatch, CallHandler, WorkerGoto, WorkerFits, ClientFits, HeldOnce
<1>12. CASE WorkerNoHandler
  BY <1>0, <1>12 DEF WorkerNoHandler, WorkerGoto, WorkerFits, ClientFits, HeldOnce, handlerVars
<1>13. CASE WorkerHandles
  BY <1>0, <1>13 DEF WorkerHandles, coordinatorVars, WorkerFits, ClientFits, HeldOnce
<1>14. CASE WorkerReturned
  BY <1>0, <1>14 DEF WorkerReturned, WorkerGoto, WorkerFits, ClientFits, HeldOnce
<1>15. CASE WorkerRaised
  BY <1>0, <1>15 DEF WorkerRaised, WorkerGoto, WorkerFits, ClientFits, HeldOnce
<1>16. CASE WorkerRecordCompletion
  BY <1>0, <1>16 DEF WorkerRecordCompletion, WorkerGoto, WorkerFits, ClientFits, HeldOnce
<1>17. CASE WorkerMove
  BY <1>0, <1>17 DEF WorkerMove, WorkerGoto, WorkerFits, ClientFits, HeldOnce, handlerVars
<1>18. CASE WorkerCount
  BY <1>0, <1>18 DEF WorkerCount, WorkerFits, ClientFits, HeldOnce, handlerVars
<1>19. CASE WorkerRecordFailure
  BY <1>0, <1>19 DEF WorkerRecordFailure, WorkerGoto, WorkerFits, ClientFits, HeldOnce
<1>20. CASE WorkerRecordAgain
  BY <1>0, <1>20 DEF WorkerRecordAgain, WorkerFits, ClientFits, HeldOnce
<1>21. CASE StartProcessing
  BY <1>0, <1>21 DEF StartProcessing, WorkerFits, ClientFits, HeldOnce, handlerVars
<1>22. CASE StopProcessing
  BY <1>0, <1>22 DEF StopProcessing, WorkerFits, ClientFits, HeldOnce, handlerVars
<1>23. CASE RegisterHandlers
  BY <1>0, <1>23 DEF RegisterHandlers, WorkerFits, ClientFits, HeldOnce, handlerVars
<1>24. CASE UNCHANGED vars
  BY <1>24 DEF vars, handlerVars, coordinatorVars, WorkerFits, ClientFits, HeldOnce
<1> QED
  BY <1>1, <1>2, <1>3, <1>4, <1>5, <1>6, <1>7, <1>8, <1>9, <1>10, <1>11, <1>12, <1>13,
     <1>14, <1>15, <1>16, <1>17, <1>18, <1>19, <1>20, <1>21, <1>22, <1>23, <1>24
     DEF Next, Submit, WorkerStep, ControlStep

-----------------------------------------------------------------------------
(* Money.  Only five kinds of step touch the worker's call; in every other *)
(* the call, the contexts and the funds stay.                              *)

Elsewhere ==
  /\ UNCHANGED <<ctx, funds, call>>
  /\ worker.at = "handling" <=> worker'.at = "handling"
  /\ worker.at = "handling" => worker' = worker

LEMMA NextCases ==
  ASSUME TypeOK, [Next]_vars
  PROVE  Elsewhere \/ WorkerDispatch \/ WorkerHandles \/ WorkerReturned \/ WorkerRaised
<1> worker \in [at : WorkerStatements, tx : Txs \cup {NoTx}]
  BY DEF TypeOK
<1>1. ASSUME NEW t \in Txs, Submit(t) PROVE Elsewhere
  BY <1>1 DEF Submit, SubmitRecord, SubmitPut, SubmitFull, SubmitRefused, SubmitTrack,
              Elsewhere, handlerVars
<1>2. ASSUME WorkerLoop \/ WorkerGet \/ WorkerEmpty \/ WorkerMark \/ WorkerNoHandler
             \/ WorkerMove \/ WorkerCount
      PROVE  Elsewhere
  BY <1>2 DEF WorkerLoop, WorkerGet, WorkerEmpty, WorkerMark, WorkerNoHandler, WorkerMove,
              WorkerCount, WorkerGoto, Elsewhere, handlerVars
<1>3. ASSUME WorkerAnnounce \/ WorkerRecordCompletion \/ WorkerRecordFailure
             \/ WorkerRecordAgain
      PROVE  Elsewhere
  BY <1>3 DEF WorkerAnnounce, WorkerRecordCompletion, WorkerRecordFailure,
              WorkerRecordAgain, WorkerGoto, Elsewhere
<1>4. ASSUME ControlStep PROVE Elsewhere
  BY <1>4 DEF ControlStep, StartProcessing, StopProcessing, RegisterHandlers, Elsewhere,
              handlerVars
<1>5. ASSUME UNCHANGED vars PROVE Elsewhere
  BY <1>5 DEF vars, handlerVars, coordinatorVars, Elsewhere
<1> QED
  BY <1>1, <1>2, <1>3, <1>4, <1>5 DEF Next, WorkerStep

LEMMA CallInit == Init => CallFits /\ NoOverdraft /\ ReadsAreCurrent
BY HandlerAssumption, CoordinatorAssumption
   DEF Init, HandlerInit, CoordinatorInit, NoCall, NewCall, CallFits, NoOverdraft,
       ReadsAreCurrent

LEMMA CallFitsStep ==
  ASSUME TypeOK, WorkerFits, CallFits, [Next]_vars
  PROVE  CallFits'
<1>0. /\ Worker \in Threads
      /\ call \in [Threads -> [at : Statements, tx : Txs \cup {NoTx}, source : Int, target : Int]]
      /\ worker \in [at : WorkerStatements, tx : Txs \cup {NoTx}]
  BY CoordinatorAssumption DEF TypeOK
<1> USE DEF HasAccounts, IsTransfer
<1>1. CASE Elsewhere
  BY <1>0, <1>1 DEF Elsewhere, CallFits
<1>2. CASE WorkerDispatch
  BY <1>0, <1>2 DEF WorkerDispatch, CallHandler, NewCall, WorkerGoto, CallFits
<1>3. CASE WorkerReturned
  BY <1>0, <1>3 DEF WorkerReturned, NoCall, NewCall, WorkerGoto, CallFits
<1>4. CASE WorkerRaised
  BY <1>0, <1>4 DEF WorkerRaised, NoCall, NewCall, WorkerGoto, CallFits
<1>5. CASE WorkerHandles
  <2>0. worker' = worker /\ worker.at = "handling"
    BY <1>5 DEF WorkerHandles, coordinatorVars
  <2>1. CASE ReadSource(Worker)
    BY <1>0, <2>0, <2>1 DEF ReadSource, AfterCheck, CallFits
  <2>2. CASE ReadTarget(Worker)
    BY <1>0, <2>0, <2>2 DEF ReadTarget, AfterCheck, CallFits
  <2>3. CASE WriteSource(Worker)
    BY <1>0, <2>0, <2>3 DEF WriteSource, Goto, CallFits
  <2>4. CASE WriteTarget(Worker)
    BY <1>0, <2>0, <2>4 DEF WriteTarget, Goto, CallFits
  <2>5. CASE BumpVersion(Worker)
    BY <1>0, <2>0, <2>5 DEF BumpVersion, Goto, CallFits
  <2>6. CASE RecordSource(Worker)
    BY <1>0, <2>0, <2>6 DEF RecordSource, Goto, CallFits
  <2>7. CASE RecordTarget(Worker)
    BY <1>0, <2>0, <2>7 DEF RecordTarget, Goto, CallFits
  <2> QED
    BY <1>5, <2>1, <2>2, <2>3, <2>4, <2>5, <2>6, <2>7 DEF WorkerHandles, HandlerStep
<1> QED
  BY <1>1, <1>2, <1>3, <1>4, <1>5, NextCases

LEMMA MoneyStep ==
  ASSUME TypeOK, WorkerFits, CallFits, NoOverdraft, ReadsAreCurrent, [Next]_vars
  PROVE  NoOverdraft' /\ ReadsAreCurrent'
<1> DEFINE c == call[Worker]
           t == c.tx
           Goal == NoOverdraft' /\ ReadsAreCurrent'
<1>0. /\ Worker \in Threads
      /\ call \in [Threads -> [at : Statements, tx : Txs \cup {NoTx}, source : Int, target : Int]]
      /\ funds \in [Wallets -> Int]
  BY CoordinatorAssumption DEF TypeOK
<1>1. CASE Elsewhere
  BY <1>0, <1>1 DEF Elsewhere, SourceWallet, TargetWallet, IsTransfer, NoOverdraft, ReadsAreCurrent
<1>2. CASE WorkerDispatch
  BY <1>0, <1>2 DEF WorkerDispatch, CallHandler, NewCall, NoOverdraft, ReadsAreCurrent
<1>3. CASE WorkerReturned
  BY <1>0, <1>3 DEF WorkerReturned, NoCall, NewCall, NoOverdraft, ReadsAreCurrent
<1>4. CASE WorkerRaised
  BY <1>0, <1>4 DEF WorkerRaised, NoCall, NewCall, NoOverdraft, ReadsAreCurrent
<1>5. CASE WorkerHandles
  <2>1. CASE ReadSource(Worker)
    <3> DEFINE b == funds[SourceWallet(t)]
               next == IF IsTransfer(t) THEN "readTarget" ELSE AfterCheck(t, b)
    <3>1. SourceWallet(t) \in Wallets
      BY <2>1, CallOfTheWorker, WalletsOfACall DEF ReadSource, CallFits
    <3>2. /\ UNCHANGED <<ctx, funds>>
          /\ call'[Worker].tx = t
          /\ call'[Worker].source = b
          /\ call'[Worker].target = c.target
          /\ call'[Worker].at = next
      BY <1>0, <2>1 DEF ReadSource
    <3>3. b \in Int
      BY <1>0, <3>1
    <3>4. /\ next \in {"readTarget", "raised", "writeSource"}
          /\ next = "writeSource" => b >= ctx[t].amount /\ ~IsTransfer(t)
      BY <2>1, <3>3, CallOfTheWorker DEF ReadSource, AfterCheck
    <3> HIDE DEF next
    <3>5. NoOverdraft'
      BY <3>2, <3>4 DEF NoOverdraft
    <3>6. ReadsAreCurrent'
      BY <3>2, <3>4 DEF ReadsAreCurrent, SourceWallet, TargetWallet, IsTransfer
    <3> QED
      BY <3>5, <3>6
  <2>2. CASE ReadTarget(Worker)
    <3>1. TargetWallet(t) \in Wallets
      BY <2>2, CallOfTheWorker, WalletsOfACall DEF ReadTarget, CallFits
    <3>2. /\ UNCHANGED <<ctx, funds>>
          /\ call'[Worker].tx = t
          /\ call'[Worker].source = c.source
          /\ call'[Worker].target = funds[TargetWallet(t)]
          /\ call'[Worker].at = AfterCheck(t, c.source)
      BY <1>0, <2>2 DEF ReadTarget
    <3>3. funds[TargetWallet(t)] \in Int /\ funds[TargetWallet(t)] >= 0
      BY <1>0, <3>1 DEF NoOverdraft
    <3>4. /\ AfterCheck(t, c.source) \in {"raised", "writeSource"}
          /\ AfterCheck(t, c.source) = "writeSource" => c.source >= ctx[t].amount
      BY <2>2, CallOfTheWorker DEF ReadTarget, AfterCheck
    <3>5. NoOverdraft'
      BY <3>2, <3>3, <3>4 DEF NoOverdraft
    <3>6. ReadsAreCurrent'
      BY <2>2, <3>2, <3>4 DEF ReadTarget, ReadsAreCurrent, SourceWallet, TargetWallet
    <3> QED
      BY <3>5, <3>6
  <2>3. CASE WriteSource(Worker)
    <3>1. /\ SourceWallet(t) \in Wallets
          /\ IsTransfer(t) => TargetWallet(t) \in Wallets
      BY <2>3, CallOfTheWorker, WalletsOfACall DEF WriteSource, CallFits
    <3>2. /\ NewSource(Worker) \in Int /\ NewSource(Worker) >= 0
          /\ NewSource(Worker) = c.source - ctx[t].amount
      BY <2>3, CallOfTheWorker DEF WriteSource, NewSource, NoOverdraft
    <3>3. /\ funds' = [funds EXCEPT ![SourceWallet(t)] = NewSource(Worker)]
          /\ ctx' = ctx
          /\ call'[Worker] = [c EXCEPT !.at = IF IsTransfer(t) THEN "writeTarget" ELSE "version"]
      BY <1>0, <2>3 DEF WriteSource, Goto
    <3>4. /\ call'[Worker].tx = t
          /\ call'[Worker].source = c.source
          /\ call'[Worker].target = c.target
          /\ call'[Worker].at \in {"writeTarget", "version"}
          /\ call'[Worker].at = "writeTarget" => IsTransfer(t)
      BY <1>0, <3>3
    <3>5. /\ funds'[SourceWallet(t)] = c.source - ctx[t].amount
          /\ \A w \in Wallets \ {SourceWallet(t)} : funds'[w] = funds[w]
      BY <1>0, <3>1, <3>2, <3>3
    <3>6. SourceWallet(t)' = SourceWallet(t) /\ TargetWallet(t)' = TargetWallet(t)
      BY <3>3, <2>3, <1>0 DEF SourceWallet, TargetWallet, WriteSource, Goto
    <3>7. NoOverdraft'
      BY <3>2, <3>4, <3>5 DEF NoOverdraft
    <3>8. c.target = funds[TargetWallet(t)] \/ ~IsTransfer(t)
      BY <2>3 DEF WriteSource, ReadsAreCurrent
    <3>9. ReadsAreCurrent'
      BY <3>1, <3>3, <3>4, <3>5, <3>6, <3>8 DEF ReadsAreCurrent, SourceWallet, TargetWallet
    <3> QED
      BY <3>7, <3>9
  <2>4. CASE WriteTarget(Worker)
    <3>1. TargetWallet(t) \in Wallets
      BY <2>4, CallOfTheWorker, WalletsOfACall DEF WriteTarget, CallFits
    <3>2. NewTarget(Worker) \in Int /\ NewTarget(Worker) >= 0
      BY <2>4, CallOfTheWorker DEF WriteTarget, NewTarget, NoOverdraft
    <3>3. /\ funds' = [funds EXCEPT ![TargetWallet(t)] = NewTarget(Worker)]
          /\ call'[Worker].at = "version"
          /\ call'[Worker].target = c.target
      BY <1>0, <2>4 DEF WriteTarget, Goto
    <3>4. \A w \in Wallets : funds'[w] = funds[w] \/ funds'[w] = NewTarget(Worker)
      BY <1>0, <3>1, <3>3
    <3> QED
      BY <3>2, <3>3, <3>4 DEF NoOverdraft, ReadsAreCurrent
  <2>5. CASE BumpVersion(Worker)
    BY <1>0, <2>5 DEF BumpVersion, Goto, NoOverdraft, ReadsAreCurrent
  <2>6. CASE RecordSource(Worker)
    BY <1>0, <2>6 DEF RecordSource, Goto, NoOverdraft, ReadsAreCurrent
  <2>7. CASE RecordTarget(Worker)
    BY <1>0, <2>7 DEF RecordTarget, Goto, NoOverdraft, ReadsAreCurrent
  <2> QED
    BY <1>5, <2>1, <2>2, <2>3, <2>4, <2>5, <2>6, <2>7 DEF WorkerHandles, HandlerStep
<1> QED
  BY <1>1, <1>2, <1>3, <1>4, <1>5, NextCases

-----------------------------------------------------------------------------
(* The inductive invariant.  The typing of a handler's step rests on where *)
(* the worker and its call stand, the place of a transaction on the call   *)
(* and the balances on both, so the parts are inductive only together.     *)

IInv == /\ TypeOK
        /\ WorkerFits /\ ClientFits /\ HeldOnce
        /\ CallFits /\ NoOverdraft /\ ReadsAreCurrent

LEMMA Inductive == Spec => []IInv
<1>1. Init => IInv
  BY InitTyped, PlacesInit, CallInit DEF IInv
<1>2. IInv /\ [Next]_vars => IInv'
  BY StepTyped, PlacesStep, CallFitsStep, MoneyStep DEF IInv
<1> QED
  BY <1>1, <1>2, PTL DEF Spec

(* Every reachable state of the transaction system is one its Python       *)
(* variables can hold; in particular the queue never exceeds max_queue_size *)
(* (transaction_coordinator.py:189).                                       *)
THEOREM TypeCorrect == Spec => []TypeOK
<1>1. IInv => TypeOK
  BY DEF IInv
<1> QED
  BY <1>1, Inductive, PTL

(* A transaction submit_transaction accepted is in one place until it is   *)
(* decided: no transaction is lost between the queue and the worker, and   *)
(* none is processed twice.                                                *)
THEOREM NoneLostNoneTwice == Spec => []HeldOnce
<1>1. IInv => HeldOnce
  BY DEF IInv
<1> QED
  BY <1>1, Inductive, PTL

(* The overdraft checks of the handlers are effective when one worker runs *)
(* them: no wallet ever goes below zero.                                   *)
THEOREM OverdraftProtection == Spec => []NoOverdraft
<1>1. IInv => NoOverdraft
  BY DEF IInv
<1> QED
  BY <1>1, Inductive, PTL

(* What a handler has read is what the wallet holds when it writes: the    *)
(* read-compute-write of a handler is never interleaved with another's.    *)
THEOREM NoLostUpdate == Spec => []ReadsAreCurrent
<1>1. IInv => ReadsAreCurrent
  BY DEF IInv
<1> QED
  BY <1>1, Inductive, PTL

-----------------------------------------------------------------------------
(* The life of a context. *)

LEMMA StateStep ==
  ASSUME IInv, Next, NEW t \in Txs, state'[t] # state[t]
  PROVE  <<state[t], state'[t]>> \in
            {<<"pending", "processing">>, <<"pending", "failed">>,
             <<"processing", "completed">>, <<"processing", "failed">>}
<1>0. /\ state \in [Txs -> States]
      /\ WorkerFits /\ ClientFits
  BY DEF IInv, TypeOK
<1>1. ASSUME NEW u \in Txs, SubmitFull(u)
      PROVE  t = u /\ state[t] = "pending" /\ state'[t] = "failed"
  BY <1>0, <1>1 DEF SubmitFull, ClientFits
<1>2. ASSUME NEW u \in Txs, Submit(u), ~SubmitFull(u) PROVE FALSE
  BY <1>2 DEF Submit, SubmitRecord, SubmitPut, SubmitRefused, SubmitTrack
<1>3. CASE WorkerMark
  BY <1>0, <1>3 DEF WorkerMark, WorkerFits
<1>4. CASE WorkerReturned
  BY <1>0, <1>4 DEF WorkerReturned, WorkerFits
<1>5. CASE WorkerRaised \/ WorkerNoHandler
  BY <1>0, <1>5 DEF WorkerRaised, WorkerNoHandler, WorkerFits
<1>6. CASE WorkerRecordAgain
  BY <1>0, <1>6 DEF WorkerRecordAgain, WorkerFits
<1>7. ASSUME ControlStep PROVE FALSE
  BY <1>7 DEF ControlStep, StartProcessing, StopProcessing, RegisterHandlers
<1>8. ASSUME WorkerStep,
             ~WorkerMark, ~WorkerReturned, ~WorkerRaised, ~WorkerNoHandler, ~WorkerRecordAgain
      PROVE  FALSE
  BY <1>8 DEF WorkerStep, WorkerLoop, WorkerGet, WorkerEmpty, WorkerAnnounce,
              WorkerDispatch, WorkerHandles, WorkerRecordCompletion, WorkerMove,
              WorkerCount, WorkerRecordFailure, coordinatorVars
<1> QED
  BY <1>1, <1>2, <1>3, <1>4, <1>5, <1>6, <1>7, <1>8 DEF Next

(* No step moves a context backwards or out of a final state               *)
(* (transaction_coordinator.py:80-98).                                     *)
THEOREM LifeCycle == Spec => StateAdvances
<1>1. IInv /\ [Next]_vars =>
        [\A t \in Txs :
           state'[t] # state[t] =>
             <<state[t], state'[t]>> \in
                {<<"pending", "processing">>, <<"pending", "failed">>,
                 <<"processing", "completed">>, <<"processing", "failed">>}]_vars
  BY StateStep
<1> QED
  BY <1>1, Inductive, PTL DEF Spec, StateAdvances

-----------------------------------------------------------------------------
(* The tables of get_transaction_status. *)

LEMMA TablesStep ==
  ASSUME IInv, StatusIsFound, [Next]_vars
  PROVE  StatusIsFound'
<1>0. /\ state \in [Txs -> States]
      /\ client \in [Txs -> ClientStatements]
      /\ worker \in [at : WorkerStatements, tx : Txs \cup {NoTx}]
      /\ tracked \subseteq Txs /\ completed \subseteq Txs
      /\ NoTx \notin Txs
      /\ WorkerFits /\ ClientFits
  BY HandlerAssumption DEF IInv, TypeOK
<1>1. ASSUME NEW t \in Txs, SubmitTrack(t) PROVE StatusIsFound'
  BY <1>0, <1>1 DEF SubmitTrack, SubmitGoto, StatusIsFound
<1>2. ASSUME NEW t \in Txs, SubmitFull(t) PROVE StatusIsFound'
  BY <1>0, <1>2 DEF SubmitFull, SubmitGoto, ClientFits, StatusIsFound
<1>3. ASSUME NEW t \in Txs, SubmitRecord(t) \/ SubmitPut(t) \/ SubmitRefused(t)
      PROVE  StatusIsFound'
  BY <1>0, <1>3 DEF SubmitRecord, SubmitPut, SubmitRefused, SubmitGoto, StatusIsFound
<1>4. CASE WorkerMove
  BY <1>0, <1>4 DEF WorkerMove, WorkerGoto, WorkerFits, StatusIsFound
<1>5. CASE WorkerCount
  BY <1>0, <1>5 DEF WorkerCount, WorkerFits, StatusIsFound
<1>6. CASE WorkerMark \/ WorkerReturned \/ WorkerRaised \/ WorkerNoHandler
  BY <1>0, <1>6 DEF WorkerMark, WorkerReturned, WorkerRaised, WorkerNoHandler, WorkerGoto,
                    WorkerFits, StatusIsFound
<1>7. CASE WorkerRecordAgain
  BY <1>0, <1>7 DEF WorkerRecordAgain, WorkerFits, StatusIsFound
<1>8. CASE WorkerLoop \/ WorkerGet \/ WorkerEmpty
  BY <1>0, <1>8 DEF WorkerLoop, WorkerGet, WorkerEmpty, WorkerGoto, WorkerFits, StatusIsFound
<1>9. CASE WorkerAnnounce \/ WorkerDispatch \/ WorkerRecordCompletion \/ WorkerRecordFailure
  BY <1>0, <1>9 DEF WorkerAnnounce, WorkerDispatch, WorkerRecordCompletion,
                    WorkerRecordFailure, WorkerGoto, StatusIsFound
<1>10. CASE WorkerHandles \/ UNCHANGED vars
  BY <1>0, <1>10 DEF WorkerHandles, vars, coordinatorVars, StatusIsFound
<1>11. CASE ControlStep
  BY <1>0, <1>11 DEF ControlStep, StartProcessing, StopProcessing, RegisterHandlers,
                     WorkerFits, StatusIsFound
<1> QED
  BY <1>1, <1>2, <1>3, <1>4, <1>5, <1>6, <1>7, <1>8, <1>9, <1>10, <1>11
     DEF Next, Submit, WorkerStep

(* A caller that holds a transaction id submit_transaction returned never  *)
(* gets None for it, although the context may be tracked only after the    *)
(* worker has finished with it (transaction_coordinator.py:268, :392).     *)
THEOREM StatusFound == Spec => []StatusIsFound
<1>1. Init => StatusIsFound
  BY DEF Init, CoordinatorInit, StatusIsFound
<1> QED
  BY <1>1, TablesStep, Inductive, PTL DEF Spec

-----------------------------------------------------------------------------
(* The statistics.  Between two transactions they are exact; while the     *)
(* worker has one in hand they lag behind by what it has not counted yet.  *)

FailedByWorker == {t \in Txs : state[t] = "failed" /\ Accepted(t)}

Lag(S, at) == IF worker.at = at THEN Cardinality(S) - 1 ELSE Cardinality(S)

StatsFit ==
  /\ stats.processed = stats.completed
  /\ IsFiniteSet(completed) /\ stats.completed = Lag(completed, "count")
  /\ IsFiniteSet(FailedByWorker) /\ stats.failed = Lag(FailedByWorker, "recordFailure")
  /\ worker.at \in {"recordCompletion", "move"} => worker.tx \notin completed

LEMMA StatsInit == Init => StatsFit
<1> SUFFICES ASSUME Init
             PROVE  StatsFit
  OBVIOUS
<1>1. completed = {} /\ FailedByWorker = {} /\ worker.at = "none"
  BY DEF Init, CoordinatorInit, FailedByWorker
<1>2. stats.processed = 0 /\ stats.completed = 0 /\ stats.failed = 0
  BY DEF Init, CoordinatorInit
<1> QED
  BY <1>1, <1>2, FS_EmptySet DEF StatsFit, Lag

(* A step that changes neither table nor count. *)
LEMMA StatsStay ==
  ASSUME StatsFit, UNCHANGED <<stats, completed>>, FailedByWorker' = FailedByWorker,
         worker.at = "count" <=> worker'.at = "count",
         worker.at = "recordFailure" <=> worker'.at = "recordFailure",
         worker'.at \in {"recordCompletion", "move"} => worker'.tx \notin completed
  PROVE  StatsFit'
BY DEF StatsFit, Lag

LEMMA StatsStep ==
  ASSUME IInv, StatusIsFound, StatsFit, [Next]_vars
  PROVE  StatsFit'
<1>0. /\ state \in [Txs -> States]
      /\ client \in [Txs -> ClientStatements]
      /\ worker \in [at : WorkerStatements, tx : Txs \cup {NoTx}]
      /\ stats \in [processed : Nat, completed : Nat, failed : Nat]
      /\ WorkerFits /\ ClientFits /\ HeldOnce
      /\ worker.tx \in Txs => Accepted(worker.tx)
  BY HandlerAssumption DEF IInv, TypeOK, HeldOnce
<1>1. ASSUME NEW t \in Txs, Submit(t)
      PROVE  StatsFit'
  <2>1. UNCHANGED <<stats, completed, worker>>
    BY <1>1 DEF Submit, SubmitRecord, SubmitPut, SubmitFull, SubmitRefused, SubmitTrack
  <2>2. FailedByWorker' = FailedByWorker
    <3>1. \A u \in Txs : state'[u] = "failed" /\ Accepted(u)' <=> state[u] = "failed" /\ Accepted(u)
      BY <1>0, <1>1 DEF Submit, SubmitRecord, SubmitPut, SubmitFull, SubmitRefused,
         SubmitTrack, SubmitGoto, Accepted, ClientFits, ClientStatements
    <3> QED
      BY <3>1 DEF FailedByWorker
  <2> QED
    BY <2>1, <2>2, StatsStay DEF StatsFit
<1>2. CASE WorkerMark
  <2>1. UNCHANGED <<stats, completed, client>> /\ worker'.at = "announce" /\ worker.at = "mark"
        /\ state' = [state EXCEPT ![worker.tx] = "processing"] /\ state[worker.tx] = "pending"
    BY <1>0, <1>2 DEF WorkerMark, WorkerGoto, WorkerFits
  <2>2. FailedByWorker' = FailedByWorker
    BY <1>0, <2>1 DEF FailedByWorker, Accepted
  <2> QED
    BY <2>1, <2>2, StatsStay
<1>3. CASE WorkerReturned
  <2>1. /\ UNCHANGED <<stats, completed, client>> /\ worker'.at = "recordCompletion"
        /\ worker.at = "handling" /\ worker'.tx = worker.tx /\ worker.tx \in Txs
        /\ state' = [state EXCEPT ![worker.tx] = "completed"] /\ state[worker.tx] = "processing"
    BY <1>0, <1>3 DEF WorkerReturned, WorkerGoto, WorkerFits
  <2>2. FailedByWorker' = FailedByWorker
    BY <1>0, <2>1 DEF FailedByWorker, Accepted
  <2>3. worker.tx \notin completed
    BY <2>1 DEF StatusIsFound
  <2> QED
    BY <2>1, <2>2, <2>3, StatsStay
<1>4. CASE WorkerRaised \/ WorkerNoHandler
  <2>1. /\ UNCHANGED <<stats, completed, client>> /\ worker'.at = "recordFailure"
        /\ worker.at \in {"handling", "dispatch"} /\ worker.tx \in Txs
        /\ state' = [state EXCEPT ![worker.tx] = "failed"] /\ state[worker.tx] = "processing"
    BY <1>0, <1>4 DEF WorkerRaised, WorkerNoHandler, WorkerGoto, WorkerFits
  <2>2. /\ FailedByWorker' = FailedByWorker \cup {worker.tx}
        /\ worker.tx \notin FailedByWorker
    BY <1>0, <2>1 DEF FailedByWorker, Accepted
  <2>3. /\ IsFiniteSet(FailedByWorker')
        /\ Cardinality(FailedByWorker') = Cardinality(FailedByWorker) + 1
        /\ Cardinality(FailedByWorker) \in Nat
    BY <2>2, FS_AddElement, FS_CardinalityType DEF StatsFit
  <2> QED
    BY <2>1, <2>3 DEF StatsFit, Lag
<1>5. CASE WorkerMove
  <2>1. /\ UNCHANGED <<stats, client, state>> /\ worker'.at = "count"
        /\ worker.at = "move" /\ completed' = completed \cup {worker.tx}
        /\ worker.tx \notin completed
    BY <1>0, <1>5 DEF WorkerMove, WorkerGoto, WorkerFits, StatsFit
  <2>2. FailedByWorker' = FailedByWorker
    BY <2>1 DEF FailedByWorker, Accepted
  <2>3. /\ IsFiniteSet(completed') /\ Cardinality(completed') = Cardinality(completed) + 1
        /\ Cardinality(completed) \in Nat
    BY <2>1, FS_AddElement, FS_CardinalityType DEF StatsFit
  <2> QED
    BY <2>1, <2>2, <2>3 DEF StatsFit, Lag
<1>6. CASE WorkerCount
  <2>1. /\ UNCHANGED <<client, state, completed>> /\ worker'.at = "loop" /\ worker.at = "count"
        /\ stats'.completed = stats.completed + 1 /\ stats'.processed = stats.processed + 1
        /\ stats'.failed = stats.failed
    BY <1>0, <1>6 DEF WorkerCount
  <2>2. FailedByWorker' = FailedByWorker
    BY <2>1 DEF FailedByWorker, Accepted
  <2>3. Cardinality(completed) \in Nat
    BY FS_CardinalityType DEF StatsFit
  <2> QED
    BY <2>1, <2>2, <2>3 DEF StatsFit, Lag
<1>7. CASE WorkerRecordFailure
  <2>1. /\ UNCHANGED <<client, state, completed>> /\ worker'.at = "recordAgain"
        /\ worker.at = "recordFailure"
        /\ stats'.completed = stats.completed /\ stats'.processed = stats.processed
        /\ stats'.failed = stats.failed + 1
    BY <1>0, <1>7 DEF WorkerRecordFailure, WorkerGoto
  <2>2. FailedByWorker' = FailedByWorker
    BY <2>1 DEF FailedByWorker, Accepted
  <2>3. Cardinality(FailedByWorker) \in Nat
    BY FS_CardinalityType DEF StatsFit
  <2> QED
    BY <2>1, <2>2, <2>3 DEF StatsFit, Lag
<1>8. CASE WorkerRecordAgain
  <2>1. /\ UNCHANGED <<stats, completed, client>> /\ worker'.at = "loop"
        /\ worker.at = "recordAgain"
        /\ state' = [state EXCEPT ![worker.tx] = "failed"] /\ state[worker.tx] = "failed"
    BY <1>0, <1>8 DEF WorkerRecordAgain, WorkerFits
  <2>2. FailedByWorker' = FailedByWorker
    BY <1>0, <2>1 DEF FailedByWorker, Accepted
  <2> QED
    BY <2>1, <2>2, StatsStay
<1>9. CASE WorkerRecordCompletion
  <2>1. /\ UNCHANGED <<stats, completed, client, state>> /\ worker'.at = "move"
        /\ worker.at = "recordCompletion" /\ worker'.tx = worker.tx
    BY <1>0, <1>9 DEF WorkerRecordCompletion, WorkerGoto
  <2>2. FailedByWorker' = FailedByWorker
    BY <2>1 DEF FailedByWorker, Accepted
  <2> QED
    BY <2>1, <2>2, StatsStay DEF StatsFit
<1>10. CASE WorkerLoop \/ WorkerGet \/ WorkerEmpty \/ WorkerAnnounce \/ WorkerDispatch
  <2>1. /\ UNCHANGED <<stats, completed, client, state>>
        /\ worker.at \in {"loop", "get", "announce", "dispatch"}
        /\ worker'.at \in {"none", "loop", "get", "mark", "dispatch", "handling"}
    BY <1>0, <1>10 DEF WorkerLoop, WorkerGet, WorkerEmpty, WorkerAnnounce, WorkerDispatch,
       WorkerGoto
  <2>2. FailedByWorker' = FailedByWorker
    BY <2>1 DEF FailedByWorker, Accepted
  <2> QED
    BY <2>1, <2>2, StatsStay
<1>11. CASE WorkerHandles \/ StopProcessing \/ RegisterHandlers \/ UNCHANGED vars
  <2>1. UNCHANGED <<stats, completed, client, state, worker>>
    BY <1>11 DEF WorkerHandles, StopProcessing, RegisterHandlers, vars, coordinatorVars
  <2>2. FailedByWorker' = FailedByWorker
    BY <2>1 DEF FailedByWorker, Accepted
  <2> QED
    BY <2>1, <2>2, StatsStay DEF StatsFit
<1>12. CASE StartProcessing
  <2>1. /\ UNCHANGED <<stats, completed, client, state>>
        /\ worker' = worker \/ (worker.at = "none" /\ worker'.at = "loop")
    <3>1. CASE worker.at = "none"
      BY <1>12, <3>1 DEF StartProcessing
    <3>2. CASE worker.at # "none"
      BY <1>12, <3>2 DEF StartProcessing
    <3> QED
      BY <3>1, <3>2
  <2>2. FailedByWorker' = FailedByWorker
    BY <2>1 DEF FailedByWorker, Accepted
  <2> QED
    BY <2>1, <2>2, StatsStay DEF StatsFit
<1> QED
  BY <1>1, <1>2, <1>3, <1>4, <1>5, <1>6, <1>7, <1>8, <1>9, <1>10, <1>11, <1>12
     DEF Next, WorkerStep, ControlStep

(* Every transaction the worker has decided is counted once, under its     *)
(* outcome, however it failed (transaction_coordinator.py:404, :409, :412). *)
THEOREM StatsAreExact == Spec => []StatsMatchOutcomes
<1>1. Init => StatusIsFound /\ StatsFit
  BY StatsInit DEF Init, CoordinatorInit, StatusIsFound
<1>2. IInv /\ StatusIsFound /\ StatsFit /\ [Next]_vars => StatusIsFound' /\ StatsFit'
  BY TablesStep, StatsStep
<1>3. IInv /\ StatsFit => StatsMatchOutcomes
  BY DEF IInv, StatsFit, Lag, WorkerFits, FailedByWorker, StatsMatchOutcomes
<1> QED
  BY <1>1, <1>2, <1>3, Inductive, PTL DEF Spec

-----------------------------------------------------------------------------
(* What follows is about the Ledger and the log.  What is about money      *)
(* holds as long as no transfer has the same account on both sides:        *)
(* transaction_handler.py:47-114 reads both balances before it writes      *)
(* either, so such a transfer credits the account without debiting it.     *)
NoSelfTransfer ==
  \A c \in Contexts : c.kind = "transfer" => c.from # c.to

(* What the worker's call says of the transaction it holds: it is with the *)
(* worker and being processed, and its wallets are known.                  *)
LEMMA CallIsProcessing ==
  ASSUME IInv, call[Worker].at # "idle"
  PROVE  /\ call[Worker].tx \in Txs
         /\ call[Worker].tx = worker.tx
         /\ state[call[Worker].tx] = "processing"
         /\ worker.at = "handling"
BY CallOfTheWorker DEF IInv, CallFits, WorkerFits

LEMMA LedgerInit == Init => TheLedger!Init
<1> SUFFICES ASSUME Init PROVE TheLedger!Init
  OBVIOUS
<1>1. call[Worker].at = "idle" /\ state = [t \in Txs |-> "pending"]
  BY CoordinatorAssumption DEF Init, HandlerInit, CoordinatorInit, NoCall, NewCall
<1>2. SettledFunds = OpeningFunds
  BY <1>1 DEF SettledFunds, Init, HandlerInit
<1>3. [t \in Txs |-> Decision(t)] = [t \in Txs |-> "open"]
  BY <1>1 DEF Decision, Settled
<1> QED
  BY <1>2, <1>3 DEF TheLedger!Init, Init, HandlerInit

(* A step that leaves contexts, funds and the stage of every decision      *)
(* alone is a stutter of the Ledger.                                       *)
LEMMA StutterWithoutDecision ==
  ASSUME UNCHANGED ctx, SettledFunds' = SettledFunds,
         \A t \in Txs : Decision(t)' = Decision(t)
  PROVE  UNCHANGED TheLedger!vars
BY DEF TheLedger!vars

LEMMA RejectOne ==
  ASSUME UNCHANGED ctx, SettledFunds' = SettledFunds, NEW t \in Txs,
         Decision(t) = "open", Decision(t)' = "rejected",
         \A u \in Txs \ {t} : Decision(u)' = Decision(u)
  PROVE  TheLedger!Next
<1>1. [u \in Txs |-> Decision(u)]'
        = [[u \in Txs |-> Decision(u)] EXCEPT ![t] = "rejected"]
  OBVIOUS
<1> QED
  BY <1>1 DEF TheLedger!Next, TheLedger!Reject

LEMMA ApplyOne ==
  ASSUME UNCHANGED ctx, NEW t \in Txs,
         \A w \in Wallets : TheLedger!Debit(ctx[t], w) <= SettledFunds[w],
         SettledFunds' = [w \in Wallets |-> SettledFunds[w] - TheLedger!Debit(ctx[t], w)
                                             + TheLedger!Credit(ctx[t], w)],
         Decision(t) = "open", Decision(t)' = "applied",
         \A u \in Txs \ {t} : Decision(u)' = Decision(u)
  PROVE  TheLedger!Next
<1>1. [u \in Txs |-> Decision(u)]'
        = [[u \in Txs |-> Decision(u)] EXCEPT ![t] = "applied"]
  OBVIOUS
<1>2. TheLedger!Wallets = Wallets
  BY DEF TheLedger!Wallets, Wallets
<1> QED
  BY <1>1, <1>2 DEF TheLedger!Next, TheLedger!Apply

-----------------------------------------------------------------------------
(* The steps of the queue. *)

LEMMA QuietStep ==
  ASSUME UNCHANGED <<ctx, funds, call, state>>
  PROVE  UNCHANGED TheLedger!vars
<1>1. SettledFunds' = SettledFunds
  BY DEF SettledFunds, SourceWallet
<1>2. \A t \in Txs : Decision(t)' = Decision(t)
  BY DEF Decision
<1> QED
  BY <1>1, <1>2, StutterWithoutDecision

(* A context that fails before its handler has written is rejected. *)
LEMMA FailureRejects ==
  ASSUME IInv, NEW t \in Txs, state[t] \in {"pending", "processing"},
         call[Worker].at \notin Settled \/ call[Worker].tx # t,
         UNCHANGED <<ctx, funds>>,
         state' = [state EXCEPT ![t] = "failed"],
         \/ call' = call
         \/ call[Worker].tx = t /\ call[Worker].at = "raised" /\ call'[Worker] = NoCall
  PROVE  TheLedger!Next
<1>0. state \in [Txs -> States]
  BY DEF IInv, TypeOK
<1>1. SettledFunds' = SettledFunds
  <2>1. CASE call' = call
    BY <2>1 DEF SettledFunds, SourceWallet
  <2>2. CASE call' # call
    BY <2>2 DEF SettledFunds, NoCall, NewCall
  <2> QED
    BY <2>1, <2>2
<1>2. Decision(t) = "open" /\ Decision(t)' = "rejected"
  BY <1>0 DEF Decision
<1>3. \A u \in Txs \ {t} : Decision(u)' = Decision(u)
  BY <1>0 DEF Decision, NoCall, NewCall, Settled
<1> QED
  BY <1>1, <1>2, <1>3, RejectOne

LEMMA QueueRefines ==
  ASSUME IInv, Next, ~WorkerHandles, ~WorkerDispatch
  PROVE  TheLedger!Next \/ UNCHANGED TheLedger!vars
<1>0. /\ state \in [Txs -> States]
      /\ worker.at \notin {"none", "loop", "get"} => worker.tx \in Txs
      /\ call[Worker].at # "idle" <=> worker.at = "handling"
      /\ "idle" \notin Settled /\ "raised" \notin Settled
  BY DEF IInv, TypeOK, WorkerFits, CallFits, Settled
<1>1. ASSUME NEW t \in Txs, SubmitFull(t) PROVE TheLedger!Next
  <2>1. state[t] = "pending"
    BY <1>1 DEF SubmitFull, IInv, ClientFits
  <2>2. call[Worker].at # "idle" => call[Worker].tx # t
    BY <2>1, CallIsProcessing
  <2>3. UNCHANGED <<ctx, funds, call>> /\ state' = [state EXCEPT ![t] = "failed"]
    BY <1>1 DEF SubmitFull, handlerVars
  <2> QED
    BY <1>0, <2>1, <2>2, <2>3, FailureRejects
<1>2. ASSUME NEW t \in Txs, Submit(t), ~SubmitFull(t) PROVE UNCHANGED TheLedger!vars
  BY <1>2, QuietStep
     DEF Submit, SubmitRecord, SubmitPut, SubmitRefused, SubmitTrack, handlerVars
<1>3. ASSUME ControlStep PROVE UNCHANGED TheLedger!vars
  BY <1>3, QuietStep
     DEF ControlStep, StartProcessing, StopProcessing, RegisterHandlers, handlerVars
<1>4. CASE WorkerMark
  <2>1. /\ UNCHANGED <<ctx, funds, call>>
        /\ state' = [state EXCEPT ![worker.tx] = "processing"]
        /\ state[worker.tx] = "pending" /\ worker.tx \in Txs
    BY <1>0, <1>4 DEF WorkerMark, handlerVars, IInv, WorkerFits
  <2>2. SettledFunds' = SettledFunds
    BY <2>1 DEF SettledFunds, SourceWallet
  <2>3. \A t \in Txs : Decision(t)' = Decision(t)
    BY <1>0, <2>1 DEF Decision
  <2> QED
    BY <2>1, <2>2, <2>3, StutterWithoutDecision
<1>5. CASE WorkerNoHandler
  BY <1>0, <1>5, FailureRejects DEF WorkerNoHandler, handlerVars, IInv, WorkerFits
<1>6. CASE WorkerRaised
  <2>1. call'[Worker] = NoCall /\ call[Worker].tx = worker.tx /\ state[worker.tx] = "processing"
    BY <1>6, CallIsProcessing, CoordinatorAssumption DEF WorkerRaised, IInv, TypeOK
  <2> QED
    BY <1>0, <1>6, <2>1, FailureRejects DEF WorkerRaised
<1>7. CASE WorkerReturned
  <2>1. /\ call'[Worker] = NoCall
        /\ call[Worker].tx = worker.tx /\ state[worker.tx] = "processing"
    BY <1>7, CallIsProcessing, CoordinatorAssumption DEF WorkerReturned, IInv, TypeOK
  <2>2. /\ UNCHANGED <<ctx, funds>>
        /\ state' = [state EXCEPT ![worker.tx] = "completed"]
        /\ call[Worker].at = "returned"
    BY <1>7 DEF WorkerReturned
  <2>3. SettledFunds' = SettledFunds
    BY <2>1, <2>2 DEF SettledFunds, SourceWallet, NoCall, NewCall
  <2>4. \A t \in Txs : Decision(t)' = Decision(t)
    BY <1>0, <1>7, <2>1, <2>2 DEF Decision, NoCall, NewCall, Settled
  <2> QED
    BY <2>2, <2>3, <2>4, StutterWithoutDecision
<1>8. CASE WorkerRecordAgain
  <2>1. state[worker.tx] = "failed"
    BY <1>8 DEF WorkerRecordAgain, IInv, WorkerFits
  <2> QED
    BY <1>0, <1>8, <2>1, QuietStep DEF WorkerRecordAgain
<1>9. ASSUME WorkerStep,
             ~WorkerMark, ~WorkerReturned, ~WorkerRaised, ~WorkerNoHandler, ~WorkerRecordAgain
      PROVE  UNCHANGED TheLedger!vars
  BY <1>9, QuietStep
     DEF WorkerStep, WorkerLoop, WorkerGet, WorkerEmpty, WorkerAnnounce,
         WorkerRecordCompletion, WorkerMove, WorkerCount, WorkerRecordFailure, handlerVars
<1> QED
  BY <1>1, <1>2, <1>3, <1>4, <1>5, <1>6, <1>7, <1>8, <1>9 DEF Next

-----------------------------------------------------------------------------
(* The steps of a handler. *)

LEMMA DispatchRefines ==
  ASSUME IInv, WorkerDispatch
  PROVE  TheLedger!Next \/ UNCHANGED TheLedger!vars
<1> DEFINE first == call'[Worker].at
<1>0. worker.tx \in Txs
  BY DEF IInv, TypeOK, WorkerFits, WorkerDispatch
<1> PICK t \in Txs : t = worker.tx
  BY <1>0
<1>1. /\ state[t] = "processing" /\ call[Worker].at = "idle"
      /\ UNCHANGED <<ctx, funds, state>>
  BY DEF IInv, TypeOK, WorkerFits, CallFits, WorkerDispatch, CallHandler
<1>2. /\ call'[Worker].tx = t
      /\ first \in {"raised", "recordSource", "readSource"}
      /\ first = "recordSource" <=> ctx[t].kind = "investment_sell" /\ HasAccounts(t)
  BY CoordinatorAssumption DEF IInv, TypeOK, WorkerDispatch, CallHandler, NewCall
<1>3. SettledFunds' = funds /\ SettledFunds = funds
  BY <1>1, <1>2 DEF SettledFunds
<1>4. \A u \in Txs \ {t} : Decision(u)' = Decision(u)
  BY <1>1, <1>2 DEF Decision, Settled
<1>5. Decision(t) = "open"
  BY <1>1 DEF Decision, Settled
<1>6. CASE first = "recordSource"
  <2>1. Decision(t)' = "applied"
    BY <1>1, <1>2, <1>6 DEF Decision, Settled
  <2>2. \A w \in Wallets : /\ TheLedger!Debit(ctx[t], w) = 0
                           /\ TheLedger!Credit(ctx[t], w) = 0
    BY <1>2, <1>6 DEF TheLedger!Debit, TheLedger!Credit
  <2>3. funds \in [Wallets -> Int] /\ \A w \in Wallets : funds[w] >= 0
    BY DEF IInv, TypeOK, NoOverdraft
  <2>4. funds = [w \in Wallets |-> funds[w] - TheLedger!Debit(ctx[t], w)
                                    + TheLedger!Credit(ctx[t], w)]
    BY <2>2, <2>3
  <2>5. \A w \in Wallets : TheLedger!Debit(ctx[t], w) <= funds[w]
    BY <2>2, <2>3
  <2> QED
    BY <1>1, <1>3, <1>4, <1>5, <2>1, <2>4, <2>5, ApplyOne
<1>7. CASE first # "recordSource"
  <2>1. Decision(t)' = "open"
    BY <1>1, <1>2, <1>7 DEF Decision, Settled
  <2> QED
    BY <1>1, <1>3, <1>4, <1>5, <2>1, StutterWithoutDecision
<1> QED
  BY <1>6, <1>7

(* A handler step from one side of the last write to the same side. *)
LEMMA SameSide ==
  ASSUME IInv, call[Worker].at # "idle", UNCHANGED <<ctx, state>>,
         call'[Worker].tx = call[Worker].tx,
         call[Worker].at \in Settled <=> call'[Worker].at \in Settled,
         SettledFunds' = SettledFunds
  PROVE  UNCHANGED TheLedger!vars
<1>1. \A t \in Txs : Decision(t)' = Decision(t)
  BY DEF Decision
<1> QED
  BY <1>1, StutterWithoutDecision

LEMMA HandlerRefines ==
  ASSUME NoSelfTransfer, IInv, WorkerHandles
  PROVE  TheLedger!Next \/ UNCHANGED TheLedger!vars
<1> DEFINE c == call[Worker]
           amount == ctx[c.tx].amount
<1>0. /\ Worker \in Threads
      /\ call \in [Threads -> [at : Statements, tx : Txs \cup {NoTx}, source : Int, target : Int]]
      /\ funds \in [Wallets -> Int]
      /\ state' = state
  BY CoordinatorAssumption DEF IInv, TypeOK, WorkerHandles, coordinatorVars
<1>1. CASE ReadSource(Worker)
  <2>1. /\ UNCHANGED <<ctx, funds>>
        /\ c.at = "readSource"
        /\ call'[Worker].tx = c.tx
        /\ call'[Worker].at \in {"readTarget", "raised", "writeSource"}
    BY <1>0, <1>1 DEF ReadSource, AfterCheck
  <2>2. SettledFunds' = SettledFunds
    BY <2>1 DEF SettledFunds
  <2> QED
    BY <1>0, <2>1, <2>2, SameSide DEF Settled
<1>2. CASE ReadTarget(Worker)
  <2>1. /\ UNCHANGED <<ctx, funds>>
        /\ c.at = "readTarget"
        /\ call'[Worker].tx = c.tx
        /\ call'[Worker].at \in {"raised", "writeSource"}
    BY <1>0, <1>2 DEF ReadTarget, AfterCheck
  <2>2. SettledFunds' = SettledFunds
    BY <2>1 DEF SettledFunds
  <2> QED
    BY <1>0, <2>1, <2>2, SameSide DEF Settled
<1>3. CASE WriteSource(Worker)
  <2>0. PICK t \in Txs : t = c.tx /\ state[t] = "processing"
    BY <1>3, CallIsProcessing DEF WriteSource
  <2>1. /\ ctx' = ctx
        /\ c.at = "writeSource"
        /\ funds' = [funds EXCEPT ![SourceWallet(t)] = c.source - amount]
        /\ call'[Worker] = [c EXCEPT !.at = IF IsTransfer(t) THEN "writeTarget" ELSE "version"]
    BY <1>0, <1>3, <2>0 DEF WriteSource, Goto, NewSource
  <2>2. /\ SourceWallet(t) \in Wallets /\ amount \in Nat
        /\ c.source = funds[SourceWallet(t)] /\ c.source >= amount
        /\ c.source \in Int
    BY <1>0, <2>0, <2>1, WalletsOfACall DEF IInv, CallFits, NoOverdraft, ReadsAreCurrent
  <2>3. /\ call'[Worker].tx = t /\ call'[Worker].source = c.source
        /\ call'[Worker].at = IF IsTransfer(t) THEN "writeTarget" ELSE "version"
    BY <1>0, <2>0, <2>1
  <2>4. SettledFunds = funds
    BY <2>1 DEF SettledFunds
  <2>5. SourceWallet(t)' = SourceWallet(t)
    BY <2>1 DEF SourceWallet
  <2>6. CASE IsTransfer(t)
    <3>1. SettledFunds' = [funds' EXCEPT ![SourceWallet(t)] = c.source]
      BY <2>3, <2>5, <2>6 DEF SettledFunds
    <3>2. [funds' EXCEPT ![SourceWallet(t)] = c.source] = funds
      BY <1>0, <2>1, <2>2
    <3> QED
      BY <1>0, <2>0, <2>1, <2>3, <2>4, <2>6, <3>1, <3>2, SameSide DEF Settled
  <2>7. CASE ~IsTransfer(t)
    <3>1. SettledFunds' = funds'
      BY <2>3, <2>7 DEF SettledFunds
    <3>2. /\ Decision(t) = "open" /\ Decision(t)' = "applied"
          /\ \A u \in Txs \ {t} : Decision(u)' = Decision(u)
      BY <1>0, <2>0, <2>1, <2>3, <2>7 DEF Decision, Settled
    <3>3. \A w \in Wallets :
            /\ TheLedger!Debit(ctx[t], w) = IF w = SourceWallet(t) THEN amount ELSE 0
            /\ TheLedger!Credit(ctx[t], w) = 0
      BY <2>0, <2>1, <2>7
         DEF IInv, CallFits, TheLedger!Debit, TheLedger!Credit, TheLedger!Source,
             SourceWallet, IsTransfer
    <3> HIDE DEF amount, c
    <3>4. funds' = [w \in Wallets |-> funds[w] - TheLedger!Debit(ctx[t], w)
                                        + TheLedger!Credit(ctx[t], w)]
      <4>1. \A w \in Wallets :
              funds'[w] = funds[w] - TheLedger!Debit(ctx[t], w) + TheLedger!Credit(ctx[t], w)
        BY <1>0, <2>1, <2>2, <3>3
      <4>2. funds' = [w \in Wallets |-> funds'[w]]
        BY <1>0, <2>1
      <4> QED
        BY <4>1, <4>2
    <3>5. \A w \in Wallets : TheLedger!Debit(ctx[t], w) <= funds[w]
      <4>1. \A w \in Wallets : funds[w] >= 0
        BY DEF IInv, NoOverdraft
      <4> QED
        BY <1>0, <2>2, <3>3, <4>1
    <3> QED
      <4>1. SettledFunds' = [w \in Wallets |-> SettledFunds[w] - TheLedger!Debit(ctx[t], w)
                                                + TheLedger!Credit(ctx[t], w)]
        BY <2>4, <3>1, <3>4
      <4>2. \A w \in Wallets : TheLedger!Debit(ctx[t], w) <= SettledFunds[w]
        BY <2>4, <3>5
      <4> QED
        BY <2>1, <3>2, <4>1, <4>2, ApplyOne
  <2> QED
    BY <2>6, <2>7
<1>4. CASE WriteTarget(Worker)
  <2>0. PICK t \in Txs : t = c.tx /\ state[t] = "processing"
    BY <1>4, CallIsProcessing DEF WriteTarget
  <2> DEFINE from == SourceWallet(t)
             to == TargetWallet(t)
  <2>1. /\ ctx' = ctx
        /\ c.at = "writeTarget"
        /\ funds' = [funds EXCEPT ![to] = c.target + amount]
        /\ call'[Worker] = [c EXCEPT !.at = "version"]
    BY <1>0, <1>4, <2>0 DEF WriteTarget, Goto, NewTarget
  <2>2. /\ from \in Wallets /\ to \in Wallets /\ amount \in Nat
        /\ IsTransfer(t) /\ HasAccounts(t)
        /\ c.source \in Int /\ c.target \in Int
    BY <1>0, <2>0, <2>1, WalletsOfACall DEF IInv, CallFits
  <2>3. from # to
    BY <2>0, <2>2, CallOfTheWorker
       DEF NoSelfTransfer, IInv, TypeOK, IsTransfer, SourceWallet, TargetWallet
  <2>4. /\ funds[from] = c.source - amount /\ funds[from] >= 0
        /\ c.target = funds[to]
    BY <2>0, <2>1, <2>2, <2>3 DEF IInv, ReadsAreCurrent, NoOverdraft
  <2>5. /\ SettledFunds' = funds'
        /\ SettledFunds = [funds EXCEPT ![from] = c.source]
    BY <1>0, <2>0, <2>1 DEF SettledFunds
  <2>6. /\ Decision(t) = "open" /\ Decision(t)' = "applied"
        /\ \A u \in Txs \ {t} : Decision(u)' = Decision(u)
    BY <1>0, <2>0, <2>1 DEF Decision, Settled
  <2>7. \A w \in Wallets :
          /\ TheLedger!Debit(ctx[t], w) = IF w = from THEN amount ELSE 0
          /\ TheLedger!Credit(ctx[t], w) = IF w = to THEN amount ELSE 0
    BY <2>0, <2>2
       DEF TheLedger!Debit, TheLedger!Credit, TheLedger!Source, TheLedger!Target,
           SourceWallet, TargetWallet, IsTransfer
  <2> HIDE DEF from, to, amount, c
  <2>8. funds' = [w \in Wallets |-> SettledFunds[w] - TheLedger!Debit(ctx[t], w)
                                      + TheLedger!Credit(ctx[t], w)]
    <3>1. \A w \in Wallets :
            funds'[w] = SettledFunds[w] - TheLedger!Debit(ctx[t], w)
                                        + TheLedger!Credit(ctx[t], w)
      BY <1>0, <2>1, <2>2, <2>3, <2>4, <2>5, <2>7
    <3>2. funds' = [w \in Wallets |-> funds'[w]]
      BY <1>0, <2>1
    <3> QED
      BY <3>1, <3>2
  <2>9. \A w \in Wallets : TheLedger!Debit(ctx[t], w) <= SettledFunds[w]
    <3>1. \A w \in Wallets : funds[w] >= 0
      BY DEF IInv, NoOverdraft
    <3> QED
      BY <1>0, <2>2, <2>4, <2>5, <2>7, <3>1
  <2> QED
    BY <2>1, <2>5, <2>6, <2>8, <2>9, ApplyOne
<1>5. CASE BumpVersion(Worker) \/ RecordSource(Worker) \/ RecordTarget(Worker)
  <2>1. /\ UNCHANGED <<ctx, funds>>
        /\ c.at \in Settled /\ call'[Worker].at \in Settled
        /\ call'[Worker].tx = c.tx
    BY <1>0, <1>5 DEF BumpVersion, RecordSource, RecordTarget, Goto, Settled
  <2>2. SettledFunds' = SettledFunds
    BY <2>1 DEF SettledFunds, Settled
  <2> QED
    BY <1>0, <2>1, <2>2, SameSide DEF Settled
<1> QED
  BY <1>1, <1>2, <1>3, <1>4, <1>5 DEF WorkerHandles, HandlerStep

-----------------------------------------------------------------------------
(* Every transaction takes effect at one moment, as a whole and only with  *)
(* the funds it spends, or not at all ("serialized and atomic",            *)
(* transaction_coordinator.py), provided that no transfer is from an       *)
(* account to itself.                                                      *)
THEOREM ImplementsLedger ==
  ASSUME NoSelfTransfer
  PROVE  Spec => RefinesLedger
<1>1. Init => TheLedger!Init
  BY LedgerInit
<1>2. IInv /\ [Next]_vars => [TheLedger!Next]_(TheLedger!vars)
  <2> SUFFICES ASSUME IInv, [Next]_vars
               PROVE  TheLedger!Next \/ UNCHANGED TheLedger!vars
    OBVIOUS
  <2>1. CASE UNCHANGED vars
    BY <2>1, QuietStep DEF vars, handlerVars, coordinatorVars
  <2> QED
    BY <2>1, QueueRefines, DispatchRefines, HandlerRefines
<1> QED
  BY <1>1, <1>2, Inductive, PTL DEF Spec, RefinesLedger, TheLedger!Spec

-----------------------------------------------------------------------------
(* Reading the log back.  Replay and TrailOf go through the log event by   *)
(* event; what one more event does to them is proved by induction on the   *)
(* length of the log.                                                      *)

(* The natural numbers are well-founded: a non-empty set has a least one. *)
LEMMA LeastNatural ==
  ASSUME NEW U, U \subseteq Nat, U # {}
  PROVE  \E x \in U : \A y \in U : x <= y
<1> DEFINE R == OpToRel(<, Nat)
<1>1. \E x \in U : \A y \in U : ~(<<y, x>> \in R)
  BY NatLessThanWellFounded, WFMin
<1>2. ASSUME NEW x \in Nat, NEW y \in Nat, ~(<<y, x>> \in R)
      PROVE  x <= y
  BY <1>2 DEF OpToRel
<1> QED
  BY <1>1, <1>2

(* Induction up to n, for membership of a set. *)
LEMMA UpTo ==
  ASSUME NEW n \in Nat, NEW G, 0 \in G, \A i \in 1 .. n : i - 1 \in G => i \in G
  PROVE  \A i \in 0 .. n : i \in G
<1> DEFINE Bad == {i \in 0 .. n : i \notin G}
<1> SUFFICES ASSUME Bad # {}
             PROVE  FALSE
  OBVIOUS
<1>1. PICK i \in Bad : \A k \in Bad : i <= k
  <2>1. Bad \subseteq Nat
    OBVIOUS
  <2> HIDE DEF Bad
  <2> QED
    BY <2>1, LeastNatural
<1>2. i \in 1 .. n /\ i - 1 \in 0 .. n
  OBVIOUS
<1>3. i - 1 \in G
  BY <1>1, <1>2
<1> QED
  BY <1>2, <1>3

(* Two functions that start alike and go on alike are alike. *)
SameAt(f, g, i) == f[i] = g[i]

LEMMA Agree ==
  ASSUME NEW n \in Nat, NEW f, NEW g, SameAt(f, g, 0),
         \A i \in 1 .. n : SameAt(f, g, i - 1) => SameAt(f, g, i)
  PROVE  SameAt(f, g, n)
<1> DEFINE G == {i \in 0 .. n : SameAt(f, g, i)}
<1>1. 0 \in G
  OBVIOUS
<1>2. \A i \in 1 .. n : i - 1 \in G => i \in G
  OBVIOUS
<1>3. \A i \in 0 .. n : i \in G
  <2> HIDE DEF G
  <2> QED
    BY <1>1, <1>2, UpTo
<1> QED
  BY <1>3

(* A recursion over the first n naturals has a solution. *)
Follows(f, n, start, step) ==
  f[0] = start /\ \A i \in 1 .. n : f[i] = step[i][f[i - 1]]

LEMMA RecursionExists ==
  ASSUME NEW n \in Nat, NEW S, NEW start \in S, NEW step \in [1 .. n -> [S -> S]]
  PROVE  \E f \in [0 .. n -> S] : Follows(f, n, start, step)
<1> DEFINE G == {m \in 0 .. n : \E f \in [0 .. m -> S] : Follows(f, m, start, step)}
<1>1. 0 \in G
  <2> DEFINE z == [i \in 0 .. 0 |-> start]
  <2>1. z \in [0 .. 0 -> S] /\ Follows(z, 0, start, step)
    BY DEF Follows
  <2> HIDE DEF z
  <2>2. \E f \in [0 .. 0 -> S] : Follows(f, 0, start, step)
    BY <2>1
  <2> QED
    BY <2>2
<1>2. ASSUME NEW m \in 1 .. n, m - 1 \in G
      PROVE  m \in G
  <2>1. PICK f \in [0 .. m - 1 -> S] : Follows(f, m - 1, start, step)
    BY <1>2
  <2> DEFINE g == [i \in 0 .. m |-> IF i = m THEN step[m][f[m - 1]] ELSE f[i]]
  <2>2. f[m - 1] \in S /\ step[m][f[m - 1]] \in S
    OBVIOUS
  <2>3. g \in [0 .. m -> S]
    BY <2>2
  <2>4. g[0] = start
    BY <2>1 DEF Follows
  <2>5. ASSUME NEW i \in 1 .. m
        PROVE  g[i] = step[i][g[i - 1]]
    <3>1. g[i - 1] = f[i - 1]
      OBVIOUS
    <3>2. CASE i = m
      <4>1. g[m] = step[m][f[m - 1]]
        OBVIOUS
      <4> HIDE DEF g
      <4> QED
        BY <3>1, <3>2, <4>1
    <3>3. CASE i # m
      <4>1. i \in 1 .. m - 1 /\ g[i] = f[i]
        BY <3>3
      <4>2. f[i] = step[i][f[i - 1]]
        BY <2>1, <4>1 DEF Follows
      <4> HIDE DEF g
      <4> QED
        BY <3>1, <4>1, <4>2
    <3> QED
      BY <3>2, <3>3
  <2> HIDE DEF g
  <2>6. Follows(g, m, start, step)
    BY <2>4, <2>5 DEF Follows
  <2> QED
    BY <2>3, <2>6
<1>3. n \in G
  <2>1. \A i \in 1 .. n : i - 1 \in G => i \in G
    BY <1>2
  <2> HIDE DEF G
  <2>2. \A i \in 0 .. n : i \in G
    BY <1>1, <2>1, UpTo
  <2> QED
    BY <2>2
<1> QED
  BY <1>3

(* What the log is a sequence of. *)
Entries == [tx : Txs, kind : EventKinds, left : Int]

(* Seq(Entries), one entry longer. *)
LEMMA Appended ==
  ASSUME NEW S, NEW h \in Seq(S), NEW e \in S
  PROVE  /\ Append(h, e) \in Seq(S)
         /\ Len(h) \in Nat /\ Len(Append(h, e)) = Len(h) + 1
         /\ \A i \in 1 .. Len(h) : h[i] \in S /\ Append(h, e)[i] = h[i]
         /\ Append(h, e)[Len(h) + 1] = e
<1>1. Len(h) \in Nat /\ \A i \in 1 .. Len(h) : h[i] \in S
  BY LenProperties
<1> QED
  BY <1>1, AppendProperties

-----------------------------------------------------------------------------
(* The trail of a transaction. *)

IsTrail(f, history, t) ==
  /\ f[0] = <<>>
  /\ \A i \in 1 .. Len(history) :
       f[i] = IF history[i].tx = t THEN Append(f[i - 1], history[i].kind) ELSE f[i - 1]
  /\ TrailOf(history, t) = f[Len(history)]

LEMMA TrailUnfolds ==
  ASSUME NEW h \in Seq(Entries), NEW t
  PROVE  \E f \in [0 .. Len(h) -> Seq(EventKinds)] : IsTrail(f, h, t)
<1> DEFINE n == Len(h)
           S == Seq(EventKinds)
           nothing == <<>>
           Next1(i, s) == IF h[i].tx = t THEN Append(s, h[i].kind) ELSE s
           step == [i \in 1 .. n |-> [s \in S |-> Next1(i, s)]]
           Is(f) == f = [i \in 0 .. n |-> IF i = 0 THEN <<>>
                                          ELSE IF h[i].tx = t THEN Append(f[i - 1], h[i].kind)
                                          ELSE f[i - 1]]
           F == CHOOSE f : Is(f)
<1>1. n \in Nat /\ \A i \in 1 .. n : h[i].kind \in EventKinds
  <2>1. n \in Nat /\ \A i \in 1 .. n : h[i] \in Entries
    BY LenProperties, ElementOfSeq
  <2> QED
    BY <2>1 DEF Entries
<1>2. \A i \in 1 .. n, s \in S : Next1(i, s) \in S
  BY <1>1
<1>3. step \in [1 .. n -> [S -> S]] /\ nothing \in S
  BY <1>2
<1>4. \A i \in 1 .. n, s \in S : step[i][s] = Next1(i, s)
  OBVIOUS
<1>5. PICK f \in [0 .. n -> S] : Follows(f, n, nothing, step)
  <2>1. n \in Nat
    BY <1>1
  <2> HIDE DEF n, S, step, nothing
  <2> QED
    BY <1>3, <2>1, RecursionExists
<1>6. \A i \in 1 .. n : f[i - 1] \in S /\ f[i] = Next1(i, f[i - 1])
  <2>1. \A i \in 1 .. n : i - 1 \in 0 .. n /\ f[i - 1] \in S
    BY <1>1
  <2> HIDE DEF n, S, step, Next1
  <2> QED
    BY <1>4, <1>5, <2>1 DEF Follows
<1>7. Is(f)
  <2>1. ASSUME NEW i \in 0 .. n
        PROVE  f[i] = IF i = 0 THEN <<>>
                      ELSE IF h[i].tx = t THEN Append(f[i - 1], h[i].kind)
                      ELSE f[i - 1]
    <3>1. CASE i = 0
      BY <1>5, <3>1 DEF Follows
    <3>2. CASE i # 0
      <4>1. i \in 1 .. n
        BY <1>1, <3>2
      <4> HIDE DEF n, S
      <4> QED
        BY <1>6, <3>2, <4>1
    <3> QED
      BY <3>1, <3>2
  <2>2. f = [i \in 0 .. n |-> f[i]]
    OBVIOUS
  <2> HIDE DEF S, n
  <2> QED
    BY <2>1, <2>2
<1>8. Is(F)
  <2> HIDE DEF Is
  <2> QED
    BY <1>7
<1>9. F[0] = <<>> /\ \A i \in 1 .. n : F[i] = Next1(i, F[i - 1])
  <2> HIDE DEF F
  <2>1. n \in Nat
    BY <1>1
  <2>2. \A i \in 0 .. n : F[i] = IF i = 0 THEN <<>>
                                 ELSE IF h[i].tx = t THEN Append(F[i - 1], h[i].kind)
                                 ELSE F[i - 1]
    <3> HIDE DEF n
    <3> QED
      BY <1>8, Zenon
  <2> HIDE DEF Is, n
  <2> QED
    BY <2>1, <2>2
<1>10. F[n] = f[n]
  <2>1. SameAt(F, f, 0) /\ \A i \in 1 .. n : SameAt(F, f, i - 1) => SameAt(F, f, i)
    <3> HIDE DEF F, Next1, Is
    <3> QED
      BY <1>5, <1>6, <1>9 DEF Follows, SameAt
  <2>2. n \in Nat
    BY <1>1
  <2> HIDE DEF F, n
  <2>3. SameAt(F, f, n)
    BY <2>1, <2>2, Agree
  <2> QED
    BY <2>3 DEF SameAt
<1>11. TrailOf(h, t) = F[n]
  BY DEF TrailOf
<1>12. IsTrail(f, h, t)
  <2> HIDE DEF F, Is
  <2> QED
    BY <1>5, <1>6, <1>10, <1>11 DEF IsTrail, Follows
<1> QED
  BY <1>12

LEMMA TrailAppend ==
  ASSUME NEW h \in Seq(Entries), NEW e \in Entries, NEW t
  PROVE  /\ TrailOf(h, t) \in Seq(EventKinds)
         /\ TrailOf(Append(h, e), t) = IF e.tx = t THEN Append(TrailOf(h, t), e.kind)
                                       ELSE TrailOf(h, t)
<1>1. PICK n \in Nat : n = Len(h)
  BY LenProperties
<1>2. PICK g : g = Append(h, e)
  OBVIOUS
<1>3. /\ g \in Seq(Entries) /\ Len(g) = n + 1
      /\ g[n + 1] = e /\ \A i \in 1 .. n : g[i] = h[i]
  BY <1>1, <1>2, Appended
<1>4. PICK a \in [0 .. n -> Seq(EventKinds)] : IsTrail(a, h, t)
  BY <1>1, TrailUnfolds
<1>5. PICK b : IsTrail(b, g, t)
  BY <1>3, TrailUnfolds
<1>6. b[n] = a[n]
  <2>1. SameAt(a, b, 0) /\ \A i \in 1 .. n : SameAt(a, b, i - 1) => SameAt(a, b, i)
    <3>1. a[0] = b[0]
      BY <1>4, <1>5 DEF IsTrail
    <3>2. ASSUME NEW i \in 1 .. n, a[i - 1] = b[i - 1]
          PROVE  a[i] = b[i]
      <4>1. a[i] = IF h[i].tx = t THEN Append(a[i - 1], h[i].kind) ELSE a[i - 1]
        BY <1>1, <1>4 DEF IsTrail
      <4>2. b[i] = IF g[i].tx = t THEN Append(b[i - 1], g[i].kind) ELSE b[i - 1]
        BY <1>3, <1>5 DEF IsTrail
      <4>3. g[i] = h[i]
        BY <1>3
      <4> QED
        BY <3>2, <4>1, <4>2, <4>3
    <3> QED
      BY <3>1, <3>2 DEF SameAt
  <2>2. SameAt(a, b, n)
    BY <2>1, Agree
  <2> QED
    BY <2>2 DEF SameAt
<1>7. b[n + 1] = IF e.tx = t THEN Append(b[n], e.kind) ELSE b[n]
  BY <1>3, <1>5 DEF IsTrail
<1>8. a[n] \in Seq(EventKinds)
  BY <1>4
<1>9. TrailOf(h, t) = a[n] /\ TrailOf(g, t) = b[n + 1]
  BY <1>1, <1>3, <1>4, <1>5 DEF IsTrail
<1> QED
  BY <1>2, <1>6, <1>7, <1>8, <1>9

LEMMA TrailOfNothing ==
  ASSUME NEW t
  PROVE  TrailOf(<<>>, t) = <<>>
<1>1. PICK h : h = <<>>
  OBVIOUS
<1>2. h \in Seq(Entries) /\ Len(h) = 0
  BY <1>1
<1>3. PICK f : IsTrail(f, h, t)
  BY <1>2, TrailUnfolds
<1> QED
  BY <1>1, <1>2, <1>3 DEF IsTrail

-----------------------------------------------------------------------------
(* The money the log tells of, for contexts that stay as they are. *)

Money == [Wallets -> Int]

SourceIn(c, t) ==
  <<c[t].from, IF c[t].kind = "investment_buy" THEN "buying_power" ELSE "balance">>
TargetIn(c, t) == <<c[t].to, "balance">>

ReplayedIn(c, money, e) ==
  CASE e.kind \in {"DEBIT", "buy_order_filled"} ->
         [money EXCEPT ![SourceIn(c, e.tx)] = @ - c[e.tx].amount]
    [] e.kind = "CREDIT" ->
         [money EXCEPT ![TargetIn(c, e.tx)] = @ + c[e.tx].amount]
    [] OTHER -> money

ReplayIn(c, history) ==
  LET money[i \in 0 .. Len(history)] ==
        IF i = 0 THEN OpeningFunds ELSE ReplayedIn(c, money[i - 1], history[i])
  IN money[Len(history)]

(* For the contexts of the moment it is what Replay computes. *)
LEMMA ReplayIsRigid == ASSUME NEW h PROVE Replay(h) = ReplayIn(ctx, h)
BY DEF Replay, Replayed, ReplayIn, ReplayedIn, SourceWallet, TargetWallet, SourceIn, TargetIn

LEMMA ReplayIsRigidNext == Replay(log)' = ReplayIn(ctx', log')
BY DEF Replay, Replayed, ReplayIn, ReplayedIn, SourceWallet, TargetWallet, SourceIn, TargetIn

LEMMA ReplayedTyped ==
  ASSUME NEW c \in [Txs -> Contexts], NEW m \in Money, NEW e \in Entries
  PROVE  ReplayedIn(c, m, e) \in Money
<1>1. c[e.tx].amount \in Int
  <2>1. e.tx \in Txs
    BY DEF Entries
  <2> QED
    BY <2>1, HandlerAssumption DEF Context
<1> DEFINE x == c[e.tx].amount
<1>2. ASSUME NEW w PROVE [m EXCEPT ![w] = @ - x] \in Money /\ [m EXCEPT ![w] = @ + x] \in Money
  <2> HIDE DEF x
  <2>0. x \in Int
    BY <1>1 DEF x
  <2>1. CASE w \in Wallets
    BY <2>0, <2>1 DEF Money
  <2>2. CASE w \notin Wallets
    BY <2>2 DEF Money
  <2> QED
    BY <2>1, <2>2
<1> QED
  BY <1>2 DEF ReplayedIn

IsReplay(f, c, history) ==
  /\ f[0] = OpeningFunds
  /\ \A i \in 1 .. Len(history) : f[i] = ReplayedIn(c, f[i - 1], history[i])
  /\ ReplayIn(c, history) = f[Len(history)]

LEMMA ReplayUnfolds ==
  ASSUME NEW c \in [Txs -> Contexts], NEW h \in Seq(Entries)
  PROVE  \E f \in [0 .. Len(h) -> Money] : IsReplay(f, c, h)
<1> DEFINE n == Len(h)
           S == Money
           step == [i \in 1 .. n |-> [s \in S |-> ReplayedIn(c, s, h[i])]]
           Is(f) == f = [i \in 0 .. n |-> IF i = 0 THEN OpeningFunds
                                          ELSE ReplayedIn(c, f[i - 1], h[i])]
           F == CHOOSE f : Is(f)
<1>1. n \in Nat /\ \A i \in 1 .. n : h[i] \in Entries
  BY LenProperties, ElementOfSeq
<1>2. \A i \in 1 .. n, s \in S : ReplayedIn(c, s, h[i]) \in S
  BY <1>1, ReplayedTyped
<1>3. step \in [1 .. n -> [S -> S]] /\ OpeningFunds \in S
  <2>1. OpeningFunds \in S
    BY HandlerAssumption DEF Money
  <2> HIDE DEF S
  <2> QED
    BY <1>2, <2>1
<1>4. \A i \in 1 .. n, s \in S : step[i][s] = ReplayedIn(c, s, h[i])
  OBVIOUS
<1>5. PICK f \in [0 .. n -> S] : Follows(f, n, OpeningFunds, step)
  <2>1. n \in Nat
    BY <1>1
  <2> HIDE DEF n, S, step
  <2> QED
    BY <1>3, <2>1, RecursionExists
<1>6. \A i \in 1 .. n : f[i - 1] \in S /\ f[i] = ReplayedIn(c, f[i - 1], h[i])
  <2>1. \A i \in 1 .. n : i - 1 \in 0 .. n /\ f[i - 1] \in S
    BY <1>1
  <2> HIDE DEF n, S, step
  <2> QED
    BY <1>4, <1>5, <2>1 DEF Follows
<1>7. Is(f)
  <2>1. ASSUME NEW i \in 0 .. n
        PROVE  f[i] = IF i = 0 THEN OpeningFunds ELSE ReplayedIn(c, f[i - 1], h[i])
    <3>1. CASE i = 0
      BY <1>5, <3>1 DEF Follows
    <3>2. CASE i # 0
      <4>1. i \in 1 .. n
        BY <1>1, <3>2
      <4> HIDE DEF n, S
      <4> QED
        BY <1>6, <3>2, <4>1
    <3> QED
      BY <3>1, <3>2
  <2>2. f = [i \in 0 .. n |-> f[i]]
    OBVIOUS
  <2> HIDE DEF S, n
  <2> QED
    BY <2>1, <2>2
<1>8. Is(F)
  <2> HIDE DEF Is
  <2> QED
    BY <1>7
<1>9. F[0] = OpeningFunds /\ \A i \in 1 .. n : F[i] = ReplayedIn(c, F[i - 1], h[i])
  <2> HIDE DEF F
  <2>1. n \in Nat
    BY <1>1
  <2>2. \A i \in 0 .. n : F[i] = IF i = 0 THEN OpeningFunds ELSE ReplayedIn(c, F[i - 1], h[i])
    <3> HIDE DEF n
    <3> QED
      BY <1>8, Zenon
  <2> HIDE DEF Is, n
  <2> QED
    BY <2>1, <2>2
<1>10. F[n] = f[n]
  <2>1. SameAt(F, f, 0) /\ \A i \in 1 .. n : SameAt(F, f, i - 1) => SameAt(F, f, i)
    <3> HIDE DEF F, Is
    <3> QED
      BY <1>5, <1>6, <1>9 DEF Follows, SameAt
  <2>2. n \in Nat
    BY <1>1
  <2> HIDE DEF F, n
  <2>3. SameAt(F, f, n)
    BY <2>1, <2>2, Agree
  <2> QED
    BY <2>3 DEF SameAt
<1>11. ReplayIn(c, h) = F[n]
  BY DEF ReplayIn
<1>12. IsReplay(f, c, h)
  <2> HIDE DEF F, Is
  <2> QED
    BY <1>5, <1>6, <1>10, <1>11 DEF IsReplay, Follows
<1> QED
  BY <1>12

(* One event more, and what was replayed before is what is replayed.       *)
LEMMA ReplayAppend ==
  ASSUME NEW c \in [Txs -> Contexts], NEW h \in Seq(Entries), NEW e \in Entries
  PROVE  /\ ReplayIn(c, h) \in Money
         /\ ReplayIn(c, Append(h, e)) = ReplayedIn(c, ReplayIn(c, h), e)
<1>1. PICK n \in Nat : n = Len(h)
  BY LenProperties
<1>2. PICK g : g = Append(h, e)
  OBVIOUS
<1>3. /\ g \in Seq(Entries) /\ Len(g) = n + 1
      /\ g[n + 1] = e /\ \A i \in 1 .. n : g[i] = h[i]
  BY <1>1, <1>2, Appended
<1>4. PICK a \in [0 .. n -> Money] : IsReplay(a, c, h)
  BY <1>1, ReplayUnfolds
<1>5. PICK b : IsReplay(b, c, g)
  BY <1>3, ReplayUnfolds
<1>6. b[n] = a[n]
  <2>1. SameAt(a, b, 0) /\ \A i \in 1 .. n : SameAt(a, b, i - 1) => SameAt(a, b, i)
    <3>1. a[0] = b[0]
      BY <1>4, <1>5 DEF IsReplay
    <3>2. ASSUME NEW i \in 1 .. n, a[i - 1] = b[i - 1]
          PROVE  a[i] = b[i]
      <4>1. a[i] = ReplayedIn(c, a[i - 1], h[i])
        BY <1>1, <1>4 DEF IsReplay
      <4>2. b[i] = ReplayedIn(c, b[i - 1], g[i])
        BY <1>3, <1>5 DEF IsReplay
      <4>3. g[i] = h[i]
        BY <1>3
      <4> QED
        BY <3>2, <4>1, <4>2, <4>3
    <3> QED
      BY <3>1, <3>2 DEF SameAt
  <2>2. SameAt(a, b, n)
    BY <2>1, Agree
  <2> QED
    BY <2>2 DEF SameAt
<1>7. b[n + 1] = ReplayedIn(c, b[n], e)
  BY <1>3, <1>5 DEF IsReplay
<1>8. a[n] \in Money
  BY <1>4
<1>9. ReplayIn(c, h) = a[n] /\ ReplayIn(c, g) = b[n + 1]
  BY <1>1, <1>3, <1>4, <1>5 DEF IsReplay
<1> QED
  BY <1>2, <1>6, <1>7, <1>8, <1>9

LEMMA ReplayOfNothing ==
  ASSUME NEW c \in [Txs -> Contexts]
  PROVE  ReplayIn(c, <<>>) = OpeningFunds
<1>1. PICK h : h = <<>>
  OBVIOUS
<1>2. h \in Seq(Entries) /\ Len(h) = 0
  BY <1>1
<1>3. PICK f : IsReplay(f, c, h)
  BY <1>2, ReplayUnfolds
<1> QED
  BY <1>1, <1>2, <1>3 DEF IsReplay

-----------------------------------------------------------------------------
(* What has been written to a wallet and not yet to the log. *)
Unsaid(w) ==
  LET c == call[Worker]
      amount == ctx[c.tx].amount
  IN IF /\ c.at \in {"writeTarget", "version", "recordSource"}
        /\ ctx[c.tx].kind # "investment_sell" /\ w = SourceWallet(c.tx) THEN -amount
     ELSE IF /\ c.at \in {"version", "recordSource", "recordTarget"}
             /\ IsTransfer(c.tx) /\ w = TargetWallet(c.tx) THEN amount
     ELSE 0

Told == ReplayIn(ctx, log)

LogTells == \A w \in Wallets : funds[w] = Told[w] + Unsaid(w)

(* Between its write and its event, a wallet holds what the event will say. *)
Written ==
  LET c == call[Worker]
  IN /\ /\ c.at \in {"writeTarget", "version", "recordSource"}
        /\ ctx[c.tx].kind # "investment_sell"
        => funds[SourceWallet(c.tx)] = c.source - ctx[c.tx].amount
     /\ /\ c.at \in {"version", "recordSource", "recordTarget"}
        /\ IsTransfer(c.tx)
        => funds[TargetWallet(c.tx)] = c.target + ctx[c.tx].amount

(* The events that say nothing about money. *)
Notes == {"initiated", "processing", "completed", "failed"}

Noted == \E t \in Txs, kind \in Notes : Record(t, kind, 0)

LEMMA LogCases ==
  ASSUME TypeOK, WorkerFits, [Next]_vars, ~WorkerHandles
  PROVE  log' = log \/ Noted
<1>0. worker.at \in {"announce", "recordCompletion", "recordFailure", "recordAgain"}
        => worker.tx \in Txs
  BY DEF TypeOK, WorkerFits
<1>1. ASSUME NEW t \in Txs, SubmitRecord(t) \/ SubmitRefused(t)
      PROVE  Noted
  BY <1>1 DEF SubmitRecord, SubmitRefused, Noted, Notes
<1>2. ASSUME NEW t \in Txs, SubmitPut(t) \/ SubmitFull(t) \/ SubmitTrack(t)
      PROVE  log' = log
  BY <1>2 DEF SubmitPut, SubmitFull, SubmitTrack, handlerVars
<1>3. ASSUME WorkerAnnounce \/ WorkerRecordCompletion \/ WorkerRecordFailure
             \/ WorkerRecordAgain
      PROVE  Noted
  BY <1>0, <1>3 DEF WorkerAnnounce, WorkerRecordCompletion, WorkerRecordFailure,
     WorkerRecordAgain, Noted, Notes
<1>4. ASSUME WorkerLoop \/ WorkerGet \/ WorkerEmpty \/ WorkerMark \/ WorkerNoHandler
             \/ WorkerMove \/ WorkerCount \/ WorkerReturned \/ WorkerRaised \/ WorkerDispatch
      PROVE  log' = log
  BY <1>4 DEF WorkerLoop, WorkerGet, WorkerEmpty, WorkerMark, WorkerNoHandler, WorkerMove,
     WorkerCount, WorkerReturned, WorkerRaised, WorkerDispatch, CallHandler, handlerVars
<1>5. ASSUME ControlStep \/ UNCHANGED vars
      PROVE  log' = log
  BY <1>5 DEF ControlStep, StartProcessing, StopProcessing, RegisterHandlers, vars, handlerVars
<1> QED
  BY <1>1, <1>2, <1>3, <1>4, <1>5 DEF Next, Submit, WorkerStep

LEMMA ToldTyped ==
  ASSUME TypeOK
  PROVE  log \in Seq(Entries) /\ ctx \in [Txs -> Contexts] /\ Told \in Money
<1>1. log \in Seq(Entries) /\ ctx \in [Txs -> Contexts]
  BY DEF TypeOK, Entries
<1>2. PICK e : e \in Entries \/ Entries = {}
  OBVIOUS
<1>3. CASE Entries = {}
  <2>1. log = <<>>
    BY <1>1, <1>3
  <2> QED
    BY <1>1, <2>1, ReplayOfNothing, HandlerAssumption DEF Told, Money
<1>4. CASE Entries # {}
  BY <1>1, <1>4, ReplayAppend DEF Told
<1> QED
  BY <1>1, <1>3, <1>4

(* A note changes nothing of what the log tells. *)
LEMMA ToldStays ==
  ASSUME TypeOK, ctx' = ctx, log' = log \/ Noted
  PROVE  Told' = Told
<1>1. CASE log' = log
  BY <1>1 DEF Told
<1>2. CASE Noted
  <2>1. PICK e \in Entries : log' = Append(log, e) /\ e.kind \in Notes
    BY <1>2 DEF Noted, Record, Event, Entries, Notes, EventKinds
  <2>2. Told' = ReplayedIn(ctx, Told, e)
    BY <2>1, ToldTyped, ReplayAppend DEF Told
  <2> QED
    BY <2>1, <2>2 DEF ReplayedIn, Notes
<1> QED
  BY <1>1, <1>2

LEMMA MoneyElsewhere ==
  ASSUME TypeOK, LogTells, Written, UNCHANGED <<ctx, funds>>, log' = log \/ Noted,
         \/ UNCHANGED call
         \/ /\ call[Worker].at \in {"idle", "readSource", "readTarget", "returned", "raised"}
            /\ call'[Worker].at \in {"idle", "readSource", "readTarget", "writeSource",
                                     "returned", "raised"}
         \/ /\ call[Worker].at = "idle" /\ call'[Worker].at = "recordSource"
            /\ ctx[call'[Worker].tx].kind = "investment_sell"
         \/ /\ call[Worker].at = "version" /\ call'[Worker].at = "recordSource"
            /\ call'[Worker].tx = call[Worker].tx
            /\ call'[Worker].source = call[Worker].source
            /\ call'[Worker].target = call[Worker].target
            /\ ctx[call[Worker].tx].kind # "investment_sell"
  PROVE  LogTells' /\ Written'
<1>1. Told' = Told
  BY ToldStays
<1>2. \A w : Unsaid(w)' = Unsaid(w)
  BY DEF Unsaid, SourceWallet, TargetWallet, IsTransfer
<1>3. Written'
  BY DEF Written, SourceWallet, TargetWallet, IsTransfer
<1> QED
  BY <1>1, <1>2, <1>3 DEF LogTells

(* The wallets of the call, and what the two writes do to them. *)
LEMMA CallWallets ==
  ASSUME NoSelfTransfer, IInv, call[Worker].at \notin {"idle", "raised"}
  PROVE  /\ SourceWallet(call[Worker].tx) \in Wallets
         /\ IsTransfer(call[Worker].tx) => /\ TargetWallet(call[Worker].tx) \in Wallets
                                           /\ TargetWallet(call[Worker].tx) # SourceWallet(call[Worker].tx)
         /\ ctx[call[Worker].tx].amount \in Nat
         /\ ctx[call[Worker].tx].kind \in Kinds
         /\ call[Worker].tx \in Txs
         /\ call[Worker].source \in Int /\ call[Worker].target \in Int
         /\ Worker \in Threads
         /\ call \in [Threads -> [at : Statements, tx : Txs \cup {NoTx}, source : Int, target : Int]]
         /\ funds \in Money
<1> DEFINE t == call[Worker].tx
<1>1. /\ t \in Txs /\ HasAccounts(t) /\ ctx[t] \in Contexts /\ ctx[t].kind \in Kinds
      /\ call[Worker].source \in Int /\ call[Worker].target \in Int
  BY CallOfTheWorker DEF IInv, CallFits
<1>2. /\ SourceWallet(t) \in Wallets /\ (IsTransfer(t) => TargetWallet(t) \in Wallets)
      /\ ctx[t].amount \in Nat
  BY <1>1, WalletsOfACall DEF IInv
<1>3. IsTransfer(t) => TargetWallet(t) # SourceWallet(t)
  BY <1>1 DEF NoSelfTransfer, IsTransfer, TargetWallet, SourceWallet
<1>4. /\ Worker \in Threads
      /\ call \in [Threads -> [at : Statements, tx : Txs \cup {NoTx}, source : Int, target : Int]]
      /\ funds \in Money
  BY CoordinatorAssumption DEF IInv, TypeOK, Money
<1> QED
  BY <1>1, <1>2, <1>3, <1>4

LEMMA MoneyWriteSource ==
  ASSUME NoSelfTransfer, IInv, LogTells, Written, WriteSource(Worker)
  PROVE  LogTells' /\ Written'
<1> DEFINE c == call[Worker]
           t == c.tx
           amount == ctx[t].amount
           from == SourceWallet(t)
<1>0. c.at = "writeSource"
  BY DEF WriteSource
<1>1. /\ from \in Wallets /\ amount \in Nat /\ t \in Txs /\ c.source \in Int
      /\ Worker \in Threads
      /\ call \in [Threads -> [at : Statements, tx : Txs \cup {NoTx}, source : Int, target : Int]]
      /\ funds \in Money
  BY <1>0, CallWallets
<1>2. /\ c.source = funds[from] /\ ctx[t].kind # "investment_sell"
  BY <1>0 DEF IInv, ReadsAreCurrent, CallFits
<1>3. /\ ctx' = ctx /\ log' = log
      /\ funds' = [funds EXCEPT ![from] = c.source - amount]
      /\ call'[Worker] = [c EXCEPT !.at = IF IsTransfer(t) THEN "writeTarget" ELSE "version"]
  BY <1>1 DEF WriteSource, NewSource, Goto
<1>4. /\ call'[Worker].at \in {"writeTarget", "version"}
      /\ call'[Worker].at = "version" => ~IsTransfer(t)
      /\ call'[Worker].tx = t /\ call'[Worker].source = c.source
      /\ call'[Worker].target = c.target
  BY <1>1, <1>3
<1>5. /\ funds'[from] = c.source - amount
      /\ \A w \in Wallets \ {from} : funds'[w] = funds[w]
  BY <1>1, <1>3 DEF Money
<1>6. Told' = Told /\ Told \in Money
  BY <1>3, ToldTyped DEF Told, IInv
<1>7. \A w : Unsaid(w) = 0
  BY <1>0 DEF Unsaid
<1>8. \A w : Unsaid(w)' = IF w = from THEN -amount ELSE 0
  BY <1>2, <1>3, <1>4 DEF Unsaid, SourceWallet, TargetWallet, IsTransfer
<1>9. ASSUME NEW w \in Wallets
      PROVE  funds'[w] = Told[w] + Unsaid(w)'
  <2>1. funds[w] = Told[w] + 0 /\ Told[w] \in Int
    BY <1>6, <1>7 DEF LogTells, Money
  <2>2. CASE w = from
    BY <1>1, <1>2, <1>5, <1>8, <2>1, <2>2
  <2>3. CASE w # from
    BY <1>5, <1>8, <2>1, <2>3
  <2> QED
    BY <2>2, <2>3
<1>10. LogTells'
  BY <1>6, <1>9 DEF LogTells
<1>11. Written'
  BY <1>3, <1>4, <1>5 DEF Written, SourceWallet, TargetWallet, IsTransfer
<1> QED
  BY <1>10, <1>11

LEMMA MoneyWriteTarget ==
  ASSUME NoSelfTransfer, IInv, LogTells, Written, WriteTarget(Worker)
  PROVE  LogTells' /\ Written'
<1> DEFINE c == call[Worker]
           t == c.tx
           amount == ctx[t].amount
           from == SourceWallet(t)
           to == TargetWallet(t)
<1>0. c.at = "writeTarget"
  BY DEF WriteTarget
<1>1. /\ from \in Wallets /\ amount \in Nat /\ t \in Txs /\ c.source \in Int /\ c.target \in Int
      /\ Worker \in Threads
      /\ call \in [Threads -> [at : Statements, tx : Txs \cup {NoTx}, source : Int, target : Int]]
      /\ funds \in Money
  BY <1>0, CallWallets
<1>2. IsTransfer(t) /\ to \in Wallets /\ to # from /\ ctx[t].kind # "investment_sell"
  <2>1. IsTransfer(t)
    BY <1>0 DEF IInv, CallFits
  <2> QED
    BY <1>0, <2>1, CallWallets DEF IsTransfer
<1>3. c.target = funds[to] /\ funds[from] = c.source - amount
  BY <1>0, <1>2 DEF IInv, ReadsAreCurrent
<1>4. /\ ctx' = ctx /\ log' = log
      /\ funds' = [funds EXCEPT ![to] = c.target + amount]
      /\ call'[Worker] = [c EXCEPT !.at = "version"]
  BY <1>1 DEF WriteTarget, NewTarget, Goto
<1>5. /\ call'[Worker].at = "version"
      /\ call'[Worker].tx = t /\ call'[Worker].source = c.source
      /\ call'[Worker].target = c.target
  BY <1>1, <1>4
<1>6. /\ funds'[to] = c.target + amount
      /\ \A w \in Wallets \ {to} : funds'[w] = funds[w]
  BY <1>1, <1>2, <1>4 DEF Money
<1>7. Told' = Told /\ Told \in Money
  BY <1>4, ToldTyped DEF Told, IInv
<1>8. \A w : Unsaid(w) = IF w = from THEN -amount ELSE 0
  BY <1>0, <1>2 DEF Unsaid
<1>9. \A w : Unsaid(w)' = IF w = from THEN -amount ELSE IF w = to THEN amount ELSE 0
  BY <1>2, <1>4, <1>5 DEF Unsaid, SourceWallet, TargetWallet, IsTransfer
<1>10. ASSUME NEW w \in Wallets
       PROVE  funds'[w] = Told[w] + Unsaid(w)'
  <2>1. funds[w] = Told[w] + Unsaid(w) /\ Told[w] \in Int
    BY <1>7 DEF LogTells, Money
  <2>2. CASE w = to
    <3>1. Unsaid(w) = 0 /\ Unsaid(w)' = amount
      BY <1>2, <1>8, <1>9, <2>2
    <3> QED
      BY <1>1, <1>3, <1>6, <2>1, <2>2, <3>1
  <2>3. CASE w # to
    <3>1. Unsaid(w)' = Unsaid(w)
      BY <1>8, <1>9, <2>3
    <3> QED
      BY <1>6, <2>1, <2>3, <3>1
  <2> QED
    BY <2>2, <2>3
<1>11. LogTells'
  BY <1>7, <1>10 DEF LogTells
<1>12. Written'
  <2>1. funds'[from] = c.source - amount
    BY <1>1, <1>2, <1>3, <1>6
  <2> QED
    BY <1>4, <1>5, <1>6, <2>1 DEF Written, SourceWallet, TargetWallet, IsTransfer
<1> QED
  BY <1>11, <1>12

LEMMA MoneyRecordSource ==
  ASSUME NoSelfTransfer, IInv, LogTells, Written, RecordSource(Worker)
  PROVE  LogTells' /\ Written'
<1> DEFINE c == call[Worker]
           t == c.tx
           amount == ctx[t].amount
           from == SourceWallet(t)
           kind == SourceEvent[ctx[t].kind]
           left == IF kind = "DEBIT" THEN c.source - amount ELSE 0
           e == Event(t, kind, left)
<1>0. c.at = "recordSource"
  BY DEF RecordSource
<1>1. /\ from \in Wallets /\ amount \in Nat /\ t \in Txs /\ c.source \in Int
      /\ Worker \in Threads /\ ctx[t].kind \in Kinds
      /\ call \in [Threads -> [at : Statements, tx : Txs \cup {NoTx}, source : Int, target : Int]]
      /\ funds \in Money
  BY <1>0, CallWallets
<1>2. IsTransfer(t) => TargetWallet(t) # from
  BY <1>0, CallWallets
<1>3. /\ ctx' = ctx /\ funds' = funds /\ log' = Append(log, e)
      /\ call'[Worker] = [c EXCEPT !.at = IF IsTransfer(t) THEN "recordTarget" ELSE "returned"]
  BY <1>1 DEF RecordSource, NewSource, Record, Goto
<1>4. /\ call'[Worker].at \in {"recordTarget", "returned"}
      /\ call'[Worker].at = "recordTarget" <=> IsTransfer(t)
      /\ call'[Worker].tx = t /\ call'[Worker].source = c.source
      /\ call'[Worker].target = c.target
  BY <1>1, <1>3
<1>5. /\ kind \in EventKinds
      /\ ctx[t].kind = "investment_sell" => kind = "sell_order_filled"
      /\ ctx[t].kind # "investment_sell" => kind \in {"DEBIT", "buy_order_filled"}
  BY <1>1 DEF Kinds, SourceEvent, EventKinds
<1>6. e \in Entries /\ e.kind = kind /\ e.tx = t
  BY <1>1, <1>5 DEF Event, Entries
<1>7. Told' = ReplayedIn(ctx, Told, e) /\ Told \in Money
  <2>1. log \in Seq(Entries) /\ ctx \in [Txs -> Contexts] /\ Told \in Money
    BY ToldTyped DEF IInv
  <2>2. ReplayIn(ctx, Append(log, e)) = ReplayedIn(ctx, ReplayIn(ctx, log), e)
    BY <1>6, <2>1, ReplayAppend
  <2> QED
    BY <1>3, <2>1, <2>2 DEF Told
<1>8. SourceIn(ctx, t) = from
  BY DEF SourceIn, SourceWallet
<1>9. ASSUME NEW w \in Wallets
      PROVE  funds'[w] = Told'[w] + Unsaid(w)'
  <2>1. funds[w] = Told[w] + Unsaid(w) /\ Told[w] \in Int
    BY <1>7 DEF LogTells, Money
  <2>2. CASE ctx[t].kind = "investment_sell"
    <3>1. Told' = Told
      BY <1>5, <1>6, <1>7, <2>2 DEF ReplayedIn
    <3>2. Unsaid(w) = 0 /\ Unsaid(w)' = 0
      BY <1>0, <1>3, <1>4, <2>2 DEF Unsaid, IsTransfer
    <3> QED
      BY <1>3, <2>1, <3>1, <3>2
  <2>3. CASE ctx[t].kind # "investment_sell"
    <3>1. Told' = [Told EXCEPT ![from] = @ - amount]
      <4>1. e.kind \in {"DEBIT", "buy_order_filled"}
        BY <1>5, <1>6, <2>3
      <4> HIDE DEF e, from, amount
      <4> QED
        BY <1>6, <1>7, <1>8, <4>1 DEF ReplayedIn, amount
    <3>2. CASE w = from
      <4>1. Unsaid(w) = -amount /\ Unsaid(w)' = 0
        BY <1>0, <1>2, <1>3, <1>4, <2>3, <3>2 DEF Unsaid, SourceWallet, TargetWallet, IsTransfer
      <4>2. Told'[w] = Told[w] - amount
        BY <1>7, <3>1, <3>2 DEF Money
      <4> QED
        BY <1>1, <1>3, <2>1, <4>1, <4>2
    <3>3. CASE w # from
      <4>1. Unsaid(w)' = Unsaid(w)
        BY <1>0, <1>2, <1>3, <1>4, <2>3, <3>3 DEF Unsaid, SourceWallet, TargetWallet, IsTransfer
      <4>2. Told'[w] = Told[w]
        BY <1>7, <3>1, <3>3 DEF Money
      <4> QED
        BY <1>3, <2>1, <4>1, <4>2
    <3> QED
      BY <3>2, <3>3
  <2> QED
    BY <2>2, <2>3
<1>10. LogTells'
  BY <1>9 DEF LogTells
<1>11. Written'
  BY <1>0, <1>3, <1>4 DEF Written, SourceWallet, TargetWallet, IsTransfer
<1> QED
  BY <1>10, <1>11

LEMMA MoneyRecordTarget ==
  ASSUME NoSelfTransfer, IInv, LogTells, Written, RecordTarget(Worker)
  PROVE  LogTells' /\ Written'
<1> DEFINE c == call[Worker]
           t == c.tx
           amount == ctx[t].amount
           to == TargetWallet(t)
           e == Event(t, "CREDIT", c.target + amount)
<1>0. c.at = "recordTarget"
  BY DEF RecordTarget
<1>1. /\ amount \in Nat /\ t \in Txs /\ c.target \in Int
      /\ Worker \in Threads
      /\ call \in [Threads -> [at : Statements, tx : Txs \cup {NoTx}, source : Int, target : Int]]
      /\ funds \in Money
  BY <1>0, CallWallets
<1>2. IsTransfer(t) /\ to \in Wallets
  <2>1. IsTransfer(t)
    BY <1>0 DEF IInv, CallFits
  <2> QED
    BY <1>0, <2>1, CallWallets
<1>3. /\ ctx' = ctx /\ funds' = funds /\ log' = Append(log, e)
      /\ call'[Worker] = [c EXCEPT !.at = "returned"]
  BY <1>1 DEF RecordTarget, NewTarget, Record, Goto
<1>4. call'[Worker].at = "returned" /\ call'[Worker].tx = t
  BY <1>1, <1>3
<1>5. e \in Entries /\ e.kind = "CREDIT" /\ e.tx = t
  BY <1>1 DEF Event, Entries, EventKinds
<1>6. Told' = ReplayedIn(ctx, Told, e) /\ Told \in Money
  <2>1. log \in Seq(Entries) /\ ctx \in [Txs -> Contexts] /\ Told \in Money
    BY ToldTyped DEF IInv
  <2>2. ReplayIn(ctx, Append(log, e)) = ReplayedIn(ctx, ReplayIn(ctx, log), e)
    BY <1>5, <2>1, ReplayAppend
  <2> QED
    BY <1>3, <2>1, <2>2 DEF Told
<1>7. Told' = [Told EXCEPT ![to] = @ + amount]
  <2>1. TargetIn(ctx, t) = to
    BY DEF TargetIn, TargetWallet
  <2> HIDE DEF e, to, amount
  <2> QED
    BY <1>5, <1>6, <2>1 DEF ReplayedIn, amount
<1>8. \A w : Unsaid(w) = (IF w = to THEN amount ELSE 0) /\ Unsaid(w)' = 0
  BY <1>0, <1>2, <1>4 DEF Unsaid
<1>9. ASSUME NEW w \in Wallets
      PROVE  funds'[w] = Told'[w] + Unsaid(w)'
  <2>1. funds[w] = Told[w] + Unsaid(w) /\ Told[w] \in Int
    BY <1>6 DEF LogTells, Money
  <2>2. CASE w = to
    <3>1. Told'[w] = Told[w] + amount
      BY <1>6, <1>7, <2>2 DEF Money
    <3> QED
      BY <1>1, <1>3, <1>8, <2>1, <2>2, <3>1
  <2>3. CASE w # to
    <3>1. Told'[w] = Told[w]
      BY <1>6, <1>7, <2>3 DEF Money
    <3> QED
      BY <1>3, <1>8, <2>1, <2>3, <3>1
  <2> QED
    BY <2>2, <2>3
<1>10. LogTells'
  BY <1>9 DEF LogTells
<1>11. Written'
  BY <1>4 DEF Written
<1> QED
  BY <1>10, <1>11

LEMMA LogTellsStep ==
  ASSUME NoSelfTransfer, IInv, LogTells, Written, [Next]_vars
  PROVE  LogTells' /\ Written'
<1> DEFINE c == call[Worker]
<1>0. /\ TypeOK /\ WorkerFits /\ Worker \in Threads
      /\ call \in [Threads -> [at : Statements, tx : Txs \cup {NoTx}, source : Int, target : Int]]
  BY CoordinatorAssumption DEF IInv, TypeOK
<1>1. CASE Elsewhere /\ ~WorkerHandles
  BY <1>0, <1>1, LogCases, MoneyElsewhere DEF Elsewhere
<1>2. CASE WorkerDispatch
  <2>1. /\ UNCHANGED <<ctx, funds, log>> /\ c.at = "idle"
        /\ call'[Worker].at \in {"raised", "recordSource", "readSource"}
        /\ call'[Worker].at = "recordSource" => ctx[call'[Worker].tx].kind = "investment_sell"
    BY <1>0, <1>2 DEF WorkerDispatch, CallHandler, NewCall
  <2> QED
    BY <1>0, <2>1, MoneyElsewhere
<1>3. CASE WorkerReturned \/ WorkerRaised
  <2>1. /\ UNCHANGED <<ctx, funds, log>> /\ c.at \in {"returned", "raised"}
        /\ call'[Worker].at = "idle"
    BY <1>0, <1>3 DEF WorkerReturned, WorkerRaised, NoCall, NewCall
  <2> QED
    BY <1>0, <2>1, MoneyElsewhere
<1>4. CASE WorkerHandles
  <2>1. CASE ReadSource(Worker)
    <3>1. /\ UNCHANGED <<ctx, funds, log>> /\ c.at = "readSource"
          /\ call'[Worker].at \in {"readTarget", "raised", "writeSource"}
      BY <1>0, <2>1 DEF ReadSource, AfterCheck
    <3> QED
      BY <1>0, <3>1, MoneyElsewhere
  <2>2. CASE ReadTarget(Worker)
    <3>1. /\ UNCHANGED <<ctx, funds, log>> /\ c.at = "readTarget"
          /\ call'[Worker].at \in {"raised", "writeSource"}
      BY <1>0, <2>2 DEF ReadTarget, AfterCheck
    <3> QED
      BY <1>0, <3>1, MoneyElsewhere
  <2>3. CASE BumpVersion(Worker)
    <3>1. /\ UNCHANGED <<ctx, funds, log>> /\ c.at = "version"
          /\ call'[Worker] = [c EXCEPT !.at = "recordSource"]
      BY <1>0, <2>3 DEF BumpVersion, Goto
    <3>2. /\ call'[Worker].at = "recordSource" /\ call'[Worker].tx = c.tx
          /\ call'[Worker].source = c.source /\ call'[Worker].target = c.target
      BY <1>0, <3>1
    <3>3. ctx[c.tx].kind # "investment_sell"
      BY <3>1 DEF IInv, CallFits
    <3> QED
      BY <1>0, <3>1, <3>2, <3>3, MoneyElsewhere
  <2> QED
    BY <1>4, <2>1, <2>2, <2>3, MoneyWriteSource, MoneyWriteTarget, MoneyRecordSource,
       MoneyRecordTarget DEF WorkerHandles, HandlerStep
<1> QED
  BY <1>0, <1>1, <1>2, <1>3, <1>4, NextCases

LEMMA LogTellsInit == Init => LogTells /\ Written
<1> SUFFICES ASSUME Init
             PROVE  LogTells /\ Written
  OBVIOUS
<1>1. log = <<>> /\ ctx \in [Txs -> Contexts] /\ funds = OpeningFunds
      /\ call[Worker].at = "idle"
  BY CoordinatorAssumption DEF Init, HandlerInit, NoCall, NewCall
<1>2. Told = OpeningFunds
  BY <1>1, ReplayOfNothing DEF Told
<1>3. \A w \in Wallets : OpeningFunds[w] \in Int
  BY HandlerAssumption
<1> QED
  BY <1>1, <1>2, <1>3 DEF LogTells, Written, Unsaid

LEMMA LogTellsAlways == ASSUME NoSelfTransfer PROVE Spec => [](LogTells /\ Written)
<1>1. Init => LogTells /\ Written
  BY LogTellsInit
<1>2. IInv /\ LogTells /\ Written /\ [Next]_vars => LogTells' /\ Written'
  BY LogTellsStep
<1> QED
  BY <1>1, <1>2, Inductive, PTL DEF Spec

(* The log is the whole truth about money.  Whenever no handler is running *)
(* (transaction_coordinator.py:361-372), the balances held are those that  *)
(* the events recorded so far imply, for any contexts without a transfer   *)
(* from an account to itself.                                              *)
THEOREM LogIsTheTruth ==
  ASSUME NoSelfTransfer
  PROVE  Spec => []ReplayRestoresFunds
<1>1. IInv /\ LogTells => ReplayRestoresFunds
  <2> SUFFICES ASSUME IInv, LogTells, call[Worker].at = "idle"
               PROVE  funds = Replay(log)
    BY DEF ReplayRestoresFunds
  <2>1. funds \in Money /\ Told \in Money
    BY ToldTyped DEF IInv, TypeOK, Money
  <2>2. \A w \in Wallets : funds[w] = Told[w]
    BY <2>1 DEF LogTells, Unsaid, Money
  <2>3. funds = Told
    BY <2>1, <2>2 DEF Money
  <2> QED
    BY <2>3, ReplayIsRigid DEF Told
<1> QED
  BY <1>1, LogTellsAlways, Inductive, PTL

(* "Double-spending prevention" (transaction_handler.py:11).  Threads that *)
(* call the handlers directly break it, as the run "handlers" shows; the   *)
(* one worker of the queue (transaction_coordinator.py:361-372) keeps it:  *)
(* at every moment, in the middle of a handler too, the debits the log     *)
(* tells of are covered by the opening balances and the credits before     *)
(* them, for any contexts without a transfer from an account to itself.    *)
THEOREM WorkerPreventsDoubleSpending ==
  ASSUME NoSelfTransfer
  PROVE  Spec => []NoDoubleSpending
<1>1. IInv /\ LogTells /\ Written => NoDoubleSpending
  <2> SUFFICES ASSUME IInv, LogTells, Written, NEW w \in Wallets
               PROVE  Told[w] >= 0
    BY ReplayIsRigid DEF NoDoubleSpending, Told
  <2> DEFINE c == call[Worker]
             t == c.tx
             amount == ctx[t].amount
             spent == /\ c.at \in {"writeTarget", "version", "recordSource"}
                      /\ ctx[t].kind # "investment_sell" /\ w = SourceWallet(t)
             paid == /\ c.at \in {"version", "recordSource", "recordTarget"}
                     /\ IsTransfer(t) /\ w = TargetWallet(t)
  <2>1. funds[w] \in Int /\ Told[w] \in Int
    BY ToldTyped DEF IInv, TypeOK, Money
  <2>2. funds[w] >= 0 /\ c.target >= 0
    BY DEF IInv, NoOverdraft
  <2>3. funds[w] = Told[w] + Unsaid(w)
    BY DEF LogTells
  <2>4. c.at \notin {"idle", "raised"} => amount \in Nat /\ c.target \in Int
    BY CallWallets
  <2>5. CASE spent
    <3>1. Unsaid(w) = -amount
      BY <2>5 DEF Unsaid
    <3> QED
      BY <2>1, <2>2, <2>3, <2>4, <2>5, <3>1
  <2>6. CASE paid /\ ~spent
    <3>1. Unsaid(w) = amount
      BY <2>6 DEF Unsaid
    <3>2. funds[w] = c.target + amount
      BY <2>6 DEF Written
    <3> QED
      BY <2>1, <2>2, <2>3, <2>4, <2>6, <3>1, <3>2
  <2>7. CASE ~paid /\ ~spent
    <3>1. Unsaid(w) = 0
      BY <2>7 DEF Unsaid
    <3> QED
      BY <2>1, <2>2, <2>3, <3>1
  <2> QED
    BY <2>5, <2>6, <2>7
<1> QED
  BY <1>1, LogTellsAlways, Inductive, PTL

-----------------------------------------------------------------------------
(* The balances written in the log. *)

WalletIn(c, e) == IF e.kind = "DEBIT" THEN SourceIn(c, e.tx) ELSE TargetIn(c, e.tx)

BalanceTrue(c, h, i) ==
  h[i].kind \in {"DEBIT", "CREDIT"} =>
    h[i].left = ReplayIn(c, SubSeq(h, 1, i))[WalletIn(c, h[i])]

BalancesIn(c, h) == \A i \in DOMAIN h : BalanceTrue(c, h, i)

LEMMA BalancesAreRigid ==
  /\ RecordedBalancesAreTrue <=> BalancesIn(ctx, log)
  /\ RecordedBalancesAreTrue' <=> BalancesIn(ctx', log')
<1>1. \A h : Replay(h) = ReplayIn(ctx, h)
  BY ReplayIsRigid
<1>2. RecordedBalancesAreTrue <=> BalancesIn(ctx, log)
  BY <1>1 DEF RecordedBalancesAreTrue, BalancesIn, BalanceTrue, WalletOf, WalletIn,
     SourceWallet, TargetWallet, SourceIn, TargetIn
<1>3. (RecordedBalancesAreTrue <=> BalancesIn(ctx, log))'
  BY <1>2, PTL
<1> QED
  BY <1>2, <1>3

(* What an earlier event says is not disturbed by a later one. *)
LEMMA BalancesAppend ==
  ASSUME NEW c, NEW h \in Seq(Entries), NEW e \in Entries, BalancesIn(c, h),
         e.kind \in {"DEBIT", "CREDIT"} =>
           e.left = ReplayIn(c, Append(h, e))[WalletIn(c, e)]
  PROVE  BalancesIn(c, Append(h, e))
<1>1. PICK n \in Nat : n = Len(h) /\ DOMAIN h = 1 .. n
  BY LenProperties
<1>2. PICK g : g = Append(h, e)
  OBVIOUS
<1>3. /\ g \in Seq(Entries) /\ Len(g) = n + 1 /\ DOMAIN g = 1 .. n + 1
      /\ g[n + 1] = e /\ \A i \in 1 .. n : g[i] = h[i]
  BY <1>1, <1>2, Appended, LenProperties
<1>4. ASSUME NEW i \in 1 .. n
      PROVE  SubSeq(g, 1, i) = SubSeq(h, 1, i)
  <2>1. \A k \in 1 .. i : g[k] \in Entries /\ h[k] \in Entries /\ g[k] = h[k]
    BY <1>1, <1>3, ElementOfSeq
  <2>2. /\ SubSeq(g, 1, i) \in Seq(Entries) /\ Len(SubSeq(g, 1, i)) = i
        /\ \A k \in 1 .. i : SubSeq(g, 1, i)[k] = g[k]
    BY <2>1, SubSeqProperties
  <2>3. /\ SubSeq(h, 1, i) \in Seq(Entries) /\ Len(SubSeq(h, 1, i)) = i
        /\ \A k \in 1 .. i : SubSeq(h, 1, i)[k] = h[k]
    BY <2>1, SubSeqProperties
  <2> QED
    BY <2>1, <2>2, <2>3, SeqEqual
<1>5. SubSeq(g, 1, n + 1) = g
  <2>1. \A k \in 1 .. n + 1 : g[k] \in Entries
    BY <1>3, ElementOfSeq
  <2>2. /\ SubSeq(g, 1, n + 1) \in Seq(Entries) /\ Len(SubSeq(g, 1, n + 1)) = n + 1
        /\ \A k \in 1 .. n + 1 : SubSeq(g, 1, n + 1)[k] = g[k]
    BY <2>1, SubSeqProperties
  <2> QED
    BY <1>3, <2>2, SeqEqual
<1>6. ASSUME NEW i \in 1 .. n + 1
      PROVE  BalanceTrue(c, g, i)
  <2>1. CASE i \in 1 .. n
    BY <1>1, <1>3, <1>4, <2>1 DEF BalancesIn, BalanceTrue
  <2>2. CASE i = n + 1
    BY <1>2, <1>3, <1>5, <2>2 DEF BalanceTrue
  <2> QED
    BY <1>3, <2>1, <2>2
<1> QED
  BY <1>2, <1>3, <1>6 DEF BalancesIn

LEMMA BalancesStay ==
  ASSUME TypeOK, RecordedBalancesAreTrue, ctx' = ctx, log' = log \/ Noted
  PROVE  RecordedBalancesAreTrue'
<1>1. BalancesIn(ctx, log)
  BY BalancesAreRigid
<1>2. BalancesIn(ctx, log')
  <2>1. CASE log' = log
    BY <1>1, <2>1
  <2>2. CASE Noted
    <3>1. PICK e \in Entries : log' = Append(log, e) /\ e.kind \in Notes
      BY <2>2 DEF Noted, Record, Event, Entries, Notes, EventKinds
    <3>2. e.kind \notin {"DEBIT", "CREDIT"}
      BY <3>1 DEF Notes
    <3> QED
      BY <1>1, <3>1, <3>2, ToldTyped, BalancesAppend
  <2> QED
    BY <2>1, <2>2
<1> QED
  BY <1>2, BalancesAreRigid

(* The balance a new event records is the one the log then implies. *)
LEMMA BalancesRecorded ==
  ASSUME TypeOK, RecordedBalancesAreTrue, ctx' = ctx,
         NEW e \in Entries, log' = Append(log, e),
         e.kind \in {"DEBIT", "CREDIT"} => e.left = Told'[WalletIn(ctx, e)]
  PROVE  RecordedBalancesAreTrue'
<1>1. BalancesIn(ctx, log)
  BY BalancesAreRigid
<1>2. Told' = ReplayIn(ctx, Append(log, e))
  BY DEF Told
<1>3. BalancesIn(ctx, Append(log, e))
  BY <1>1, <1>2, ToldTyped, BalancesAppend
<1> QED
  BY <1>3, BalancesAreRigid

LEMMA BalancesSource ==
  ASSUME NoSelfTransfer, IInv, LogTells, Written, RecordedBalancesAreTrue, RecordSource(Worker)
  PROVE  RecordedBalancesAreTrue'
<1> DEFINE c == call[Worker]
           t == c.tx
           from == SourceWallet(t)
           kind == SourceEvent[ctx[t].kind]
           left == IF kind = "DEBIT" THEN c.source - ctx[t].amount ELSE 0
           e == Event(t, kind, left)
<1>0. c.at = "recordSource"
  BY DEF RecordSource
<1>1. /\ from \in Wallets /\ ctx[t].amount \in Nat /\ t \in Txs /\ c.source \in Int
      /\ Worker \in Threads /\ ctx[t].kind \in Kinds
      /\ call \in [Threads -> [at : Statements, tx : Txs \cup {NoTx}, source : Int, target : Int]]
      /\ IsTransfer(t) => TargetWallet(t) # from
  BY <1>0, CallWallets
<1>2. /\ ctx' = ctx /\ funds' = funds /\ log' = Append(log, e)
      /\ call'[Worker] = [c EXCEPT !.at = IF IsTransfer(t) THEN "recordTarget" ELSE "returned"]
  BY <1>1 DEF RecordSource, NewSource, Record, Goto
<1>3. /\ kind \in EventKinds \ {"CREDIT"}
      /\ kind = "DEBIT" => ctx[t].kind # "investment_sell"
  BY <1>1 DEF Kinds, SourceEvent, EventKinds
<1>4. e \in Entries /\ e.kind = kind /\ e.tx = t /\ e.left = left
  BY <1>1, <1>3 DEF Event, Entries
<1>5. ASSUME kind = "DEBIT"
      PROVE  left = Told'[from]
  <2>0. PICK w \in Wallets : w = from
    BY <1>1
  <2>1. LogTells'
    BY MoneyRecordSource
  <2>2. funds[from] = c.source - ctx[t].amount
    BY <1>0, <1>3, <1>5 DEF Written
  <2>3. Unsaid(w)' = 0
    BY <2>0, <1>1, <1>2 DEF Unsaid, SourceWallet, TargetWallet, IsTransfer
  <2>4. Told' \in Money
    <3>1. log \in Seq(Entries) /\ ctx \in [Txs -> Contexts] /\ e \in Entries
      BY <1>4, ToldTyped DEF IInv
    <3>2. log' = Append(log, e) /\ ctx' = ctx
      BY <1>2
    <3> HIDE DEF e
    <3>3. log' \in Seq(Entries)
      BY <3>1, <3>2, Appended
    <3>4. ReplayIn(ctx, log') \in Money
      BY <3>1, <3>3, ReplayAppend
    <3> QED
      BY <3>2, <3>4 DEF Told
  <2>5. funds'[w] = Told'[w] + Unsaid(w)' /\ Told'[w] \in Int
    BY <2>1, <2>4 DEF LogTells, Money
  <2>6. funds'[w] = left
    BY <1>2, <1>5, <2>0, <2>2
  <2> QED
    BY <2>0, <2>3, <2>5, <2>6
<1>6. WalletIn(ctx, e) = from \/ kind # "DEBIT"
  BY <1>4 DEF WalletIn, SourceIn, SourceWallet
<1> HIDE DEF e, left, kind, from
<1> QED
  BY <1>2, <1>3, <1>4, <1>5, <1>6, BalancesRecorded DEF IInv

LEMMA BalancesTarget ==
  ASSUME NoSelfTransfer, IInv, LogTells, Written, RecordedBalancesAreTrue, RecordTarget(Worker)
  PROVE  RecordedBalancesAreTrue'
<1> DEFINE c == call[Worker]
           t == c.tx
           to == TargetWallet(t)
           left == c.target + ctx[t].amount
           e == Event(t, "CREDIT", left)
<1>0. c.at = "recordTarget"
  BY DEF RecordTarget
<1>1. /\ ctx[t].amount \in Nat /\ t \in Txs /\ c.target \in Int
      /\ Worker \in Threads
      /\ call \in [Threads -> [at : Statements, tx : Txs \cup {NoTx}, source : Int, target : Int]]
  BY <1>0, CallWallets
<1>2. IsTransfer(t) /\ to \in Wallets
  <2>1. IsTransfer(t)
    BY <1>0 DEF IInv, CallFits
  <2> QED
    BY <1>0, <2>1, CallWallets
<1>3. /\ ctx' = ctx /\ funds' = funds /\ log' = Append(log, e)
      /\ call'[Worker].at = "returned"
  BY <1>1 DEF RecordTarget, NewTarget, Record, Goto
<1>4. e \in Entries /\ e.kind = "CREDIT" /\ e.tx = t /\ e.left = left
  BY <1>1 DEF Event, Entries, EventKinds
<1>5. left = Told'[to]
  <2>0. PICK w \in Wallets : w = to
    BY <1>2
  <2>1. LogTells'
    BY MoneyRecordTarget
  <2>2. funds[to] = left
    BY <1>0, <1>2 DEF Written
  <2>3. Unsaid(w)' = 0
    BY <2>0, <1>3 DEF Unsaid
  <2>4. Told' \in Money
    <3>1. log \in Seq(Entries) /\ ctx \in [Txs -> Contexts] /\ e \in Entries
      BY <1>4, ToldTyped DEF IInv
    <3>2. log' = Append(log, e) /\ ctx' = ctx
      BY <1>3
    <3> HIDE DEF e
    <3>3. log' \in Seq(Entries)
      BY <3>1, <3>2, Appended
    <3>4. ReplayIn(ctx, log') \in Money
      BY <3>1, <3>3, ReplayAppend
    <3> QED
      BY <3>2, <3>4 DEF Told
  <2>5. funds'[w] = Told'[w] + Unsaid(w)' /\ Told'[w] \in Int
    BY <2>1, <2>4 DEF LogTells, Money
  <2>6. funds'[w] = left
    BY <1>3, <2>0, <2>2
  <2> QED
    BY <2>0, <2>3, <2>5, <2>6
<1>6. WalletIn(ctx, e) = to
  BY <1>4 DEF WalletIn, TargetIn, TargetWallet
<1> HIDE DEF e, left, to
<1> QED
  BY <1>3, <1>4, <1>5, <1>6, BalancesRecorded DEF IInv

LEMMA BalancesStep ==
  ASSUME NoSelfTransfer, IInv, LogTells, Written, RecordedBalancesAreTrue, [Next]_vars
  PROVE  RecordedBalancesAreTrue'
<1>1. CASE ~WorkerHandles
  <2>1. ctx' = ctx
    BY NextCases, <1>1 DEF Elsewhere, WorkerDispatch, WorkerReturned, WorkerRaised, CallHandler, IInv
  <2> QED
    BY <1>1, <2>1, LogCases, BalancesStay DEF IInv
<1>2. CASE WorkerHandles
  <2>1. ASSUME \/ ReadSource(Worker) \/ ReadTarget(Worker) \/ WriteSource(Worker)
               \/ WriteTarget(Worker) \/ BumpVersion(Worker)
        PROVE  ctx' = ctx /\ log' = log
    BY <2>1 DEF ReadSource, ReadTarget, WriteSource, WriteTarget, BumpVersion
  <2> QED
    BY <1>2, <2>1, BalancesStay, BalancesSource, BalancesTarget
       DEF WorkerHandles, HandlerStep, IInv
<1> QED
  BY <1>1, <1>2

(* The new_balance a DEBIT or CREDIT event carries                         *)
(* (transaction_handler.py:336) is the balance the log itself implies at   *)
(* that point, so an auditor may trust either, for any contexts without a  *)
(* transfer from an account to itself.                                     *)
THEOREM BalancesAreTrue ==
  ASSUME NoSelfTransfer
  PROVE  Spec => []RecordedBalancesAreTrue
<1>1. Init => RecordedBalancesAreTrue
  BY DEF Init, HandlerInit, RecordedBalancesAreTrue
<1>2. IInv /\ LogTells /\ Written /\ RecordedBalancesAreTrue /\ [Next]_vars
        => RecordedBalancesAreTrue'
  BY BalancesStep
<1> QED
  BY <1>1, <1>2, LogTellsAlways, Inductive, PTL DEF Spec

-----------------------------------------------------------------------------
(* Short sequences. *)

LEMMA OneLong == ASSUME NEW a PROVE Append(<<>>, a) = <<a>>
OBVIOUS

LEMMA TwoLong == ASSUME NEW a, NEW b PROVE Append(<<a>>, b) = <<a, b>>
<1> DEFINE S == {a, b}
<1>1. Append(<<a>>, b) \in Seq(S) /\ <<a, b>> \in Seq(S)
  OBVIOUS
<1>2. Len(Append(<<a>>, b)) = 2 /\ Len(<<a, b>>) = 2
  OBVIOUS
<1>3. \A i \in 1 .. 2 : Append(<<a>>, b)[i] = <<a, b>>[i]
  OBVIOUS
<1> HIDE DEF S
<1> QED
  BY <1>1, <1>2, <1>3, SeqEqual

LEMMA ThreeLong == ASSUME NEW a, NEW b, NEW c PROVE Append(<<a, b>>, c) = <<a, b, c>>
<1> DEFINE S == {a, b, c}
<1>1. Append(<<a, b>>, c) \in Seq(S) /\ <<a, b, c>> \in Seq(S)
  OBVIOUS
<1>2. Len(Append(<<a, b>>, c)) = 3 /\ Len(<<a, b, c>>) = 3
  OBVIOUS
<1>3. \A i \in 1 .. 3 : Append(<<a, b>>, c)[i] = <<a, b, c>>[i]
  OBVIOUS
<1> HIDE DEF S
<1> QED
  BY <1>1, <1>2, <1>3, SeqEqual

LEMMA FourLong ==
  ASSUME NEW a, NEW b, NEW c, NEW d
  PROVE  Append(<<a, b, c>>, d) = <<a, b, c, d>>
<1> DEFINE S == {a, b, c, d}
<1>1. Append(<<a, b, c>>, d) \in Seq(S) /\ <<a, b, c, d>> \in Seq(S)
  OBVIOUS
<1>2. Len(Append(<<a, b, c>>, d)) = 4 /\ Len(<<a, b, c, d>>) = 4
  OBVIOUS
<1>3. \A i \in 1 .. 4 : Append(<<a, b, c>>, d)[i] = <<a, b, c, d>>[i]
  OBVIOUS
<1> HIDE DEF S
<1> QED
  BY <1>1, <1>2, <1>3, SeqEqual

LEMMA PrefixOfItself ==
  ASSUME NEW S, NEW s \in Seq(S)
  PROVE  IsPrefix(s, s)
<1>1. Len(s) \in Nat
  BY LenProperties
<1> QED
  BY <1>1 DEF IsPrefix

LEMMA PrefixGrows ==
  ASSUME NEW S, NEW s \in Seq(S), NEW r \in Seq(S), IsPrefix(s, r), NEW e \in S
  PROVE  IsPrefix(s, Append(r, e))
<1>1. PICK n \in Nat : n = Len(s)
  BY LenProperties
<1>2. PICK m \in Nat : m = Len(r)
  BY LenProperties
<1>3. PICK g : g = Append(r, e)
  OBVIOUS
<1>4. /\ g \in Seq(S) /\ Len(g) = m + 1
      /\ \A i \in 1 .. m : g[i] = r[i]
  BY <1>2, <1>3, Appended
<1>5. n <= m /\ SubSeq(s, 1, n) = SubSeq(r, 1, n)
  BY <1>1, <1>2 DEF IsPrefix
<1>6. SubSeq(g, 1, n) = SubSeq(r, 1, n)
  <2>1. \A k \in 1 .. n : g[k] \in S /\ r[k] \in S /\ g[k] = r[k]
    BY <1>2, <1>4, <1>5, ElementOfSeq
  <2>2. /\ SubSeq(g, 1, n) \in Seq(S) /\ Len(SubSeq(g, 1, n)) = n
        /\ \A k \in 1 .. n : SubSeq(g, 1, n)[k] = g[k]
    BY <2>1, SubSeqProperties
  <2>3. /\ SubSeq(r, 1, n) \in Seq(S) /\ Len(SubSeq(r, 1, n)) = n
        /\ \A k \in 1 .. n : SubSeq(r, 1, n)[k] = r[k]
    BY <2>1, SubSeqProperties
  <2> QED
    BY <2>1, <2>2, <2>3, SeqEqual
<1> QED
  BY <1>1, <1>3, <1>4, <1>5, <1>6 DEF IsPrefix

-----------------------------------------------------------------------------
(* The stations of a trail. *)

Initiated == <<"initiated">>
Begun == <<"initiated", "processing">>
Debited == <<"initiated", "processing", "DEBIT">>
FailedOnce == <<"initiated", "processing", "failed">>
HandledAs(kind) == Begun \o HandlerTrail(kind)
Handled(t) == HandledAs(ctx[t].kind)

LEMMA Stations ==
  /\ <<>> \in Seq(EventKinds) /\ Initiated \in Seq(EventKinds) /\ Begun \in Seq(EventKinds)
  /\ Debited \in Seq(EventKinds) /\ FailedOnce \in Seq(EventKinds)
  /\ Append(<<>>, "initiated") = Initiated
  /\ Append(Initiated, "processing") = Begun
  /\ Append(Initiated, "failed") = RefusalTrail
  /\ Append(Begun, "failed") = FailedOnce
  /\ Append(FailedOnce, "failed") = FailureTrail
  /\ Append(Begun, "DEBIT") = Debited
<1>1. /\ <<>> \in Seq(EventKinds) /\ Initiated \in Seq(EventKinds) /\ Begun \in Seq(EventKinds)
      /\ Debited \in Seq(EventKinds) /\ FailedOnce \in Seq(EventKinds)
  BY DEF EventKinds, Initiated, Begun, Debited, FailedOnce
<1>2. /\ Append(<<>>, "initiated") = Initiated
      /\ Append(Initiated, "processing") = Begun
      /\ Append(Initiated, "failed") = RefusalTrail
  BY OneLong, TwoLong DEF Initiated, Begun, RefusalTrail
<1>3. /\ Append(Begun, "failed") = FailedOnce
      /\ Append(Begun, "DEBIT") = Debited
  BY ThreeLong DEF Begun, FailedOnce, Debited
<1>4. Append(FailedOnce, "failed") = FailureTrail
  BY FourLong DEF FailedOnce, FailureTrail
<1> QED
  BY <1>1, <1>2, <1>3, <1>4

(* Handlers add the events SourceEvent names and, in a transfer, a CREDIT. *)
LEMMA Handling ==
  ASSUME NEW kind \in Kinds
  PROVE  /\ HandledAs(kind) \in Seq(EventKinds)
         /\ kind = "transfer" => /\ Append(Begun, SourceEvent[kind]) = Debited
                                 /\ Append(Debited, "CREDIT") = HandledAs(kind)
         /\ kind # "transfer" => Append(Begun, SourceEvent[kind]) = HandledAs(kind)
<1>1. /\ "DEBIT" \in EventKinds /\ "CREDIT" \in EventKinds
      /\ "buy_order_filled" \in EventKinds /\ "sell_order_filled" \in EventKinds
  BY DEF EventKinds
<1>2. ASSUME kind = "transfer"
      PROVE  /\ HandledAs(kind) \in Seq(EventKinds)
             /\ Append(Begun, SourceEvent[kind]) = Debited
             /\ Append(Debited, "CREDIT") = HandledAs(kind)
  <2>1. SourceEvent[kind] = "DEBIT" /\ HandlerTrail(kind) = <<"DEBIT", "CREDIT">>
    BY <1>2 DEF SourceEvent, HandlerTrail
  <2>2. Debited = Begun \o <<"DEBIT">>
    BY <1>1, Stations, AppendIsConcat
  <2>3. Append(Debited, "CREDIT") = (Begun \o <<"DEBIT">>) \o <<"CREDIT">>
    BY <1>1, <2>2, Stations, AppendIsConcat
  <2>4. <<"DEBIT">> \in Seq(EventKinds) /\ <<"CREDIT">> \in Seq(EventKinds)
    BY <1>1
  <2>5. <<"DEBIT">> \o <<"CREDIT">> = <<"DEBIT", "CREDIT">>
    <3>1. Append(<<"DEBIT">>, "CREDIT") = <<"DEBIT">> \o <<"CREDIT">>
      BY <1>1, <2>4, AppendIsConcat
    <3> QED
      BY <3>1, TwoLong
  <2>6. Append(Debited, "CREDIT") = HandledAs(kind)
    <3>1. (Begun \o <<"DEBIT">>) \o <<"CREDIT">> = Begun \o (<<"DEBIT">> \o <<"CREDIT">>)
      BY <2>4, Stations, ConcatAssociative
    <3> QED
      BY <2>1, <2>3, <2>5, <3>1 DEF HandledAs
  <2>7. Append(Debited, "CREDIT") \in Seq(EventKinds)
    BY <1>1, Stations, Appended
  <2> QED
    BY <2>1, <2>6, <2>7, Stations
<1>3. ASSUME kind # "transfer"
      PROVE  /\ HandledAs(kind) \in Seq(EventKinds)
             /\ Append(Begun, SourceEvent[kind]) = HandledAs(kind)
  <2>1. PICK e \in EventKinds : SourceEvent[kind] = e /\ HandlerTrail(kind) = <<e>>
    BY <1>1, <1>3 DEF SourceEvent, HandlerTrail, Kinds
  <2>2. Append(Begun, e) = Begun \o <<e>> /\ Append(Begun, e) \in Seq(EventKinds)
    BY Stations, AppendIsConcat, Appended
  <2> QED
    BY <2>1, <2>2 DEF HandledAs
<1> QED
  BY <1>2, <1>3

(* Whatever the handler, its completion ends the trail. *)
LEMMA Completing ==
  ASSUME NEW t, ctx[t].kind \in Kinds
  PROVE  Append(Handled(t), "completed") = SuccessTrail(t)
<1>1. Handled(t) \in Seq(EventKinds) /\ "completed" \in EventKinds
  BY Handling DEF Handled, EventKinds
<1>2. Append(Handled(t), "completed") = Handled(t) \o <<"completed">>
  BY <1>1, AppendIsConcat
<1> QED
  BY <1>2 DEF Handled, HandledAs, Begun, SuccessTrail

-----------------------------------------------------------------------------
(* Which station a transaction's trail has reached follows from where the  *)
(* transaction is.                                                         *)

AtHand(t) ==
  /\ worker.at \in {"mark", "announce"} => Trail(t) = Initiated
  /\ worker.at \in {"dispatch", "recordFailure"} => Trail(t) = Begun
  /\ worker.at = "handling" =>
       /\ call[Worker].at \notin {"recordTarget", "returned"} => Trail(t) = Begun
       /\ call[Worker].at = "recordTarget" => Trail(t) = Debited
       /\ call[Worker].at = "returned" => Trail(t) = Handled(t)
  /\ worker.at = "recordCompletion" => Trail(t) = Handled(t) /\ ctx[t].kind \in Kinds
  /\ worker.at \in {"move", "count"} => Trail(t) = SuccessTrail(t)
  /\ worker.at = "recordAgain" => Trail(t) = FailedOnce

Aside(t) ==
  /\ client[t] = "new" => Trail(t) = <<>>
  /\ client[t] \in {"put", "refused"} => Trail(t) = Initiated
  /\ client[t] = "rejected" => Trail(t) = RefusalTrail
  /\ Accepted(t) /\ state[t] = "pending" => Trail(t) = Initiated
  /\ Accepted(t) /\ state[t] = "completed" => Trail(t) = SuccessTrail(t)
  /\ Accepted(t) /\ state[t] = "failed" => Trail(t) = FailureTrail

Fit(t) == IF worker.tx = t THEN AtHand(t) ELSE Aside(t)

TrailsFit == \A t \in Txs : Fit(t)

LEMMA TrailStays ==
  ASSUME NEW t, log' = log
  PROVE  Trail(t)' = Trail(t)
BY DEF Trail, TrailOf

LEMMA TrailRecords ==
  ASSUME TypeOK, NEW t, NEW u \in Txs, NEW kind \in EventKinds, NEW left \in Int,
         Record(u, kind, left)
  PROVE  Trail(t)' = IF u = t THEN Append(Trail(t), kind) ELSE Trail(t)
<1> DEFINE e == Event(u, kind, left)
<1>1. log \in Seq(Entries)
  BY DEF TypeOK, Entries
<1>2. e \in Entries /\ e.tx = u /\ e.kind = kind
  BY DEF Event, Entries
<1>3. log' = Append(log, e)
  BY DEF Record
<1>4. TrailOf(log', t) = IF u = t THEN Append(TrailOf(log, t), kind) ELSE TrailOf(log, t)
  <2> HIDE DEF e
  <2> QED
    BY <1>1, <1>2, <1>3, TrailAppend
<1>5. Trail(t)' = TrailOf(log', t)
  BY DEF Trail, TrailOf
<1> QED
  BY <1>4, <1>5 DEF Trail

LEMMA TrailTyped ==
  ASSUME TypeOK, NEW t \in Txs
  PROVE  Trail(t) \in Seq(EventKinds)
<1>1. log \in Seq(Entries)
  BY DEF TypeOK, Entries
<1>2. Event(t, "failed", 0) \in Entries
  BY DEF Event, Entries, EventKinds
<1> QED
  BY <1>1, <1>2, TrailAppend DEF Trail

(* Only the parts of a state that its trail depends on count. *)
LEMMA Steady ==
  ASSUME NEW t, Fit(t), ctx' = ctx, call' = call, worker' = worker, Trail(t)' = Trail(t),
         state'[t] = state[t], client'[t] = client[t] \/ (Accepted(t) /\ Accepted(t)')
  PROVE  Fit(t)'
BY DEF Fit, AtHand, Aside, Accepted, Handled, SuccessTrail

LEMMA SteadyAside ==
  ASSUME NEW t, Fit(t), ctx' = ctx, worker.tx # t, worker'.tx # t, Trail(t)' = Trail(t),
         state'[t] = state[t], client'[t] = client[t]
  PROVE  Fit(t)'
BY DEF Fit, Aside, Accepted, SuccessTrail

LEMMA SubmitFitting ==
  ASSUME IInv, TrailsFit, NEW t \in Txs, NEW u \in Txs, Submit(u)
  PROVE  Fit(t)'
<1>0. /\ client \in [Txs -> ClientStatements] /\ state \in [Txs -> States]
      /\ TypeOK /\ ClientFits /\ HeldOnce /\ Fit(t)
  BY DEF IInv, TypeOK, TrailsFit
<1>k. "initiated" \in EventKinds /\ "failed" \in EventKinds /\ 0 \in Int
  BY DEF EventKinds
<1>1. /\ ctx' = ctx /\ call' = call /\ worker' = worker
      /\ \A v \in Txs \ {u} : state'[v] = state[v] /\ client'[v] = client[v]
  BY <1>0 DEF Submit, SubmitRecord, SubmitPut, SubmitFull, SubmitRefused, SubmitTrack,
     SubmitGoto, handlerVars
<1>2. CASE SubmitRecord(u)
  <2>1. Trail(t)' = IF u = t THEN Append(Trail(t), "initiated") ELSE Trail(t)
    BY <1>0, <1>k, <1>2, TrailRecords DEF SubmitRecord
  <2>2. CASE u = t
    <3>1. client[t] = "new" /\ client'[t] = "put" /\ worker.tx # t /\ worker'.tx # t
      BY <1>0, <1>1, <1>2, <2>2 DEF SubmitRecord, SubmitGoto, HeldOnce, Accepted
    <3>2. Trail(t) = <<>>
      BY <1>0, <3>1 DEF Fit, Aside
    <3>3. Trail(t)' = Initiated
      BY <2>1, <2>2, <3>2, Stations
    <3> QED
      BY <3>1, <3>3 DEF Fit, Aside, Accepted
  <2>3. CASE u # t
    BY <1>0, <1>1, <2>1, <2>3, Steady
  <2> QED
    BY <2>2, <2>3
<1>3. CASE SubmitRefused(u)
  <2>1. Trail(t)' = IF u = t THEN Append(Trail(t), "failed") ELSE Trail(t)
    BY <1>0, <1>k, <1>3, TrailRecords DEF SubmitRefused
  <2>2. CASE u = t
    <3>1. client[t] = "refused" /\ client'[t] = "rejected" /\ worker.tx # t /\ worker'.tx # t
      BY <1>0, <1>1, <1>3, <2>2 DEF SubmitRefused, SubmitGoto, HeldOnce, Accepted
    <3>2. Trail(t) = Initiated
      BY <1>0, <3>1 DEF Fit, Aside
    <3>3. Trail(t)' = RefusalTrail
      BY <2>1, <2>2, <3>2, Stations
    <3> QED
      BY <3>1, <3>3 DEF Fit, Aside, Accepted
  <2>3. CASE u # t
    BY <1>0, <1>1, <2>1, <2>3, Steady
  <2> QED
    BY <2>2, <2>3
<1>4. CASE SubmitPut(u) \/ SubmitFull(u)
  <2>1. Trail(t)' = Trail(t)
    BY <1>4, TrailStays DEF SubmitPut, SubmitFull, handlerVars
  <2>2. CASE u = t
    <3>1. /\ client[t] = "put" /\ client'[t] \in {"track", "refused"}
          /\ worker.tx # t /\ worker'.tx # t
      BY <1>0, <1>1, <1>4, <2>2 DEF SubmitPut, SubmitFull, SubmitGoto, HeldOnce, Accepted
    <3>2. Trail(t) = Initiated
      BY <1>0, <3>1 DEF Fit, Aside
    <3>3. client'[t] = "track" => state'[t] = "pending"
      BY <1>0, <1>4, <2>2, <3>1 DEF SubmitPut, SubmitFull, SubmitGoto, ClientFits
    <3> QED
      BY <2>1, <3>1, <3>2, <3>3 DEF Fit, Aside, Accepted
  <2>3. CASE u # t
    BY <1>0, <1>1, <2>1, <2>3, Steady
  <2> QED
    BY <2>2, <2>3
<1>5. CASE SubmitTrack(u)
  <2>1. Trail(t)' = Trail(t) /\ state' = state
    BY <1>5, TrailStays DEF SubmitTrack, handlerVars
  <2>2. client'[t] = client[t] \/ (Accepted(t) /\ Accepted(t)')
    BY <1>0, <1>5 DEF SubmitTrack, SubmitGoto, Accepted
  <2> QED
    BY <1>0, <1>1, <2>1, <2>2, Steady
<1> QED
  BY <1>2, <1>3, <1>4, <1>5 DEF Submit

LEMMA WorkerFitting ==
  ASSUME IInv, TrailsFit, NEW t \in Txs, WorkerStep, ~WorkerHandles
  PROVE  Fit(t)'
<1> DEFINE w == worker.tx
<1>0. /\ client \in [Txs -> ClientStatements] /\ state \in [Txs -> States]
      /\ worker \in [at : WorkerStatements, tx : Txs \cup {NoTx}]
      /\ call \in [Threads -> [at : Statements, tx : Txs \cup {NoTx}, source : Int, target : Int]]
      /\ Worker \in Threads /\ NoTx \notin Txs
      /\ queue \in Seq(Txs)
      /\ TypeOK /\ ClientFits /\ HeldOnce /\ WorkerFits /\ CallFits /\ Fit(t)
  BY HandlerAssumption, CoordinatorAssumption DEF IInv, TypeOK, TrailsFit
<1>k. /\ "processing" \in EventKinds /\ "completed" \in EventKinds
      /\ "failed" \in EventKinds /\ 0 \in Int
  BY DEF EventKinds
<1>1. CASE WorkerLoop \/ WorkerEmpty
  <2>1. /\ ctx' = ctx /\ state' = state /\ client' = client /\ log' = log
        /\ worker.tx = NoTx /\ worker'.tx = NoTx
    BY <1>0, <1>1 DEF WorkerLoop, WorkerEmpty, WorkerGoto, WorkerFits, handlerVars
  <2> QED
    BY <1>0, <2>1, TrailStays, SteadyAside
<1>2. CASE WorkerGet
  <2>1. /\ ctx' = ctx /\ state' = state /\ client' = client /\ log' = log
        /\ worker.tx = NoTx /\ worker'.tx = Head(queue) /\ worker'.at = "mark"
        /\ Head(queue) = queue[1] /\ 1 \in DOMAIN queue
    BY <1>0, <1>2 DEF WorkerGet, WorkerFits, handlerVars
  <2>2. Trail(t)' = Trail(t)
    BY <2>1, TrailStays
  <2>3. CASE worker'.tx = t
    <3>1. Queued(t)
      BY <2>1, <2>3 DEF Queued
    <3>2. Accepted(t) /\ state[t] = "pending"
      BY <1>0, <3>1 DEF HeldOnce, ClientFits
    <3>3. Trail(t) = Initiated
      BY <1>0, <2>1, <3>2 DEF Fit, Aside
    <3> QED
      BY <2>1, <2>2, <2>3, <3>3 DEF Fit, AtHand
  <2>4. CASE worker'.tx # t
    BY <1>0, <2>1, <2>2, <2>4, SteadyAside
  <2> QED
    BY <2>3, <2>4
<1>3. CASE WorkerMark \/ WorkerNoHandler \/ WorkerReturned \/ WorkerRaised
  <2>1. /\ ctx' = ctx /\ client' = client /\ log' = log /\ worker'.tx = w
        /\ \A v \in Txs \ {w} : state'[v] = state[v]
    BY <1>0, <1>3 DEF WorkerMark, WorkerNoHandler, WorkerReturned, WorkerRaised, WorkerGoto,
       handlerVars
  <2>2. Trail(t)' = Trail(t)
    BY <2>1, TrailStays
  <2>3. CASE w # t
    BY <1>0, <2>1, <2>2, <2>3, SteadyAside
  <2>4. CASE w = t
    <3>0. AtHand(t)
      BY <1>0, <2>4 DEF Fit
    <3>1. CASE WorkerMark
      <4>1. worker.at = "mark" /\ worker'.at = "announce"
        BY <1>0, <3>1 DEF WorkerMark, WorkerGoto
      <4> QED
        BY <2>1, <2>2, <2>4, <3>0, <4>1 DEF Fit, AtHand
    <3>2. CASE WorkerNoHandler
      <4>1. worker.at = "dispatch" /\ worker'.at = "recordFailure"
        BY <1>0, <3>2 DEF WorkerNoHandler, WorkerGoto
      <4> QED
        BY <2>1, <2>2, <2>4, <3>0, <4>1 DEF Fit, AtHand
    <3>3. CASE WorkerReturned
      <4>1. /\ worker.at = "handling" /\ call[Worker].at = "returned"
            /\ worker'.at = "recordCompletion"
        BY <1>0, <3>3 DEF WorkerReturned, WorkerGoto
      <4>2. ctx[t].kind \in Kinds
        BY <1>0, <2>4, <4>1 DEF CallFits
      <4>3. Trail(t) = Handled(t) /\ Handled(t)' = Handled(t)
        BY <2>1, <3>0, <4>1 DEF AtHand, Handled
      <4> QED
        BY <2>1, <2>2, <2>4, <4>1, <4>2, <4>3 DEF Fit, AtHand
    <3>4. CASE WorkerRaised
      <4>1. /\ worker.at = "handling" /\ call[Worker].at = "raised"
            /\ worker'.at = "recordFailure"
        BY <1>0, <3>4 DEF WorkerRaised, WorkerGoto
      <4> QED
        BY <2>1, <2>2, <2>4, <3>0, <4>1 DEF Fit, AtHand
    <3> QED
      BY <1>3, <3>1, <3>2, <3>3, <3>4
  <2> QED
    BY <2>3, <2>4
<1>4. CASE WorkerDispatch
  <2>1. /\ ctx' = ctx /\ client' = client /\ log' = log /\ worker'.tx = w /\ state' = state
        /\ worker.at = "dispatch" /\ worker'.at = "handling"
        /\ call'[Worker].at \in {"raised", "recordSource", "readSource"}
    BY <1>0, <1>4 DEF WorkerDispatch, CallHandler, NewCall, WorkerGoto
  <2>2. Trail(t)' = Trail(t)
    BY <2>1, TrailStays
  <2>3. CASE w # t
    BY <1>0, <2>1, <2>2, <2>3, SteadyAside
  <2>4. CASE w = t
    BY <1>0, <2>1, <2>2, <2>4 DEF Fit, AtHand
  <2> QED
    BY <2>3, <2>4
<1>5. CASE WorkerMove
  <2>1. /\ ctx' = ctx /\ client' = client /\ log' = log /\ worker'.tx = w /\ state' = state
        /\ worker.at = "move" /\ worker'.at = "count"
    BY <1>0, <1>5 DEF WorkerMove, WorkerGoto, handlerVars
  <2>2. Trail(t)' = Trail(t)
    BY <2>1, TrailStays
  <2>3. CASE w # t
    BY <1>0, <2>1, <2>2, <2>3, SteadyAside
  <2>4. CASE w = t
    BY <1>0, <2>1, <2>2, <2>4 DEF Fit, AtHand, SuccessTrail
  <2> QED
    BY <2>3, <2>4
<1>6. CASE WorkerCount
  <2>1. /\ ctx' = ctx /\ client' = client /\ log' = log /\ worker'.tx = NoTx /\ state' = state
        /\ worker.at = "count" /\ state[w] = "completed" /\ w \in Txs
    BY <1>0, <1>6 DEF WorkerCount, WorkerFits, handlerVars
  <2>2. Trail(t)' = Trail(t)
    BY <2>1, TrailStays
  <2>3. CASE w # t
    BY <1>0, <2>1, <2>2, <2>3, SteadyAside
  <2>4. CASE w = t
    <3>1. Accepted(t)
      BY <1>0, <2>4 DEF HeldOnce
    <3>2. Trail(t) = SuccessTrail(t)
      BY <1>0, <2>1, <2>4 DEF Fit, AtHand
    <3> QED
      BY <1>0, <2>1, <2>2, <2>4, <3>1, <3>2 DEF Fit, Aside, Accepted, SuccessTrail
  <2> QED
    BY <2>3, <2>4
<1>7. CASE WorkerAnnounce
  <2>1. /\ ctx' = ctx /\ client' = client /\ worker'.tx = w /\ state' = state
        /\ worker.at = "announce" /\ worker'.at = "dispatch"
        /\ w \in Txs /\ Record(w, "processing", 0)
    BY <1>0, <1>7 DEF WorkerAnnounce, WorkerGoto, WorkerFits
  <2>2. Trail(t)' = IF w = t THEN Append(Trail(t), "processing") ELSE Trail(t)
    BY <1>0, <1>k, <2>1, TrailRecords
  <2>3. CASE w # t
    BY <1>0, <2>1, <2>2, <2>3, SteadyAside
  <2>4. CASE w = t
    BY <1>0, <2>1, <2>2, <2>4, Stations DEF Fit, AtHand
  <2> QED
    BY <2>3, <2>4
<1>8. CASE WorkerRecordCompletion
  <2>1. /\ ctx' = ctx /\ client' = client /\ worker'.tx = w /\ state' = state
        /\ worker.at = "recordCompletion" /\ worker'.at = "move"
        /\ w \in Txs /\ Record(w, "completed", 0)
    BY <1>0, <1>8 DEF WorkerRecordCompletion, WorkerGoto, WorkerFits
  <2>2. Trail(t)' = IF w = t THEN Append(Trail(t), "completed") ELSE Trail(t)
    BY <1>0, <1>k, <2>1, TrailRecords
  <2>3. CASE w # t
    BY <1>0, <2>1, <2>2, <2>3, SteadyAside
  <2>4. CASE w = t
    <3>1. Trail(t) = Handled(t) /\ ctx[t].kind \in Kinds
      BY <1>0, <2>1, <2>4 DEF Fit, AtHand
    <3>2. Trail(t)' = SuccessTrail(t)
      BY <2>2, <2>4, <3>1, Completing
    <3> QED
      BY <2>1, <2>4, <3>2 DEF Fit, AtHand, SuccessTrail
  <2> QED
    BY <2>3, <2>4
<1>9. CASE WorkerRecordFailure
  <2>1. /\ ctx' = ctx /\ client' = client /\ worker'.tx = w /\ state' = state
        /\ worker.at = "recordFailure" /\ worker'.at = "recordAgain"
        /\ w \in Txs /\ Record(w, "failed", 0)
    BY <1>0, <1>9 DEF WorkerRecordFailure, WorkerGoto, WorkerFits
  <2>2. Trail(t)' = IF w = t THEN Append(Trail(t), "failed") ELSE Trail(t)
    BY <1>0, <1>k, <2>1, TrailRecords
  <2>3. CASE w # t
    BY <1>0, <2>1, <2>2, <2>3, SteadyAside
  <2>4. CASE w = t
    BY <1>0, <2>1, <2>2, <2>4, Stations DEF Fit, AtHand
  <2> QED
    BY <2>3, <2>4
<1>10. CASE WorkerRecordAgain
  <2>1. /\ ctx' = ctx /\ client' = client /\ worker'.tx = NoTx
        /\ state' = [state EXCEPT ![w] = "failed"]
        /\ worker.at = "recordAgain"
        /\ w \in Txs /\ Record(w, "failed", 0)
    BY <1>0, <1>10 DEF WorkerRecordAgain, WorkerFits
  <2>2. Trail(t)' = IF w = t THEN Append(Trail(t), "failed") ELSE Trail(t)
    BY <1>0, <1>k, <2>1, TrailRecords
  <2>3. CASE w # t
    BY <1>0, <2>1, <2>2, <2>3, SteadyAside
  <2>4. CASE w = t
    <3>1. Accepted(t)
      BY <1>0, <2>4 DEF HeldOnce
    <3>2. Trail(t)' = FailureTrail /\ state'[t] = "failed"
      BY <1>0, <2>1, <2>2, <2>4, Stations DEF Fit, AtHand
    <3> QED
      BY <1>0, <2>1, <3>1, <3>2 DEF Fit, Aside, Accepted
  <2> QED
    BY <2>3, <2>4
<1> QED
  BY <1>1, <1>2, <1>3, <1>4, <1>5, <1>6, <1>7, <1>8, <1>9, <1>10 DEF WorkerStep

LEMMA HandlerFitting ==
  ASSUME IInv, TrailsFit, NEW t \in Txs, WorkerHandles
  PROVE  Fit(t)'
<1> DEFINE c == call[Worker]
           w == c.tx
<1>0. /\ call \in [Threads -> [at : Statements, tx : Txs \cup {NoTx}, source : Int, target : Int]]
      /\ Worker \in Threads
      /\ TypeOK /\ CallFits /\ Fit(t)
      /\ worker.at = "handling" /\ worker' = worker /\ state' = state /\ client' = client
  BY CoordinatorAssumption DEF IInv, TypeOK, TrailsFit, WorkerHandles, coordinatorVars
<1>1. c.at # "idle" /\ w = worker.tx /\ w \in Txs /\ ctx[w].kind \in Kinds
  BY <1>0, CallOfTheWorker DEF IInv, CallFits
<1>2. ctx' = ctx
  BY <1>0, HandlerTyped DEF IInv, WorkerHandles
<1>3. CASE \/ ReadSource(Worker) \/ ReadTarget(Worker) \/ WriteSource(Worker)
           \/ WriteTarget(Worker) \/ BumpVersion(Worker)
  <2>1. /\ log' = log
        /\ c.at \notin {"recordTarget", "returned"}
        /\ call'[Worker].at \notin {"recordTarget", "returned"}
    BY <1>0, <1>3 DEF ReadSource, ReadTarget, WriteSource, WriteTarget, BumpVersion,
       AfterCheck, Goto
  <2>2. Trail(t)' = Trail(t)
    BY <2>1, TrailStays
  <2>3. CASE w # t
    BY <1>0, <1>1, <1>2, <2>2, <2>3, SteadyAside
  <2>4. CASE w = t
    BY <1>0, <1>1, <2>1, <2>2, <2>4 DEF Fit, AtHand
  <2> QED
    BY <2>3, <2>4
<1>4. CASE RecordSource(Worker)
  <2> DEFINE kind == SourceEvent[ctx[w].kind]
             left == IF kind = "DEBIT" THEN NewSource(Worker) ELSE 0
  <2>1. /\ c.at = "recordSource" /\ Record(w, kind, left)
        /\ call'[Worker].at = IF IsTransfer(w) THEN "recordTarget" ELSE "returned"
    BY <1>0, <1>4 DEF RecordSource, Goto
  <2>2. kind \in EventKinds
    BY <1>1 DEF Kinds, SourceEvent, EventKinds
  <2>3. left \in Int
    BY <1>1, <2>1, CallOfTheWorker DEF IInv, NewSource
  <2>4. Trail(t)' = IF w = t THEN Append(Trail(t), kind) ELSE Trail(t)
    <3> HIDE DEF kind, left
    <3> QED
      BY <1>0, <1>1, <2>1, <2>2, <2>3, TrailRecords
  <2>5. CASE w # t
    BY <1>0, <1>1, <1>2, <2>4, <2>5, SteadyAside
  <2>6. CASE w = t
    <3>1. Trail(t) = Begun
      BY <1>0, <1>1, <2>1, <2>6 DEF Fit, AtHand
    <3>2. Handled(t)' = Handled(t)
      BY <1>2 DEF Handled
    <3>3. CASE IsTransfer(t)
      <4>1. Trail(t)' = Debited
        BY <1>1, <2>4, <2>6, <3>1, <3>3, Handling DEF IsTransfer
      <4> QED
        BY <1>0, <1>1, <2>1, <2>6, <3>3, <4>1 DEF Fit, AtHand
    <3>4. CASE ~IsTransfer(t)
      <4>1. Trail(t)' = Handled(t)
        BY <1>1, <2>4, <2>6, <3>1, <3>4, Handling DEF IsTransfer, Handled
      <4> QED
        BY <1>0, <1>1, <2>1, <2>6, <3>2, <3>4, <4>1 DEF Fit, AtHand
    <3> QED
      BY <3>3, <3>4
  <2> QED
    BY <2>5, <2>6
<1>5. CASE RecordTarget(Worker)
  <2>1. /\ c.at = "recordTarget" /\ Record(w, "CREDIT", NewTarget(Worker))
        /\ call'[Worker].at = "returned"
    BY <1>0, <1>5 DEF RecordTarget, Goto
  <2>2. "CREDIT" \in EventKinds /\ NewTarget(Worker) \in Int
    BY <1>1, <2>1, CallOfTheWorker DEF IInv, NewTarget, EventKinds
  <2>3. Trail(t)' = IF w = t THEN Append(Trail(t), "CREDIT") ELSE Trail(t)
    BY <1>0, <1>1, <2>1, <2>2, TrailRecords
  <2>4. CASE w # t
    BY <1>0, <1>1, <1>2, <2>3, <2>4, SteadyAside
  <2>5. CASE w = t
    <3>1. Trail(t) = Debited
      BY <1>0, <1>1, <2>1, <2>5 DEF Fit, AtHand
    <3>2. ctx[t].kind = "transfer"
      BY <1>0, <2>1, <2>5 DEF CallFits, IsTransfer
    <3>3. Trail(t)' = Handled(t)
      BY <1>1, <2>3, <2>5, <3>1, <3>2, Handling DEF Handled
    <3>4. Handled(t)' = Handled(t)
      BY <1>2 DEF Handled
    <3> QED
      BY <1>0, <1>1, <2>1, <2>5, <3>3, <3>4 DEF Fit, AtHand
  <2> QED
    BY <2>4, <2>5
<1> QED
  BY <1>3, <1>4, <1>5 DEF WorkerHandles, HandlerStep

LEMMA TrailsStep ==
  ASSUME IInv, TrailsFit, [Next]_vars
  PROVE  TrailsFit'
<1> SUFFICES ASSUME NEW t \in Txs
             PROVE  Fit(t)'
  BY DEF TrailsFit
<1>0. /\ worker \in [at : WorkerStatements, tx : Txs \cup {NoTx}]
      /\ WorkerFits /\ Fit(t) /\ NoTx \notin Txs
  BY HandlerAssumption DEF IInv, TypeOK, TrailsFit
<1>1. CASE StopProcessing \/ RegisterHandlers \/ UNCHANGED vars
  <2>1. UNCHANGED <<ctx, call, log, worker, state, client>>
    BY <1>1 DEF StopProcessing, RegisterHandlers, vars, handlerVars, coordinatorVars
  <2> QED
    BY <1>0, <2>1, TrailStays, Steady
<1>2. CASE StartProcessing
  <2>1. UNCHANGED <<ctx, call, log, state, client>>
    BY <1>2 DEF StartProcessing, handlerVars
  <2>2. CASE worker.at = "none"
    <3>1. worker.tx = NoTx /\ worker'.tx = NoTx
      BY <1>0, <1>2, <2>2 DEF StartProcessing, WorkerFits
    <3> QED
      BY <1>0, <2>1, <3>1, TrailStays, SteadyAside
  <2>3. CASE worker.at # "none"
    <3>1. worker' = worker
      BY <1>2, <2>3 DEF StartProcessing
    <3> QED
      BY <1>0, <2>1, <3>1, TrailStays, Steady
  <2> QED
    BY <2>2, <2>3
<1> QED
  BY <1>1, <1>2, SubmitFitting, WorkerFitting, HandlerFitting
     DEF Next, ControlStep, WorkerStep

LEMMA TrailsInit == Init => TrailsFit
<1> SUFFICES ASSUME Init, NEW t \in Txs
             PROVE  Fit(t)
  BY DEF TrailsFit
<1>1. log = <<>> /\ worker.tx = NoTx /\ NoTx \notin Txs /\ client[t] = "new"
  BY HandlerAssumption DEF Init, HandlerInit, CoordinatorInit
<1>2. Trail(t) = <<>>
  BY <1>1, TrailOfNothing DEF Trail
<1> QED
  BY <1>1, <1>2 DEF Fit, Aside, Accepted

(* Every station lies on the way to one of the three ends. *)
LEMMA OnTheWay ==
  /\ IsPrefix(<<>>, FailureTrail) /\ IsPrefix(Initiated, FailureTrail)
  /\ IsPrefix(Begun, FailureTrail) /\ IsPrefix(FailedOnce, FailureTrail)
  /\ IsPrefix(FailureTrail, FailureTrail) /\ IsPrefix(RefusalTrail, RefusalTrail)
BY DEF IsPrefix, Initiated, Begun, FailedOnce, FailureTrail, RefusalTrail

LEMMA OnTheWayToSuccess ==
  ASSUME NEW t, ctx[t].kind \in Kinds
  PROVE  /\ IsPrefix(Handled(t), SuccessTrail(t))
         /\ IsTransfer(t) => IsPrefix(Debited, SuccessTrail(t))
<1>1. /\ Handled(t) \in Seq(EventKinds) /\ "completed" \in EventKinds /\ "CREDIT" \in EventKinds
      /\ SuccessTrail(t) = Append(Handled(t), "completed")
  BY Handling, Completing DEF Handled, EventKinds
<1>2. IsPrefix(Handled(t), SuccessTrail(t))
  BY <1>1, PrefixOfItself, PrefixGrows
<1>3. ASSUME IsTransfer(t)
      PROVE  IsPrefix(Debited, SuccessTrail(t))
  <2>1. Handled(t) = Append(Debited, "CREDIT")
    BY <1>3, Handling DEF Handled, IsTransfer
  <2>2. IsPrefix(Debited, Handled(t))
    BY <1>1, <2>1, Stations, PrefixOfItself, PrefixGrows
  <2> QED
    BY <1>1, <2>2, Stations, PrefixGrows
<1> QED
  BY <1>2, <1>3

LEMMA FitTells ==
  ASSUME IInv, TrailsFit, NEW t \in Txs
  PROVE  /\ \/ IsPrefix(Trail(t), SuccessTrail(t))
            \/ IsPrefix(Trail(t), FailureTrail)
            \/ IsPrefix(Trail(t), RefusalTrail)
         /\ worker.tx # t /\ client[t] # "refused" =>
              /\ state[t] = "completed" => Trail(t) = SuccessTrail(t)
              /\ state[t] = "failed" => Trail(t) \in {FailureTrail, RefusalTrail}
              /\ state[t] \notin {"completed", "failed"} => Trail(t) \in {<<>>, <<"initiated">>}
<1>0. /\ client \in [Txs -> ClientStatements] /\ state \in [Txs -> States]
      /\ worker \in [at : WorkerStatements, tx : Txs \cup {NoTx}]
      /\ call[Worker].at \in Statements
      /\ WorkerFits /\ ClientFits /\ HeldOnce /\ CallFits /\ NoTx \notin Txs
  BY HandlerAssumption, CoordinatorAssumption DEF IInv, TypeOK
<1>1. CASE worker.tx = t
  <2>1. AtHand(t)
    BY <1>1 DEF TrailsFit, Fit
  <2>2. worker.at \notin {"none", "loop", "get"}
    BY <1>0, <1>1 DEF WorkerFits
  <2>3. CASE Trail(t) \in {Initiated, Begun, FailedOnce}
    BY <1>1, <2>3, OnTheWay
  <2>4. CASE /\ worker.at = "handling"
             /\ call[Worker].at \in {"recordTarget", "returned"}
    <3>1. ctx[t].kind \in Kinds /\ (call[Worker].at = "recordTarget" => IsTransfer(t))
      BY <1>0, <1>1, <2>4 DEF CallFits
    <3>2. Trail(t) = Handled(t) \/ (IsTransfer(t) /\ Trail(t) = Debited)
      BY <2>1, <2>4, <3>1 DEF AtHand
    <3> QED
      BY <1>1, <3>1, <3>2, OnTheWayToSuccess
  <2>5. CASE worker.at = "recordCompletion"
    BY <1>1, <2>1, <2>5, OnTheWayToSuccess DEF AtHand
  <2>6. CASE worker.at \in {"move", "count"}
    <3>1. Trail(t) = SuccessTrail(t) /\ Trail(t) \in Seq(EventKinds)
      BY <2>1, <2>6, TrailTyped DEF AtHand, IInv
    <3> QED
      BY <1>1, <3>1, PrefixOfItself
  <2> QED
    BY <1>0, <2>1, <2>2, <2>3, <2>4, <2>5, <2>6 DEF AtHand, WorkerStatements
<1>2. CASE worker.tx # t
  <2>1. Aside(t)
    BY <1>2 DEF TrailsFit, Fit
  <2>2. CASE ~Accepted(t)
    <3>1. /\ client[t] \in {"new", "put"} => state[t] = "pending"
          /\ client[t] \in {"refused", "rejected"} => state[t] = "failed"
          /\ client[t] \in {"new", "put", "refused", "rejected"}
      BY <1>0, <2>2 DEF ClientFits, Accepted, ClientStatements
    <3> QED
      BY <2>1, <3>1, OnTheWay DEF Aside, Initiated
  <2>3. CASE Accepted(t)
    <3>1. state[t] \in {"pending", "completed", "failed"}
      BY <1>0, <1>2, <2>3 DEF HeldOnce, ClientFits, Decided, States
    <3>2. CASE state[t] = "completed"
      <4>1. Trail(t) = SuccessTrail(t) /\ Trail(t) \in Seq(EventKinds)
        BY <2>1, <2>3, <3>2, TrailTyped DEF Aside, IInv
      <4> QED
        BY <3>2, <4>1, PrefixOfItself
    <3>3. CASE state[t] # "completed"
      BY <2>1, <2>3, <3>1, <3>3, OnTheWay DEF Aside, Initiated
    <3> QED
      BY <3>2, <3>3
  <2> QED
    BY <2>2, <2>3
<1> QED
  BY <1>1, <1>2

(* The audit trail of a transaction                                        *)
(* (transaction_coordinator.py:175-238, :345-444) is always on its way to  *)
(* one of its three complete forms, and once nobody works on the           *)
(* transaction the trail is complete and tells the same outcome as its     *)
(* state.                                                                  *)
THEOREM TrailsTellOutcomes == Spec => []TrailTellsOutcome
<1>1. IInv /\ TrailsFit => TrailTellsOutcome
  BY FitTells DEF TrailTellsOutcome
<1>2. IInv /\ TrailsFit /\ [Next]_vars => TrailsFit'
  BY TrailsStep
<1> QED
  BY <1>1, <1>2, TrailsInit, Inductive, PTL DEF Spec

-----------------------------------------------------------------------------
(* One transaction moves its money once.                                   *)

Moves == {"DEBIT", "buy_order_filled"}

Moved(h, t) == \E i \in DOMAIN h : h[i].tx = t /\ h[i].kind \in Moves

MovedOnce(h) ==
  \A i, j \in DOMAIN h :
    h[i].kind \in Moves /\ h[j].kind \in Moves /\ h[i].tx = h[j].tx => i = j

IsSequence(h) == \E S : h \in Seq(S)

(* A log with one event more, which moves money at most for a transaction  *)
(* whose money has not moved.                                              *)
LEMMA MoveAppended ==
  ASSUME NEW h, IsSequence(h), NEW e, MovedOnce(h),
         e.kind \in Moves => ~Moved(h, e.tx)
  PROVE  /\ IsSequence(Append(h, e)) /\ MovedOnce(Append(h, e))
         /\ \A t : Moved(Append(h, e), t) => Moved(h, t) \/ (t = e.tx /\ e.kind \in Moves)
<1>1. PICK S : h \in Seq(S)
  BY DEF IsSequence
<1> DEFINE T == S \cup {e}
           g == Append(h, e)
           n == Len(h)
<1>2. h \in Seq(T) /\ e \in T
  BY <1>1
<1> HIDE DEF T
<1>3. /\ g \in Seq(T) /\ n \in Nat
      /\ DOMAIN h = 1 .. n /\ DOMAIN g = 1 .. n + 1
      /\ g[n + 1] = e /\ \A i \in 1 .. n : g[i] = h[i]
  BY <1>2, AppendProperties, LenProperties
<1> HIDE DEF g, n
<1>4. \A i \in DOMAIN g : (i \in DOMAIN h /\ g[i] = h[i]) \/ (i = n + 1 /\ g[i] = e)
  BY <1>3
<1>5. \A t : Moved(g, t) => Moved(h, t) \/ (t = e.tx /\ e.kind \in Moves)
  BY <1>4 DEF Moved
<1>6. MovedOnce(g)
  <2> SUFFICES ASSUME NEW i \in DOMAIN g, NEW j \in DOMAIN g,
                      g[i].kind \in Moves, g[j].kind \in Moves, g[i].tx = g[j].tx
               PROVE  i = j
    BY DEF MovedOnce
  <2>1. CASE i \in DOMAIN h /\ g[i] = h[i] /\ j \in DOMAIN h /\ g[j] = h[j]
    BY <2>1 DEF MovedOnce
  <2>2. CASE g[i] = e /\ i = n + 1 /\ j \in DOMAIN h /\ g[j] = h[j]
    BY <2>2 DEF Moved
  <2>3. CASE g[j] = e /\ j = n + 1 /\ i \in DOMAIN h /\ g[i] = h[i]
    BY <2>3 DEF Moved
  <2> QED
    BY <1>4, <2>1, <2>2, <2>3
<1>7. IsSequence(g)
  BY <1>3 DEF IsSequence
<1> QED
  BY <1>5, <1>6, <1>7 DEF g

(* What is no move changes nothing of who has moved. *)
LEMMA NoMove ==
  ASSUME IsSequence(log), MovedOnce(log), log' = log \/ Noted
  PROVE  /\ IsSequence(log') /\ MovedOnce(log')
         /\ \A t : Moved(log', t) => Moved(log, t)
<1>1. CASE log' = log
  BY <1>1
<1>2. CASE Noted
  <2>1. PICK t \in Txs, kind \in Notes : log' = Append(log, Event(t, kind, 0))
    BY <1>2 DEF Noted, Record
  <2>2. Event(t, kind, 0).kind \notin Moves
    BY <2>1 DEF Event, Notes, Moves
  <2> QED
    BY <2>1, <2>2, MoveAppended
<1> QED
  BY <1>1, <1>2

(* Calls are records, whatever they hold. *)
IsCall(c) == c = [at |-> c.at, tx |-> c.tx, source |-> c.source, target |-> c.target]

Calls == /\ call = [th \in Threads |-> call[th]]
         /\ \A th \in Threads : IsCall(call[th])

(* A handler's step moves on for its transaction, and records a move only  *)
(* where it is about to leave the source account behind.                   *)
MovesOn(th, at, e) ==
  \/ /\ call[th].at \notin {"idle", "recordTarget", "returned"}
     /\ at # "idle" /\ log' = log
  \/ /\ call[th].at = "recordSource" /\ at \in {"recordTarget", "returned"}
     /\ log' = Append(log, e) /\ e.tx = call[th].tx
  \/ /\ call[th].at = "recordTarget" /\ at = "returned"
     /\ log' = Append(log, e) /\ e.tx = call[th].tx /\ e.kind \notin Moves

Excepts(c, x, y) ==
  /\ [c EXCEPT !.at = x] = [at |-> x, tx |-> c.tx, source |-> c.source, target |-> c.target]
  /\ [c EXCEPT !.source = y, !.at = x]
       = [at |-> x, tx |-> c.tx, source |-> y, target |-> c.target]
  /\ [c EXCEPT !.target = y, !.at = x]
       = [at |-> x, tx |-> c.tx, source |-> c.source, target |-> y]

LEMMA CallExcept == ASSUME NEW c, IsCall(c), NEW x, NEW y PROVE Excepts(c, x, y)
<1>1. PICK at, tx, source, target :
        c = [at |-> at, tx |-> tx, source |-> source, target |-> target]
  BY DEF IsCall
<1>2. c.at = at /\ c.tx = tx /\ c.source = source /\ c.target = target
  BY <1>1
<1> DEFINE r == [at |-> at, tx |-> tx, source |-> source, target |-> target]
<1>3. [r EXCEPT !.at = x] = [at |-> x, tx |-> tx, source |-> source, target |-> target]
  OBVIOUS
<1>4. [r EXCEPT !.source = y] = [at |-> at, tx |-> tx, source |-> y, target |-> target]
  OBVIOUS
<1>5. [[at |-> at, tx |-> tx, source |-> y, target |-> target] EXCEPT !.at = x]
        = [at |-> x, tx |-> tx, source |-> y, target |-> target]
  OBVIOUS
<1>6. [r EXCEPT !.target = y] = [at |-> at, tx |-> tx, source |-> source, target |-> y]
  OBVIOUS
<1>7. [[at |-> at, tx |-> tx, source |-> source, target |-> y] EXCEPT !.at = x]
        = [at |-> x, tx |-> tx, source |-> source, target |-> y]
  OBVIOUS
<1> QED
  BY <1>1, <1>2, <1>3, <1>4, <1>5, <1>6, <1>7, Zenon DEF Excepts

(* The place of thread th becomes at, with what it has read. *)
MovesTo(th, at, source, target) ==
  call' = [call EXCEPT ![th] = [at |-> at, tx |-> call[th].tx,
                                source |-> source, target |-> target]]

LEMMA HandlerMoves ==
  ASSUME Calls, NEW th \in Threads, HandlerStep(th)
  PROVE  \E at, source, target, e : MovesTo(th, at, source, target) /\ MovesOn(th, at, e)
<1> DEFINE t == call[th].tx
<1>0. IsCall(call[th])
  BY DEF Calls
<1>1. ASSUME NEW at, Goto(th, at)
      PROVE  MovesTo(th, at, call[th].source, call[th].target)
  <2>1. call' = [call EXCEPT ![th] = [call[th] EXCEPT !.at = at]]
    BY <1>1 DEF Goto
  <2>2. Excepts(call[th], at, 0)
    BY <1>0, CallExcept, Zenon
  <2> QED
    BY <2>1, <2>2, Zenon DEF MovesTo, Excepts
<1>2. CASE ReadSource(th)
  <2> DEFINE held == funds[SourceWallet(t)]
             at == IF IsTransfer(t) THEN "readTarget" ELSE AfterCheck(t, held)
  <2>1. call' = [call EXCEPT ![th] = [call[th] EXCEPT !.source = held, !.at = at]]
        /\ log' = log /\ call[th].at = "readSource"
    BY <1>2 DEF ReadSource
  <2>2. at # "idle"
    BY DEF AfterCheck
  <2> HIDE DEF held, at
  <2>3. MovesTo(th, at, held, call[th].target)
    <3>1. Excepts(call[th], at, held)
      BY <1>0, CallExcept, Zenon
    <3> QED
      BY <2>1, <3>1, Zenon DEF MovesTo, Excepts
  <2> QED
    BY <2>1, <2>2, <2>3 DEF MovesOn
<1>3. CASE ReadTarget(th)
  <2> DEFINE held == funds[TargetWallet(t)]
             at == AfterCheck(t, call[th].source)
  <2>1. call' = [call EXCEPT ![th] = [call[th] EXCEPT !.target = held, !.at = at]]
        /\ log' = log /\ call[th].at = "readTarget"
    BY <1>3 DEF ReadTarget
  <2>2. at # "idle"
    BY DEF AfterCheck
  <2> HIDE DEF held, at
  <2>3. MovesTo(th, at, call[th].source, held)
    <3>1. Excepts(call[th], at, held)
      BY <1>0, CallExcept, Zenon
    <3> QED
      BY <2>1, <3>1, Zenon DEF MovesTo, Excepts
  <2> QED
    BY <2>1, <2>2, <2>3 DEF MovesOn
<1>4. CASE WriteSource(th) \/ WriteTarget(th) \/ BumpVersion(th)
  <2>1. PICK at \in {"writeTarget", "version", "recordSource"} :
          Goto(th, at) /\ log' = log /\ call[th].at \in {"writeSource", "writeTarget", "version"}
    BY <1>4 DEF WriteSource, WriteTarget, BumpVersion
  <2> QED
    BY <1>1, <2>1 DEF MovesOn
<1>5. CASE RecordSource(th)
  <2> DEFINE kind == SourceEvent[ctx[t].kind]
             e == Event(t, kind, IF kind = "DEBIT" THEN NewSource(th) ELSE 0)
  <2>1. PICK at \in {"recordTarget", "returned"} :
          Goto(th, at) /\ log' = Append(log, e) /\ call[th].at = "recordSource"
    BY <1>5 DEF RecordSource, Record
  <2>2. e.tx = t
    BY DEF Event
  <2> HIDE DEF e
  <2> QED
    BY <1>1, <2>1, <2>2 DEF MovesOn
<1>6. CASE RecordTarget(th)
  <2> DEFINE e == Event(t, "CREDIT", NewTarget(th))
  <2>1. Goto(th, "returned") /\ log' = Append(log, e) /\ call[th].at = "recordTarget"
    BY <1>6 DEF RecordTarget, Record
  <2>2. e.tx = t /\ e.kind \notin Moves
    BY DEF Event, Moves
  <2> HIDE DEF e
  <2> QED
    BY <1>1, <2>1, <2>2 DEF MovesOn
<1> QED
  BY <1>2, <1>3, <1>4, <1>5, <1>6 DEF HandlerStep

LEMMA MovedTo ==
  ASSUME Calls, NEW th \in Threads, NEW at, NEW source, NEW target,
         MovesTo(th, at, source, target)
  PROVE  /\ Calls' /\ call'[th].at = at /\ call'[th].tx = call[th].tx
         /\ \A other \in Threads : other # th => call'[other] = call[other]
<1> DEFINE r == [at |-> at, tx |-> call[th].tx, source |-> source, target |-> target]
<1>1. r.at = at /\ r.tx = call[th].tx /\ r.source = source /\ r.target = target
  OBVIOUS
<1>2. IsCall(r)
  BY DEF IsCall
<1>3. call' = [call EXCEPT ![th] = r] /\ call = [other \in Threads |-> call[other]]
  BY DEF MovesTo, Calls
<1> HIDE DEF r
<1>4. /\ call' = [other \in Threads |-> call'[other]] /\ call'[th] = r
      /\ \A other \in Threads : other # th => call'[other] = call[other]
  BY <1>3
<1>5. \A other \in Threads : IsCall(call[other])
  BY DEF Calls
<1>6. \A other \in Threads : IsCall(call'[other])
  <2> SUFFICES ASSUME NEW other \in Threads PROVE IsCall(call'[other])
    OBVIOUS
  <2>1. CASE other = th
    BY <1>2, <1>4, <2>1
  <2>2. CASE other # th
    <3>1. call'[other] = call[other]
      BY <1>4, <2>2
    <3> QED
      BY <1>5, <3>1
  <2> QED
    BY <2>1, <2>2
<1>7. Calls'
  BY <1>4, <1>6 DEF Calls
<1> QED
  BY <1>1, <1>4, <1>7

(* The transaction in the worker's hands whose money has moved already. *)
MovedNow(t) ==
  worker.at = "handling" /\ worker.tx = t /\ call[Worker].at \in {"recordTarget", "returned"}

MovedByWorker ==
  /\ MovedOnce(log)
  /\ \A t \in Txs : Moved(log, t) => state[t] = "completed" \/ MovedNow(t)

LEMMA WorkerMoves ==
  ASSUME IInv, MovedByWorker, [Next]_vars
  PROVE  MovedByWorker'
<1>0. TypeOK /\ WorkerFits /\ CallFits /\ Worker \in Threads /\ state \in [Txs -> States]
  BY CoordinatorAssumption DEF IInv, TypeOK
<1>1. IsSequence(log)
  BY <1>0, ToldTyped DEF IsSequence
<1>2. CASE ~WorkerHandles
  <2>1. log' = log \/ Noted
    BY <1>0, <1>2, LogCases
  <2>2. MovedOnce(log') /\ \A t : Moved(log', t) => Moved(log, t)
    BY <1>1, <2>1, NoMove DEF MovedByWorker
  <2>3. ASSUME NEW t \in Txs, state[t] = "completed"
        PROVE  state'[t] = "completed"
    <3>1. CASE state'[t] = state[t]
      BY <2>3, <3>1
    <3>2. CASE state'[t] # state[t]
      <4>1. Next
        BY <3>2 DEF vars, coordinatorVars
      <4> QED
        BY <2>3, <3>2, <4>1, StateStep
    <3> QED
      BY <3>1, <3>2
  <2>4. ASSUME NEW t \in Txs, MovedNow(t)
        PROVE  state'[t] = "completed" \/ MovedNow(t)'
    <3>1. CASE Elsewhere
      BY <2>4, <3>1 DEF Elsewhere, MovedNow
    <3>2. CASE WorkerReturned
      BY <1>0, <2>4, <3>2 DEF WorkerReturned, MovedNow
    <3>3. ~WorkerDispatch /\ ~WorkerRaised
      BY <2>4 DEF WorkerDispatch, WorkerRaised, MovedNow
    <3> QED
      BY <1>0, <1>2, <3>1, <3>2, <3>3, NextCases
  <2> QED
    BY <2>2, <2>3, <2>4 DEF MovedByWorker
<1>3. CASE WorkerHandles
  <2> DEFINE t == call[Worker].tx
  <2>1. HandlerStep(Worker) /\ worker' = worker /\ state' = state /\ worker.at = "handling"
    BY <1>3 DEF WorkerHandles, coordinatorVars
  <2>2. worker.tx = t /\ t \in Txs /\ state[t] = "processing"
    BY <1>0, <2>1, CallOfTheWorker DEF CallFits, WorkerFits
  <2>3. Calls
    BY <1>0 DEF TypeOK, Calls, IsCall
  <2>4. PICK at, source, target, e : MovesTo(Worker, at, source, target) /\ MovesOn(Worker, at, e)
    BY <1>0, <2>1, <2>3, HandlerMoves
  <2>5. call'[Worker].at = at
    BY <1>0, <2>3, <2>4, MovedTo
  <2>6. ASSUME NEW u \in Txs, Moved(log, u), u = t
        PROVE  call[Worker].at \in {"recordTarget", "returned"}
    BY <2>2, <2>6 DEF MovedByWorker, MovedNow
  <2>7. CASE log' = log /\ call[Worker].at \notin {"idle", "recordTarget", "returned"}
    BY <2>1, <2>2, <2>6, <2>7 DEF MovedByWorker, MovedNow
  <2>8. ASSUME log' = Append(log, e), e.tx = t, at \in {"recordTarget", "returned"},
               e.kind \in Moves => ~Moved(log, t)
        PROVE  MovedByWorker'
    <3>0. PICK x : x = t
      OBVIOUS
    <3>1. /\ MovedOnce(log')
          /\ \A u : Moved(log', u) => Moved(log, u) \/ u = x
      BY <1>1, <2>8, <3>0, MoveAppended DEF MovedByWorker
    <3>2. MovedNow(x)'
      BY <2>1, <2>2, <2>5, <2>8, <3>0 DEF MovedNow
    <3>3. ASSUME NEW u \in Txs, Moved(log, u), u # x
          PROVE  state'[u] = "completed"
      BY <2>1, <2>2, <3>0, <3>3 DEF MovedByWorker, MovedNow
    <3> QED
      BY <3>1, <3>2, <3>3 DEF MovedByWorker
  <2>9. CASE call[Worker].at = "recordSource" /\ at \in {"recordTarget", "returned"}
             /\ log' = Append(log, e) /\ e.tx = t
    BY <2>2, <2>6, <2>8, <2>9
  <2>10. CASE call[Worker].at = "recordTarget" /\ at = "returned"
              /\ log' = Append(log, e) /\ e.tx = t /\ e.kind \notin Moves
    BY <2>8, <2>10
  <2> QED
    BY <2>4, <2>7, <2>9, <2>10 DEF MovesOn
<1> QED
  BY <1>2, <1>3

(* Through the queue (transaction_coordinator.py:361-372) the money of a   *)
(* transaction moves at most once, however clients submit and the worker   *)
(* is stopped and started.                                                 *)
THEOREM QueueMovesOnce == Spec => []MovedAtMostOnce
<1>1. Init => MovedByWorker
  BY DEF Init, HandlerInit, MovedByWorker, MovedOnce, Moved
<1>2. IInv /\ MovedByWorker /\ [Next]_vars => MovedByWorker'
  BY WorkerMoves
<1>3. MovedByWorker => MovedAtMostOnce
  BY DEF MovedByWorker, MovedOnce, Moves, MovedAtMostOnce
<1> QED
  BY <1>1, <1>2, <1>3, Inductive, PTL DEF Spec

(* Clients that call the handlers themselves, each in its own thread.      *)
Clients == Txs \cap Threads

ClientFitsCall(t) == call[t].at # "idle" => call[t].tx = t /\ result[t] = NoResult

MovedByClient(t) == result[t] # NoResult \/ call[t].at \in {"recordTarget", "returned"}

AdapterInv ==
  /\ IsSequence(log) /\ Calls /\ result = [t \in Txs |-> result[t]]
  /\ \A t \in Clients : ClientFitsCall(t)
  /\ MovedOnce(log)
  /\ \A t : Moved(log, t) => t \in Clients /\ MovedByClient(t)

(* A step that moves no money and leaves the calls alone. *)
LEMMA AdapterAside ==
  ASSUME AdapterInv, UNCHANGED <<call, result>>, log' = log \/ Noted
  PROVE  AdapterInv'
<1>1. IsSequence(log') /\ MovedOnce(log') /\ \A t : Moved(log', t) => Moved(log, t)
  BY NoMove DEF AdapterInv
<1>2. Calls' /\ result' = [t \in Txs |-> result'[t]]
  BY DEF AdapterInv, Calls
<1>3. \A t : (ClientFitsCall(t)' <=> ClientFitsCall(t)) /\ (MovedByClient(t)' <=> MovedByClient(t))
  BY DEF ClientFitsCall, MovedByClient
<1> QED
  BY <1>1, <1>2, <1>3 DEF AdapterInv

(* A step of one client's call that moves no money, or moves it now. *)
LEMMA AdapterMoves ==
  ASSUME AdapterInv, NEW t \in Clients, Calls', result' = [u \in Txs |-> result'[u]],
         \A u \in Clients : u # t => call'[u] = call[u] /\ result'[u] = result[u],
         ClientFitsCall(t)',
         \/ log' = log /\ (Moved(log, t) => MovedByClient(t)')
         \/ /\ MovedByClient(t)'
            /\ \E e : log' = Append(log, e) /\ e.tx = t /\ (e.kind \in Moves => ~Moved(log, t))
  PROVE  AdapterInv'
<1>1. /\ IsSequence(log') /\ MovedOnce(log')
      /\ \A u : Moved(log', u) => Moved(log, u) \/ (u = t /\ MovedByClient(t)')
  <2>1. CASE log' = log
    BY <2>1 DEF AdapterInv
  <2>2. CASE log' # log
    <3>1. PICK e : log' = Append(log, e) /\ e.tx = t /\ (e.kind \in Moves => ~Moved(log, t))
      BY <2>2
    <3> QED
      BY <2>2, <3>1, MoveAppended DEF AdapterInv
  <2> QED
    BY <2>1, <2>2
<1>2. Moved(log', t) => MovedByClient(t)'
  BY <1>1
<1>3. ASSUME NEW u \in Clients, u # t
      PROVE  (ClientFitsCall(u)' <=> ClientFitsCall(u)) /\ (MovedByClient(u)' <=> MovedByClient(u))
  BY <1>3 DEF ClientFitsCall, MovedByClient
<1>4. \A u \in Clients : ClientFitsCall(u)'
  BY <1>3 DEF AdapterInv
<1>5. ASSUME NEW u, Moved(log', u)
      PROVE  u \in Clients /\ MovedByClient(u)'
  <2>1. CASE u = t
    BY <1>2, <1>5, <2>1
  <2>2. CASE u # t
    <3>1. Moved(log, u)
      BY <1>1, <1>5, <2>2
    <3>2. u \in Clients /\ MovedByClient(u)
      BY <3>1 DEF AdapterInv
    <3> QED
      BY <1>3, <2>2, <3>2
  <2> QED
    BY <2>1, <2>2
<1> QED
  BY <1>1, <1>4, <1>5 DEF AdapterInv

(* A step of client t's thread that leaves its call at c and its result r. *)
LEMMA ClientCall ==
  ASSUME AdapterInv, NEW t \in Clients, NEW c, IsCall(c), call' = [call EXCEPT ![t] = c]
  PROVE  /\ Calls' /\ call'[t] = c
         /\ \A u \in Clients : u # t => call'[u] = call[u]
<1>1. t \in Threads /\ call = [th \in Threads |-> call[th]] /\ Clients \subseteq Threads
  BY DEF Clients, AdapterInv, Calls
<1>2. /\ call' = [th \in Threads |-> call'[th]] /\ call'[t] = c
      /\ \A u \in Threads : u # t => call'[u] = call[u]
  BY <1>1
<1>3. \A u \in Threads : IsCall(call[u])
  BY DEF AdapterInv, Calls
<1>4. ASSUME NEW u \in Threads
      PROVE  IsCall(call'[u])
  <2>1. CASE u = t
    BY <1>2, <2>1
  <2>2. CASE u # t
    <3>1. call'[u] = call[u]
      BY <1>2, <2>2
    <3> QED
      BY <1>3, <3>1
  <2> QED
    BY <2>1, <2>2
<1> QED
  BY <1>1, <1>2, <1>4 DEF Calls

LEMMA AdapterCalls ==
  ASSUME AdapterInv, NEW t \in Clients, AdapterCall(t)
  PROVE  AdapterInv'
<1>1. PICK at \in {"raised", "recordSource", "readSource"} :
        /\ call' = [call EXCEPT ![t] = NewCall(at, t)]
        /\ log' = log /\ result' = result /\ result[t] = NoResult /\ call[t].at = "idle"
  BY DEF AdapterCall, CallHandler
<1>2. NewCall(at, t).at = at /\ NewCall(at, t).tx = t /\ IsCall(NewCall(at, t))
  BY DEF NewCall, IsCall
<1>3. Calls' /\ call'[t] = NewCall(at, t) /\ \A u \in Clients : u # t => call'[u] = call[u]
  BY <1>1, <1>2, ClientCall
<1>4. call'[t].at = at /\ call'[t].tx = t
  BY <1>2, <1>3
<1>5. ClientFitsCall(t)'
  BY <1>1, <1>4 DEF ClientFitsCall
<1>6. ~Moved(log, t)
  BY <1>1 DEF AdapterInv, MovedByClient
<1>7. result' = [u \in Txs |-> result'[u]]
  BY <1>1 DEF AdapterInv
<1> QED
  BY <1>1, <1>3, <1>5, <1>6, <1>7, AdapterMoves

LEMMA AdapterHandled ==
  ASSUME AdapterInv, NEW t \in Clients, AdapterHandles(t)
  PROVE  AdapterInv'
<1>1. HandlerStep(t) /\ result' = result /\ t \in Threads /\ Calls
  BY DEF AdapterHandles, AdapterInv, Clients
<1>2. PICK at, source, target, e : MovesTo(t, at, source, target) /\ MovesOn(t, at, e)
  BY <1>1, HandlerMoves
<1>3. /\ Calls' /\ call'[t].at = at /\ call'[t].tx = call[t].tx
      /\ \A u \in Threads : u # t => call'[u] = call[u]
  BY <1>1, <1>2, MovedTo
<1>4. call[t].at # "idle"
  BY <1>2 DEF MovesOn
<1>5. call[t].tx = t /\ result[t] = NoResult
  BY <1>4 DEF AdapterInv, ClientFitsCall
<1>6. ClientFitsCall(t)'
  BY <1>1, <1>3, <1>5 DEF ClientFitsCall
<1>7. Moved(log, t) => call[t].at \in {"recordTarget", "returned"}
  BY <1>5 DEF AdapterInv, MovedByClient
<1>8. at \in {"recordTarget", "returned"} => MovedByClient(t)'
  BY <1>3 DEF MovedByClient
<1>9. \/ log' = log /\ (Moved(log, t) => MovedByClient(t)')
      \/ /\ MovedByClient(t)'
         /\ \E x : log' = Append(log, x) /\ x.tx = t /\ (x.kind \in Moves => ~Moved(log, t))
  BY <1>2, <1>5, <1>7, <1>8 DEF MovesOn
<1>10. result' = [u \in Txs |-> result'[u]]
  BY <1>1 DEF AdapterInv
<1>11. \A u \in Clients : u # t => call'[u] = call[u] /\ result'[u] = result[u]
  BY <1>1, <1>3 DEF Clients
<1> QED
  BY <1>3, <1>6, <1>9, <1>10, <1>11, AdapterMoves

LEMMA AdapterEnds ==
  ASSUME AdapterInv, NEW t \in Clients, AdapterSucceeds(t) \/ AdapterFails(t)
  PROVE  AdapterInv'
<1>1. /\ call' = [call EXCEPT ![t] = NoCall] /\ log' = log
      /\ \/ result' = [result EXCEPT ![t] = [success |-> TRUE, state |-> state[t]]]
         \/ result' = [result EXCEPT ![t] = [success |-> FALSE, state |-> "failed"]]
  BY DEF AdapterSucceeds, AdapterFails
<1>2. NoCall.at = "idle" /\ IsCall(NoCall)
  BY DEF NoCall, NewCall, IsCall
<1>3. Calls' /\ call'[t] = NoCall /\ \A u \in Clients : u # t => call'[u] = call[u]
  BY <1>1, <1>2, ClientCall
<1>4. PICK r : result' = [result EXCEPT ![t] = r] /\ r # NoResult
  <2>1. [success |-> TRUE, state |-> state[t]].success # NoResult.success
    BY DEF NoResult
  <2>2. [success |-> FALSE, state |-> "failed"].state # NoResult.state
    BY DEF NoResult
  <2>3. [success |-> TRUE, state |-> state[t]] # NoResult
    BY <2>1
  <2>4. [success |-> FALSE, state |-> "failed"] # NoResult
    BY <2>2
  <2> QED
    BY <1>1, <2>3, <2>4
<1>5. result = [u \in Txs |-> result[u]] /\ t \in Txs
  BY DEF AdapterInv, Clients
<1>6. /\ result' = [u \in Txs |-> result'[u]] /\ result'[t] # NoResult
      /\ \A u \in Txs : u # t => result'[u] = result[u]
  BY <1>4, <1>5
<1>7. MovedByClient(t)'
  BY <1>6 DEF MovedByClient
<1>8. ClientFitsCall(t)'
  BY <1>2, <1>3 DEF ClientFitsCall
<1>9. \A u \in Clients : u # t => call'[u] = call[u] /\ result'[u] = result[u]
  BY <1>3, <1>6 DEF Clients
<1> QED
  BY <1>1, <1>3, <1>6, <1>7, <1>8, <1>9, AdapterMoves

LEMMA AdapterInvStep ==
  ASSUME AdapterInv, worker.at = "none", [AdapterNext]_adapterVars
  PROVE  AdapterInv'
<1>1. ASSUME NEW t \in Clients, AdapterSubmit(t)
      PROVE  AdapterInv'
  <2>1. t \in Txs /\ Submit(t) /\ result' = result
    BY <1>1 DEF AdapterSubmit, Clients
  <2>2. call' = call
    BY <2>1 DEF Submit, SubmitRecord, SubmitPut, SubmitFull, SubmitRefused, SubmitTrack,
       handlerVars
  <2>3. CASE SubmitRecord(t) \/ SubmitRefused(t)
    <3>1. Noted
      BY <2>1, <2>3 DEF SubmitRecord, SubmitRefused, Noted, Notes
    <3> QED
      BY <2>1, <2>2, <3>1, AdapterAside
  <2>4. CASE SubmitPut(t) \/ SubmitFull(t) \/ SubmitTrack(t)
    <3>1. log' = log
      BY <2>4 DEF SubmitPut, SubmitFull, SubmitTrack, handlerVars
    <3> QED
      BY <2>1, <2>2, <3>1, AdapterAside
  <2> QED
    BY <2>1, <2>3, <2>4 DEF Submit
<1>2. ~WorkerStep
  BY DEF WorkerStep, WorkerLoop, WorkerGet, WorkerEmpty, WorkerMark, WorkerAnnounce,
     WorkerDispatch, WorkerNoHandler, WorkerHandles, WorkerReturned, WorkerRaised,
     WorkerRecordCompletion, WorkerMove, WorkerCount, WorkerRecordFailure, WorkerRecordAgain
<1>3. ASSUME ControlStep, UNCHANGED result
      PROVE  AdapterInv'
  <2>1. call' = call /\ log' = log
    BY <1>3 DEF ControlStep, StartProcessing, StopProcessing, RegisterHandlers, handlerVars
  <2> QED
    BY <1>3, <2>1, AdapterAside
<1>4. ASSUME UNCHANGED adapterVars
      PROVE  AdapterInv'
  <2>1. call' = call /\ log' = log /\ result' = result
    BY <1>4 DEF adapterVars, vars, handlerVars
  <2> QED
    BY <2>1, AdapterAside
<1>5. ASSUME NEW t \in Clients, AdapterStep(t)
      PROVE  AdapterInv'
  BY <1>1, <1>5, AdapterCalls, AdapterHandled, AdapterEnds DEF AdapterStep
<1> QED
  BY <1>2, <1>3, <1>4, <1>5 DEF AdapterNext, Clients

LEMMA AdapterInvInit == AdapterInit => AdapterInv
<1> SUFFICES ASSUME AdapterInit PROVE AdapterInv
  OBVIOUS
<1>1. /\ log = <<>> /\ call = [th \in Threads |-> NoCall] /\ result = [t \in Txs |-> NoResult]
  BY DEF AdapterInit, Init, HandlerInit
<1>2. IsSequence(log) /\ MovedOnce(log) /\ \A t : ~Moved(log, t)
  <2>1. <<>> \in Seq({}) /\ \A i : i \notin DOMAIN <<>>
    OBVIOUS
  <2> QED
    BY <1>1, <2>1 DEF IsSequence, MovedOnce, Moved
<1>3. NoCall.at = "idle" /\ IsCall(NoCall)
  BY DEF NoCall, NewCall, IsCall
<1>4. Calls /\ \A t \in Clients : call[t].at = "idle"
  BY <1>1, <1>3 DEF Calls, Clients
<1>5. result = [t \in Txs |-> result[t]]
  BY <1>1
<1> QED
  BY <1>2, <1>4, <1>5 DEF AdapterInv, ClientFitsCall

(* As long as nobody starts the worker, one call of safe_transfer,         *)
(* safe_payment or safe_investment_buy moves the money once                *)
(* (transaction_adapter.py:57-61), for any number of clients at once: the  *)
(* second move that the run "adapter" finds is the worker's, of the        *)
(* context the adapter has left in the queue.                              *)
THEOREM CallMovesOnce == AdapterSpec /\ [](worker.at = "none") => []MovedAtMostOnce
<1>1. AdapterInv /\ worker.at = "none" /\ [AdapterNext]_adapterVars => AdapterInv'
  BY AdapterInvStep
<1>2. AdapterInv => MovedAtMostOnce
  BY DEF AdapterInv, MovedOnce, Moves, MovedAtMostOnce
<1> QED
  BY <1>1, <1>2, AdapterInvInit, PTL DEF AdapterSpec
=============================================================================
