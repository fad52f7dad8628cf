----------------------- MODULE TransactionCoordinator -----------------------
(***************************************************************************)
(* backend/app/services/transaction_coordinator.py: clients submit         *)
(* transactions to a bounded queue, one daemon worker thread takes them    *)
(* off and runs their handlers, and a controlling thread starts and stops  *)
(* the worker.                                                             *)
(*                                                                         *)
(* Every client, the worker and the controller is a thread: an action is   *)
(* one statement that touches state another thread can see.  An append to  *)
(* the event log is one step here, because list.append is; the indexes the *)
(* store keeps beside the log are in EventStore.                           *)
(***************************************************************************)
EXTENDS TransactionHandler

CONSTANTS Worker,     \* the worker thread
          MaxQueue    \* max_queue_size

ASSUME CoordinatorAssumption ==
  /\ Worker \in Threads
  /\ MaxQueue \in Nat \ {0}

VARIABLES queue,       \* _queue
          state,       \* context.state of each transaction
          tracked,     \* the keys of _transactions
          completed,   \* the keys of _completed_transactions
          client,      \* where submit_transaction stands, per transaction
          worker,      \* where the worker stands and the transaction it holds
          stop,        \* _stop_event
          control,     \* the last of start and stop the controller called
          registered,  \* whether the handlers are registered
          stats        \* _stats

coordinatorVars == <<queue, state, tracked, completed, client, worker, stop,
                     control, registered, stats>>
vars == <<handlerVars, coordinatorVars>>

ClientStatements == {"new", "put", "refused", "track", "submitted", "rejected"}
WorkerStatements == {"none", "loop", "get", "mark", "announce", "dispatch", "handling",
                     "recordCompletion", "move", "count", "recordFailure", "recordAgain"}
States == {"pending", "processing", "completed", "failed"}

CoordinatorInit ==
  /\ queue = <<>>
  /\ state = [t \in Txs |-> "pending"]
  /\ tracked = {}
  /\ completed = {}
  /\ client = [t \in Txs |-> "new"]
  /\ worker = [at |-> "none", tx |-> NoTx]
  /\ stop = FALSE
  /\ control = "off"
  /\ registered = FALSE
  /\ stats = [processed |-> 0, completed |-> 0, failed |-> 0]

Init == HandlerInit /\ CoordinatorInit

-----------------------------------------------------------------------------
(* submit_transaction, by the client of transaction t. *)

SubmitGoto(t, at) == client' = [client EXCEPT ![t] = at]

SubmitRecord(t) ==
  /\ client[t] = "new"
  /\ Record(t, "initiated", 0)
  /\ SubmitGoto(t, "put")
  /\ UNCHANGED <<ctx, funds, version, call, queue, state, tracked, completed,
                 worker, stop, control, registered, stats>>

(* Seeded bug: one context too many is let in. *)
HasRoom_OffByOne == Len(queue) <= MaxQueue

HasRoom == Len(queue) < MaxQueue

(* put(block=False) with room in the queue. *)
SubmitPut(t) ==
  /\ client[t] = "put"
  /\ HasRoom
  /\ queue' = Append(queue, t)
  /\ SubmitGoto(t, "track")
  /\ UNCHANGED <<handlerVars, state, tracked, completed, worker, stop,
                 control, registered, stats>>

(* Seeded bug: a refused transaction leaves no failure event. *)
SubmitFull_Silent(t) ==
  /\ client[t] = "put"
  /\ ~HasRoom
  /\ state' = [state EXCEPT ![t] = "failed"]
  /\ SubmitGoto(t, "rejected")
  /\ UNCHANGED <<handlerVars, queue, tracked, completed, worker, stop,
                 control, registered, stats>>

(* put raises Full: the context fails, then the failure is recorded and    *)
(* the exception leaves submit_transaction before the context is tracked.  *)
SubmitFull(t) ==
  /\ client[t] = "put"
  /\ ~HasRoom
  /\ state' = [state EXCEPT ![t] = "failed"]
  /\ SubmitGoto(t, "refused")
  /\ UNCHANGED <<handlerVars, queue, tracked, completed, worker, stop,
                 control, registered, stats>>

SubmitRefused(t) ==
  /\ client[t] = "refused"
  /\ Record(t, "failed", 0)
  /\ SubmitGoto(t, "rejected")
  /\ UNCHANGED <<ctx, funds, version, call, queue, state, tracked, completed,
                 worker, stop, control, registered, stats>>

(* Seeded bug: tracking a context also marks it pending. *)
SubmitTrack_Resets(t) ==
  /\ client[t] = "track"
  /\ tracked' = tracked \cup {t}
  /\ state' = [state EXCEPT ![t] = "pending"]
  /\ SubmitGoto(t, "submitted")
  /\ UNCHANGED <<handlerVars, queue, completed, worker, stop,
                 control, registered, stats>>

(* The context is tracked under the lock, after it was put. *)
SubmitTrack(t) ==
  /\ client[t] = "track"
  /\ tracked' = tracked \cup {t}
  /\ SubmitGoto(t, "submitted")
  /\ UNCHANGED <<handlerVars, queue, state, completed, worker, stop,
                 control, registered, stats>>

Submit(t) ==
  \/ SubmitRecord(t)
  \/ SubmitPut(t)
  \/ SubmitFull(t)
  \/ SubmitRefused(t)
  \/ SubmitTrack(t)

-----------------------------------------------------------------------------
(* _worker_loop and _process_transaction, by the worker. *)

WorkerGoto(at) == worker' = [worker EXCEPT !.at = at]

(* while not self._stop_event.is_set(); the thread ends when it is. *)
WorkerLoop ==
  /\ worker.at = "loop"
  /\ worker' = [at |-> IF stop THEN "none" ELSE "get", tx |-> NoTx]
  /\ UNCHANGED <<handlerVars, queue, state, tracked, completed, client, stop,
                 control, registered, stats>>

(* Seeded bug: the head is looked at but left in the queue. *)
WorkerGet_Peeks ==
  /\ worker.at = "get"
  /\ queue # <<>>
  /\ worker' = [at |-> "mark", tx |-> Head(queue)]
  /\ UNCHANGED <<handlerVars, queue, state, tracked, completed, client, stop,
                 control, registered, stats>>

WorkerGet ==
  /\ worker.at = "get"
  /\ queue # <<>>
  /\ worker' = [at |-> "mark", tx |-> Head(queue)]
  /\ queue' = Tail(queue)
  /\ UNCHANGED <<handlerVars, state, tracked, completed, client, stop,
                 control, registered, stats>>

(* Seeded bug: an empty queue ends the loop (break for continue). *)
WorkerEmpty_Ends ==
  /\ worker.at = "get"
  /\ queue = <<>>
  /\ WorkerGoto("none")
  /\ UNCHANGED <<handlerVars, queue, state, tracked, completed, client, stop,
                 control, registered, stats>>

(* get(timeout=1) raises Empty. *)
WorkerEmpty ==
  /\ worker.at = "get"
  /\ queue = <<>>
  /\ WorkerGoto("loop")
  /\ UNCHANGED <<handlerVars, queue, state, tracked, completed, client, stop,
                 control, registered, stats>>

WorkerMark ==
  /\ worker.at = "mark"
  /\ state' = [state EXCEPT ![worker.tx] = "processing"]
  /\ WorkerGoto("announce")
  /\ UNCHANGED <<handlerVars, queue, tracked, completed, client, stop,
                 control, registered, stats>>

WorkerAnnounce ==
  /\ worker.at = "announce"
  /\ Record(worker.tx, "processing", 0)
  /\ WorkerGoto("dispatch")
  /\ UNCHANGED <<ctx, funds, version, call, queue, state, tracked, completed,
                 client, stop, control, registered, stats>>

(* The handler is found and called ... *)
WorkerDispatch ==
  /\ worker.at = "dispatch"
  /\ registered
  /\ ctx[worker.tx].kind \in Kinds
  /\ CallHandler(Worker, worker.tx)
  /\ WorkerGoto("handling")
  /\ UNCHANGED <<queue, state, tracked, completed, client, stop, control,
                 registered, stats>>

(* ... or there is none, and the ValueError fails the transaction. *)
WorkerNoHandler ==
  /\ worker.at = "dispatch"
  /\ ~(registered /\ ctx[worker.tx].kind \in Kinds)
  /\ state' = [state EXCEPT ![worker.tx] = "failed"]
  /\ WorkerGoto("recordFailure")
  /\ UNCHANGED <<handlerVars, queue, tracked, completed, client, stop,
                 control, registered, stats>>

WorkerHandles ==
  /\ worker.at = "handling"
  /\ HandlerStep(Worker)
  /\ UNCHANGED coordinatorVars

(* The handler returned: mark_completed. *)
WorkerReturned ==
  /\ worker.at = "handling"
  /\ call[Worker].at = "returned"
  /\ call' = [call EXCEPT ![Worker] = NoCall]
  /\ state' = [state EXCEPT ![worker.tx] = "completed"]
  /\ WorkerGoto("recordCompletion")
  /\ UNCHANGED <<ctx, funds, version, log, queue, tracked, completed, client,
                 stop, control, registered, stats>>

(* The handler raised: mark_failed. *)
WorkerRaised ==
  /\ worker.at = "handling"
  /\ call[Worker].at = "raised"
  /\ call' = [call EXCEPT ![Worker] = NoCall]
  /\ state' = [state EXCEPT ![worker.tx] = "failed"]
  /\ WorkerGoto("recordFailure")
  /\ UNCHANGED <<ctx, funds, version, log, queue, tracked, completed, client,
                 stop, control, registered, stats>>

WorkerRecordCompletion ==
  /\ worker.at = "recordCompletion"
  /\ Record(worker.tx, "completed", 0)
  /\ WorkerGoto("move")
  /\ UNCHANGED <<ctx, funds, version, call, queue, state, tracked, completed,
                 client, stop, control, registered, stats>>

(* Seeded bug: only a context the client has tracked already is filed. *)
WorkerMove_OnlyTracked ==
  /\ worker.at = "move"
  /\ tracked' = tracked \ {worker.tx}
  /\ completed' = completed \cup (tracked \cap {worker.tx})
  /\ WorkerGoto("count")
  /\ UNCHANGED <<handlerVars, queue, state, client, stop, control, registered, stats>>

(* Both tables change in one critical section. *)
WorkerMove ==
  /\ worker.at = "move"
  /\ tracked' = tracked \ {worker.tx}
  /\ completed' = completed \cup {worker.tx}
  /\ WorkerGoto("count")
  /\ UNCHANGED <<handlerVars, queue, state, client, stop, control, registered, stats>>

(* total_completed and, past the try statement, total_processed. *)
WorkerCount ==
  /\ worker.at = "count"
  /\ stats' = [stats EXCEPT !.completed = @ + 1, !.processed = @ + 1]
  /\ worker' = [at |-> "loop", tx |-> NoTx]
  /\ UNCHANGED <<handlerVars, queue, state, tracked, completed, client, stop,
                 control, registered>>

(* The except clause of _process_transaction records the failure, counts   *)
(* it and raises again; the loop's own except clause marks and records it  *)
(* once more.  The context stays in _transactions.                         *)
WorkerRecordFailure ==
  /\ worker.at = "recordFailure"
  /\ Record(worker.tx, "failed", 0)
  /\ stats' = [stats EXCEPT !.failed = @ + 1]
  /\ WorkerGoto("recordAgain")
  /\ UNCHANGED <<ctx, funds, version, call, queue, state, tracked, completed,
                 client, stop, control, registered>>

(* Seeded bug: the loop counts the failure too. *)
WorkerRecordAgain_Counts ==
  /\ worker.at = "recordAgain"
  /\ Record(worker.tx, "failed", 0)
  /\ state' = [state EXCEPT ![worker.tx] = "failed"]
  /\ stats' = [stats EXCEPT !.failed = @ + 1]
  /\ worker' = [at |-> "loop", tx |-> NoTx]
  /\ UNCHANGED <<ctx, funds, version, call, queue, tracked, completed, client,
                 stop, control, registered>>

(* Seeded bug: a failed transaction is put back to be tried again. *)
WorkerRecordAgain_Requeues ==
  /\ worker.at = "recordAgain"
  /\ Record(worker.tx, "failed", 0)
  /\ state' = [state EXCEPT ![worker.tx] = "failed"]
  /\ queue' = Append(queue, worker.tx)
  /\ worker' = [at |-> "loop", tx |-> NoTx]
  /\ UNCHANGED <<ctx, funds, version, call, tracked, completed, client,
                 stop, control, registered, stats>>

WorkerRecordAgain ==
  /\ worker.at = "recordAgain"
  /\ Record(worker.tx, "failed", 0)
  /\ state' = [state EXCEPT ![worker.tx] = "failed"]
  /\ worker' = [at |-> "loop", tx |-> NoTx]
  /\ UNCHANGED <<ctx, funds, version, call, queue, tracked, completed, client,
                 stop, control, registered, stats>>

WorkerStep ==
  \/ WorkerLoop
  \/ WorkerGet
  \/ WorkerEmpty
  \/ WorkerMark
  \/ WorkerAnnounce
  \/ WorkerDispatch
  \/ WorkerNoHandler
  \/ WorkerHandles
  \/ WorkerReturned
  \/ WorkerRaised
  \/ WorkerRecordCompletion
  \/ WorkerMove
  \/ WorkerCount
  \/ WorkerRecordFailure
  \/ WorkerRecordAgain

-----------------------------------------------------------------------------
(* start_processing, stop_processing and the construction of the handlers, *)
(* by the controller.                                                      *)

(* Seeded bug: the stop event is cleared whether or not a worker is alive. *)
StartProcessing_ClearsStop ==
  /\ control' = "on"
  /\ stop' = FALSE
  /\ worker' = IF worker.at = "none" THEN [at |-> "loop", tx |-> NoTx] ELSE worker
  /\ UNCHANGED <<handlerVars, queue, state, tracked, completed, client,
                 registered, stats>>

(* A worker that is alive is left alone, even one that was told to stop:   *)
(* only a dead or missing one is replaced, and only then is the stop event *)
(* cleared.                                                                *)
StartProcessing ==
  /\ control' = "on"
  /\ IF worker.at = "none"
       THEN /\ stop' = FALSE
            /\ worker' = [at |-> "loop", tx |-> NoTx]
       ELSE UNCHANGED <<stop, worker>>
  /\ UNCHANGED <<handlerVars, queue, state, tracked, completed, client,
                 registered, stats>>

(* join(timeout=5) gives up after a while, so stop_processing may return    *)
(* with the worker in the middle of a transaction.                         *)
StopProcessing ==
  /\ stop' = TRUE
  /\ control' = "off"
  /\ UNCHANGED <<handlerVars, queue, state, tracked, completed, client, worker,
                 registered, stats>>

(* TransactionHandler.__init__, on the first get_transaction_handler. *)
RegisterHandlers ==
  /\ ~registered
  /\ registered' = TRUE
  /\ UNCHANGED <<handlerVars, queue, state, tracked, completed, client, worker,
                 stop, control, stats>>

ControlStep ==
  \/ StartProcessing
  \/ StopProcessing
  \/ RegisterHandlers

-----------------------------------------------------------------------------
Next ==
  \/ \E t \in Txs : Submit(t)
  \/ WorkerStep
  \/ ControlStep

Spec == Init /\ [][Next]_vars

(* A thread that can run does, and a submission that has begun is carried  *)
(* on; nobody has to submit, start or stop.                                *)
Fairness ==
  /\ WF_vars(WorkerStep)
  /\ \A t \in Txs : WF_vars(client[t] # "new" /\ Submit(t))

FairSpec == Spec /\ Fairness

=============================================================================
