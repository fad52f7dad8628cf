------------------------ MODULE TransactionProperties ------------------------
(***************************************************************************)
(* What makes the transaction system correct when every transaction goes   *)
(* through the queue and one worker runs the handlers.                     *)
(***************************************************************************)
EXTENDS TransactionCoordinator

(* Every variable holds a value the code can give it. *)
TypeOK ==
  /\ ctx \in [Txs -> Contexts]
  /\ funds \in [Wallets -> Int]
  /\ version \in [Accounts -> Nat]
  /\ call \in [Threads -> [at : Statements, tx : Txs \cup {NoTx},
                           source : Int, target : Int]]
  /\ log \in Seq([tx : Txs, kind : EventKinds, left : Int])
  /\ queue \in Seq(Txs) /\ Len(queue) <= MaxQueue
  /\ state \in [Txs -> States]
  /\ tracked \subseteq Txs /\ completed \subseteq Txs
  /\ client \in [Txs -> ClientStatements]
  /\ worker \in [at : WorkerStatements, tx : Txs \cup {NoTx}]
  /\ stop \in BOOLEAN /\ registered \in BOOLEAN
  /\ control \in {"off", "on"}
  /\ stats \in [processed : Nat, completed : Nat, failed : Nat]

-----------------------------------------------------------------------------
(* Money. *)

WalletOf(e) == IF e.kind = "DEBIT" THEN SourceWallet(e.tx) ELSE TargetWallet(e.tx)

(* The log is the truth about money: between two handler calls, replaying  *)
(* it from the opening balances gives exactly the balances held, so no     *)
(* update was lost, doubled or left out of the log.                        *)
ReplayRestoresFunds == call[Worker].at = "idle" => funds = Replay(log)

(* The new_balance each balance modification records                       *)
(* (transaction_handler.py:336) is the balance the log itself implies at   *)
(* that point.                                                             *)
RecordedBalancesAreTrue ==
  \A i \in DOMAIN log :
    log[i].kind \in {"DEBIT", "CREDIT"} =>
      log[i].left = Replay(SubSeq(log, 1, i))[WalletOf(log[i])]

(* Overdraft protection (transaction_handler.py:70, :132, :178): no        *)
(* wallet is below zero, and no handler is about to put one there.         *)
NoOverdraft ==
  /\ \A w \in Wallets : funds[w] >= 0
  /\ call[Worker].target >= 0
  /\ call[Worker].at = "writeSource" =>
       call[Worker].source >= ctx[call[Worker].tx].amount

(* No read goes stale: until the handler writes a wallet, it holds what    *)
(* the handler read there.  This is what the queue buys, and what a        *)
(* handler called from two threads does not have.                          *)
ReadsAreCurrent ==
  LET c == call[Worker]
  IN /\ c.at \in {"readTarget", "writeSource"} => c.source = funds[SourceWallet(c.tx)]
     /\ c.at = "writeSource" /\ IsTransfer(c.tx) => c.target = funds[TargetWallet(c.tx)]
     /\ c.at = "writeTarget" /\ SourceWallet(c.tx) # TargetWallet(c.tx) =>
          /\ funds[SourceWallet(c.tx)] = c.source - ctx[c.tx].amount
          /\ c.target = funds[TargetWallet(c.tx)]

-----------------------------------------------------------------------------
(* The audit trail. *)

(* The kinds of the events of one transaction, in order. *)
TrailOf(history, t) ==
  LET trail[i \in 0 .. Len(history)] ==
        IF i = 0 THEN <<>>
        ELSE IF history[i].tx = t THEN Append(trail[i - 1], history[i].kind)
        ELSE trail[i - 1]
  IN trail[Len(history)]

Trail(t) == TrailOf(log, t)

(* The events a successful handler of each kind records. *)
HandlerTrail(kind) ==
  CASE kind = "transfer"        -> <<"DEBIT", "CREDIT">>
    [] kind = "payment"         -> <<"DEBIT">>
    [] kind = "investment_buy"  -> <<"buy_order_filled">>
    [] kind = "investment_sell" -> <<"sell_order_filled">>
    [] OTHER                    -> <<>>

SuccessTrail(t) ==
  <<"initiated", "processing">> \o HandlerTrail(ctx[t].kind) \o <<"completed">>
FailureTrail == <<"initiated", "processing", "failed", "failed">>
RefusalTrail == <<"initiated", "failed">>

(* A transaction's events come in one of three orders, whatever the        *)
(* threads do, and once nobody works on it the trail is complete and tells *)
(* the same outcome as its state: refused at the queue, failed by the      *)
(* worker (which records the failure twice) or completed.                  *)
TrailTellsOutcome ==
  \A t \in Txs :
    /\ \/ IsPrefix(Trail(t), SuccessTrail(t))
       \/ IsPrefix(Trail(t), FailureTrail)
       \/ IsPrefix(Trail(t), RefusalTrail)
    /\ worker.tx # t /\ client[t] # "refused" =>
         CASE state[t] = "completed" -> Trail(t) = SuccessTrail(t)
           [] state[t] = "failed"    -> Trail(t) \in {FailureTrail, RefusalTrail}
           [] OTHER                  -> Trail(t) \in {<<>>, <<"initiated">>}

-----------------------------------------------------------------------------
(* The queue and the tables. *)

Queued(t) == \E i \in DOMAIN queue : queue[i] = t
Accepted(t) == client[t] \in {"track", "submitted"}
Decided(t) == state[t] \in {"completed", "failed"}

(* A transaction accepted by submit_transaction and not yet decided is in  *)
(* the queue or with the worker, in one place and once; one that was never *)
(* accepted is in neither, and a decided one does not come back.           *)
HeldOnce ==
  /\ \A i, j \in DOMAIN queue : queue[i] = queue[j] => i = j
  /\ \A t \in Txs :
       /\ Accepted(t) /\ ~Decided(t) => (Queued(t) <=> worker.tx # t)
       /\ ~Accepted(t) => ~Queued(t) /\ worker.tx # t
       /\ Decided(t) => ~Queued(t)

(* Once submit_transaction has returned, get_transaction_status finds the  *)
(* context (transaction_coordinator.py:283-290), however far the worker    *)
(* has got with it; a context filed as completed is completed, and the     *)
(* worker leaves no completed one unfiled.                                 *)
StatusIsFound ==
  \A t \in Txs :
    /\ client[t] = "submitted" => t \in tracked \cup completed
    /\ t \in completed => state[t] = "completed"
    /\ state[t] = "completed" /\ worker.tx # t => t \in completed

(* Between two transactions the statistics count the completed and the     *)
(* failed transactions of the worker, each once, however they failed.      *)
StatsMatchOutcomes ==
  LET failedByWorker == {t \in Txs : state[t] = "failed" /\ Accepted(t)}
  IN worker.tx = NoTx =>
       /\ stats.completed = Cardinality(completed)
       /\ stats.processed = stats.completed
       /\ stats.failed = Cardinality(failedByWorker)

(* pending -> processing -> completed or failed                            *)
(* (transaction_adapter.py:412, :418), except that a full queue fails a    *)
(* pending one; a decided transaction stays as it was decided.             *)
StateAdvances ==
  [][\A t \in Txs :
       state'[t] # state[t] =>
         <<state[t], state'[t]>> \in
            {<<"pending", "processing">>, <<"pending", "failed">>,
             <<"processing", "completed">>, <<"processing", "failed">>}]_vars

-----------------------------------------------------------------------------
(* Why it holds: what the properties above rest on, for the inductive      *)
(* invariant of TransactionProofs.                                         *)

(* The state of the transaction in the worker's hands follows from the     *)
(* statement the worker has reached.                                       *)
WorkerFits ==
  /\ worker.tx = NoTx <=> worker.at \in {"none", "loop", "get"}
  /\ worker.at = "mark" => state[worker.tx] = "pending"
  /\ worker.at \in {"announce", "dispatch", "handling"} => state[worker.tx] = "processing"
  /\ worker.at \in {"recordCompletion", "move", "count"} => state[worker.tx] = "completed"
  /\ worker.at \in {"recordFailure", "recordAgain"} => state[worker.tx] = "failed"
  /\ worker.at = "count" => worker.tx \in completed

(* So does the state of one still with its client or in the queue. *)
ClientFits ==
  \A t \in Txs :
    /\ client[t] \in {"new", "put"} => state[t] = "pending"
    /\ client[t] \in {"refused", "rejected"} => state[t] = "failed"
    /\ Queued(t) => state[t] = "pending"

(* The worker is in a handler exactly while it handles, for the            *)
(* transaction it holds, at a statement that transaction's kind reaches.   *)
CallFits ==
  LET c == call[Worker]
  IN /\ c.at # "idle" <=> worker.at = "handling"
     /\ c.at # "idle" => c.tx = worker.tx /\ ctx[c.tx].kind \in Kinds
     /\ c.at \notin {"idle", "raised"} => HasAccounts(c.tx)
     /\ c.at \in {"readSource", "readTarget", "writeSource", "writeTarget", "version"}
          => ctx[c.tx].kind # "investment_sell"
     /\ c.at \in {"readTarget", "writeTarget", "recordTarget"} => IsTransfer(c.tx)

-----------------------------------------------------------------------------
(* Progress. *)

(* While a worker runs and nobody stops it, every queued transaction is    *)
(* decided.                                                                *)
QueuedIsDecided ==
  <>[](control = "on" /\ ~stop) =>
    \A t \in Txs : client[t] = "track" ~> state[t] \in {"completed", "failed"}

(* stop_processing takes effect: the worker ends, though join may have     *)
(* timed out long before, and whatever is still queued stays queued.       *)
StopEndsWorker == stop ~> worker.at = "none"

-----------------------------------------------------------------------------
(* The system implements the Ledger.  A transaction is applied at the last *)
(* write of its handler, and rejected when its state becomes failed.  In   *)
(* the middle of a transfer the source wallet counts as not yet written.   *)

Settled == {"version", "recordSource", "recordTarget", "returned"}

Decision(t) ==
  IF state[t] = "failed" THEN "rejected"
  ELSE IF state[t] = "completed" \/ (call[Worker].tx = t /\ call[Worker].at \in Settled)
    THEN "applied"
  ELSE "open"

SettledFunds ==
  IF call[Worker].at = "writeTarget"
  THEN [funds EXCEPT ![SourceWallet(call[Worker].tx)] = call[Worker].source]
  ELSE funds

TheLedger == INSTANCE Ledger WITH
               funds <- SettledFunds,
               decision <- [t \in Txs |-> Decision(t)]

(* Every transaction takes effect at one moment, entirely and at most      *)
(* once, or not at all.                                                    *)
RefinesLedger == TheLedger!Spec

=============================================================================
