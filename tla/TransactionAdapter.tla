------------------------- MODULE TransactionAdapter -------------------------
(***************************************************************************)
(* backend/app/services/transaction_adapter.py: safe_transfer,             *)
(* safe_payment and safe_investment_buy submit a transaction to the        *)
(* coordinator and then call its handler themselves, in the client's own   *)
(* thread, which has the transaction's name among Threads.  The worker may *)
(* be running at the same time.                                            *)
(***************************************************************************)
EXTENDS TransactionCoordinator

VARIABLE result   \* the TransactionResult each client got

adapterVars == <<vars, result>>

NoResult == [success |-> FALSE, state |-> "none"]

AdapterInit == Init /\ result = [t \in Txs |-> NoResult]

(* There is no safe_investment_sell. *)
SafeKinds == {"transfer", "payment", "investment_buy"}

(* get_transaction_handler comes first, and registers the handlers; then   *)
(* coordinator.submit_transaction(context).                                *)
AdapterSubmit(t) ==
  /\ registered
  /\ ctx[t].kind \in SafeKinds
  /\ Submit(t)
  /\ UNCHANGED result

(* handler.handle_transfer(context), in the client's thread. *)
AdapterCall(t) ==
  /\ client[t] = "submitted"
  /\ result[t] = NoResult
  /\ CallHandler(t, t)
  /\ UNCHANGED <<coordinatorVars, result>>

AdapterHandles(t) ==
  /\ HandlerStep(t)
  /\ UNCHANGED <<coordinatorVars, result>>

(* Success carries the state the context has by then; the direct call      *)
(* never sets one.                                                         *)
AdapterSucceeds(t) ==
  /\ call[t].at = "returned"
  /\ result' = [result EXCEPT ![t] = [success |-> TRUE, state |-> state[t]]]
  /\ call' = [call EXCEPT ![t] = NoCall]
  /\ UNCHANGED <<ctx, funds, version, log, coordinatorVars>>

(* except Exception: the queue was full or the handler raised. *)
AdapterFails(t) ==
  /\ result[t] = NoResult
  /\ client[t] = "rejected" \/ call[t].at = "raised"
  /\ result' = [result EXCEPT ![t] = [success |-> FALSE, state |-> "failed"]]
  /\ call' = [call EXCEPT ![t] = NoCall]
  /\ UNCHANGED <<ctx, funds, version, log, coordinatorVars>>

AdapterStep(t) ==
  \/ AdapterSubmit(t)
  \/ AdapterCall(t)
  \/ AdapterHandles(t)
  \/ AdapterSucceeds(t)
  \/ AdapterFails(t)

AdapterNext ==
  \/ \E t \in Txs \cap Threads : AdapterStep(t)
  \/ (WorkerStep \/ ControlStep) /\ UNCHANGED result

AdapterSpec == AdapterInit /\ [][AdapterNext]_adapterVars

-----------------------------------------------------------------------------
(* "A drop-in replacement for existing transfer code that adds proper      *)
(* locking, atomic operations, ..." (transaction_adapter.py:57-61): one    *)
(* safe_transfer moves the money once.                                     *)
MovedAtMostOnce ==
  \A i, j \in DOMAIN log :
    /\ log[i].kind \in {"DEBIT", "buy_order_filled"}
    /\ log[j].kind = log[i].kind
    /\ log[j].tx = log[i].tx
    => i = j

=============================================================================
