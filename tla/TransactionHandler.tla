------------------------- MODULE TransactionHandler -------------------------
(***************************************************************************)
(* backend/app/services/transaction_handler.py: the four handlers that     *)
(* move money, statement by statement, for any number of threads.          *)
(*                                                                         *)
(* A handler takes no lock.  The steps below are its reads and writes of   *)
(* the shared dictionaries _account_balances and _buying_power, of the     *)
(* version table and of the event log; everything else in it is local to   *)
(* the calling thread.  Which threads call a handler is left to the        *)
(* modules that extend this one; DirectSpec lets every transaction be run  *)
(* by a thread of its own, as the concurrency tests do.                    *)
(***************************************************************************)
EXTENDS Integers, SequencesExt

CONSTANTS Accounts,      \* account ids
          NoAccount,     \* the None of an optional account id
          Txs,           \* transaction ids
          NoTx,          \* no transaction
          Threads,       \* threads that may run a handler
          Contexts,      \* the transaction contexts callers may build
          OpeningFunds   \* what each wallet holds before the first transaction

(* The transaction types that have a handler. *)
Kinds == {"transfer", "payment", "investment_buy", "investment_sell"}

(* _account_balances and _buying_power as one table of wallets. *)
Wallets == Accounts \X {"balance", "buying_power"}

(* A TransactionContext, without the fields no handler looks at.  The type *)
(* is any string: "unknown" stands for one without a handler.              *)
Context == [kind : Kinds \cup {"unknown"},
            from : Accounts \cup {NoAccount},
            to : Accounts \cup {NoAccount},
            amount : Nat]

ASSUME HandlerAssumption ==
  /\ NoAccount \notin Accounts
  /\ NoTx \notin Txs
  /\ Contexts \subseteq Context
  /\ OpeningFunds \in [Wallets -> Nat]

VARIABLES ctx,      \* the context of each transaction
          funds,    \* what each wallet holds
          version,  \* AccountVersionLock._versions
          call,     \* the handler call each thread is making
          log       \* EventStore._events

handlerVars == <<ctx, funds, version, call, log>>

-----------------------------------------------------------------------------
(* A thread is in a handler at a named statement, for one transaction,     *)
(* holding the balances it has read.                                       *)
Statements == {"idle", "readSource", "readTarget", "writeSource", "writeTarget",
               "version", "recordSource", "recordTarget", "returned", "raised"}

NewCall(at, t) == [at |-> at, tx |-> t, source |-> 0, target |-> 0]
NoCall == NewCall("idle", NoTx)

IsTransfer(t) == ctx[t].kind = "transfer"

(* A buy spends buying power, everything else spends the balance. *)
SourceWallet(t) ==
  <<ctx[t].from, IF ctx[t].kind = "investment_buy" THEN "buying_power" ELSE "balance">>

TargetWallet(t) == <<ctx[t].to, "balance">>

(* The ValueErrors at the head of each handler. *)
HasAccounts(t) ==
  /\ ctx[t].from # NoAccount
  /\ IsTransfer(t) => ctx[t].to # NoAccount

(* What the event store keeps: the transaction, what happened to it and,   *)
(* for a balance modification, the balance it left.                        *)
EventKinds == {"initiated", "processing", "DEBIT", "CREDIT",
               "buy_order_filled", "sell_order_filled", "completed", "failed"}

Event(t, kind, left) == [tx |-> t, kind |-> kind, left |-> left]

Record(t, kind, left) == log' = Append(log, Event(t, kind, left))

Goto(th, at) == call' = [call EXCEPT ![th].at = at]

(* Seeded bug: no overdraft check. *)
AfterCheck_Dropped(t, b) == "writeSource"

(* Where the overdraft check sends a handler that has read the balance b.  *)
AfterCheck(t, b) == IF b < ctx[t].amount THEN "raised" ELSE "writeSource"

(* What is left in the source wallet, computed from the balance read. *)
NewSource(th) == call[th].source - ctx[call[th].tx].amount
NewTarget(th) == call[th].target + ctx[call[th].tx].amount

-----------------------------------------------------------------------------
HandlerInit ==
  /\ ctx \in [Txs -> Contexts]
  /\ funds = OpeningFunds
  /\ version = [a \in Accounts |-> 1]
  /\ call = [th \in Threads |-> NoCall]
  /\ log = <<>>

(* Thread th calls the handler of transaction t's type. *)
CallHandler(th, t) ==
  /\ call[th].at = "idle"
  /\ LET first == IF ~HasAccounts(t) THEN "raised"
                  ELSE IF ctx[t].kind = "investment_sell" THEN "recordSource"
                  ELSE "readSource"
     IN call' = [call EXCEPT ![th] = NewCall(first, t)]
  /\ UNCHANGED <<ctx, funds, version, log>>

(* from_balance = self._get_account_balance(from), or the buying power.    *)
(* Payments and buys check it at once; a transfer reads the target first.  *)
ReadSource(th) ==
  /\ call[th].at = "readSource"
  /\ LET t == call[th].tx
         held == funds[SourceWallet(t)]
         next == IF IsTransfer(t) THEN "readTarget" ELSE AfterCheck(t, held)
     IN call' = [call EXCEPT ![th].source = held, ![th].at = next]
  /\ UNCHANGED <<ctx, funds, version, log>>

(* Seeded bug: the target's balance is read from the source's account. *)
ReadTarget_WrongAccount(th) ==
  /\ call[th].at = "readTarget"
  /\ LET t == call[th].tx
     IN call' = [call EXCEPT ![th].target = funds[SourceWallet(t)],
                             ![th].at = AfterCheck(t, call[th].source)]
  /\ UNCHANGED <<ctx, funds, version, log>>

ReadTarget(th) ==
  /\ call[th].at = "readTarget"
  /\ LET t == call[th].tx
     IN call' = [call EXCEPT ![th].target = funds[TargetWallet(t)],
                             ![th].at = AfterCheck(t, call[th].source)]
  /\ UNCHANGED <<ctx, funds, version, log>>

(* The writes use the balances read, whatever the wallets hold by now. *)
WriteSource(th) ==
  /\ call[th].at = "writeSource"
  /\ LET t == call[th].tx
     IN /\ funds' = [funds EXCEPT ![SourceWallet(t)] = NewSource(th)]
        /\ Goto(th, IF IsTransfer(t) THEN "writeTarget" ELSE "version")
  /\ UNCHANGED <<ctx, version, log>>

WriteTarget(th) ==
  /\ call[th].at = "writeTarget"
  /\ funds' = [funds EXCEPT ![TargetWallet(call[th].tx)] = NewTarget(th)]
  /\ Goto(th, "version")
  /\ UNCHANGED <<ctx, version, log>>

(* increment_version for the source and, in a transfer, the target; the    *)
(* table's lock makes each increment atomic.  No handler looks at a        *)
(* version: the results of get_version are dropped.                        *)
BumpVersion(th) ==
  /\ call[th].at = "version"
  /\ LET t == call[th].tx
         Bump(v, a) == [v EXCEPT ![a] = @ + 1]
         bumped == Bump(version, ctx[t].from)
     IN version' = IF IsTransfer(t) THEN Bump(bumped, ctx[t].to) ELSE bumped
  /\ Goto(th, "recordSource")
  /\ UNCHANGED <<ctx, funds, log>>

(* The event recorded for the source account. *)
SourceEvent == [transfer |-> "DEBIT", payment |-> "DEBIT",
                investment_buy |-> "buy_order_filled",
                investment_sell |-> "sell_order_filled"]

(* Only a balance modification says what it left. *)
RecordSource(th) ==
  /\ call[th].at = "recordSource"
  /\ LET t == call[th].tx
         kind == SourceEvent[ctx[t].kind]
     IN /\ Record(t, kind, IF kind = "DEBIT" THEN NewSource(th) ELSE 0)
        /\ Goto(th, IF IsTransfer(t) THEN "recordTarget" ELSE "returned")
  /\ UNCHANGED <<ctx, funds, version>>

(* Seeded bug: the event carries the balance before the credit. *)
RecordTarget_OldBalance(th) ==
  /\ call[th].at = "recordTarget"
  /\ Record(call[th].tx, "CREDIT", call[th].target)
  /\ Goto(th, "returned")
  /\ UNCHANGED <<ctx, funds, version>>

RecordTarget(th) ==
  /\ call[th].at = "recordTarget"
  /\ Record(call[th].tx, "CREDIT", NewTarget(th))
  /\ Goto(th, "returned")
  /\ UNCHANGED <<ctx, funds, version>>

HandlerStep(th) ==
  \/ ReadSource(th)
  \/ ReadTarget(th)
  \/ WriteSource(th)
  \/ WriteTarget(th)
  \/ BumpVersion(th)
  \/ RecordSource(th)
  \/ RecordTarget(th)

-----------------------------------------------------------------------------
(* The log read back: what one event does to the wallets of its            *)
(* transaction, and what all of them together do to the opening balances.  *)
Replayed(money, e) ==
  CASE e.kind \in {"DEBIT", "buy_order_filled"} ->
         [money EXCEPT ![SourceWallet(e.tx)] = @ - ctx[e.tx].amount]
    [] e.kind = "CREDIT" ->
         [money EXCEPT ![TargetWallet(e.tx)] = @ + ctx[e.tx].amount]
    [] OTHER -> money

Replay(history) ==
  LET money[i \in 0 .. Len(history)] ==
        IF i = 0 THEN OpeningFunds ELSE Replayed(money[i - 1], history[i])
  IN money[Len(history)]

-----------------------------------------------------------------------------
(* Handlers called directly, each transaction by a thread of its own. *)
DirectCall(t) == ctx[t].kind \in Kinds /\ CallHandler(t, t)

DirectNext == \E t \in Txs \cap Threads : DirectCall(t) \/ HandlerStep(t)

DirectSpec == HandlerInit /\ [][DirectNext]_handlerVars

(* "Double-spending prevention" (transaction_handler.py:11): the debits    *)
(* that succeeded were covered by the opening balances and the credits.    *)
NoDoubleSpending == \A w \in Wallets : Replay(log)[w] >= 0

=============================================================================
