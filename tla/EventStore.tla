----------------------------- MODULE EventStore -----------------------------
(***************************************************************************)
(* backend/app/services/event_store.py: the append-only log of transaction *)
(* events and the three indexes kept beside it, with append_event taken    *)
(* statement by statement, for any number of threads and without a lock.   *)
(*                                                                         *)
(* An index is a dictionary of lists whose lists are created on first use: *)
(*    if key not in index: index[key] = []                                 *)
(*    index[key].append(event)                                             *)
(* The three dictionaries have disjoint keys here and share one table.     *)
(* The append is one step: an append to a list that another thread has     *)
(* just replaced is lost either way.                                       *)
(***************************************************************************)
EXTENDS Integers, Sequences, SequencesExt

CONSTANTS Txs, Accounts, Users,  \* what events are about
          NoAccount,             \* the None of an optional account id
          Threads,               \* threads that append
          Absent,                \* no list under this key
          Drafts,                \* the events callers may append
          MaxEvents,             \* bound on the events appended
          Exclusive              \* whether a transaction has one writer at a time

Keys == ({"tx"} \X Txs) \cup ({"account"} \X Accounts) \cup ({"user"} \X Users)

ASSUME EventStoreAssumption ==
  /\ NoAccount \notin Accounts
  /\ Absent \notin Seq(Nat)
  /\ Drafts \subseteq [tx : Txs, user : Users, from : Accounts \cup {NoAccount},
                       to : Accounts \cup {NoAccount}]
  /\ MaxEvents \in Nat
  /\ Exclusive \in BOOLEAN

VARIABLES events,  \* _events
          index,   \* _transaction_index, _account_index and _user_index
          append,  \* the append_event call of each thread
          raced    \* history: keys two threads were making a list for at once

vars == <<events, index, append, raced>>

-----------------------------------------------------------------------------
(* Seeded bug: events are listed under None too. *)
AccountKey_NoCheck(a) == << <<"account", a>> >>

(* Only an account that is given is a key. *)
AccountKey(a) == IF a = NoAccount THEN <<>> ELSE << <<"account", a>> >>

(* The keys an event is indexed under, in the code's order. *)
KeysOf(d) ==
  << <<"tx", d.tx>> >> \o AccountKey(d.from) \o AccountKey(d.to) \o << <<"user", d.user>> >>

(* An event of the log is a draft with its position as event_id. *)
IsUnder(e, k) == \E i \in DOMAIN KeysOf(e) : KeysOf(e)[i] = k

IdleAppend == [at |-> "idle", event |-> 0, todo |-> <<>>]

Init ==
  /\ events = <<>>
  /\ index = [k \in Keys |-> Absent]
  /\ append = [th \in Threads |-> IdleAppend]
  /\ raced = {}

Key(th) == Head(append[th].todo)

(* The transaction thread th is recording an event of. *)
Writes(th, x) == append[th].at # "idle" /\ events[append[th].event].tx = x

(* self._events.append(event).  A caller of the queue never appends to a   *)
(* transaction another thread is appending to: the client's event is in    *)
(* before the context is put, and the worker's come after it is taken.     *)
AppendToLog(th, d) ==
  /\ append[th].at = "idle"
  /\ Len(events) < MaxEvents
  /\ Exclusive => \A other \in Threads : ~Writes(other, d.tx)
  /\ events' = Append(events, d)
  /\ append' = [append EXCEPT
                  ![th] = [at |-> "test", event |-> Len(events) + 1, todo |-> KeysOf(d)]]
  /\ UNCHANGED <<index, raced>>

(* Seeded bug: the test is inverted away and every append makes a list. *)
TestKey_AlwaysCreates(th) ==
  /\ append[th].at = "test"
  /\ append' = [append EXCEPT ![th].at = "create"]
  /\ UNCHANGED <<events, index, raced>>

(* if key not in index *)
TestKey(th) ==
  /\ append[th].at = "test"
  /\ append' = [append EXCEPT ![th].at = IF index[Key(th)] = Absent THEN "create" ELSE "add"]
  /\ UNCHANGED <<events, index, raced>>

(* index[key] = [], whatever the index holds under the key by now. *)
CreateList(th) ==
  /\ append[th].at = "create"
  /\ index' = [index EXCEPT ![Key(th)] = <<>>]
  /\ append' = [append EXCEPT ![th].at = "add"]
  /\ raced' = raced \cup {k \in {Key(th)} :
                           \E other \in Threads \ {th} :
                             append[other].at = "create" /\ Key(other) = k}
  /\ UNCHANGED events

(* On to the next key of the event, or out of append_event. *)
NextKey(place) ==
  IF Len(place.todo) = 1 THEN IdleAppend
  ELSE [at |-> "test", event |-> place.event, todo |-> Tail(place.todo)]

(* Seeded bug: a new entry goes to the front of its list. *)
AddToList_Front(th) ==
  /\ append[th].at = "add"
  /\ index' = [index EXCEPT ![Key(th)] = <<append[th].event>> \o @]
  /\ append' = [append EXCEPT ![th] = NextKey(@)]
  /\ UNCHANGED <<events, raced>>

(* index[key].append(event). *)
AddToList(th) ==
  /\ append[th].at = "add"
  /\ index' = [index EXCEPT ![Key(th)] = Append(@, append[th].event)]
  /\ append' = [append EXCEPT ![th] = NextKey(@)]
  /\ UNCHANGED <<events, raced>>

AppendStep(th) ==
  \/ \E d \in Drafts : AppendToLog(th, d)
  \/ TestKey(th)
  \/ CreateList(th)
  \/ AddToList(th)

Next == \E th \in Threads : AppendStep(th)

Spec == Init /\ [][Next]_vars

-----------------------------------------------------------------------------
(* The queries: get_transaction_events, get_account_events and             *)
(* get_user_events return the list under the key, or an empty one.         *)
Query(k) == IF index[k] = Absent THEN <<>> ELSE index[k]

(* Nobody is still going to list an event under key k. *)
Settled(k) ==
  \A th \in Threads : \A i \in DOMAIN append[th].todo : append[th].todo[i] # k

Times(s, x) == Cardinality({i \in DOMAIN s : s[i] = x})

(* Every variable holds a value the code can give it. *)
TypeOK ==
  /\ events \in Seq(Drafts) /\ Len(events) <= MaxEvents
  /\ \A k \in Keys : index[k] = Absent \/ index[k] \in Seq(1 .. Len(events))
  /\ \A th \in Threads :
       /\ append[th].at \in {"idle", "test", "create", "add"}
       /\ append[th].event \in 0 .. Len(events)
       /\ append[th].todo \in Seq(Keys)
       /\ append[th].at = "idle" <=> append[th].todo = <<>>
  /\ raced \subseteq Keys

(* Transaction grouping (event_store.py:141): with one writer per          *)
(* transaction at a time, its events are all listed, once, in the order    *)
(* they happened, whatever other transactions do to the shared table, so   *)
(* replay_transaction sees the last event last.                            *)
TransactionTrailIsExact ==
  \A x \in Txs :
    Settled(<<"tx", x>>) =>
      LET listed == Query(<<"tx", x>>)
      IN /\ ToSet(listed) = {i \in DOMAIN events : events[i].tx = x}
         /\ \A i, j \in DOMAIN listed : i < j => listed[i] < listed[j]

(* The lists of accounts and users can only lose events of a key whose     *)
(* list two threads were about to create at the same moment; under every   *)
(* other key each event is listed as often as it names the key, and no     *)
(* event is listed that does not.                                          *)
LossNeedsRacingCreation ==
  \A k \in Keys \ raced :
    Settled(k) =>
      \A i \in DOMAIN events : Times(Query(k), i) = Times(KeysOf(events[i]), k)

(* Nothing recorded is ever taken back: the log grows at its end, and so   *)
(* does what a query returns, except under a raced key ("Once added,       *)
(* events cannot be modified", event_store.py:157).                        *)
HistoryOnlyGrows ==
  [][/\ IsPrefix(events, events')
     /\ \A k \in Keys \ raced' : IsPrefix(Query(k), Query(k)')]_vars

(* "Complete audit trail" (event_store.py:7): an event that has been       *)
(* appended is found under its transaction, its accounts and its user.     *)
AuditTrailIsComplete ==
  \A k \in Keys :
    Settled(k) =>
      \A i \in DOMAIN events : IsUnder(events[i], k) => Times(Query(k), i) > 0

=============================================================================
