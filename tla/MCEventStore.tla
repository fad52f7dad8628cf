---------------------------- MODULE MCEventStore ----------------------------
(* Small instances of the event store for TLC. *)
EXTENDS EventStore

CONSTANTS t1, t2, a, b, u, none

Draft(x, from, to) == [tx |-> x, user |-> u, from |-> from, to |-> to]

(* Two transactions of one user that meet on account a, each as its        *)
(* transfer-wide events name it and as its one-sided events do; the second *)
(* also moves money from an account to itself.                             *)
MCDrafts == {Draft(t1, a, b), Draft(t1, a, none), Draft(t2, none, a), Draft(t2, a, a)}
=============================================================================
