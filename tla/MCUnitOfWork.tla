---------------------------- MODULE MCUnitOfWork ----------------------------
(* One class that queries restore, with a seeded record, one that they do  *)
(* not, and two contents.                                                  *)
EXTENDS UnitOfWork

CONSTANTS typed, untyped

MCSeed == [c \in Classes |-> [i \in (IF c = typed THEN {1} ELSE {}) |-> 0]]
=============================================================================
