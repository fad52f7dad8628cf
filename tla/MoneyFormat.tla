---------------------------- MODULE MoneyFormat ----------------------------
(***************************************************************************)
(* utils/money.py: format_money, which the constructors of the records and *)
(* the attributes of a goal apply to every amount, rounding it to whole    *)
(* cents, half a cent away from zero.  Requests name amounts as they like, *)
(* and shares are worked out before they are rounded, so an amount is a    *)
(* whole number of parts of a cent; a percent of a whole number of cents   *)
(* is a whole number of parts.                                             *)
(***************************************************************************)
EXTENDS Integers

CONSTANT Cent       \* the parts of a cent

ASSUME CentAssumption == Cent \in Nat \ {0} /\ Cent % 100 = 0

(* What an amount has over the whole cents below it. *)
Over(x) == x % Cent

Whole(x) == Over(x) = 0

Halfway(x) == 2 * Over(x) = Cent

Cents == {x \in Int : Whole(x)}

Nearest(x) == IF 2 * Over(x) < Cent THEN x - Over(x) ELSE (x - Over(x)) + Cent

Rounded(x) == IF x >= 0 THEN Nearest(x) ELSE -Nearest(-x)

(* safe_add_money rounds what it adds first. *)
SafeAdd(x, y) == Rounded(Rounded(x) + Rounded(y))
=============================================================================
