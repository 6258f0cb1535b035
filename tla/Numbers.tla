------------------------------- MODULE Numbers -------------------------------
(* Whole numbers, for the modules of raylib's algorithms. *)
EXTENDS Integers

Abs(n)         == IF n < 0 THEN -n ELSE n
Least(a, b)    == IF a < b THEN a ELSE b
Greatest(a, b) == IF a > b THEN a ELSE b
Within(n, low, high) == Least(Greatest(n, low), high)

\* a divided by b, down; b may be negative.
Over(a, b) == IF b < 0 THEN (-a) \div (-b) ELSE a \div b

\* a divided by b as C does it, towards zero.
Whole(a, b) == IF (a < 0) = (b < 0) THEN Abs(a) \div Abs(b) ELSE -(Abs(a) \div Abs(b))
=============================================================================
