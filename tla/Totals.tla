-------------------------------- MODULE Totals --------------------------------
(* The arithmetic the stock modules share: sums over a recordset or a mapping, *)
(* min(a, b) and max(n, 0).                                                    *)
EXTENDS Integers, FiniteSetsExt

\* The sum of the values of a function.
Total(f) == MapThenSumSet(LAMBDA x : f[x], DOMAIN f)

Least(a, b) == IF a < b THEN a ELSE b
Pos(n) == IF n > 0 THEN n ELSE 0
=============================================================================
