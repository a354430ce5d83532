------------------------------ MODULE Rounding ------------------------------
(***************************************************************************)
(* Decimal quantisation, as the services use it.                           *)
(*                                                                         *)
(* Amounts are integers in the smallest unit of their kind: unit costs in  *)
(* 1/10000 of the currency (COST_DP), values and journal lines in cents    *)
(* (CENTS).  A quantity times a unit cost is a number of cost units, and   *)
(* quantising it to cents divides it by Scale, the cost units in a cent,   *)
(* with the rounding rule the caller names.                                *)
(***************************************************************************)
EXTENDS Integers

(* n/d to the nearest integer, ties to the upper neighbour (0 <= n, 0 < d). *)
Nearest(n, d) == (2 * n + d) \div (2 * d)

(* Decimal.quantize(..., ROUND_HALF_UP): ties move away from zero, so the
   rounding of -n is minus the rounding of n. *)
HalfUp(n, d) == IF n >= 0 THEN Nearest(n, d) ELSE -Nearest(-n, d)

(* Decimal.quantize(...) with the default context, ROUND_HALF_EVEN: a tie
   goes to the even neighbour (0 <= n). *)
HalfEven(n, d) ==
  LET floor == n \div d
      rest  == n - floor * d
  IN  IF 2 * rest > d \/ (2 * rest = d /\ floor % 2 = 1) THEN floor + 1 ELSE floor
=============================================================================
