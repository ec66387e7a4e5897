------------------------------- MODULE Pricing -------------------------------
(***************************************************************************)
(* The arithmetic of MySpider.kbb_final_parse: how far the asking price of *)
(* a car lies above its Kelley Blue Book price, in whole percent.          *)
(***************************************************************************)
EXTENDS Integers

\* Python's int() of a quotient: towards zero, where \div rounds down.
Truncated(n, d) == IF n >= 0 THEN n \div d ELSE -((-n) \div d)

Towards0(n) == IF n > 0 THEN n - 1 ELSE n + 1

\* Mutant: the difference is taken of the asking price, not of KBB's.
PercentAboveAsking(price, kbb) == {Truncated(100 * (price - kbb), price)}

(***************************************************************************)
(* int(((float(price) / good_condition_price) - 1) * 100).  The three      *)
(* floating-point steps are exact enough to change the truncated result    *)
(* only when the exact percentage is a whole number other than 0: the      *)
(* double may then fall just short of it (115 against 100 gives 14, not    *)
(* 15), so both outcomes are possible.                                     *)
(***************************************************************************)
PercentAbove(price, kbb) ==
  LET n == 100 * (price - kbb)
      t == Truncated(n, kbb)
  IN  IF n # 0 /\ n % kbb = 0 THEN {t, Towards0(t)} ELSE {t}

=============================================================================
