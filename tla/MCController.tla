---------------------------- MODULE MCController ----------------------------
(* Two requests compete for one operation key, a third has a key of its     *)
(* own, and a fourth is outside the closed vocabulary.                      *)
EXTENDS Controller

CONSTANTS e1, e2, r1, r2, r3, rBad, k1, k2

TwoExecutors  == {e1, e2}
OneKey        == {k1}
TwoKeys       == {k1, k2}
FourRequests  == {r1, r2, r3, rBad}
ThreeAdmitted == {r1, r2, r3}
KeyOfFour     == [r \in FourRequests |-> IF r = r3 THEN k2 ELSE k1]
=============================================================================
