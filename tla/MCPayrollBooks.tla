---------------------------- MODULE MCPayrollBooks ----------------------------
(* Instances of PayrollBooks for TLC.                                      *)
EXTENDS PayrollBooks

CONSTANTS o1, o2, p1, p2, b1, b2, m1, x1, d1, d2, j1

\* Base pay on both objects, a row entered by hand, a row of an incident or a rare one.
SomeKind == [r \in Rows |-> CASE r \in {b1, b2} -> "base" [] r = m1 -> "manual" [] OTHER -> "incident"]
RareKind == [r \in Rows |-> CASE r \in {b1, b2} -> "base" [] r = m1 -> "manual" [] OTHER -> "rare"]
SomeHome == [r \in Rows |-> IF r = b2 THEN o2 ELSE o1]
OneHome == [r \in Rows |-> o1]
OneDay == [r \in Rows |-> p1]
===============================================================================
