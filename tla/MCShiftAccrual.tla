--------------------------- MODULE MCShiftAccrual ---------------------------
(* Instances of ShiftAccrual for TLC.                                      *)
EXTENDS ShiftAccrual

CONSTANTS s1, s2, t1, t2, t3, a1, a2, b1, v1

\* The first shift has a schedule, a late start, a task with an amount and one of
\* its slot; the second is spontaneous, with a task that wants a photo.
SomeShiftOf == [t \in Tasks |-> s1]
SomePrice == [t \in Tasks |-> IF t = t1 THEN "bonus" ELSE "due"]
=============================================================================
