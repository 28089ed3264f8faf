-------------------------- MODULE MCShiftLifecycle --------------------------
(* Instances of ShiftLifecycle for TLC.                                    *)
EXTENDS ShiftLifecycle

CONSTANTS u1, u2, c1, c2, o1, k1, k2

\* Two messengers of one user, or one of each of two users.
UserOfTwo == [c \in Sessions |-> IF c = c1 THEN u1 ELSE u2]
UserOfOne == [c \in Sessions |-> u1]

\* Two schedules, one for each user or both for the first.
SchedUserTwo == [k \in Schedules |-> IF k = k1 THEN u1 ELSE u2]
SchedUserOne == [k \in Schedules |-> u1]
AtO1 == [k \in Schedules |-> o1]

\* The second slot starts where the first one ends.
StartInTurn == [k \in Schedules |-> IF k = k1 THEN 0 ELSE 1]
EndInTurn == [k \in Schedules |-> IF k = k1 THEN 1 ELSE 2]
\* Both slots run together.
StartAtOnce == [k \in Schedules |-> 0]
EndAtOnce == [k \in Schedules |-> 1]

OnePlace == [k \in Schedules |-> 1]
ClosesAt1 == [o \in Objects |-> 1]
ClosesAt2 == [o \in Objects |-> 2]
ClosesAt3 == [o \in Objects |-> 3]
NoGrace == [o \in Objects |-> 0]
OneTickGrace == [o \in Objects |-> 1]
=============================================================================
