---------------------------- MODULE ShiftRecords ----------------------------
(***************************************************************************)
(* What the table of shifts promises to those who pay by it, whatever the  *)
(* bots, the web and the tasks do to it at once: a row is inserted once,   *)
(* as work begun or as work refused; a row of a schedule is of that        *)
(* schedule's employee at its object; a row keeps its employee, object,    *)
(* schedule and start; and what has ended never goes on.  (It does not     *)
(* promise how a shift ended: of two writers the last one decides between  *)
(* "cancelled" and "completed".)                                           *)
(***************************************************************************)
EXTENDS Naturals

CONSTANTS
  Ids,                       \* the ids a shift may get, in the order they are given
  Users, Objects, Schedules,
  NoSched,                   \* the schedule of a spontaneous shift
  SchedUser, SchedObject     \* the employee and the object of a schedule

VARIABLE row                 \* [Ids -> shift], with status "none" before the insert

Ended == {"cancelled", "completed"}

Init == \A i \in Ids : row[i].status = "none"

\* The row is inserted, and every row with a smaller id is there already.
Insert(i) ==
  /\ row[i].status = "none"
  /\ \A j \in Ids : j < i => row[j].status # "none"
  /\ row'[i].status \in {"active", "cancelled"}
  /\ row'[i].user \in Users
  /\ row'[i].object \in Objects
  /\ \/ row'[i].sched = NoSched
     \/ /\ row'[i].sched \in Schedules
        /\ row'[i].user = SchedUser[row'[i].sched]
        /\ row'[i].object = SchedObject[row'[i].sched]

\* The row ends, or its end is written over.
End(i) ==
  /\ row[i].status # "none"
  /\ \E s \in Ended : row'[i] = [row[i] EXCEPT !.status = s]

\* A commit may touch several rows.
Next == \A i \in Ids : row'[i] = row[i] \/ Insert(i) \/ End(i)

Spec == Init /\ [][Next]_row
=============================================================================
