--------------------------- MODULE ShiftLifecycle ---------------------------
(***************************************************************************)
(* Shifts, their schedules and the openings of objects, as the writers of  *)
(* those three tables change them: the dialogues of the Telegram and MAX   *)
(* bots (open and close a shift, open and close an object), the            *)
(* cancellations of the web interface, the verification of the payroll,    *)
(* and the Celery task auto_close_shifts.                                  *)
(*                                                                         *)
(* The database runs READ COMMITTED and nothing in the code takes a lock   *)
(* for reading, so an operation is a step that READS (a select, whose      *)
(* result the process keeps) and a later step that COMMITS (the writes,    *)
(* made whatever the rows hold by then).  What a transaction does after    *)
(* its first flushed UPDATE is part of its commit step: the row lock that  *)
(* flush takes keeps the other writers of the row out until the commit.    *)
(*                                                                         *)
(* One day at one time zone is modelled: times are ticks since its start.  *)
(***************************************************************************)
EXTENDS Naturals, FiniteSets

CONSTANTS
  Users, Objects, Schedules,
  Sessions,      \* handlers that may run at once: a user on Telegram, on MAX, ...
  Managers,      \* web requests that may cancel at once
  Verifiers,     \* web requests that may verify the payroll at once
  Workers,       \* Celery processes running auto_close_shifts
  NoUser, NoObject,
  NoSched,       \* the null of Shift.schedule_id
  UserOf,        \* [Sessions -> Users]
  SchedUser, SchedObject, SchedStart, SchedEnd,  \* the columns of a schedule and its slot
  SlotMax,       \* [Schedules -> Nat], TimeSlot.max_employees
  Legacy,        \* the schedules that start in the legacy status "confirmed"
  Closing,       \* [Objects -> Nat], Object.closing_time
  AutoClose,     \* [Objects -> Nat], Object.auto_close_minutes, 0 for none
  Hour,          \* the ticks of one hour
  MaxShifts, MaxOpenings, MaxTime   \* bounds: rows of two tables and the clock

ASSUME ConstantsAssumption ==
  /\ NoUser \notin Users
  /\ NoObject \notin Objects
  /\ NoSched \notin Schedules
  /\ Legacy \subseteq Schedules
  /\ UserOf \in [Sessions -> Users]
  /\ SchedUser \in [Schedules -> Users]
  /\ SchedObject \in [Schedules -> Objects]
  /\ SchedStart \in [Schedules -> Nat]
  /\ SchedEnd \in [Schedules -> Nat]
  /\ SlotMax \in [Schedules -> Nat \ {0}]
  /\ Closing \in [Objects -> Nat]
  /\ AutoClose \in [Objects -> Nat]
  /\ Hour \in Nat \ {0}
  /\ MaxShifts \in Nat
  /\ MaxOpenings \in Nat
  /\ MaxTime \in Nat

VARIABLES
  now,          \* the clock
  sched,        \* ShiftSchedule.status
  autoClosed,   \* ShiftSchedule.auto_closed
  shift,        \* the rows of shifts; a row with status "none" is not inserted yet
  openRows,     \* for each object the ids of its ObjectOpening rows with closed_at NULL
  nOpenings,    \* the ObjectOpening rows inserted so far
  sess,         \* the dialogue and the local variables of each session
  canc,         \* the cancellation a web request has read and not committed
  due,          \* the shifts a verification has loaded and not yet closed
  wk            \* the run of auto_close_shifts of each worker

vars == <<now, sched, autoClosed, shift, openRows, nOpenings, sess, canc, due, wk>>

ShiftIds == 1 .. MaxShifts
OpeningIds == 1 .. MaxOpenings
SchedStatus == {"planned", "confirmed", "in_progress", "cancelled", "completed"}
Final == {"cancelled", "completed"}

ActiveOf(u) == {i \in ShiftIds : shift[i].status = "active" /\ shift[i].user = u}
ActiveAt(o) == {i \in ShiftIds : shift[i].status = "active" /\ shift[i].object = o}
LinkedActive(k) == {i \in ShiftIds : shift[i].status = "active" /\ shift[i].sched = k}

\* The schedules a bot offers to open: today's that are not over or cancelled.
PlannedToday(u) == {k \in Schedules : SchedUser[k] = u /\ sched[k] \in {"planned", "confirmed"}}

\* The id the next INSERT into shifts gets.
NextShift(i) ==
  /\ i \in ShiftIds
  /\ shift[i].status = "none"
  /\ \A j \in ShiftIds : j < i => shift[j].status # "none"

NewShift(status, u, o, k, start) ==
  [status |-> status, user |-> u, object |-> o, sched |-> k, start |-> start]

NoShift == NewShift("none", NoUser, NoObject, NoSched, 0)

-----------------------------------------------------------------------------
(* The local state of the processes.                                       *)

IdleSession == [pc |-> "idle", mode |-> "shift", object |-> NoObject, sched |-> NoSched,
                shift |-> 0, born |-> "active", row |-> 0]

IdleCancel == [busy |-> FALSE, scheds |-> {}, linked |-> {}, fresh |-> FALSE, place |-> NoObject]

IdleWorker == [pc |-> "idle", t |-> 0, shifts |-> {}, scheds |-> {}, shift |-> 0,
               sched |-> NoSched, next |-> NoSched, touched |-> {}, rows |-> {}]

SessionPcs == {"idle", "openObject", "insertObject", "check", "insert", "sync", "commit",
               "rollback", "closeRead", "closeCommit", "closed", "closeRow"}
WorkerPcs == {"idle", "shifts", "shiftCommit", "schedules", "scheduleCommit", "openings"}

Init ==
  /\ now = 0
  /\ sched = [k \in Schedules |-> IF k \in Legacy THEN "confirmed" ELSE "planned"]
  /\ autoClosed = [k \in Schedules |-> FALSE]
  /\ shift = [i \in ShiftIds |-> NoShift]
  /\ openRows = [o \in Objects |-> {}]
  /\ nOpenings = 0
  /\ sess = [c \in Sessions |-> IdleSession]
  /\ canc = [m \in Managers |-> IdleCancel]
  /\ due = [v \in Verifiers |-> {}]
  /\ wk = [w \in Workers |-> IdleWorker]

database == <<sched, autoClosed, shift, openRows, nOpenings>>

\* Session c goes on at pc, with the rest of its local state; or ends.
Goto(c, pc) == sess' = [sess EXCEPT ![c].pc = pc]
Leave(c) == sess' = [sess EXCEPT ![c] = IdleSession]

-----------------------------------------------------------------------------
(* Opening a shift: the menu, then, once the location has come, the checks *)
(* of open_shift, the opening of the object (a commit of its own), the     *)
(* status of the schedule, and the insert.                                 *)

\* The menu: refused to a user with an active shift; one with schedules today
\* chooses one of them, another one of the open objects.
AskOpenShift(c, o, k) ==
  /\ sess[c].pc = "idle"
  /\ ActiveOf(UserOf[c]) = {}
  /\ \/ /\ k \in PlannedToday(UserOf[c])
        /\ o = SchedObject[k]
     \/ /\ k = NoSched
        /\ PlannedToday(UserOf[c]) = {}
        /\ Cardinality(openRows[o]) = 1
  /\ sess' = [sess EXCEPT ![c] = [IdleSession EXCEPT !.pc = "check", !.object = o, !.sched = k]]
  /\ UNCHANGED <<now, database, canc, due, wk>>

\* open_shift fails, by an answer or by an exception: the dialogue "open the
\* object" closes the object again, the other one waits for another location.
OpenFails(c) == Goto(c, IF sess[c].mode = "object" THEN "rollback" ELSE "check")

\* Mutant of CheckOpen: no look at the user's active shifts.
CheckOpenBlind(c) ==
  LET rows == openRows[sess[c].object]
  IN /\ sess[c].pc = "check"
     /\ IF Cardinality(rows) > 1 THEN OpenFails(c)
        ELSE Goto(c, IF rows = {} THEN "insert" ELSE "sync")
     /\ UNCHANGED <<now, database, canc, due, wk>>

\* open_shift: _get_active_shift, then is_object_open.  Both use
\* scalar_one_or_none: for a user with two active shifts the first swallows the
\* MultipleResultsFound and answers None, the second lets it end open_shift.
CheckOpen(c) ==
  LET rows == openRows[sess[c].object]
      refused == Cardinality(ActiveOf(UserOf[c])) = 1 \/ Cardinality(rows) > 1
  IN /\ sess[c].pc = "check"
     /\ IF refused THEN OpenFails(c)
        ELSE Goto(c, IF rows = {} THEN "insert" ELSE "sync")
     /\ UNCHANGED <<now, database, canc, due, wk>>

InsertOpeningRow(o) ==
  /\ nOpenings < MaxOpenings
  /\ nOpenings' = nOpenings + 1
  /\ openRows' = [openRows EXCEPT ![o] = @ \cup {nOpenings + 1}]

\* open_object inserts the row it found missing: nothing makes it unique.
InsertOpening(c) ==
  /\ sess[c].pc = "insert"
  /\ InsertOpeningRow(sess[c].object)
  /\ Goto(c, "sync")
  /\ UNCHANGED <<now, sched, autoClosed, shift, canc, due, wk>>

\* The new row is flushed and sync_on_shift_open reads the schedule: a shift of
\* a schedule that is over is born cancelled.
SyncOnShiftOpen(c) ==
  /\ sess[c].pc = "sync"
  /\ sess' = [sess EXCEPT ![c].pc = "commit",
                          ![c].born = IF sess[c].sched # NoSched /\ sched[sess[c].sched] \in Final
                                      THEN "cancelled" ELSE "active"]
  /\ UNCHANGED <<now, database, canc, due, wk>>

\* An exception before the commit; the opening of the object stays.
OpenRaises(c) ==
  /\ sess[c].pc \in {"insert", "sync", "commit"}
  /\ OpenFails(c)
  /\ UNCHANGED <<now, database, canc, due, wk>>

\* Mutant of CommitOpen: the planned start is written as the start.
CommitOpenAsPlanned(c) ==
  /\ sess[c].pc = "commit"
  /\ now < MaxTime
  /\ \E i \in ShiftIds :
       /\ NextShift(i)
       /\ shift' = [shift EXCEPT ![i] =
            NewShift(sess[c].born, UserOf[c], sess[c].object, sess[c].sched,
                     IF sess[c].sched = NoSched THEN now ELSE SchedStart[sess[c].sched])]
  /\ Leave(c)
  /\ UNCHANGED <<now, sched, autoClosed, openRows, nOpenings, canc, due, wk>>

CommitOpen(c) ==
  /\ sess[c].pc = "commit"
  /\ now < MaxTime
  /\ \E i \in ShiftIds :
       /\ NextShift(i)
       /\ shift' = [shift EXCEPT ![i] =
            NewShift(sess[c].born, UserOf[c], sess[c].object, sess[c].sched, now)]
  /\ Leave(c)
  /\ UNCHANGED <<now, sched, autoClosed, openRows, nOpenings, canc, due, wk>>

-----------------------------------------------------------------------------
(* Opening an object, and a shift with it.                                 *)

AskOpenObject(c, o) ==
  /\ sess[c].pc = "idle"
  /\ openRows[o] = {}
  /\ sess' = [sess EXCEPT ![c] =
       [IdleSession EXCEPT !.pc = "openObject", !.mode = "object", !.object = o]]
  /\ UNCHANGED <<now, database, canc, due, wk>>

\* open_object: "already open" ends the dialogue.
CheckOpenObject(c) ==
  /\ sess[c].pc = "openObject"
  /\ IF openRows[sess[c].object] = {} THEN Goto(c, "insertObject") ELSE Leave(c)
  /\ UNCHANGED <<now, database, canc, due, wk>>

\* The row is inserted, and the shift to open is the user's first schedule at
\* this object today, or a spontaneous one.
InsertObjectOpening(c) ==
  LET o == sess[c].object
      here == {k \in PlannedToday(UserOf[c]) : SchedObject[k] = o}
  IN /\ sess[c].pc = "insertObject"
     /\ InsertOpeningRow(o)
     /\ \E k \in IF here = {} THEN {NoSched} ELSE here :
          /\ \A j \in here : SchedStart[k] <= SchedStart[j]
          /\ sess' = [sess EXCEPT ![c].pc = "check", ![c].sched = k]
     /\ UNCHANGED <<now, sched, autoClosed, shift, canc, due, wk>>

\* close_object reads the open row; with none it raises "is not open", with two
\* MultipleResultsFound.
ReadOpening(c) ==
  IF Cardinality(openRows[sess[c].object]) = 1
  THEN sess' = [sess EXCEPT ![c].pc = "closeRow",
                            ![c].row = CHOOSE r \in openRows[sess[c].object] : TRUE]
  ELSE Leave(c)

\* open_shift failed: the handler closes the object again.
RollbackOpenObject(c) ==
  /\ sess[c].pc = "rollback"
  /\ ReadOpening(c)
  /\ UNCHANGED <<now, database, canc, due, wk>>

-----------------------------------------------------------------------------
(* Closing a shift, and the object after the last one.                     *)

AskCloseShift(c, i) ==
  /\ sess[c].pc = "idle"
  /\ i \in ActiveOf(UserOf[c])
  /\ sess' = [sess EXCEPT ![c] =
       [IdleSession EXCEPT !.pc = "closeRead", !.object = shift[i].object, !.shift = i]]
  /\ UNCHANGED <<now, database, canc, due, wk>>

\* "Close the object" is offered to the last employee at work there.
AskCloseObject(c, i) ==
  /\ sess[c].pc = "idle"
  /\ ActiveOf(UserOf[c]) = {i}
  /\ ActiveAt(shift[i].object) = {i}
  /\ sess' = [sess EXCEPT ![c] =
       [IdleSession EXCEPT !.pc = "closeRead", !.mode = "object",
                           !.object = shift[i].object, !.shift = i]]
  /\ UNCHANGED <<now, database, canc, due, wk>>

\* close_shift_manually reads the shift again: it must still be active.
CloseShiftRead(c) ==
  /\ sess[c].pc = "closeRead"
  /\ IF shift[sess[c].shift].status = "active" THEN Goto(c, "closeCommit") ELSE Leave(c)
  /\ UNCHANGED <<now, database, canc, due, wk>>

\* Mutant of CloseShiftCommit: the schedule is synchronised, the shift left.
CloseShiftCommitLost(c) ==
  LET k == shift[sess[c].shift].sched
  IN /\ sess[c].pc = "closeCommit"
     /\ sched' = IF k # NoSched /\ sched[k] # "cancelled"
                 THEN [sched EXCEPT ![k] = "completed"] ELSE sched
     /\ Goto(c, "closed")
     /\ UNCHANGED <<now, shift, autoClosed, openRows, nOpenings, canc, due, wk>>

\* The UPDATE, and sync_on_shift_close: the schedule is completed with the
\* shift, and the shift of a cancelled schedule is cancelled instead.
CloseShiftCommit(c) ==
  LET i == sess[c].shift
      k == shift[i].sched
      cancelled == k # NoSched /\ sched[k] = "cancelled"
  IN /\ sess[c].pc = "closeCommit"
     /\ shift' = [shift EXCEPT ![i].status = IF cancelled THEN "cancelled" ELSE "completed"]
     /\ sched' = IF k # NoSched /\ ~cancelled THEN [sched EXCEPT ![k] = "completed"] ELSE sched
     /\ Goto(c, "closed")
     /\ UNCHANGED <<now, autoClosed, openRows, nOpenings, canc, due, wk>>

\* The handler closes the object when no active shift is left there; in the
\* dialogue "close the object" it does not look again.
AfterClose(c) ==
  /\ sess[c].pc = "closed"
  /\ IF sess[c].mode = "object" \/ ActiveAt(sess[c].object) = {} THEN ReadOpening(c) ELSE Leave(c)
  /\ UNCHANGED <<now, database, canc, due, wk>>

CloseObject(c) ==
  /\ sess[c].pc = "closeRow"
  /\ openRows' = [openRows EXCEPT ![sess[c].object] = @ \ {sess[c].row}]
  /\ Leave(c)
  /\ UNCHANGED <<now, sched, autoClosed, shift, nOpenings, canc, due, wk>>

\* The user gives up, the location is refused, an exception ends the handler or
\* the process stops: what is not committed is lost, what is stays.
Abandon(c) ==
  /\ sess[c].pc # "idle"
  /\ Leave(c)
  /\ UNCHANGED <<now, database, canc, due, wk>>

-----------------------------------------------------------------------------
(* Cancelling on the web.                                                  *)

\* What a request has loaded: the schedules it will cancel, the shifts it loaded
\* with them, whether it selects their shifts anew when it writes, and the object
\* whose shifts it then selects.
StartCancel(m, scheds, linked, fresh, place) ==
  /\ ~canc[m].busy
  /\ canc' = [canc EXCEPT ![m] =
       [busy |-> TRUE, scheds |-> scheds, linked |-> linked, fresh |-> fresh, place |-> place]]
  /\ UNCHANGED <<now, database, sess, due, wk>>

\* ShiftCancellationService.cancel_shift: a planned schedule and its shifts.
\* The routes of the owner load the shifts with the schedule and the service
\* takes that collection; for the others it selects them when it writes.
CancelScheduleRead(m, k, fresh) ==
  /\ sched[k] = "planned"
  /\ StartCancel(m, {k}, IF fresh THEN {} ELSE LinkedActive(k), fresh, NoObject)

\* The employee's own page cancels the schedule alone.
EmployeeCancelRead(m, k) ==
  /\ sched[k] = "planned"
  /\ StartCancel(m, {k}, {}, FALSE, NoObject)

\* The end of a contract cancels the future schedules of the employee.
TerminateRead(m, u) ==
  LET future == {k \in Schedules : SchedUser[k] = u /\ sched[k] = "planned" /\ SchedStart[k] > now}
  IN /\ future # {}
     /\ StartCancel(m, future, {}, TRUE, NoObject)

\* The routes that cancel an active shift with no schedule.
CancelShiftRead(m, i) ==
  /\ shift[i].status = "active"
  /\ shift[i].sched = NoSched
  /\ StartCancel(m, {}, {i}, FALSE, NoObject)

\* The deletion of an object cancels the schedules there that are not over, and
\* then the shifts that are active there.
DeleteObjectRead(m, o) ==
  StartCancel(m, {k \in Schedules : SchedObject[k] = o /\ sched[k] \notin Final}, {}, FALSE, o)

CancelCommit(m) ==
  LET scheds == canc[m].scheds
      anew == IF canc[m].fresh THEN UNION {LinkedActive(k) : k \in scheds} ELSE {}
      cancelled == canc[m].linked \cup anew \cup ActiveAt(canc[m].place)
  IN /\ canc[m].busy
     /\ sched' = [k \in Schedules |-> IF k \in scheds THEN "cancelled" ELSE sched[k]]
     /\ shift' = [i \in ShiftIds |->
          IF i \in cancelled THEN [shift[i] EXCEPT !.status = "cancelled"] ELSE shift[i]]
     /\ canc' = [canc EXCEPT ![m] = IdleCancel]
     /\ UNCHANGED <<now, autoClosed, openRows, nOpenings, sess, due, wk>>

-----------------------------------------------------------------------------
(* Verifying the payroll: the active shifts an hour past the closing of    *)
(* their object are loaded, and completed as loaded, their schedules left. *)

VerifyRead(v) ==
  /\ due[v] = {}
  /\ due' = [due EXCEPT ![v] = {i \in ShiftIds : /\ shift[i].status = "active"
                                                 /\ now >= Closing[shift[i].object] + Hour}]
  /\ UNCHANGED <<now, database, sess, canc, wk>>

VerifyCommit(v) ==
  /\ due[v] # {}
  /\ shift' = [i \in ShiftIds |->
       IF i \in due[v] THEN [shift[i] EXCEPT !.status = "completed"] ELSE shift[i]]
  /\ due' = [due EXCEPT ![v] = {}]
  /\ UNCHANGED <<now, sched, autoClosed, openRows, nOpenings, sess, canc, wk>>

-----------------------------------------------------------------------------
(* The clock, and auto_close_shifts.                                       *)

Tick ==
  /\ now < MaxTime
  /\ now' = now + 1
  /\ UNCHANGED <<database, sess, canc, due, wk>>

\* The end a shift or a schedule of slot k (or of none) has at object o.
PlannedEnd(o, k) == IF k = NoSched THEN Closing[o] ELSE SchedEnd[k]
MaxEmployees(k) == IF k = NoSched THEN 1 ELSE SlotMax[k]

\* When the task closes what ends at e at object o (tick d) and the end time it
\* writes (tick at): at closing time after auto_close_minutes; an earlier end
\* one hour later if more shifts are active than the slot has places, and only
\* at closing time otherwise.
Overstaffed(o, k) == Cardinality(ActiveAt(o)) > MaxEmployees(k)
GracePeriod(o, k) == PlannedEnd(o, k) = Closing[o] /\ AutoClose[o] > 0

Deadline(o, k) ==
  IF GracePeriod(o, k) THEN PlannedEnd(o, k) + AutoClose[o]
  ELSE IF Overstaffed(o, k) THEN PlannedEnd(o, k) + Hour
  ELSE Closing[o]

CloseAt(o, k) ==
  IF GracePeriod(o, k) \/ Overstaffed(o, k) THEN PlannedEnd(o, k) ELSE Closing[o]

\* The planned schedules of the same employee at the same object that start at
\* the end just written, in a slot that starts where slot k ends.
Consecutive(k, at) ==
  {n \in Schedules \ {k} : /\ sched[n] = "planned"
                           /\ SchedUser[n] = SchedUser[k]
                           /\ SchedObject[n] = SchedObject[k]
                           /\ SchedStart[n] = at
                           /\ SchedEnd[k] = SchedStart[n]}

OneOf(S) == IF S = {} THEN {NoSched} ELSE S

\* Mutant of StartAutoClose: the shifts with no schedule are not loaded.
StartAutoClosePlanned(w) ==
  /\ wk[w].pc = "idle"
  /\ wk' = [wk EXCEPT ![w] = [IdleWorker EXCEPT
       !.pc = "shifts", !.t = now,
       !.shifts = {i \in ShiftIds : /\ shift[i].status = "active" /\ shift[i].start < now
                                    /\ shift[i].sched # NoSched}]]
  /\ UNCHANGED <<now, database, sess, canc, due>>

\* now_utc is taken once for the run; phase 1 loads the active shifts.
StartAutoClose(w) ==
  /\ wk[w].pc = "idle"
  /\ wk' = [wk EXCEPT ![w] = [IdleWorker EXCEPT
       !.pc = "shifts", !.t = now,
       !.shifts = {i \in ShiftIds : shift[i].status = "active" /\ shift[i].start < now}]]
  /\ UNCHANGED <<now, database, sess, canc, due>>

SkipShift(w, i) ==
  /\ wk[w].pc = "shifts"
  /\ i \in wk[w].shifts
  /\ wk[w].t < Deadline(shift[i].object, shift[i].sched)
  /\ wk' = [wk EXCEPT ![w].shifts = @ \ {i}]
  /\ UNCHANGED <<now, database, sess, canc, due>>

\* Mutant of PickShift: the deadline is not looked at.
PickShiftEarly(w, i) ==
  LET o == shift[i].object
      k == shift[i].sched
  IN /\ wk[w].pc = "shifts"
     /\ i \in wk[w].shifts
     /\ \E n \in IF k = NoSched THEN {NoSched} ELSE OneOf(Consecutive(k, CloseAt(o, k))) :
          wk' = [wk EXCEPT ![w].pc = "shiftCommit", ![w].shifts = @ \ {i},
                           ![w].shift = i, ![w].next = n]
     /\ UNCHANGED <<now, database, sess, canc, due>>

\* A shift of the list is due: the next schedule to open is looked up.
PickShift(w, i) ==
  LET o == shift[i].object
      k == shift[i].sched
  IN /\ wk[w].pc = "shifts"
     /\ i \in wk[w].shifts
     /\ wk[w].t >= Deadline(o, k)
     /\ \E n \in IF k = NoSched THEN {NoSched} ELSE OneOf(Consecutive(k, CloseAt(o, k))) :
          wk' = [wk EXCEPT ![w].pc = "shiftCommit", ![w].shifts = @ \ {i},
                           ![w].shift = i, ![w].next = n]
     /\ UNCHANGED <<now, database, sess, canc, due>>

\* Mutant of AutoOpen: the row takes the status of the schedule.
AutoOpenAsPlanned(base, n) ==
  IF n # NoSched /\ \E i \in ShiftIds : NextShift(i)
  THEN \E i \in ShiftIds :
         /\ NextShift(i)
         /\ shift' = [base EXCEPT ![i] =
              NewShift("planned", SchedUser[n], SchedObject[n], n, SchedStart[n])]
  ELSE shift' = base

\* The savepoint of the shift opened for schedule n, after base (the other
\* writes to shifts): with no row left (the bound) it fails and is dropped.
AutoOpen(base, n) ==
  IF n # NoSched /\ \E i \in ShiftIds : NextShift(i)
  THEN \E i \in ShiftIds :
         /\ NextShift(i)
         /\ shift' = [base EXCEPT ![i] =
              NewShift("active", SchedUser[n], SchedObject[n], n, SchedStart[n])]
  ELSE shift' = base

\* Mutant of CommitShift: the closed row is used again for the next schedule.
CommitShiftReusing(w) ==
  LET i == wk[w].shift
      k == shift[i].sched
      n == wk[w].next
  IN /\ wk[w].pc = "shiftCommit"
     /\ shift' = [shift EXCEPT ![i] =
          IF n = NoSched THEN [@ EXCEPT !.status = "completed"]
          ELSE NewShift("active", SchedUser[n], SchedObject[n], n, SchedStart[n])]
     /\ sched' = IF k = NoSched THEN sched ELSE [sched EXCEPT ![k] = "completed"]
     /\ wk' = [wk EXCEPT ![w].pc = "shifts", ![w].shift = 0, ![w].next = NoSched,
                         ![w].touched = @ \cup {shift[i].object}]
     /\ UNCHANGED <<now, autoClosed, openRows, nOpenings, sess, canc, due>>

\* The rows as loaded are written whatever they hold now, and the schedule of
\* the shift becomes completed without sync_on_shift_close.
CommitShift(w) ==
  LET i == wk[w].shift
      k == shift[i].sched
  IN /\ wk[w].pc = "shiftCommit"
     /\ AutoOpen([shift EXCEPT ![i].status = "completed"], wk[w].next)
     /\ sched' = IF k = NoSched THEN sched ELSE [sched EXCEPT ![k] = "completed"]
     /\ wk' = [wk EXCEPT ![w].pc = "shifts", ![w].shift = 0, ![w].next = NoSched,
                         ![w].touched = @ \cup {shift[i].object}]
     /\ UNCHANGED <<now, autoClosed, openRows, nOpenings, sess, canc, due>>

\* Mutant of LoadSchedules: the legacy status is forgotten.
LoadSchedulesPlanned(w) ==
  /\ wk[w].pc = "shifts"
  /\ wk[w].shifts = {}
  /\ wk' = [wk EXCEPT ![w].pc = "schedules",
       ![w].scheds = {k \in Schedules : /\ sched[k] = "planned"
                                        /\ SchedStart[k] < wk[w].t
                                        /\ ~autoClosed[k]}]
  /\ UNCHANGED <<now, database, sess, canc, due>>

\* Phase 2 loads the schedules that have started and are not over.
LoadSchedules(w) ==
  /\ wk[w].pc = "shifts"
  /\ wk[w].shifts = {}
  /\ wk' = [wk EXCEPT ![w].pc = "schedules",
       ![w].scheds = {k \in Schedules : /\ sched[k] \in {"planned", "confirmed"}
                                        /\ SchedStart[k] < wk[w].t
                                        /\ ~autoClosed[k]}]
  /\ UNCHANGED <<now, database, sess, canc, due>>

SkipSchedule(w, k) ==
  /\ wk[w].pc = "schedules"
  /\ k \in wk[w].scheds
  /\ wk[w].t < Deadline(SchedObject[k], k)
  /\ wk' = [wk EXCEPT ![w].scheds = @ \ {k}]
  /\ UNCHANGED <<now, database, sess, canc, due>>

\* The next schedule is opened only from the one completed shift of this one.
PickSchedule(w, k) ==
  LET o == SchedObject[k]
      worked == {i \in ShiftIds : shift[i].status = "completed" /\ shift[i].sched = k}
  IN /\ wk[w].pc = "schedules"
     /\ k \in wk[w].scheds
     /\ wk[w].t >= Deadline(o, k)
     /\ \E n \in IF Cardinality(worked) = 1 THEN OneOf(Consecutive(k, CloseAt(o, k)))
                 ELSE {NoSched} :
          wk' = [wk EXCEPT ![w].pc = "scheduleCommit", ![w].scheds = @ \ {k},
                           ![w].sched = k, ![w].next = n]
     /\ UNCHANGED <<now, database, sess, canc, due>>

\* Mutant of CommitSchedule: auto_closed is not set.
CommitScheduleUnmarked(w) ==
  LET k == wk[w].sched
      n == wk[w].next
      opens == n # NoSched /\ \E i \in ShiftIds : NextShift(i)
  IN /\ wk[w].pc = "scheduleCommit"
     /\ AutoOpen(shift, n)
     /\ sched' = [j \in Schedules |-> IF j = k THEN "completed"
                                      ELSE IF opens /\ j = n THEN "in_progress"
                                      ELSE sched[j]]
     /\ wk' = [wk EXCEPT ![w].pc = "schedules", ![w].sched = NoSched, ![w].next = NoSched,
                         ![w].touched = @ \cup {SchedObject[k]}]
     /\ UNCHANGED <<now, autoClosed, openRows, nOpenings, sess, canc, due>>

CommitSchedule(w) ==
  LET k == wk[w].sched
      n == wk[w].next
      opens == n # NoSched /\ \E i \in ShiftIds : NextShift(i)
  IN /\ wk[w].pc = "scheduleCommit"
     /\ AutoOpen(shift, n)
     /\ sched' = [j \in Schedules |-> IF j = k THEN "completed"
                                      ELSE IF opens /\ j = n THEN "in_progress"
                                      ELSE sched[j]]
     /\ autoClosed' = [autoClosed EXCEPT ![k] = TRUE]
     /\ wk' = [wk EXCEPT ![w].pc = "schedules", ![w].sched = NoSched, ![w].next = NoSched,
                         ![w].touched = @ \cup {SchedObject[k]}]
     /\ UNCHANGED <<now, openRows, nOpenings, sess, canc, due>>

\* Phase 3: the objects this run touched and nobody works at are closed, all
\* in one commit; MultipleResultsFound at one of them drops the others' too.
StartOpenings(w) ==
  /\ wk[w].pc = "schedules"
  /\ wk[w].scheds = {}
  /\ wk' = [wk EXCEPT ![w].pc = "openings"]
  /\ UNCHANGED <<now, database, sess, canc, due>>

ExamineObject(w, o) ==
  LET examined == [wk[w] EXCEPT !.touched = @ \ {o}]
      closing == [examined EXCEPT !.rows = @ \cup openRows[o]]
      next == IF ActiveAt(o) # {} THEN examined
              ELSE IF Cardinality(openRows[o]) > 1 THEN IdleWorker ELSE closing
  IN /\ wk[w].pc = "openings"
     /\ o \in wk[w].touched
     /\ wk' = [wk EXCEPT ![w] = next]
     /\ UNCHANGED <<now, database, sess, canc, due>>

CommitOpenings(w) ==
  /\ wk[w].pc = "openings"
  /\ wk[w].touched = {}
  /\ openRows' = [o \in Objects |-> openRows[o] \ wk[w].rows]
  /\ wk' = [wk EXCEPT ![w] = IdleWorker]
  /\ UNCHANGED <<now, sched, autoClosed, shift, nOpenings, sess, canc, due>>

\* The time limit of the task, or a restart of the worker.
KillAutoClose(w) ==
  /\ wk[w].pc # "idle"
  /\ wk' = [wk EXCEPT ![w] = IdleWorker]
  /\ UNCHANGED <<now, database, sess, canc, due>>

-----------------------------------------------------------------------------
SessionStep(c) ==
  \/ \E o \in Objects, k \in Schedules \cup {NoSched} : AskOpenShift(c, o, k)
  \/ CheckOpen(c)
  \/ InsertOpening(c)
  \/ SyncOnShiftOpen(c)
  \/ CommitOpen(c)
  \/ OpenRaises(c)
  \/ \E o \in Objects : AskOpenObject(c, o)
  \/ CheckOpenObject(c)
  \/ InsertObjectOpening(c)
  \/ RollbackOpenObject(c)
  \/ \E i \in ShiftIds : AskCloseShift(c, i) \/ AskCloseObject(c, i)
  \/ CloseShiftRead(c)
  \/ CloseShiftCommit(c)
  \/ AfterClose(c)
  \/ CloseObject(c)
  \/ Abandon(c)

ManagerStep(m) ==
  \/ \E k \in Schedules : \/ \E fresh \in BOOLEAN : CancelScheduleRead(m, k, fresh)
                          \/ EmployeeCancelRead(m, k)
  \/ \E u \in Users : TerminateRead(m, u)
  \/ \E i \in ShiftIds : CancelShiftRead(m, i)
  \/ \E o \in Objects : DeleteObjectRead(m, o)
  \/ CancelCommit(m)

VerifierStep(v) == VerifyRead(v) \/ VerifyCommit(v)

\* A run of the task, without the kill.
AutoCloseStep(w) ==
  \/ \E i \in ShiftIds : SkipShift(w, i) \/ PickShift(w, i)
  \/ CommitShift(w)
  \/ LoadSchedules(w)
  \/ \E k \in Schedules : SkipSchedule(w, k) \/ PickSchedule(w, k)
  \/ CommitSchedule(w)
  \/ StartOpenings(w)
  \/ \E o \in Objects : ExamineObject(w, o)
  \/ CommitOpenings(w)

WorkerStep(w) == StartAutoClose(w) \/ AutoCloseStep(w) \/ KillAutoClose(w)

Next ==
  \/ Tick
  \/ \E c \in Sessions : SessionStep(c)
  \/ \E m \in Managers : ManagerStep(m)
  \/ \E v \in Verifiers : VerifierStep(v)
  \/ \E w \in Workers : WorkerStep(w)

Spec == Init /\ [][Next]_vars

\* Time passes, the task is scheduled every half hour, and a run goes on unless
\* it is killed; runs may be killed for ever, but not each time at the same
\* shift, schedule or commit.  Nothing is asked of the users or of the managers.
Fairness ==
  /\ WF_vars(Tick)
  /\ \A w \in Workers :
       /\ WF_vars(StartAutoClose(w) \/ AutoCloseStep(w))
       /\ \A i \in ShiftIds : SF_vars(SkipShift(w, i) \/ PickShift(w, i))
       /\ SF_vars(CommitShift(w))
       /\ SF_vars(LoadSchedules(w))
       /\ \A k \in Schedules : SF_vars(SkipSchedule(w, k) \/ PickSchedule(w, k))
       /\ SF_vars(CommitSchedule(w))

FairSpec == Spec /\ Fairness

-----------------------------------------------------------------------------
(* Properties.                                                             *)

ShiftRow == [status : {"none", "active", "cancelled", "completed"},
             user : Users \cup {NoUser}, object : Objects \cup {NoObject},
             sched : Schedules \cup {NoSched}, start : Nat]

Session == [pc : SessionPcs, mode : {"shift", "object"}, object : Objects \cup {NoObject},
            sched : Schedules \cup {NoSched}, shift : ShiftIds \cup {0},
            born : {"active", "cancelled"}, row : OpeningIds \cup {0}]

Cancellation == [busy : BOOLEAN, scheds : SUBSET Schedules, linked : SUBSET ShiftIds,
                 fresh : BOOLEAN, place : Objects \cup {NoObject}]

Run == [pc : WorkerPcs, t : Nat, shifts : SUBSET ShiftIds, scheds : SUBSET Schedules,
        shift : ShiftIds \cup {0}, sched : Schedules \cup {NoSched},
        next : Schedules \cup {NoSched}, touched : SUBSET Objects, rows : SUBSET OpeningIds]

\* The variables hold what the columns and the locals can hold.
TypeOK ==
  /\ now \in Nat
  /\ sched \in [Schedules -> SchedStatus]
  /\ autoClosed \in [Schedules -> BOOLEAN]
  /\ shift \in [ShiftIds -> ShiftRow]
  /\ openRows \in [Objects -> SUBSET OpeningIds]
  /\ nOpenings \in 0 .. MaxOpenings
  /\ sess \in [Sessions -> Session]
  /\ canc \in [Managers -> Cancellation]
  /\ due \in [Verifiers -> SUBSET ShiftIds]
  /\ wk \in [Workers -> Run]

\* The combinations the status matrix forbids: a shift that is active under a
\* schedule that is over, or completed under a cancelled one.
StatusMatrix ==
  \A i \in ShiftIds : shift[i].sched # NoSched =>
    /\ shift[i].status = "active" => sched[shift[i].sched] \notin Final
    /\ shift[i].status = "completed" => sched[shift[i].sched] # "cancelled"

\* A user never has two active shifts.
OneActiveShift ==
  \A i, j \in ShiftIds :
    /\ shift[i].status = "active"
    /\ shift[j].status = "active"
    /\ shift[i].user = shift[j].user
    => i = j

\* A completed schedule was closed by the task or has a completed shift.
CompletedIsAccounted ==
  \A k \in Schedules : sched[k] = "completed" =>
    \/ autoClosed[k]
    \/ \E i \in ShiftIds : shift[i].sched = k /\ shift[i].status = "completed"

\* No shift starts in the future: one opened by the task starts at the end it
\* has just written, which a deadline that has passed never precedes.
StartedInPast ==
  \A i \in ShiftIds : shift[i].status # "none" => shift[i].start <= now

\* The shifts implement the records the payroll relies on.
Records == INSTANCE ShiftRecords WITH Ids <- ShiftIds, row <- shift
KeepsRecords == Records!Spec

\* Nobody is at work at an object the system shows as closed.
OpenWhileWorked ==
  \A o \in Objects : ActiveAt(o) # {} => openRows[o] # {}

\* Before both its own end and the closing of its object, a shift is completed
\* only by its employee: the task, late or stale as it may be, never cuts it.
Ended(o, k) == now >= PlannedEnd(o, k) \/ now >= Closing[o]

EarlyEndIsManual ==
  [][\A i \in ShiftIds :
       /\ shift[i].status = "active"
       /\ shift'[i].status = "completed"
       /\ ~Ended(shift[i].object, shift[i].sched)
       => \E c \in Sessions : sess[c].pc = "closeCommit" /\ sess[c].shift = i]_vars

\* When the task closes a shift, the schedule that follows it without a gap is
\* opened in the same step.
SeamlessShifts ==
  [][\A w \in Workers :
       LET k == shift[wk[w].shift].sched
       IN wk[w].pc = "shiftCommit" /\ wk'[w].pc = "shifts" /\ k # NoSched
          => \A n \in Consecutive(k, SchedEnd[k]) :
               \E i \in ShiftIds : shift'[i].sched = n]_vars

\* Whatever users and managers do, and however often the task is killed, every
\* active shift ends and every schedule gets to a final status.
ShiftsEnd == \A i \in ShiftIds : shift[i].status = "active" ~> shift[i].status # "active"

SchedulesSettle == \A k \in Schedules : sched[k] \notin Final ~> sched[k] \in Final

=============================================================================
