---------------------------- MODULE ShiftAccrual ----------------------------
(***************************************************************************)
(* From a worked shift to the rows of payroll_adjustments.  Three jobs     *)
(* insert them: process_closed_shifts_adjustments (the base pay of a shift *)
(* nobody has accrued, the fine for coming late, a verdict on each task),  *)
(* process_completed_tasks_bonuses (the price of each task marked as done) *)
(* and the owner's verification (whatever base pay is missing).  Owner and *)
(* manager enter rows of their own meanwhile, and the employee marks tasks.*)
(*                                                                         *)
(* Each job reads, decides in its session, and commits once at its end; no *)
(* row is locked and no constraint makes a row unique.  Rows that agree in *)
(* kind, subject and amount are counted, not told apart.                   *)
(***************************************************************************)
EXTENDS Naturals, FiniteSets

CONSTANTS
  Shifts,
  Tasks,        \* tasks of the shifts
  Legacy,       \* those kept in the slot, the object and the dialogue, not in TaskEntryV2
  Photo,        \* those that count as done only with a photo
  ShiftOf,      \* [Tasks -> Shifts]
  Price,        \* [Tasks -> {"bonus", "fine", "due", "free"}], "due" is mandatory without an amount
  Planned,      \* shifts with a schedule
  Tardy,        \* planned shifts begun later than their slot forgives
  Accruers,     \* processes that may run process_closed_shifts_adjustments at once
  Bonusers,     \* processes that may run process_completed_tasks_bonuses at once
  Verifiers,    \* the owner's request to verify the adjustments; two at once would delete
                \* the same rows, which counting cannot tell
  Alone,        \* TRUE if no two jobs overlap
  MaxManual,    \* bound: rows entered by hand for a shift
  MaxKills      \* bound: jobs killed or rolled back

ASSUME AccrualAssumption ==
  /\ Shifts \cap Tasks = {}
  /\ Legacy \subseteq Tasks /\ Photo \subseteq Tasks
  /\ ShiftOf \in [Tasks -> Shifts]
  /\ Price \in [Tasks -> {"bonus", "fine", "due", "free"}]
  /\ Tardy \subseteq Planned /\ Planned \subseteq Shifts
  /\ Accruers \cap (Bonusers \cup Verifiers) = {} /\ Bonusers \cap Verifiers = {}
  /\ \A v, w \in Verifiers : v = w
  /\ Alone \in BOOLEAN
  /\ MaxManual \in Nat /\ MaxKills \in Nat

VARIABLES
  shift,        \* status and age of a shift, whether its notes hold the marks of its legacy
                \* tasks, and what it pays: "cut" at the closing time or "long"
  opens,        \* is the planned start of the shift the opening time of its object?
  task,         \* the mark on a task: "undated" is is_completed without completed_at and media
  adj,          \* how many rows of payroll_adjustments there are of each sort
  job,          \* the run of each process: todo is what it has yet to look at, loaded what
                \* it knows of that; it will commit the rows new, shifts ended with the pay of
                \* the closing time, base rows fixed to that pay, and fines for lateness dropped
  kills

vars == <<shift, opens, task, adj, job, kills>>

Jobs == Accruers \cup Bonusers \cup Verifiers
Pays == {"cut", "long"}

\* Rows with a shift_id, and those that process_completed_tasks_bonuses inserts without one.
Base(s, p) == [kind |-> "shift_base", of |-> s, tag |-> p]
Late(s) == [kind |-> "late_start", of |-> s, tag |-> "shift"]
Manual(s) == [kind |-> "manual", of |-> s, tag |-> "shift"]
Verdict(k, t) == [kind |-> k, of |-> t, tag |-> "shift"]
Premium(k, t) == [kind |-> k, of |-> t, tag |-> "entry"]

BaseRows(s) == {Base(s, p) : p \in Pays}
VerdictRows(t) == {Verdict(k, t) : k \in {"task_bonus", "task_penalty", "task_completed"}}
PremiumRows(t) == {Premium(k, t) : k \in {"task_bonus", "task_penalty"}}
TaskRows(t) == VerdictRows(t) \cup PremiumRows(t)
TasksOf(s) == {t \in Tasks : ShiftOf[t] = s}
RowsOf(s) == BaseRows(s) \cup {Late(s), Manual(s)} \cup UNION {VerdictRows(t) : t \in TasksOf(s)}
Rows == (UNION {RowsOf(s) : s \in Shifts}) \cup (UNION {PremiumRows(t) : t \in Tasks})

Held(R) == {r \in R : adj[r] > 0}
Has(R) == Held(R) # {}

\* scalar_one_or_none raises MultipleResultsFound when this does not hold.
AtMostOne(R) == \A r \in Held(R) : adj[r] = 1 /\ Held(R) = {r}

Insert(R) == adj' = [r \in Rows |-> IF r \in R THEN adj[r] + 1 ELSE adj[r]]

Worked(s) == shift[s].status = "completed"
IdleJob == [pc |-> "idle", todo |-> {}, loaded |-> {}, new |-> {},
            ended |-> {}, fixed |-> {}, drop |-> [s \in Shifts |-> 0]]

Init ==
  /\ shift = [s \in Shifts |-> [status |-> "active", old |-> FALSE, noted |-> FALSE, pay |-> "cut"]]
  /\ opens = [s \in Shifts |-> TRUE]
  /\ task = [t \in Tasks |-> "open"]
  /\ adj = [r \in Rows |-> 0]
  /\ job = [p \in Jobs |-> IdleJob]
  /\ kills = 0

-----------------------------------------------------------------------------
(* The employee, the clock, the owner and the manager.                     *)

\* A dialogue, a page or auto_close_shifts; a shift left open an hour past the
\* closing time of its object pays long.
EndShift(s, p) ==
  /\ shift[s].status = "active"
  /\ shift' = [shift EXCEPT ![s] = [shift[s] EXCEPT !.status = "completed", !.pay = p]]
  /\ UNCHANGED <<opens, task, adj, job, kills>>

\* The dialogue of Telegram, and no other, then writes the marks of its legacy
\* tasks into the notes of the shift, in a transaction of its own.
SaveNotes(s) ==
  /\ Worked(s) /\ ~shift[s].noted
  /\ TasksOf(s) \cap Legacy # {}
  /\ shift' = [shift EXCEPT ![s].noted = TRUE]
  /\ UNCHANGED <<opens, task, adj, job, kills>>

\* 48 hours after its end a shift leaves the window of the accrual.
Age(s) ==
  /\ Worked(s) /\ ~shift[s].old
  /\ shift' = [shift EXCEPT ![s].old = TRUE]
  /\ UNCHANGED <<opens, task, adj, job, kills>>

\* A button of the list of tasks, a photo where the task wants one: it marks,
\* or takes the mark away.  Nothing asks whether the shift still runs; the
\* marks of legacy tasks are in the dialogue, which ends with the shift.
MarkTask(t) ==
  /\ t \in Legacy => shift[ShiftOf[t]].status = "active"
  /\ task' = [task EXCEPT ![t] = IF @ = "open" THEN "done" ELSE "open"]
  /\ UNCHANGED <<shift, opens, adj, job, kills>>

\* owner_tasks_entries_complete sets is_completed only, and fails before its
\* commit where the task has an amount and its shift a schedule.
OwnerMarksTask(t) ==
  /\ t \notin Legacy
  /\ task[t] = "open"
  /\ ShiftOf[t] \in Planned => Price[t] \in {"due", "free"}
  /\ task' = [task EXCEPT ![t] = "undated"]
  /\ UNCHANGED <<shift, opens, adj, job, kills>>

EnterManual(s) ==
  /\ adj[Manual(s)] < MaxManual
  /\ Insert({Manual(s)})
  /\ UNCHANGED <<shift, opens, task, job, kills>>

\* Mutant of DeleteManual: a second request deletes the row again.
DeleteManualTwice(s) ==
  /\ adj' = [adj EXCEPT ![Manual(s)] = @ - 1]
  /\ UNCHANGED <<shift, opens, task, job, kills>>

\* Only rows entered by hand can be deleted by hand.
DeleteManual(s) ==
  /\ adj[Manual(s)] > 0
  /\ adj' = [adj EXCEPT ![Manual(s)] = @ - 1]
  /\ UNCHANGED <<shift, opens, task, job, kills>>

\* The owner gives the object another opening time.
MoveOpening(s) ==
  /\ s \in Tardy
  /\ opens' = [opens EXCEPT ![s] = ~@]
  /\ UNCHANGED <<shift, task, adj, job, kills>>

-----------------------------------------------------------------------------
(* What all jobs share.                                                    *)

Begin(p, run) ==
  /\ job[p].pc = "idle"
  /\ Alone => \A q \in Jobs : job[q].pc = "idle"
  /\ job' = [job EXCEPT ![p] = run]

\* The worker dies, the request is cut off, or a query fails: all rolls back.
Kill(p) ==
  /\ job[p].pc # "idle"
  /\ kills < MaxKills
  /\ kills' = kills + 1
  /\ job' = [job EXCEPT ![p] = IdleJob]
  /\ UNCHANGED <<shift, opens, task, adj>>

-----------------------------------------------------------------------------
(* process_closed_shifts_adjustments.                                      *)

\* Mutant of Accruable: only the base would count, and only that of the closing time.
AccruableAgain(s) == Worked(s) /\ ~shift[s].old /\ ~Has({Base(s, "cut")})

\* NOT EXISTS any adjustment of the shift, whatever its kind.
Accruable(s) == Worked(s) /\ ~shift[s].old /\ ~Has(RowsOf(s))

LateDue(s) == s \in Tardy /\ opens[s]

\* The shifts come with what they pay and with their objects.
StartAccrual(p) ==
  LET due == {s \in Shifts : Accruable(s)}
  IN  /\ due # {}
      /\ Begin(p, [IdleJob EXCEPT !.pc = "accrue", !.todo = due,
                     !.loaded = {Base(s, shift[s].pay) : s \in due}
                                  \cup {Late(s) : s \in {x \in due : LateDue(x)}}])
      /\ UNCHANGED <<shift, opens, task, adj, kills>>

\* What the accrual takes for done: the marks of legacy tasks only from the notes.
Ticked(t) == task[t] # "open" /\ (t \in Legacy => shift[ShiftOf[t]].noted)

\* A task ticked without the photo it wants has no verdict.
Accepted(t) == Ticked(t) /\ (task[t] = "done" \/ t \notin Photo)

TaskVerdict(t) ==
  CASE Price[t] = "bonus" /\ Accepted(t) -> {Verdict("task_bonus", t)}
    [] Price[t] \in {"fine", "due"} /\ Accepted(t) -> {Verdict("task_completed", t)}
    [] Price[t] \in {"fine", "due"} /\ ~Ticked(t) -> {Verdict("task_penalty", t)}
    [] OTHER -> {}

TaskVerdicts(s) == UNION {TaskVerdict(t) : t \in TasksOf(s)}

LoadedBase(p, s) == {r \in job[p].loaded : r.of = s /\ r.kind = "shift_base"}
LoadedLate(p, s) == {r \in job[p].loaded : r.of = s /\ r.kind = "late_start"}

Accrue(p, s, rows) ==
  /\ job[p].pc = "accrue"
  /\ s \in job[p].todo
  /\ job' = [job EXCEPT ![p] = [job[p] EXCEPT !.todo = @ \ {s}, !.new = @ \cup rows]]
  /\ UNCHANGED <<shift, opens, task, adj, kills>>

\* The base, the fine for coming late, the tasks as they are marked by now.
AccrueShift(p, s) ==
  Accrue(p, s, LoadedBase(p, s) \cup LoadedLate(p, s) \cup TaskVerdicts(s))

\* Mutant of AccrueShiftRaises: the base would come last.
AccrueShiftRaisesFirst(p, s) ==
  \E some \in SUBSET TaskVerdicts(s) : Accrue(p, s, LoadedLate(p, s) \cup some)

\* Mutant of AccrueShiftRaises: the exception ends the run.
AccrueShiftRaisesOut(p, s) ==
  /\ job[p].pc = "accrue"
  /\ s \in job[p].todo
  /\ job' = [job EXCEPT ![p] = IdleJob]
  /\ UNCHANGED <<shift, opens, task, adj, kills>>

\* An exception in the middle is logged; the rows the session already has, the
\* base first, are committed with those of the other shifts.
AccrueShiftRaises(p, s) ==
  \/ Accrue(p, s, LoadedBase(p, s))
  \/ \E some \in SUBSET TaskVerdicts(s) :
       Accrue(p, s, LoadedBase(p, s) \cup LoadedLate(p, s) \cup some)

CommitAccrual(p) ==
  /\ job[p].pc = "accrue"
  /\ job[p].todo = {}
  /\ Insert(job[p].new)
  /\ job' = [job EXCEPT ![p] = IdleJob]
  /\ UNCHANGED <<shift, opens, task, kills>>

-----------------------------------------------------------------------------
(* process_completed_tasks_bonuses.                                        *)

StartBonuses(b) ==
  LET marked == {t \in Tasks \ Legacy : task[t] = "done" /\ Price[t] \in {"bonus", "fine"}}
  IN  /\ marked # {}
      /\ Begin(b, [IdleJob EXCEPT !.pc = "bonus", !.todo = marked])
      /\ UNCHANGED <<shift, opens, task, adj, kills>>

Pass(b, t, rows) ==
  /\ job[b].pc = "bonus"
  /\ t \in job[b].todo
  /\ job' = [job EXCEPT ![b] = [job[b] EXCEPT !.todo = @ \ {t}, !.new = @ \cup rows]]
  /\ UNCHANGED <<shift, opens, task, adj, kills>>

\* A task that has a row already, or whose shift has no schedule, is left alone.
SkipTask(b, t) ==
  /\ AtMostOne(TaskRows(t))
  /\ ShiftOf[t] \in Planned => Has(TaskRows(t))
  /\ Pass(b, t, {})

\* Mutant of PriceTask: no look for an adjustment of the task.
PriceTaskBlind(b, t) ==
  /\ ShiftOf[t] \in Planned
  /\ Pass(b, t, {Premium(IF Price[t] = "bonus" THEN "task_bonus" ELSE "task_penalty", t)})

\* The sign of the amount alone makes the row a bonus or a penalty.
PriceTask(b, t) ==
  /\ ~Has(TaskRows(t))
  /\ ShiftOf[t] \in Planned
  /\ Pass(b, t, {Premium(IF Price[t] = "bonus" THEN "task_bonus" ELSE "task_penalty", t)})

\* Two rows of one task end the run, and every later run that loads the task.
BonusesRaise(b, t) ==
  /\ job[b].pc = "bonus"
  /\ t \in job[b].todo
  /\ ~AtMostOne(TaskRows(t))
  /\ job' = [job EXCEPT ![b] = IdleJob]
  /\ UNCHANGED <<shift, opens, task, adj, kills>>

CommitBonuses(b) ==
  /\ job[b].pc = "bonus"
  /\ job[b].todo = {}
  /\ Insert(job[b].new)
  /\ job' = [job EXCEPT ![b] = IdleJob]
  /\ UNCHANGED <<shift, opens, task, kills>>

-----------------------------------------------------------------------------
(* verify_and_fix_adjustments.  Its correction of task penalties looks for  *)
(* details no job writes, and changes no row.                              *)

\* Mutant of StartVerify: the base does not follow its shift.
StartVerifyShiftsOnly(v) ==
  LET long == {s \in Shifts : Worked(s) /\ shift[s].pay = "long"}
  IN  /\ Begin(v, [IdleJob EXCEPT !.pc = "select", !.ended = long])
      /\ UNCHANGED <<shift, opens, task, adj, kills>>

\* Shifts still active an hour after the closing time end there, and worked
\* shifts that end later are cut; their base follows unless there are two.
StartVerify(v) ==
  LET long == {s \in Shifts : Worked(s) /\ shift[s].pay = "long"}
  IN  \E late \in SUBSET {s \in Shifts : shift[s].status = "active"} :
        /\ Begin(v, [IdleJob EXCEPT !.pc = "select", !.ended = late \cup long,
                       !.fixed = {s \in long : Has({Base(s, "long")}) /\ AtMostOne(BaseRows(s))}])
        /\ UNCHANGED <<shift, opens, task, adj, kills>>

\* The session sees the shifts it has just ended.
SelectWorked(v) ==
  LET worked == {s \in Shifts : Worked(s) \/ s \in job[v].ended}
  IN  /\ job[v].pc = "select"
      /\ job' = [job EXCEPT ![v] = [job[v] EXCEPT
                   !.pc = "missing", !.todo = worked,
                   !.loaded = {Base(s, IF s \in job[v].ended THEN "cut" ELSE shift[s].pay) : s \in worked}]]
      /\ UNCHANGED <<shift, opens, task, adj, kills>>

\* Mutant of VerifyBase: any row of the shift would do.
VerifyBaseLoosely(v, s) ==
  /\ job[v].pc = "missing"
  /\ s \in job[v].todo
  /\ job' = [job EXCEPT ![v] = [job[v] EXCEPT
               !.todo = @ \ {s},
               !.new = IF Has(RowsOf(s)) THEN @ ELSE @ \cup LoadedBase(v, s)]]
  /\ UNCHANGED <<shift, opens, task, adj, kills>>

\* Any base will do; fines and tasks are not looked for.
VerifyBase(v, s) ==
  /\ job[v].pc = "missing"
  /\ s \in job[v].todo
  /\ AtMostOne(BaseRows(s))
  /\ job' = [job EXCEPT ![v] = [job[v] EXCEPT
               !.todo = @ \ {s},
               !.new = IF Has(BaseRows(s)) THEN @ ELSE @ \cup LoadedBase(v, s)]]
  /\ UNCHANGED <<shift, opens, task, adj, kills>>

VerifyRaises(v, s) ==
  /\ job[v].pc = "missing"
  /\ s \in job[v].todo
  /\ ~AtMostOne(BaseRows(s))
  /\ job' = [job EXCEPT ![v] = IdleJob]
  /\ UNCHANGED <<shift, opens, task, adj, kills>>

\* Fines for coming late to a shift that by now does not start with its object.
VerifyLate(v) ==
  /\ job[v].pc = "missing"
  /\ job[v].todo = {}
  /\ job' = [job EXCEPT ![v] = [job[v] EXCEPT
               !.pc = "commit", !.drop = [s \in Shifts |-> IF opens[s] THEN 0 ELSE adj[Late(s)]]]]
  /\ UNCHANGED <<shift, opens, task, adj, kills>>

CommitVerify(v) ==
  LET run == job[v]
  IN  /\ run.pc = "commit"
      /\ shift' = [s \in Shifts |-> IF s \in run.ended
                     THEN [shift[s] EXCEPT !.status = "completed", !.pay = "cut"] ELSE shift[s]]
      /\ adj' = [r \in Rows |->
           CASE r.kind = "late_start" -> adj[r] - run.drop[r.of]
             [] r \in {Base(s, "long") : s \in run.fixed} -> adj[r] - 1
             [] r \in run.new \cup {Base(s, "cut") : s \in run.fixed} -> adj[r] + 1
             [] OTHER -> adj[r]]
      /\ job' = [job EXCEPT ![v] = IdleJob]
      /\ UNCHANGED <<opens, task, kills>>

-----------------------------------------------------------------------------
World ==
  \/ \E s \in Shifts : \/ \E p \in Pays : EndShift(s, p)
                       \/ SaveNotes(s) \/ Age(s)
                       \/ EnterManual(s) \/ DeleteManual(s) \/ MoveOpening(s)
  \/ \E t \in Tasks : MarkTask(t) \/ OwnerMarksTask(t)

AccrualStep(p) ==
  \/ StartAccrual(p) \/ CommitAccrual(p)
  \/ \E s \in Shifts : AccrueShift(p, s) \/ AccrueShiftRaises(p, s)

BonusStep(b) ==
  \/ StartBonuses(b) \/ CommitBonuses(b)
  \/ \E t \in Tasks : SkipTask(b, t) \/ PriceTask(b, t) \/ BonusesRaise(b, t)

VerifyStep(v) ==
  \/ StartVerify(v) \/ SelectWorked(v) \/ VerifyLate(v) \/ CommitVerify(v)
  \/ \E s \in Shifts : VerifyBase(v, s) \/ VerifyRaises(v, s)

Next ==
  \/ World
  \/ \E p \in Jobs : Kill(p)
  \/ \E p \in Accruers : AccrualStep(p)
  \/ \E b \in Bonusers : BonusStep(b)
  \/ \E v \in Verifiers : VerifyStep(v)

Spec == Init /\ [][Next]_vars

\* Beat fires the accrual every ten minutes, and a run that has begun goes on.
Fairness ==
  \A p \in Accruers : WF_vars(StartAccrual(p)) /\ WF_vars(job[p].pc # "idle" /\ AccrualStep(p))

FairSpec == Spec /\ Fairness

-----------------------------------------------------------------------------
(* What is promised.                                                       *)

JobType == [pc : {"idle", "accrue", "bonus", "select", "missing", "commit"},
            todo : SUBSET (Shifts \cup Tasks), loaded : SUBSET Rows, new : SUBSET Rows,
            ended : SUBSET Shifts, fixed : SUBSET Shifts, drop : [Shifts -> Nat]]

\* The variables keep their types: no row is deleted that is not there.
TypeOK ==
  /\ shift \in [Shifts -> [status : {"active", "completed"}, old : BOOLEAN, noted : BOOLEAN,
                       pay : Pays]]
  /\ opens \in [Shifts -> BOOLEAN]
  /\ task \in [Tasks -> {"open", "done", "undated"}]
  /\ adj \in [Rows -> Nat]
  /\ job \in [Jobs -> JobType]
  /\ kills \in 0 .. MaxKills

\* Jobs that take turns pay the base of a shift once, whoever comes first and
\* whatever is killed, entered or deleted in between.
OneBase == Alone => \A s \in Shifts : AtMostOne(BaseRows(s))

\* Taking turns, they also keep the base of a shift equal to what the shift
\* pays, after the verification has cut its end.
PayMatches ==
  Alone => \A s \in Shifts, p \in Pays : Has({Base(s, p)}) => Worked(s) /\ shift[s].pay = p

\* A shift that is fined, for lateness or a task, is also paid: exceptions and
\* kills in the middle of the accrual never leave the fines alone.
FinesComeWithPay ==
  \A s \in Shifts :
    Has({Late(s)} \cup UNION {VerdictRows(t) : t \in TasksOf(s)}) => Has(BaseRows(s))

\* Taking turns, the bonus job adds nothing to a task the accrual has judged.
JudgedIsPriced ==
  [][\A t \in Tasks : Alone /\ Has(VerdictRows(t)) =>
       \A r \in PremiumRows(t) : adj'[r] = adj[r]]_vars

\* A verification that commits leaves no shift it found worked without its base,
\* also those the accrual passes over because of a row entered by hand.
VerifyMends ==
  [][\A v \in Verifiers : CommitVerify(v) =>
       \A r \in job[v].loaded : \E p \in Pays : adj'[Base(r.of, p)] > 0]_vars

\* A worked shift without rows gets its base, unless the 48 hours pass or a row
\* entered by hand comes first.
BaseComes ==
  \A s \in Shifts : Accruable(s) ~> (Has(BaseRows(s)) \/ shift[s].old \/ Has({Manual(s)}))

\* Contradicted: a task has one adjustment, whichever job has created it.
OneRowPerTask == \A t \in Tasks \ Legacy : AtMostOne(TaskRows(t))
=============================================================================
