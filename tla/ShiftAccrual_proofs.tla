------------------------- MODULE ShiftAccrual_proofs -------------------------
(***************************************************************************)
(* Theorems of ShiftAccrual, for any number of shifts, tasks and jobs.     *)
(***************************************************************************)
EXTENDS ShiftAccrual, TLAPS

-----------------------------------------------------------------------------
(* Rows.                                                                   *)

IsBase(r) == r.kind = "shift_base"
IsFine(r) == r.kind # "shift_base" /\ r.kind # "manual" /\ r.tag = "shift"
\* The shift a row is about.
Subject(r) == IF r.of \in Tasks THEN ShiftOf[r.of] ELSE r.of

LEMMA AllRows ==
  \A r : r \in Rows <=> (\E s \in Shifts : r \in RowsOf(s)) \/ (\E t \in Tasks : r \in PremiumRows(t))
<1> SUFFICES ASSUME NEW r
             PROVE  r \in Rows <=> (\E s \in Shifts : r \in RowsOf(s)) \/ (\E t \in Tasks : r \in PremiumRows(t))
  OBVIOUS
<1>1. r \in Rows <=> \/ r \in UNION {RowsOf(s) : s \in Shifts}
                     \/ r \in UNION {PremiumRows(t) : t \in Tasks}
  BY Zenon DEF Rows
<1> QED BY <1>1

LEMMA BaseFacts ==
  ASSUME NEW s \in Shifts, NEW p \in Pays
  PROVE  /\ Base(s, p) \in Rows /\ Base(s, p) \in BaseRows(s) /\ Base(s, p) \in RowsOf(s)
         /\ Base(s, p).kind = "shift_base" /\ Base(s, p).of = s /\ Base(s, p).tag = p
<1>1. Base(s, p) \in BaseRows(s)
  BY DEF BaseRows
<1>2. Base(s, p) \in RowsOf(s)
  BY <1>1 DEF RowsOf
<1>3. Base(s, p) \in Rows
  BY <1>2 DEF Rows
<1> QED BY <1>1, <1>2, <1>3 DEF Base

LEMMA OtherFacts ==
  ASSUME NEW s \in Shifts
  PROVE  /\ Late(s) \in Rows /\ Late(s).kind = "late_start" /\ Late(s).of = s /\ Late(s).tag = "shift"
         /\ Manual(s) \in Rows /\ Manual(s).kind = "manual" /\ Manual(s).of = s
         /\ BaseRows(s) = {Base(s, "cut"), Base(s, "long")}
         /\ Base(s, "cut") # Base(s, "long")
         /\ Base(s, "cut") \in Rows /\ Base(s, "long") \in Rows
<1>1. Late(s) \in RowsOf(s) /\ Manual(s) \in RowsOf(s)
  BY DEF RowsOf
<1>2. RowsOf(s) \subseteq Rows
  BY DEF Rows
<1>3. BaseRows(s) = {Base(s, "cut"), Base(s, "long")} /\ Base(s, "cut") # Base(s, "long")
  BY DEF BaseRows, Pays, Base
<1>4. "cut" \in Pays /\ "long" \in Pays
  BY DEF Pays
<1> QED BY <1>1, <1>2, <1>3, <1>4, BaseFacts DEF Late, Manual

LEMMA TaskFacts ==
  ASSUME NEW t \in Tasks
  PROVE  /\ ShiftOf[t] \in Shifts /\ t \notin Shifts
         /\ VerdictRows(t) \subseteq Rows /\ PremiumRows(t) \subseteq Rows
         /\ \A r \in VerdictRows(t) : r.tag = "shift" /\ r.of = t /\ IsFine(r) /\ r.kind # "late_start"
         /\ \A r \in PremiumRows(t) : r.tag = "entry" /\ r.of = t /\ ~IsFine(r) /\ ~IsBase(r)
                                      /\ r.kind # "manual" /\ r.kind # "late_start"
<1>1. ShiftOf[t] \in Shifts /\ t \notin Shifts /\ t \in TasksOf(ShiftOf[t])
  BY AccrualAssumption DEF TasksOf
<1>2. VerdictRows(t) \subseteq RowsOf(ShiftOf[t])
  BY <1>1 DEF RowsOf
<1>3. VerdictRows(t) \subseteq Rows
  BY <1>1, <1>2 DEF Rows
<1>4. PremiumRows(t) \subseteq Rows
  BY AllRows
<1>5. \A r \in VerdictRows(t) : r.tag = "shift" /\ r.of = t /\ IsFine(r) /\ r.kind # "late_start"
  BY DEF VerdictRows, Verdict, IsFine
<1>6. \A r \in PremiumRows(t) : r.tag = "entry" /\ r.of = t /\ ~IsFine(r) /\ ~IsBase(r)
                                /\ r.kind # "manual" /\ r.kind # "late_start"
  BY DEF PremiumRows, Premium, IsFine, IsBase
<1> QED BY <1>1, <1>3, <1>4, <1>5, <1>6

\* What sorts of rows there are, and how each is known by its columns.
LEMMA RowSorts ==
  ASSUME NEW r \in Rows
  PROVE  /\ IsBase(r) => r.of \in Shifts /\ r.tag \in Pays /\ r = Base(r.of, r.tag)
         /\ r.kind = "late_start" => r.of \in Shifts /\ r = Late(r.of)
         /\ r.kind = "manual" => r.of \in Shifts /\ r = Manual(r.of)
         /\ ~IsBase(r) /\ r.kind \notin {"late_start", "manual"} =>
              /\ r.of \in Tasks
              /\ r.tag = "shift" => r \in VerdictRows(r.of)
              /\ r.tag # "shift" => r \in PremiumRows(r.of)
         /\ Subject(r) \in Shifts
<1> DEFINE Goal == /\ IsBase(r) => r.of \in Shifts /\ r.tag \in Pays /\ r = Base(r.of, r.tag)
                   /\ r.kind = "late_start" => r.of \in Shifts /\ r = Late(r.of)
                   /\ r.kind = "manual" => r.of \in Shifts /\ r = Manual(r.of)
                   /\ ~IsBase(r) /\ r.kind \notin {"late_start", "manual"} =>
                        /\ r.of \in Tasks
                        /\ r.tag = "shift" => r \in VerdictRows(r.of)
                        /\ r.tag # "shift" => r \in PremiumRows(r.of)
                   /\ Subject(r) \in Shifts
<1>1. ASSUME NEW s \in Shifts, NEW p \in Pays, r = Base(s, p) PROVE Goal
  BY <1>1, AccrualAssumption DEF Base, IsBase, Subject
<1>2. ASSUME NEW s \in Shifts, r = Late(s) \/ r = Manual(s) PROVE Goal
  BY <1>2, AccrualAssumption DEF Late, Manual, IsBase, Subject
<1>3. ASSUME NEW t \in Tasks, r \in VerdictRows(t) PROVE Goal
  BY <1>3, TaskFacts DEF IsFine, IsBase, Subject
<1>4. ASSUME NEW t \in Tasks, r \in PremiumRows(t) PROVE Goal
  BY <1>4, TaskFacts DEF IsBase, Subject
<1>5. ASSUME NEW s \in Shifts, r \in RowsOf(s) PROVE Goal
  <2>1. r \in BaseRows(s) \/ r = Late(s) \/ r = Manual(s) \/ \E t \in TasksOf(s) : r \in VerdictRows(t)
    BY <1>5 DEF RowsOf
  <2> QED BY <2>1, <1>1, <1>2, <1>3 DEF BaseRows, TasksOf
<1>6. (\E s \in Shifts : r \in RowsOf(s)) \/ (\E t \in Tasks : r \in PremiumRows(t))
  BY AllRows
<1> HIDE DEF Goal
<1>7. Goal
  BY <1>4, <1>5, <1>6
<1> QED BY <1>7 DEF Goal

LEMMA EntryRows ==
  ASSUME NEW r \in Rows, r.tag = "entry"
  PROVE  r.of \in Tasks /\ r \in PremiumRows(r.of) /\ ~IsBase(r) /\ ~IsFine(r)
<1>1. ~IsBase(r)
  BY RowSorts DEF Pays
<1>2. r.kind # "late_start"
  BY RowSorts DEF Late
<1>3. r.kind # "manual"
  BY RowSorts DEF Manual
<1> QED BY <1>1, <1>2, <1>3, RowSorts DEF IsFine

\* The verdicts on the tasks of a shift are fines of that shift, and no base.
LEMMA VerdictsOfShift ==
  ASSUME NEW s \in Shifts, NEW r \in TaskVerdicts(s)
  PROVE  r \in Rows /\ IsFine(r) /\ ~IsBase(r) /\ Subject(r) = s /\ r.tag = "shift"
<1>1. PICK t \in TasksOf(s) : r \in TaskVerdict(t)
  BY DEF TaskVerdicts
<1>2. t \in Tasks /\ ShiftOf[t] = s
  BY DEF TasksOf
<1>3. r \in VerdictRows(t)
  BY <1>1 DEF TaskVerdict, VerdictRows
<1> QED BY <1>2, <1>3, TaskFacts DEF Subject, IsFine, IsBase

-----------------------------------------------------------------------------
(* The invariant: what the jobs remember, what is paid, and what is true    *)
(* besides when the jobs take turns.                                       *)

Paid(s) == \E p \in Pays : adj[Base(s, p)] > 0
PaidBy(R, s) == \E b \in R : IsBase(b) /\ b.of = s

\* A run of the accrual has the base of every shift it has yet to accrue, and holds no fine
\* without the base of its shift.
AccrueRun(run) ==
  /\ run.pc \in {"idle", "accrue"}
  /\ run.pc = "accrue" =>
       /\ run.todo \subseteq Shifts
       /\ \A r \in run.loaded : IsBase(r) \/ r.kind = "late_start"
       /\ \A s \in run.todo : PaidBy(run.loaded, s)
       /\ \A r \in run.new : IsFine(r) => PaidBy(run.new, Subject(r))
       /\ \A r \in run.new : r.tag # "entry"
       /\ \A r \in run.new : IsBase(r) => r \in run.loaded

BonusRun(run) ==
  /\ run.pc \in {"idle", "bonus"}
  /\ run.pc = "bonus" => \A r \in run.new : r.tag = "entry"

\* A verification deletes only rows that are there, and each shift it has looked at has a base
\* or gets one.
VerifyRun(run) ==
  /\ run.pc \in {"idle", "select", "missing", "commit"}
  /\ run.pc = "select" => run.loaded = {}
  /\ run.pc # "idle" =>
       /\ run.fixed \subseteq run.ended
       /\ \A s \in run.fixed : adj[Base(s, "long")] >= 1
       /\ \A r \in run.loaded : IsBase(r) /\ (r.of \in run.ended => r.tag = "cut")
       /\ run.new \subseteq run.loaded
       /\ \A s \in Shifts : run.drop[s] <= adj[Late(s)]
       /\ \A r \in run.loaded : \/ run.pc = "missing" /\ r.of \in run.todo
                                \/ Paid(r.of)
                                \/ PaidBy(run.new, r.of)

Runs ==
  /\ \A p \in Accruers : AccrueRun(job[p])
  /\ \A p \in Bonusers : BonusRun(job[p])
  /\ \A p \in Verifiers : VerifyRun(job[p])

FinesPaid == \A r \in Rows : IsFine(r) /\ adj[r] > 0 => Paid(Subject(r))

\* When the jobs take turns: what a run will pay is what the shift pays, and nobody pays first.
AccrueAlone(run) ==
  run.pc = "accrue" =>
    \A r \in run.loaded : IsBase(r) => Worked(r.of) /\ shift[r.of].pay = r.tag /\ ~Paid(r.of)

BonusAlone(run) == run.pc = "bonus" => \A r \in run.new : ~Has(VerdictRows(r.of))

VerifyAlone(run) ==
  run.pc \in {"select", "missing", "commit"} =>
    /\ \A s \in run.fixed : Worked(s) /\ shift[s].pay = "long"
    /\ \A s \in run.ended : adj[Base(s, "cut")] = 0 /\ (adj[Base(s, "long")] > 0 => s \in run.fixed)
    /\ \A r \in run.loaded : IF r.of \in run.ended THEN r.tag = "cut"
                             ELSE Worked(r.of) /\ shift[r.of].pay = r.tag
    /\ \A r \in run.new : ~Paid(r.of)

RunAlone(run) == AccrueAlone(run) /\ BonusAlone(run) /\ VerifyAlone(run)

BasesOK ==
  \A s \in Shifts, p \in Pays :
    adj[Base(s, p)] > 0 => Worked(s) /\ shift[s].pay = p /\ adj[Base(s, p)] = 1

Turns ==
  /\ \A p, q \in Jobs : job[p].pc # "idle" /\ job[q].pc # "idle" => p = q
  /\ BasesOK
  /\ \A p \in Jobs : RunAlone(job[p])

IInv == TypeOK /\ Runs /\ FinesPaid /\ (Alone => Turns)

LEMMA IdleRun ==
  /\ IdleJob \in JobType /\ IdleJob.pc = "idle" /\ IdleJob.todo = {} /\ IdleJob.loaded = {} /\ IdleJob.new = {}
  /\ IdleJob.ended = {} /\ IdleJob.fixed = {} /\ \A s \in Shifts : IdleJob.drop[s] = 0
  /\ AccrueRun(IdleJob) /\ BonusRun(IdleJob) /\ VerifyRun(IdleJob) /\ RunAlone(IdleJob)
<1>1. /\ IdleJob \in JobType /\ IdleJob.pc = "idle" /\ IdleJob.todo = {} /\ IdleJob.loaded = {} /\ IdleJob.new = {}
      /\ IdleJob.ended = {} /\ IdleJob.fixed = {} /\ \A s \in Shifts : IdleJob.drop[s] = 0
  BY DEF IdleJob, JobType
<1> QED BY <1>1 DEF AccrueRun, BonusRun, VerifyRun, RunAlone, AccrueAlone, BonusAlone, VerifyAlone

LEMMA InitIInv == Init => IInv
<1> SUFFICES ASSUME Init PROVE IInv OBVIOUS
<1>1. \A p \in Jobs : job[p] = IdleJob
  BY DEF Init
<1>2. \A r \in Rows : adj[r] = 0
  BY DEF Init
<1>3. TypeOK
  BY IdleRun, AccrualAssumption DEF Init, TypeOK, Pays
<1>4. Runs
  BY <1>1, IdleRun DEF Runs, Jobs
<1>5. FinesPaid
  BY <1>2 DEF FinesPaid
<1>6. Turns
  <2>1. BasesOK
    BY <1>2, BaseFacts DEF BasesOK
  <2> QED BY <1>1, <2>1, IdleRun DEF Turns
<1> QED BY <1>3, <1>4, <1>5, <1>6 DEF IInv

-----------------------------------------------------------------------------
(* A step of one job that commits nothing.                                 *)

LEMMA RunStep ==
  ASSUME IInv, NEW p \in Jobs, NEW run \in JobType,
         job' = [job EXCEPT ![p] = run], UNCHANGED <<shift, opens, task, adj>>, kills' \in 0 .. MaxKills,
         p \in Accruers => AccrueRun(run),
         p \in Bonusers => BonusRun(run),
         p \in Verifiers => VerifyRun(run),
         Alone => /\ RunAlone(run)
                  /\ run.pc # "idle" => \A q \in Jobs : q # p => job[q].pc = "idle"
  PROVE  IInv'
<1>1. job'[p] = run /\ \A q \in Jobs : q # p => job'[q] = job[q]
  BY DEF IInv, TypeOK
<1>2. TypeOK'
  BY DEF IInv, TypeOK
<1>3. \A q \in Jobs : VerifyRun(job'[q]) => VerifyRun(job[q])'
  BY DEF VerifyRun, Paid
<1>4. \A q \in Jobs : RunAlone(job'[q]) => RunAlone(job[q])'
  BY DEF RunAlone, AccrueAlone, BonusAlone, VerifyAlone, Paid, Worked, Has, Held
<1>5. Runs'
  <2>1. Runs
    BY DEF IInv
  <2>2. ASSUME NEW q \in Accruers PROVE AccrueRun(job'[q])
    BY <1>1, <2>1, <2>2 DEF Runs, Jobs
  <2>3. ASSUME NEW q \in Bonusers PROVE BonusRun(job'[q])
    BY <1>1, <2>1, <2>3 DEF Runs, Jobs
  <2>4. ASSUME NEW q \in Verifiers PROVE VerifyRun(job'[q])
    BY <1>1, <2>1, <2>4 DEF Runs, Jobs
  <2> QED BY <1>3, <2>2, <2>3, <2>4 DEF Runs, Jobs, AccrueRun, BonusRun
<1>6. FinesPaid'
  BY DEF IInv, FinesPaid, Paid
<1>7. ASSUME Alone PROVE Turns'
  <2>0. Turns
    BY <1>7 DEF IInv
  <2>1. ASSUME NEW q \in Jobs, NEW x \in Jobs, job'[q].pc # "idle", job'[x].pc # "idle" PROVE q = x
    BY <1>1, <1>7, <2>0, <2>1 DEF Turns
  <2>2. BasesOK'
    BY <2>0 DEF Turns, BasesOK, Worked
  <2>3. ASSUME NEW q \in Jobs PROVE RunAlone(job'[q])
    BY <1>1, <1>7, <2>0, <2>3 DEF Turns
  <2> QED BY <1>4, <2>1, <2>2, <2>3 DEF Turns
<1> QED BY <1>2, <1>5, <1>6, <1>7 DEF IInv

-----------------------------------------------------------------------------
(* Steps that leave the jobs alone, and commits.                           *)

\* Rows other than those entered by hand, and what worked shifts pay, stay.
Calm ==
  /\ \A r \in Rows : r.kind # "manual" => adj'[r] = adj[r]
  /\ \A s \in Shifts : Worked(s) => Worked(s)' /\ shift'[s].pay = shift[s].pay

\* Base pay and fines for lateness only grow.
Grows == \A r \in Rows : IsBase(r) \/ r.kind = "late_start" => adj'[r] >= adj[r]

LEMMA PaidStays ==
  ASSUME TypeOK, TypeOK', Grows, NEW s \in Shifts, Paid(s)
  PROVE  Paid(s)'
<1>1. PICK p \in Pays : adj[Base(s, p)] > 0
  BY DEF Paid
<1>2. Base(s, p) \in Rows /\ IsBase(Base(s, p))
  BY BaseFacts DEF IsBase
<1>3. adj'[Base(s, p)] >= adj[Base(s, p)]
  BY <1>2 DEF Grows
<1>4. adj'[Base(s, p)] \in Nat /\ adj[Base(s, p)] \in Nat
  BY <1>2 DEF TypeOK
<1> QED BY <1>1, <1>3, <1>4 DEF Paid

LEMMA VerifyRunStays ==
  ASSUME TypeOK, TypeOK', Grows, NEW q \in Jobs, VerifyRun(job[q]), job'[q] = job[q]
  PROVE  VerifyRun(job[q])'
<1>0. job[q] \in JobType
  BY DEF TypeOK
<1>1. ASSUME NEW s \in job[q].fixed, adj[Base(s, "long")] >= 1 PROVE adj'[Base(s, "long")] >= 1
  <2>1. s \in Shifts
    BY <1>0 DEF JobType
  <2>2. adj'[Base(s, "long")] >= adj[Base(s, "long")] /\ adj'[Base(s, "long")] \in Nat /\ adj[Base(s, "long")] \in Nat
    BY <2>1, BaseFacts, OtherFacts DEF Grows, IsBase, TypeOK, Pays
  <2> QED BY <1>1, <2>2
<1>2. ASSUME NEW s \in Shifts, job[q].drop[s] <= adj[Late(s)] PROVE job[q].drop[s] <= adj'[Late(s)]
  <2>1. adj'[Late(s)] >= adj[Late(s)] /\ adj'[Late(s)] \in Nat /\ adj[Late(s)] \in Nat
    BY OtherFacts DEF Grows, TypeOK
  <2>2. job[q].drop[s] \in Nat
    BY <1>0 DEF JobType
  <2> QED BY <1>2, <2>1, <2>2
<1>3. ASSUME NEW r \in job[q].loaded, IsBase(r), Paid(r.of) PROVE Paid(r.of)'
  <2>1. r.of \in Shifts
    BY <1>0, <1>3, RowSorts DEF JobType
  <2>2. ASSUME NEW s \in Shifts, s = r.of PROVE Paid(s)'
    BY <1>3, <2>2, PaidStays
  <2> QED BY <2>1, <2>2 DEF Paid
<1> QED BY <1>1, <1>2, <1>3 DEF VerifyRun

LEMMA RunAloneStays ==
  ASSUME TypeOK, TypeOK', Calm, NEW q \in Jobs, RunAlone(job[q]), job'[q] = job[q],
         q \in Accruers => AccrueRun(job[q]),
         q \in Bonusers => BonusRun(job[q]),
         q \in Verifiers => VerifyRun(job[q])
  PROVE  RunAlone(job[q])'
<1>0. job[q] \in JobType
  BY DEF TypeOK
<1>1. ASSUME NEW s \in Shifts PROVE Paid(s)' <=> Paid(s)
  BY BaseFacts DEF Paid, Calm
<1>2. ASSUME NEW r \in job[q].loaded \cup job[q].new, IsBase(r)
      PROVE  /\ r.of \in Shifts
             /\ Worked(r.of) => Worked(r.of)' /\ shift'[r.of].pay = shift[r.of].pay
             /\ Paid(r.of)' <=> Paid(r.of)
  <2>1. r.of \in Shifts
    BY <1>0, <1>2, RowSorts DEF JobType
  <2>2. ASSUME NEW s \in Shifts, s = r.of PROVE (Paid(s)' <=> Paid(s)) /\ Worked(s) => Worked(s)' /\ shift'[s].pay = shift[s].pay
    BY <1>1 DEF Calm
  <2> QED BY <1>1, <2>1, <2>2 DEF Paid, Worked, Calm
<1>3. AccrueAlone(job[q])'
  BY <1>2 DEF RunAlone, AccrueAlone
<1>4. BonusAlone(job[q])'
  <2>1. ASSUME job[q].pc = "bonus", NEW r \in job[q].new PROVE ~Has(VerdictRows(r.of))'
    <3>1. q \in Bonusers /\ r \in Rows
      BY <1>0, <2>1 DEF JobType, AccrueRun, VerifyRun, Jobs
    <3>2. r.of \in Tasks
      BY <2>1, <3>1, EntryRows DEF BonusRun
    <3>3. \A x \in VerdictRows(r.of) : adj'[x] = adj[x]
      BY <3>2, TaskFacts DEF Calm, IsFine
    <3> QED BY <2>1, <3>3 DEF RunAlone, BonusAlone, Has, Held
  <2> QED BY <2>1 DEF BonusAlone
<1>5. VerifyAlone(job[q])'
  <2> SUFFICES ASSUME job[q].pc \in {"select", "missing", "commit"} PROVE VerifyAlone(job[q])'
    BY DEF VerifyAlone
  <2>1. q \in Verifiers /\ VerifyRun(job[q]) /\ VerifyAlone(job[q])
    BY DEF RunAlone, AccrueRun, BonusRun, Jobs
  <2>2. job[q].fixed \subseteq Shifts /\ job[q].ended \subseteq Shifts
    BY <1>0 DEF JobType
  <2>3. \A s \in job[q].fixed : Worked(s)' /\ shift'[s].pay = "long"
    BY <2>1, <2>2 DEF VerifyAlone, Calm
  <2>4. \A s \in job[q].ended : adj'[Base(s, "cut")] = adj[Base(s, "cut")] /\ adj'[Base(s, "long")] = adj[Base(s, "long")]
    BY <2>2, BaseFacts DEF Calm, Pays
  <2>5. \A r \in job[q].loaded : IsBase(r) /\ (r \in job[q].new => r \in job[q].loaded)
    BY <2>1 DEF VerifyRun
  <2>6. \A r \in job[q].loaded : IF r.of \in job[q].ended THEN r.tag = "cut"
                                ELSE Worked(r.of)' /\ shift'[r.of].pay = r.tag
    BY <1>2, <2>1, <2>5 DEF VerifyAlone
  <2>7. \A r \in job[q].new : ~Paid(r.of)'
    BY <1>2, <2>1, <2>5 DEF VerifyAlone, VerifyRun
  <2>8. \A s \in job[q].ended : adj'[Base(s, "cut")] = 0 /\ (adj'[Base(s, "long")] > 0 => s \in job[q].fixed)
    BY <2>1, <2>4 DEF VerifyAlone
  <2> QED BY <2>3, <2>6, <2>7, <2>8 DEF VerifyAlone
<1> QED BY <1>3, <1>4, <1>5 DEF RunAlone

LEMMA QuietStep ==
  ASSUME IInv, TypeOK', Calm, job' = job
  PROVE  IInv'
<1>1. Grows
  <2>1. ASSUME NEW r \in Rows, IsBase(r) \/ r.kind = "late_start" PROVE adj'[r] = adj[r] /\ adj[r] \in Nat
    BY <2>1 DEF Calm, IsBase, IInv, TypeOK
  <2> QED BY <2>1 DEF Grows
<1>2. Runs'
  <2>1. \A q \in Verifiers : VerifyRun(job[q])'
    BY <1>1, VerifyRunStays DEF IInv, Runs, Jobs
  <2> QED BY <2>1 DEF IInv, Runs, AccrueRun, BonusRun
<1>3. FinesPaid'
  <2>1. ASSUME NEW r \in Rows, IsFine(r), adj'[r] > 0 PROVE Paid(Subject(r))'
    <3>1. adj[r] > 0
      BY <2>1 DEF Calm, IsFine
    <3>2. PICK s \in Shifts : s = Subject(r)
      BY RowSorts
    <3>3. Paid(s)
      BY <2>1, <3>1, <3>2 DEF IInv, FinesPaid
    <3>4. Paid(s)'
      BY <1>1, <3>3, PaidStays DEF IInv
    <3> QED BY <3>2, <3>4 DEF Paid
  <2> QED BY <2>1 DEF FinesPaid
<1>4. ASSUME Alone PROVE Turns'
  <2>0. Turns
    BY <1>4 DEF IInv
  <2>1. BasesOK'
    <3>1. ASSUME NEW s \in Shifts, NEW p \in Pays, adj'[Base(s, p)] > 0
          PROVE  Worked(s)' /\ shift'[s].pay = p /\ adj'[Base(s, p)] = 1
      <4>1. adj'[Base(s, p)] = adj[Base(s, p)]
        BY BaseFacts DEF Calm
      <4> QED BY <2>0, <3>1, <4>1 DEF Turns, BasesOK, Calm
    <3> QED BY <3>1 DEF BasesOK
  <2>2. ASSUME NEW q \in Jobs PROVE RunAlone(job[q])'
    BY <2>0, RunAloneStays DEF IInv, Runs, Turns
  <2> QED BY <2>0, <2>1, <2>2 DEF Turns
<1> QED BY <1>2, <1>3, <1>4 DEF IInv

\* A commit ends its run; the others go on, and if the jobs take turns there are none.
LEMMA CommitStep ==
  ASSUME IInv, TypeOK', NEW p \in Jobs, job[p].pc # "idle",
         job' = [job EXCEPT ![p] = IdleJob],
         p \in Verifiers \/ Grows,
         FinesPaid', Alone => BasesOK'
  PROVE  IInv'
<1>0. TypeOK
  BY DEF IInv
<1>1. job'[p] = IdleJob /\ \A q \in Jobs : q # p => job'[q] = job[q]
  BY <1>0 DEF TypeOK
<1>2. Runs'
  <2>1. ASSUME NEW q \in Accruers PROVE AccrueRun(job'[q])
    BY <1>1, <2>1, IdleRun DEF IInv, Runs, Jobs
  <2>2. ASSUME NEW q \in Bonusers PROVE BonusRun(job'[q])
    BY <1>1, <2>2, IdleRun DEF IInv, Runs, Jobs
  <2>3. ASSUME NEW q \in Verifiers PROVE VerifyRun(job[q])'
    <3>1. CASE q = p
      BY <1>1, <3>1, IdleRun DEF VerifyRun, Jobs
    <3>2. CASE q # p
      <4>1. Grows
        BY <3>2, AccrualAssumption
      <4> QED BY <1>0, <1>1, <3>2, <4>1, VerifyRunStays DEF IInv, Runs, Jobs
    <3> QED BY <3>1, <3>2
  <2> QED BY <2>1, <2>2, <2>3 DEF Runs, AccrueRun, BonusRun
<1>3. ASSUME Alone PROVE Turns'
  <2>1. \A q \in Jobs : job'[q].pc = "idle"
    BY <1>1, <1>3, IdleRun DEF IInv, Turns
  <2>2. \A q \in Jobs : RunAlone(job[q])'
    BY <2>1 DEF RunAlone, AccrueAlone, BonusAlone, VerifyAlone
  <2> QED BY <1>3, <2>1, <2>2 DEF Turns
<1> QED BY <1>2, <1>3 DEF IInv

-----------------------------------------------------------------------------
(* The world.                                                              *)

LEMMA WorldIInv == IInv /\ World => IInv'
<1> SUFFICES ASSUME IInv, World PROVE IInv' OBVIOUS
<1>0. TypeOK
  BY DEF IInv
<1>1. ASSUME NEW s \in Shifts, NEW p \in Pays, EndShift(s, p) PROVE IInv'
  <2>1. shift[s] \in [status : {"active", "completed"}, old : BOOLEAN, noted : BOOLEAN, pay : Pays]
    BY <1>0 DEF TypeOK
  <2> DEFINE row == [shift[s] EXCEPT !.status = "completed", !.pay = p]
  <2>2. row \in [status : {"active", "completed"}, old : BOOLEAN, noted : BOOLEAN, pay : Pays]
    BY <2>1
  <2> HIDE DEF row
  <2>3. shift' = [shift EXCEPT ![s] = row] /\ ~Worked(s) /\ UNCHANGED <<opens, task, adj, job, kills>>
    BY <1>1 DEF EndShift, row, Worked
  <2>4. TypeOK'
    BY <1>0, <2>2, <2>3 DEF TypeOK
  <2>5. Calm
    BY <1>0, <2>3 DEF Calm, Worked, TypeOK
  <2> QED BY <2>3, <2>4, <2>5, QuietStep
<1>2. ASSUME NEW s \in Shifts, SaveNotes(s) \/ Age(s) PROVE IInv'
  <2>1. shift[s] \in [status : {"active", "completed"}, old : BOOLEAN, noted : BOOLEAN, pay : Pays]
    BY <1>0 DEF TypeOK
  <2>2. PICK row \in [status : {"active", "completed"}, old : BOOLEAN, noted : BOOLEAN, pay : Pays] :
          /\ row.status = shift[s].status /\ row.pay = shift[s].pay
          /\ shift' = [shift EXCEPT ![s] = row]
    <3>1. CASE SaveNotes(s)
      <4>1. shift' = [shift EXCEPT ![s] = [shift[s] EXCEPT !.noted = TRUE]]
        BY <3>1 DEF SaveNotes
      <4> QED BY <2>1, <4>1
    <3>2. CASE Age(s)
      <4>1. shift' = [shift EXCEPT ![s] = [shift[s] EXCEPT !.old = TRUE]]
        BY <3>2 DEF Age
      <4> QED BY <2>1, <4>1
    <3> QED BY <1>2, <3>1, <3>2
  <2>3. UNCHANGED <<opens, task, adj, job, kills>>
    BY <1>2 DEF SaveNotes, Age
  <2>4. TypeOK'
    BY <1>0, <2>2, <2>3 DEF TypeOK
  <2>5. Calm
    BY <1>0, <2>2, <2>3 DEF Calm, Worked, TypeOK
  <2> QED BY <2>3, <2>4, <2>5, QuietStep
<1>3. ASSUME NEW s \in Shifts, EnterManual(s) \/ DeleteManual(s) PROVE IInv'
  <2>1. /\ UNCHANGED <<shift, opens, task, job, kills>>
        /\ adj' \in [Rows -> Nat]
        /\ \A r \in Rows : r # Manual(s) => adj'[r] = adj[r]
    <3>1. adj \in [Rows -> Nat] /\ Manual(s) \in Rows
      BY <1>0, OtherFacts DEF TypeOK
    <3>2. CASE EnterManual(s)
      BY <3>1, <3>2 DEF EnterManual, Insert
    <3>3. CASE DeleteManual(s)
      BY <3>1, <3>3 DEF DeleteManual
    <3> QED BY <1>3, <3>2, <3>3
  <2>2. TypeOK'
    BY <1>0, <2>1 DEF TypeOK
  <2>3. Calm
    BY <2>1, OtherFacts DEF Calm, Worked
  <2> QED BY <2>1, <2>2, <2>3, QuietStep
<1>4. ASSUME NEW s \in Shifts, MoveOpening(s) PROVE IInv'
  <2>1. TypeOK' /\ Calm /\ job' = job
    BY <1>0, <1>4 DEF MoveOpening, TypeOK, Calm, Worked
  <2> QED BY <2>1, QuietStep
<1>5. ASSUME NEW t \in Tasks, MarkTask(t) \/ OwnerMarksTask(t) PROVE IInv'
  <2>1. TypeOK' /\ Calm /\ job' = job
    BY <1>0, <1>5 DEF MarkTask, OwnerMarksTask, TypeOK, Calm, Worked
  <2> QED BY <2>1, QuietStep
<1> QED BY <1>1, <1>2, <1>3, <1>4, <1>5 DEF World

LEMMA KillIInv == ASSUME IInv, NEW p \in Jobs, Kill(p) PROVE IInv'
<1>1. /\ job' = [job EXCEPT ![p] = IdleJob] /\ UNCHANGED <<shift, opens, task, adj>>
      /\ kills' \in 0 .. MaxKills
  BY AccrualAssumption DEF Kill, IInv, TypeOK
<1> QED BY <1>1, IdleRun, RunStep

LEMMA StutterIInv == IInv /\ UNCHANGED vars => IInv'
<1> SUFFICES ASSUME IInv, UNCHANGED vars PROVE IInv' OBVIOUS
<1>1. TypeOK' /\ Calm /\ job' = job
  BY DEF vars, IInv, TypeOK, Calm, Worked
<1> QED BY <1>1, QuietStep

-----------------------------------------------------------------------------
(* The accrual.                                                            *)

\* The rows a job commits.
LEMMA InsertRows ==
  ASSUME TypeOK, NEW R \in SUBSET Rows, Insert(R)
  PROVE  /\ adj' \in [Rows -> Nat]
         /\ \A r \in Rows : r \in R => adj'[r] = adj[r] + 1
         /\ \A r \in Rows : r \notin R => adj'[r] = adj[r]
         /\ \A r \in Rows : adj'[r] >= adj[r]
<1>1. adj \in [Rows -> Nat]
  BY DEF TypeOK
<1> QED BY <1>1 DEF Insert

LEMMA StartAccrualIInv == ASSUME IInv, NEW p \in Accruers, StartAccrual(p) PROVE IInv'
<1> DEFINE due == {s \in Shifts : Accruable(s)}
           bases == {Base(s, shift[s].pay) : s \in due}
           lates == {Late(s) : s \in {x \in due : LateDue(x)}}
           run == [IdleJob EXCEPT !.pc = "accrue", !.todo = due, !.loaded = bases \cup lates]
<1>0. TypeOK /\ p \in Jobs
  BY DEF IInv, Jobs
<1>1. /\ job' = [job EXCEPT ![p] = run] /\ UNCHANGED <<shift, opens, task, adj, kills>>
      /\ Alone => \A q \in Jobs : job[q].pc = "idle"
  BY DEF StartAccrual, Begin
<1>2. \A s \in due : s \in Shifts /\ shift[s].pay \in Pays /\ Worked(s) /\ ~Has(RowsOf(s))
  BY <1>0 DEF Accruable, TypeOK
<1>3. bases \cup lates \subseteq Rows
  BY <1>2, BaseFacts, OtherFacts
<1>4. /\ \A r \in bases : IsBase(r) /\ r.of \in due /\ r.tag = shift[r.of].pay
      /\ \A r \in lates : r.kind = "late_start" /\ ~IsBase(r)
      /\ \A s \in due : Base(s, shift[s].pay) \in bases /\ IsBase(Base(s, shift[s].pay)) /\ Base(s, shift[s].pay).of = s
  BY <1>2, BaseFacts, OtherFacts DEF IsBase
<1> HIDE DEF bases, lates
<1>5. /\ run.pc = "accrue" /\ run.todo = due /\ run.loaded = bases \cup lates /\ run.new = {}
      /\ run \in JobType
  BY <1>3 DEF IdleJob, JobType
<1>6. \A s \in due : ~Paid(s)
  <2>1. ASSUME NEW s \in due PROVE ~Paid(s)
    <3>1. \A q \in Pays : Base(s, q) \in RowsOf(s)
      BY <1>2, BaseFacts
    <3> QED BY <1>2, <3>1 DEF Paid, Has, Held
  <2> QED BY <2>1
<1> HIDE DEF run, due
<1>7. AccrueRun(run)
  <2>1. due \subseteq Shifts
    BY <1>2
  <2>2. \A s \in due : PaidBy(run.loaded, s)
    BY <1>4, <1>5 DEF PaidBy
  <2> QED BY <1>4, <1>5, <2>1, <2>2 DEF AccrueRun
<1>8. RunAlone(run)
  BY <1>2, <1>4, <1>5, <1>6 DEF RunAlone, AccrueAlone, BonusAlone, VerifyAlone
<1>9. p \notin Bonusers /\ p \notin Verifiers
  BY AccrualAssumption
<1> QED BY <1>0, <1>1, <1>5, <1>7, <1>8, <1>9, RunStep DEF TypeOK

LEMMA AccrueIInv ==
  ASSUME IInv, NEW p \in Accruers, NEW s \in Shifts, NEW rows, Accrue(p, s, rows),
         LoadedBase(p, s) \subseteq rows,
         rows \subseteq LoadedBase(p, s) \cup LoadedLate(p, s) \cup TaskVerdicts(s)
  PROVE  IInv'
<1> DEFINE run == [job[p] EXCEPT !.todo = @ \ {s}, !.new = @ \cup rows]
<1>0. TypeOK /\ p \in Jobs /\ AccrueRun(job[p]) /\ job[p].pc = "accrue" /\ s \in job[p].todo
  BY DEF IInv, Jobs, Runs, Accrue
<1>1. job' = [job EXCEPT ![p] = run] /\ UNCHANGED <<shift, opens, task, adj, kills>>
  BY DEF Accrue
<1>2. job[p] \in JobType
  BY <1>0 DEF TypeOK
<1>3. \A r \in rows : /\ r \in Rows
                      /\ IsFine(r) => Subject(r) = s
                      /\ r.tag # "entry"
                      /\ IsBase(r) => r \in job[p].loaded
  <2>1. ASSUME NEW r \in LoadedBase(p, s) PROVE r \in Rows /\ ~IsFine(r) /\ r.tag # "entry" /\ r \in job[p].loaded
    <3>1. r \in Rows /\ IsBase(r) /\ r \in job[p].loaded
      BY <1>2, <2>1 DEF LoadedBase, JobType, IsBase
    <3>2. r.tag \in Pays
      BY <3>1, RowSorts
    <3> QED BY <3>1, <3>2 DEF IsFine, Pays, IsBase
  <2>2. ASSUME NEW r \in LoadedLate(p, s) PROVE r \in Rows /\ ~IsBase(r) /\ Subject(r) = s /\ r.tag # "entry"
    <3>1. r \in Rows /\ r.kind = "late_start" /\ r.of = s
      BY <1>2, <2>2 DEF LoadedLate, JobType
    <3>2. r = Late(s)
      BY <3>1, RowSorts
    <3> QED BY <3>1, <3>2, OtherFacts, AccrualAssumption DEF IsBase, Subject
  <2>3. ASSUME NEW r \in TaskVerdicts(s) PROVE r \in Rows /\ ~IsBase(r) /\ Subject(r) = s /\ r.tag # "entry"
    BY VerdictsOfShift
  <2> QED BY <2>1, <2>2, <2>3
<1>4. PaidBy(rows, s)
  <2>1. PICK b \in job[p].loaded : IsBase(b) /\ b.of = s
    BY <1>0 DEF AccrueRun, PaidBy
  <2>2. b \in LoadedBase(p, s)
    BY <2>1 DEF LoadedBase, IsBase
  <2> QED BY <2>1, <2>2 DEF PaidBy
<1>5. /\ run.pc = "accrue" /\ run.todo = job[p].todo \ {s} /\ run.loaded = job[p].loaded
      /\ run.new = job[p].new \cup rows /\ run \in JobType
  BY <1>0, <1>2, <1>3 DEF JobType
<1> HIDE DEF run
<1>6. AccrueRun(run)
  <2>1. \A r \in run.new : IsFine(r) => PaidBy(run.new, Subject(r))
    BY <1>0, <1>3, <1>4, <1>5 DEF AccrueRun, PaidBy
  <2> QED BY <1>0, <1>3, <1>5, <2>1 DEF AccrueRun
<1>7. ASSUME Alone PROVE RunAlone(run) /\ \A q \in Jobs : q # p => job[q].pc = "idle"
  BY <1>0, <1>5, <1>7 DEF IInv, Turns, RunAlone, AccrueAlone, BonusAlone, VerifyAlone
<1>8. p \notin Bonusers /\ p \notin Verifiers
  BY AccrualAssumption
<1> QED BY <1>0, <1>1, <1>5, <1>6, <1>7, <1>8, RunStep DEF TypeOK

LEMMA CommitAccrualIInv == ASSUME IInv, NEW p \in Accruers, CommitAccrual(p) PROVE IInv'
<1>0. /\ TypeOK /\ p \in Jobs /\ AccrueRun(job[p]) /\ job[p].pc = "accrue" /\ job[p] \in JobType
      /\ Insert(job[p].new) /\ job' = [job EXCEPT ![p] = IdleJob] /\ UNCHANGED <<shift, opens, task, kills>>
  BY DEF IInv, Jobs, Runs, CommitAccrual, TypeOK
<1>1. job[p].new \subseteq Rows
  BY <1>0 DEF JobType
<1>2. /\ adj' \in [Rows -> Nat]
      /\ \A r \in Rows : r \in job[p].new => adj'[r] = adj[r] + 1
      /\ \A r \in Rows : r \notin job[p].new => adj'[r] = adj[r]
      /\ \A r \in Rows : adj'[r] >= adj[r]
  BY <1>0, <1>1, InsertRows
<1>3. TypeOK'
  BY <1>0, <1>2, IdleRun DEF TypeOK
<1>4. Grows
  BY <1>2 DEF Grows
<1>5. FinesPaid'
  <2>1. ASSUME NEW r \in Rows, IsFine(r), adj'[r] > 0 PROVE Paid(Subject(r))'
    <3>0. PICK s \in Shifts : s = Subject(r)
      BY RowSorts
    <3>1. CASE r \in job[p].new
      <4>1. PICK b \in job[p].new : IsBase(b) /\ b.of = s
        BY <1>0, <2>1, <3>0, <3>1 DEF AccrueRun, PaidBy
      <4>2. b \in Rows /\ b.tag \in Pays /\ b = Base(s, b.tag)
        BY <1>1, <4>1, RowSorts
      <4>3. adj'[b] = adj[b] + 1 /\ adj[b] \in Nat
        BY <1>0, <1>2, <4>1, <4>2 DEF TypeOK
      <4>4. Paid(s)'
        BY <4>2, <4>3 DEF Paid
      <4> QED BY <3>0, <4>4 DEF Paid
    <3>2. CASE r \notin job[p].new
      <4>1. Paid(s)
        BY <1>2, <2>1, <3>0, <3>2 DEF IInv, FinesPaid
      <4>2. Paid(s)'
        BY <1>0, <1>3, <1>4, <4>1, PaidStays
      <4> QED BY <3>0, <4>2 DEF Paid
    <3> QED BY <3>1, <3>2
  <2> QED BY <2>1 DEF FinesPaid
<1>6. ASSUME Alone PROVE BasesOK'
  <2>0. BasesOK /\ AccrueAlone(job[p])
    BY <1>0, <1>6 DEF IInv, Turns, RunAlone
  <2>1. ASSUME NEW s \in Shifts, NEW q \in Pays, adj'[Base(s, q)] > 0
        PROVE  Worked(s)' /\ shift'[s].pay = q /\ adj'[Base(s, q)] = 1
    <3> DEFINE b == Base(s, q)
    <3>1. b \in Rows /\ IsBase(b) /\ b.of = s /\ b.tag = q
      BY BaseFacts DEF IsBase
    <3>2. adj[b] \in Nat
      BY <1>0, <3>1 DEF TypeOK
    <3>3. CASE b \in job[p].new
      <4>1. Worked(s) /\ shift[s].pay = q /\ ~Paid(s)
        BY <1>0, <2>0, <3>1, <3>3 DEF AccrueRun, AccrueAlone
      <4>2. adj[b] = 0
        BY <3>2, <4>1 DEF Paid
      <4> QED BY <1>0, <1>2, <3>1, <3>3, <4>1, <4>2 DEF Worked
    <3>4. CASE b \notin job[p].new
      <4>1. adj'[b] = adj[b]
        BY <1>2, <3>1, <3>4
      <4> QED BY <1>0, <2>0, <2>1, <4>1 DEF BasesOK, Worked
    <3> QED BY <3>3, <3>4
  <2> QED BY <2>1 DEF BasesOK
<1> QED BY <1>0, <1>3, <1>4, <1>5, <1>6, CommitStep

LEMMA AccrualIInv == ASSUME IInv, NEW p \in Accruers, AccrualStep(p) PROVE IInv'
<1>1. ASSUME NEW s \in Shifts, AccrueShift(p, s) PROVE IInv'
  BY <1>1, AccrueIInv DEF AccrueShift
<1>2. ASSUME NEW s \in Shifts, AccrueShiftRaises(p, s) PROVE IInv'
  <2>1. CASE Accrue(p, s, LoadedBase(p, s))
    BY <2>1, AccrueIInv
  <2>2. ASSUME NEW some \in SUBSET TaskVerdicts(s),
               Accrue(p, s, LoadedBase(p, s) \cup LoadedLate(p, s) \cup some)
        PROVE  IInv'
    <3>1. /\ LoadedBase(p, s) \subseteq LoadedBase(p, s) \cup LoadedLate(p, s) \cup some
          /\ LoadedBase(p, s) \cup LoadedLate(p, s) \cup some
               \subseteq LoadedBase(p, s) \cup LoadedLate(p, s) \cup TaskVerdicts(s)
      BY <2>2
    <3> QED BY <2>2, <3>1, AccrueIInv
  <2> QED BY <1>2, <2>1, <2>2 DEF AccrueShiftRaises
<1> QED BY <1>1, <1>2, StartAccrualIInv, CommitAccrualIInv DEF AccrualStep

-----------------------------------------------------------------------------
(* The bonuses.                                                            *)

LEMMA PassIInv ==
  ASSUME IInv, NEW b \in Bonusers, NEW t \in Tasks, NEW rows, Pass(b, t, rows),
         rows \subseteq PremiumRows(t),
         Alone /\ rows # {} => ~Has(VerdictRows(t))
  PROVE  IInv'
<1> DEFINE run == [job[b] EXCEPT !.todo = @ \ {t}, !.new = @ \cup rows]
<1>0. TypeOK /\ b \in Jobs /\ BonusRun(job[b]) /\ job[b].pc = "bonus" /\ job[b] \in JobType
  BY DEF IInv, Jobs, Runs, Pass, TypeOK
<1>1. job' = [job EXCEPT ![b] = run] /\ UNCHANGED <<shift, opens, task, adj, kills>>
  BY DEF Pass
<1>2. \A r \in rows : r \in Rows /\ r.tag = "entry" /\ r.of = t
  BY TaskFacts
<1>3. /\ run.pc = "bonus" /\ run.new = job[b].new \cup rows /\ run \in JobType
  BY <1>0, <1>2 DEF JobType
<1> HIDE DEF run
<1>4. BonusRun(run)
  BY <1>0, <1>2, <1>3 DEF BonusRun
<1>5. ASSUME Alone PROVE RunAlone(run) /\ \A q \in Jobs : q # b => job[q].pc = "idle"
  <2>1. Turns
    BY <1>5 DEF IInv
  <2>2. BonusAlone(run)
    BY <1>0, <1>2, <1>3, <1>5, <2>1 DEF Turns, RunAlone, BonusAlone
  <2> QED BY <1>0, <1>3, <2>1, <2>2 DEF Turns, RunAlone, AccrueAlone, VerifyAlone
<1>6. b \notin Accruers /\ b \notin Verifiers
  BY AccrualAssumption
<1> QED BY <1>0, <1>1, <1>3, <1>4, <1>5, <1>6, RunStep DEF TypeOK

LEMMA CommitBonusesIInv == ASSUME IInv, NEW b \in Bonusers, CommitBonuses(b) PROVE IInv'
<1>0. /\ TypeOK /\ b \in Jobs /\ BonusRun(job[b]) /\ job[b].pc = "bonus" /\ job[b] \in JobType
      /\ Insert(job[b].new) /\ job' = [job EXCEPT ![b] = IdleJob] /\ UNCHANGED <<shift, opens, task, kills>>
  BY DEF IInv, Jobs, Runs, CommitBonuses, TypeOK
<1>1. \A r \in job[b].new : r \in Rows /\ ~IsBase(r) /\ ~IsFine(r)
  BY <1>0, EntryRows DEF JobType, BonusRun
<1>2. /\ adj' \in [Rows -> Nat]
      /\ \A r \in Rows : r \notin job[b].new => adj'[r] = adj[r]
      /\ \A r \in Rows : adj'[r] >= adj[r]
  BY <1>0, <1>1, InsertRows
<1>3. TypeOK'
  BY <1>0, <1>2, IdleRun DEF TypeOK
<1>4. Grows
  BY <1>2 DEF Grows
<1>5. FinesPaid'
  <2>1. ASSUME NEW r \in Rows, IsFine(r), adj'[r] > 0 PROVE Paid(Subject(r))'
    <3>1. PICK s \in Shifts : s = Subject(r)
      BY RowSorts
    <3>2. Paid(s)
      BY <1>1, <1>2, <2>1, <3>1 DEF IInv, FinesPaid
    <3>3. Paid(s)'
      BY <1>0, <1>3, <1>4, <3>2, PaidStays
    <3> QED BY <3>1, <3>3 DEF Paid
  <2> QED BY <2>1 DEF FinesPaid
<1>6. ASSUME Alone PROVE BasesOK'
  <2>1. ASSUME NEW s \in Shifts, NEW q \in Pays PROVE adj'[Base(s, q)] = adj[Base(s, q)]
    <3>1. Base(s, q) \in Rows /\ IsBase(Base(s, q))
      BY BaseFacts DEF IsBase
    <3> QED BY <1>1, <1>2, <3>1
  <2> QED BY <1>0, <1>6, <2>1 DEF IInv, Turns, BasesOK, Worked
<1> QED BY <1>0, <1>3, <1>4, <1>5, <1>6, CommitStep

LEMMA BonusIInv == ASSUME IInv, NEW b \in Bonusers, BonusStep(b) PROVE IInv'
<1>0. b \in Jobs /\ kills \in 0 .. MaxKills /\ b \notin Accruers /\ b \notin Verifiers
  BY AccrualAssumption DEF Jobs, IInv, TypeOK
<1>1. CASE StartBonuses(b)
  <2> DEFINE marked == {t \in Tasks \ Legacy : task[t] = "done" /\ Price[t] \in {"bonus", "fine"}}
             run == [IdleJob EXCEPT !.pc = "bonus", !.todo = marked]
  <2>1. /\ job' = [job EXCEPT ![b] = run] /\ UNCHANGED <<shift, opens, task, adj, kills>>
        /\ Alone => \A q \in Jobs : job[q].pc = "idle"
    BY <1>1 DEF StartBonuses, Begin
  <2>2. run \in JobType /\ run.pc = "bonus" /\ run.new = {}
    BY DEF IdleJob, JobType
  <2> HIDE DEF run
  <2>3. BonusRun(run) /\ RunAlone(run)
    BY <2>2 DEF BonusRun, RunAlone, AccrueAlone, BonusAlone, VerifyAlone
  <2> QED BY <1>0, <2>1, <2>2, <2>3, RunStep
<1>2. ASSUME NEW t \in Tasks, SkipTask(b, t) PROVE IInv'
  BY <1>2, PassIInv DEF SkipTask
<1>3. ASSUME NEW t \in Tasks, PriceTask(b, t) PROVE IInv'
  <2> DEFINE row == Premium(IF Price[t] = "bonus" THEN "task_bonus" ELSE "task_penalty", t)
  <2>1. {row} \subseteq PremiumRows(t)
    BY DEF PremiumRows
  <2>2. ~Has(VerdictRows(t))
    BY <1>3 DEF PriceTask, TaskRows, Has, Held
  <2>3. Pass(b, t, {row})
    BY <1>3 DEF PriceTask
  <2> HIDE DEF row
  <2> QED BY <2>1, <2>2, <2>3, PassIInv
<1>4. ASSUME NEW t \in Tasks, BonusesRaise(b, t) PROVE IInv'
  BY <1>0, <1>4, IdleRun, RunStep DEF BonusesRaise
<1> QED BY <1>1, <1>2, <1>3, <1>4, CommitBonusesIInv DEF BonusStep

-----------------------------------------------------------------------------
(* The verification.                                                       *)

LEMMA StartVerifyIInv == ASSUME IInv, NEW v \in Verifiers, StartVerify(v) PROVE IInv'
<1> DEFINE long == {s \in Shifts : Worked(s) /\ shift[s].pay = "long"}
           fixed == {s \in long : Has({Base(s, "long")}) /\ AtMostOne(BaseRows(s))}
<1>0. TypeOK /\ v \in Jobs /\ v \notin Accruers /\ v \notin Bonusers
  BY AccrualAssumption DEF IInv, Jobs
<1>1. PICK late \in SUBSET {s \in Shifts : shift[s].status = "active"} :
        /\ Begin(v, [IdleJob EXCEPT !.pc = "select", !.ended = late \cup long, !.fixed = fixed])
        /\ UNCHANGED <<shift, opens, task, adj, kills>>
  BY DEF StartVerify
<1> DEFINE run == [IdleJob EXCEPT !.pc = "select", !.ended = late \cup long, !.fixed = fixed]
<1>2. /\ job' = [job EXCEPT ![v] = run] /\ UNCHANGED <<shift, opens, task, adj, kills>>
      /\ Alone => \A q \in Jobs : job[q].pc = "idle"
  BY <1>1 DEF Begin
<1>3. /\ run \in JobType /\ run.pc = "select" /\ run.new = {} /\ run.loaded = {}
      /\ run.ended = late \cup long /\ run.fixed = fixed /\ \A s \in Shifts : run.drop[s] = 0
  BY <1>1 DEF IdleJob, JobType
<1>4. \A s \in fixed : s \in Shifts /\ s \in long /\ adj[Base(s, "long")] > 0
  BY DEF Has, Held
<1>5. \A s \in Shifts : adj[Base(s, "cut")] \in Nat /\ adj[Base(s, "long")] \in Nat /\ adj[Late(s)] \in Nat
  BY <1>0, OtherFacts DEF TypeOK
<1>6. VerifyRun(run)
  <2> HIDE DEF fixed, run
  <2>1. fixed \subseteq late \cup long
    BY <1>4
  <2> HIDE DEF long
  <2> QED BY <1>3, <1>4, <1>5, <2>1 DEF VerifyRun
<1>7. ASSUME Alone PROVE RunAlone(run)
  <2>0. BasesOK
    BY <1>7 DEF IInv, Turns
  <2>1. ASSUME NEW s \in late \cup long
        PROVE  adj[Base(s, "cut")] = 0 /\ (adj[Base(s, "long")] > 0 => s \in fixed)
    <3>0. s \in Shifts
      BY <1>1
    <3>1. CASE s \in late
      BY <1>1, <1>5, <2>0, <3>0, <3>1 DEF BasesOK, Worked, Pays
    <3>2. CASE s \in long
      <4>1. adj[Base(s, "cut")] = 0
        BY <1>5, <2>0, <3>0, <3>2 DEF BasesOK, Pays
      <4>2. ASSUME adj[Base(s, "long")] > 0 PROVE s \in fixed
        <5>1. adj[Base(s, "long")] = 1
          BY <2>0, <3>0, <4>2 DEF BasesOK, Pays
        <5>2. Held(BaseRows(s)) = {Base(s, "long")}
          BY <3>0, <4>1, <4>2, OtherFacts DEF Held
        <5>3. AtMostOne(BaseRows(s))
          BY <5>1, <5>2 DEF AtMostOne
        <5>4. Has({Base(s, "long")})
          BY <4>2 DEF Has, Held
        <5> QED BY <3>2, <5>3, <5>4
      <4> QED BY <4>1, <4>2
    <3> QED BY <3>1, <3>2
  <2>2. \A s \in fixed : Worked(s) /\ shift[s].pay = "long"
    OBVIOUS
  <2> HIDE DEF run, fixed, long
  <2> QED BY <1>3, <2>1, <2>2 DEF RunAlone, AccrueAlone, BonusAlone, VerifyAlone
<1> HIDE DEF run
<1> QED BY <1>0, <1>2, <1>3, <1>6, <1>7, RunStep DEF TypeOK

LEMMA SelectIInv == ASSUME IInv, NEW v \in Verifiers, SelectWorked(v) PROVE IInv'
<1> DEFINE worked == {s \in Shifts : Worked(s) \/ s \in job[v].ended}
           Pay(s) == IF s \in job[v].ended THEN "cut" ELSE shift[s].pay
           bases == {Base(s, Pay(s)) : s \in worked}
           run == [job[v] EXCEPT !.pc = "missing", !.todo = worked, !.loaded = bases]
<1>0. /\ TypeOK /\ v \in Jobs /\ v \notin Accruers /\ v \notin Bonusers
      /\ VerifyRun(job[v]) /\ job[v].pc = "select" /\ job[v] \in JobType
  BY AccrualAssumption DEF IInv, Jobs, Runs, SelectWorked, TypeOK
<1>1. job' = [job EXCEPT ![v] = run] /\ UNCHANGED <<shift, opens, task, adj, kills>>
  BY DEF SelectWorked
<1>2. \A s \in worked : s \in Shifts /\ Pay(s) \in Pays
  BY <1>0 DEF TypeOK, Pays
<1>3. \A r \in bases : /\ r \in Rows /\ IsBase(r) /\ r.of \in worked
                       /\ r.tag = Pay(r.of)
  <2> HIDE DEF worked, Pay
  <2> QED BY <1>2, BaseFacts DEF IsBase
<1>4. \A r \in bases : IF r.of \in job[v].ended THEN r.tag = "cut" ELSE Worked(r.of) /\ shift[r.of].pay = r.tag
  BY <1>3
<1>5. job[v].loaded = {} /\ job[v].new = {}
  BY <1>0 DEF VerifyRun
<1>6. /\ run.pc = "missing" /\ run.todo = worked /\ run.loaded = bases /\ run.new = job[v].new
      /\ run.ended = job[v].ended /\ run.fixed = job[v].fixed /\ run.drop = job[v].drop
      /\ run \in JobType
  <2>1. bases \subseteq Rows /\ worked \subseteq Shifts
    BY <1>3
  <2> HIDE DEF bases, worked
  <2> QED BY <1>0, <2>1 DEF JobType
<1> HIDE DEF run, bases, worked, Pay
<1>7. VerifyRun(run)
  BY <1>0, <1>3, <1>4, <1>5, <1>6 DEF VerifyRun
<1>8. ASSUME Alone PROVE RunAlone(run) /\ \A q \in Jobs : q # v => job[q].pc = "idle"
  BY <1>0, <1>4, <1>5, <1>6, <1>8 DEF IInv, Turns, RunAlone, AccrueAlone, BonusAlone, VerifyAlone
<1> QED BY <1>0, <1>1, <1>6, <1>7, <1>8, RunStep DEF TypeOK

LEMMA VerifyBaseIInv == ASSUME IInv, NEW v \in Verifiers, NEW s \in Shifts, VerifyBase(v, s) PROVE IInv'
<1> DEFINE new == IF Has(BaseRows(s)) THEN job[v].new ELSE job[v].new \cup LoadedBase(v, s)
           run == [job[v] EXCEPT !.todo = @ \ {s}, !.new = new]
<1>0. /\ TypeOK /\ v \in Jobs /\ v \notin Accruers /\ v \notin Bonusers
      /\ VerifyRun(job[v]) /\ job[v].pc = "missing" /\ job[v] \in JobType
  BY AccrualAssumption DEF IInv, Jobs, Runs, VerifyBase, TypeOK
<1>1. job' = [job EXCEPT ![v] = run] /\ UNCHANGED <<shift, opens, task, adj, kills>>
  BY DEF VerifyBase
<1>2. \A r \in LoadedBase(v, s) : r \in job[v].loaded /\ r.of = s
  BY DEF LoadedBase
<1>3. Paid(s) <=> Has(BaseRows(s))
  BY OtherFacts DEF Paid, Has, Held, Pays
<1>4. ASSUME NEW r \in job[v].loaded, r.of = s PROVE Paid(s) \/ r \in new
  <2>1. r \in LoadedBase(v, s)
    BY <1>0, <1>4 DEF VerifyRun, LoadedBase, IsBase
  <2> QED BY <1>3, <2>1
<1>5. job[v].new \subseteq new /\ new \subseteq job[v].loaded
  BY <1>0, <1>2 DEF VerifyRun
<1>6. ASSUME NEW r \in new PROVE r \in job[v].new \/ (r.of = s /\ ~Paid(s))
  BY <1>2, <1>3
<1> HIDE DEF new
<1>7. /\ run.pc = "missing" /\ run.todo = job[v].todo \ {s} /\ run.loaded = job[v].loaded /\ run.new = new
      /\ run.ended = job[v].ended /\ run.fixed = job[v].fixed /\ run.drop = job[v].drop
      /\ run \in JobType
  BY <1>0, <1>5 DEF JobType
<1> HIDE DEF run
<1>8. VerifyRun(run)
  <2>1. ASSUME NEW r \in run.loaded
        PROVE  r.of \in run.todo \/ Paid(r.of) \/ PaidBy(run.new, r.of)
    <3>1. CASE r.of = s
      BY <1>0, <1>4, <1>7, <2>1, <3>1 DEF PaidBy, VerifyRun
    <3>2. CASE r.of # s
      BY <1>0, <1>5, <1>7, <2>1, <3>2 DEF PaidBy, VerifyRun
    <3> QED BY <3>1, <3>2
  <2> QED BY <1>0, <1>5, <1>7, <2>1 DEF VerifyRun
<1>9. ASSUME Alone PROVE RunAlone(run) /\ \A q \in Jobs : q # v => job[q].pc = "idle"
  BY <1>0, <1>6, <1>7, <1>9 DEF IInv, Turns, RunAlone, AccrueAlone, BonusAlone, VerifyAlone
<1> QED BY <1>0, <1>1, <1>7, <1>8, <1>9, RunStep DEF TypeOK

LEMMA VerifyLateIInv == ASSUME IInv, NEW v \in Verifiers, VerifyLate(v) PROVE IInv'
<1> DEFINE drop == [s \in Shifts |-> IF opens[s] THEN 0 ELSE adj[Late(s)]]
           run == [job[v] EXCEPT !.pc = "commit", !.drop = drop]
<1>0. /\ TypeOK /\ v \in Jobs /\ v \notin Accruers /\ v \notin Bonusers
      /\ VerifyRun(job[v]) /\ job[v].pc = "missing" /\ job[v].todo = {} /\ job[v] \in JobType
  BY AccrualAssumption DEF IInv, Jobs, Runs, VerifyLate, TypeOK
<1>1. job' = [job EXCEPT ![v] = run] /\ UNCHANGED <<shift, opens, task, adj, kills>>
  BY DEF VerifyLate
<1>2. \A s \in Shifts : adj[Late(s)] \in Nat
  BY <1>0, OtherFacts DEF TypeOK
<1>3. drop \in [Shifts -> Nat] /\ \A s \in Shifts : drop[s] <= adj[Late(s)]
  BY <1>2
<1> HIDE DEF drop
<1>4. /\ run.pc = "commit" /\ run.loaded = job[v].loaded /\ run.new = job[v].new
      /\ run.ended = job[v].ended /\ run.fixed = job[v].fixed /\ run.drop = drop
      /\ run \in JobType
  BY <1>0, <1>3 DEF JobType
<1> HIDE DEF run
<1>5. VerifyRun(run)
  BY <1>0, <1>3, <1>4 DEF VerifyRun
<1>6. ASSUME Alone PROVE RunAlone(run) /\ \A q \in Jobs : q # v => job[q].pc = "idle"
  BY <1>0, <1>4, <1>6 DEF IInv, Turns, RunAlone, AccrueAlone, BonusAlone, VerifyAlone
<1> QED BY <1>0, <1>1, <1>4, <1>5, <1>6, RunStep DEF TypeOK

\* What the commit of a verification does to the rows.
LEMMA CommitVerifyRows ==
  ASSUME IInv, NEW v \in Verifiers, CommitVerify(v)
  PROVE  /\ \A s \in Shifts :
              /\ adj'[Late(s)] = adj[Late(s)] - job[v].drop[s]
              /\ adj'[Base(s, "long")] = IF s \in job[v].fixed THEN adj[Base(s, "long")] - 1
                                         ELSE IF Base(s, "long") \in job[v].new
                                           THEN adj[Base(s, "long")] + 1 ELSE adj[Base(s, "long")]
              /\ adj'[Base(s, "cut")] = IF s \in job[v].fixed \/ Base(s, "cut") \in job[v].new
                                          THEN adj[Base(s, "cut")] + 1 ELSE adj[Base(s, "cut")]
         /\ \A r \in Rows : ~IsBase(r) /\ r.kind # "late_start" => adj'[r] = adj[r]
         /\ \A s \in Shifts : /\ adj[Late(s)] \in Nat /\ job[v].drop[s] \in Nat
                              /\ job[v].drop[s] <= adj[Late(s)]
                              /\ adj[Base(s, "cut")] \in Nat /\ adj[Base(s, "long")] \in Nat
                              /\ s \in job[v].fixed => adj[Base(s, "long")] >= 1
<1>0. /\ TypeOK /\ v \in Jobs /\ VerifyRun(job[v]) /\ job[v].pc = "commit" /\ job[v] \in JobType
  BY DEF IInv, Jobs, Runs, CommitVerify, TypeOK
<1> DEFINE ended == job[v].ended
           fixed == job[v].fixed
           new == job[v].new
           drop == job[v].drop
<1>1. /\ shift' = [s \in Shifts |-> IF s \in ended
                     THEN [shift[s] EXCEPT !.status = "completed", !.pay = "cut"] ELSE shift[s]]
      /\ adj' = [r \in Rows |->
           CASE r.kind = "late_start" -> adj[r] - drop[r.of]
             [] r \in {Base(s, "long") : s \in fixed} -> adj[r] - 1
             [] r \in new \cup {Base(s, "cut") : s \in fixed} -> adj[r] + 1
             [] OTHER -> adj[r]]
      /\ job' = [job EXCEPT ![v] = IdleJob]
      /\ UNCHANGED <<opens, task, kills>>
  BY DEF CommitVerify
<1>2. /\ ended \subseteq Shifts /\ fixed \subseteq ended
      /\ \A s \in fixed : adj[Base(s, "long")] >= 1
      /\ new \subseteq job[v].loaded
      /\ \A r \in new : IsBase(r) /\ r \in Rows /\ (r.of \in ended => r.tag = "cut")
      /\ drop \in [Shifts -> Nat] /\ \A s \in Shifts : drop[s] <= adj[Late(s)]
  BY <1>0 DEF VerifyRun, JobType
<1> HIDE DEF ended, fixed, new, drop
<1>3. adj \in [Rows -> Nat]
  BY <1>0 DEF TypeOK
<1>4. ASSUME NEW s \in Shifts
      PROVE  /\ adj'[Late(s)] = adj[Late(s)] - drop[s]
             /\ adj'[Base(s, "long")] = IF s \in fixed THEN adj[Base(s, "long")] - 1
                                        ELSE IF Base(s, "long") \in new THEN adj[Base(s, "long")] + 1
                                        ELSE adj[Base(s, "long")]
             /\ adj'[Base(s, "cut")] = IF s \in fixed \/ Base(s, "cut") \in new
                                         THEN adj[Base(s, "cut")] + 1 ELSE adj[Base(s, "cut")]
  <2>1. /\ Base(s, "cut") \in Rows /\ Base(s, "cut").kind = "shift_base" /\ Base(s, "cut").tag = "cut"
        /\ Base(s, "long") \in Rows /\ Base(s, "long").kind = "shift_base" /\ Base(s, "long").tag = "long"
    BY BaseFacts DEF Pays
  <2>2. Base(s, "long") \in {Base(x, "long") : x \in fixed} <=> s \in fixed
    BY DEF Base
  <2>3. Base(s, "cut") \in {Base(x, "cut") : x \in fixed} <=> s \in fixed
    BY DEF Base
  <2>4. /\ Base(s, "cut") \notin {Base(x, "long") : x \in fixed}
        /\ Base(s, "long") \notin {Base(x, "cut") : x \in fixed}
    BY DEF Base
  <2>5. adj'[Late(s)] = adj[Late(s)] - drop[s]
    <3>1. /\ Late(s) \in Rows /\ Late(s).kind = "late_start" /\ Late(s).of = s /\ ~IsBase(Late(s))
      BY OtherFacts DEF IsBase
    <3>2. Late(s) \notin new
      BY <1>2, <3>1
    <3>3. Late(s) \notin {Base(x, "long") : x \in fixed} /\ Late(s) \notin {Base(x, "cut") : x \in fixed}
      BY DEF Late, Base
    <3> QED BY <1>1, <3>1, <3>2, <3>3
  <2>6. adj'[Base(s, "cut")] = IF s \in fixed \/ Base(s, "cut") \in new
                                 THEN adj[Base(s, "cut")] + 1 ELSE adj[Base(s, "cut")]
    BY <1>1, <2>1, <2>3, <2>4
  <2>7. adj'[Base(s, "long")] = IF s \in fixed THEN adj[Base(s, "long")] - 1
                                ELSE IF Base(s, "long") \in new THEN adj[Base(s, "long")] + 1
                                ELSE adj[Base(s, "long")]
    <3>1. s \in fixed => Base(s, "long") \notin new
      BY <1>2, <2>1, BaseFacts DEF Pays
    <3> QED BY <1>1, <2>1, <2>2, <2>4, <3>1
  <2> QED BY <2>5, <2>6, <2>7
<1>5. ASSUME NEW r \in Rows, ~IsBase(r), r.kind # "late_start" PROVE adj'[r] = adj[r]
  <2>1. r \notin new /\ r \notin {Base(s, "long") : s \in fixed} /\ r \notin {Base(s, "cut") : s \in fixed}
    BY <1>2, <1>5 DEF Base, IsBase
  <2> QED BY <1>1, <1>5, <2>1
<1>6. \A s \in Shifts : /\ adj[Late(s)] \in Nat /\ drop[s] \in Nat /\ drop[s] <= adj[Late(s)]
                        /\ adj[Base(s, "cut")] \in Nat /\ adj[Base(s, "long")] \in Nat
                        /\ s \in fixed => adj[Base(s, "long")] >= 1
  BY <1>2, <1>3, OtherFacts
<1> QED BY <1>4, <1>5, <1>6 DEF drop, fixed, new

LEMMA CommitVerifyIInv ==
  ASSUME IInv, NEW v \in Verifiers, CommitVerify(v)
  PROVE  IInv' /\ \A s \in Shifts : Paid(s) => Paid(s)'
<1>0. /\ TypeOK /\ v \in Jobs /\ VerifyRun(job[v]) /\ job[v].pc = "commit" /\ job[v] \in JobType
  BY DEF IInv, Jobs, Runs, CommitVerify, TypeOK
<1> DEFINE ended == job[v].ended
           fixed == job[v].fixed
           new == job[v].new
           drop == job[v].drop
<1>1. /\ shift' = [s \in Shifts |-> IF s \in ended
                     THEN [shift[s] EXCEPT !.status = "completed", !.pay = "cut"] ELSE shift[s]]
      /\ adj' = [r \in Rows |->
           CASE r.kind = "late_start" -> adj[r] - drop[r.of]
             [] r \in {Base(s, "long") : s \in fixed} -> adj[r] - 1
             [] r \in new \cup {Base(s, "cut") : s \in fixed} -> adj[r] + 1
             [] OTHER -> adj[r]]
      /\ job' = [job EXCEPT ![v] = IdleJob]
      /\ UNCHANGED <<opens, task, kills>>
  BY DEF CommitVerify
<1>2. /\ ended \subseteq Shifts /\ fixed \subseteq ended
      /\ new \subseteq job[v].loaded
      /\ \A r \in new : IsBase(r) /\ r \in Rows
  BY <1>0 DEF VerifyRun, JobType
<1>3. adj \in [Rows -> Nat]
  BY <1>0 DEF TypeOK
<1>4. ASSUME NEW s \in Shifts
      PROVE  /\ adj'[Late(s)] = adj[Late(s)] - drop[s]
             /\ adj'[Base(s, "long")] = IF s \in fixed THEN adj[Base(s, "long")] - 1
                                        ELSE IF Base(s, "long") \in new THEN adj[Base(s, "long")] + 1
                                        ELSE adj[Base(s, "long")]
             /\ adj'[Base(s, "cut")] = IF s \in fixed \/ Base(s, "cut") \in new
                                         THEN adj[Base(s, "cut")] + 1 ELSE adj[Base(s, "cut")]
  BY CommitVerifyRows
<1>5. \A r \in Rows : ~IsBase(r) /\ r.kind # "late_start" => adj'[r] = adj[r]
  BY CommitVerifyRows
<1>6. \A s \in Shifts : /\ adj[Late(s)] \in Nat /\ drop[s] \in Nat /\ drop[s] <= adj[Late(s)]
                        /\ adj[Base(s, "cut")] \in Nat /\ adj[Base(s, "long")] \in Nat
                        /\ s \in fixed => adj[Base(s, "long")] >= 1
  BY CommitVerifyRows
<1> HIDE DEF ended, fixed, new, drop
<1>7. \A r \in Rows : adj'[r] \in Nat
  <2>1. ASSUME NEW s \in Shifts
        PROVE  adj'[Late(s)] \in Nat /\ adj'[Base(s, "cut")] \in Nat /\ adj'[Base(s, "long")] \in Nat
    BY <1>4, <1>6
  <2>2. ASSUME NEW r \in Rows PROVE adj'[r] \in Nat
    <3>1. CASE IsBase(r)
      BY <2>1, <3>1, RowSorts DEF Pays
    <3>2. CASE r.kind = "late_start"
      BY <2>1, <3>2, RowSorts
    <3>3. CASE ~IsBase(r) /\ r.kind # "late_start"
      BY <1>3, <1>5, <3>3
    <3> QED BY <3>1, <3>2, <3>3
  <2> QED BY <2>2
<1>8. TypeOK'
  <2>1. adj' \in [Rows -> Nat]
    BY <1>1, <1>7
  <2>2. shift' \in [Shifts -> [status : {"active", "completed"}, old : BOOLEAN, noted : BOOLEAN, pay : Pays]]
    BY <1>0, <1>1 DEF TypeOK, Pays
  <2>3. job' \in [Jobs -> JobType]
    BY <1>0, <1>1, IdleRun DEF TypeOK
  <2> QED BY <1>0, <1>1, <2>1, <2>2, <2>3 DEF TypeOK
<1>9. ASSUME NEW s \in Shifts, Paid(s) PROVE Paid(s)'
  <2>1. adj[Base(s, "cut")] > 0 \/ adj[Base(s, "long")] > 0
    BY <1>9 DEF Paid, Pays
  <2>2. adj'[Base(s, "cut")] > 0 \/ adj'[Base(s, "long")] > 0
    BY <1>4, <1>6, <2>1
  <2> QED BY <2>2 DEF Paid, Pays
<1>10. FinesPaid'
  <2>1. ASSUME NEW r \in Rows, IsFine(r), adj'[r] > 0 PROVE Paid(Subject(r))'
    <3>1. PICK s \in Shifts : s = Subject(r)
      BY RowSorts
    <3>2. adj[r] > 0
      <4>1. CASE r.kind = "late_start"
        <5>1. r.of \in Shifts /\ r = Late(r.of)
          BY <4>1, RowSorts
        <5> QED BY <1>4, <1>6, <2>1, <5>1
      <4>2. CASE r.kind # "late_start"
        BY <1>5, <2>1, <4>2 DEF IsFine, IsBase
      <4> QED BY <4>1, <4>2
    <3>3. Paid(s)
      BY <2>1, <3>1, <3>2 DEF IInv, FinesPaid
    <3>4. Paid(s)'
      BY <1>9, <3>3
    <3> QED BY <3>1, <3>4 DEF Paid
  <2> QED BY <2>1 DEF FinesPaid
<1>11. ASSUME Alone PROVE BasesOK'
  <2>0. BasesOK /\ VerifyAlone(job[v])
    BY <1>0, <1>11 DEF IInv, Turns, RunAlone
  <2>1. /\ \A s \in ended : adj[Base(s, "cut")] = 0 /\ (adj[Base(s, "long")] > 0 => s \in fixed)
        /\ \A r \in new : IF r.of \in ended THEN r.tag = "cut" ELSE Worked(r.of) /\ shift[r.of].pay = r.tag
        /\ \A r \in new : ~Paid(r.of)
    BY <1>0, <1>2, <2>0 DEF VerifyAlone, ended, fixed, new
  <2>2. ASSUME NEW s \in Shifts, NEW q \in Pays, adj'[Base(s, q)] > 0
        PROVE  Worked(s)' /\ shift'[s].pay = q /\ adj'[Base(s, q)] = 1
    <3>1. Base(s, q).of = s /\ Base(s, q).tag = q /\ adj[Base(s, q)] \in Nat
      BY <1>3, BaseFacts
    <3>2. CASE s \in ended
      <4>1. Worked(s)' /\ shift'[s].pay = "cut"
        BY <1>0, <1>1, <3>2 DEF Worked, TypeOK
      <4>2. q # "long"
        <5>1. SUFFICES ASSUME q = "long" PROVE FALSE
          OBVIOUS
        <5>2. Base(s, "long") \notin new
          BY <2>1, <3>1, <3>2, <5>1
        <5>3. CASE s \in fixed
          <6>1. adj[Base(s, "long")] = 1
            BY <1>6, <2>0, <5>3 DEF BasesOK, Pays
          <6> QED BY <1>4, <2>2, <5>1, <5>3, <6>1
        <5>4. CASE s \notin fixed
          BY <1>4, <2>1, <2>2, <3>2, <5>1, <5>2, <5>4
        <5> QED BY <5>3, <5>4
      <4>3. q = "cut"
        BY <4>2 DEF Pays
      <4>4. adj'[Base(s, "cut")] = 1
        BY <1>4, <2>1, <2>2, <3>2, <4>3
      <4> QED BY <4>1, <4>3, <4>4
    <3>3. CASE s \notin ended
      <4>1. s \notin fixed /\ shift'[s] = shift[s]
        BY <1>1, <1>2, <3>3
      <4>2. CASE Base(s, q) \in new
        <5>1. Worked(s) /\ shift[s].pay = q /\ ~Paid(s)
          BY <2>1, <3>1, <3>3, <4>2
        <5>2. adj[Base(s, q)] = 0
          BY <3>1, <5>1 DEF Paid
        <5>3. adj'[Base(s, q)] = 1
          BY <1>4, <4>1, <4>2, <5>2 DEF Pays
        <5> QED BY <4>1, <5>1, <5>3 DEF Worked
      <4>3. CASE Base(s, q) \notin new
        <5>1. adj'[Base(s, q)] = adj[Base(s, q)]
          BY <1>4, <4>1, <4>3 DEF Pays
        <5> QED BY <2>0, <2>2, <4>1, <5>1 DEF BasesOK, Worked
      <4> QED BY <4>2, <4>3
    <3> QED BY <3>2, <3>3
  <2> QED BY <2>2 DEF BasesOK
<1> QED BY <1>0, <1>1, <1>8, <1>9, <1>10, <1>11, CommitStep

LEMMA VerifyIInv == ASSUME IInv, NEW v \in Verifiers, VerifyStep(v) PROVE IInv'
<1>0. v \in Jobs /\ kills \in 0 .. MaxKills
  BY DEF Jobs, IInv, TypeOK
<1>1. ASSUME NEW s \in Shifts, VerifyRaises(v, s) PROVE IInv'
  BY <1>0, <1>1, IdleRun, RunStep DEF VerifyRaises
<1> QED BY <1>1, StartVerifyIInv, SelectIInv, VerifyBaseIInv, VerifyLateIInv, CommitVerifyIInv DEF VerifyStep

-----------------------------------------------------------------------------
(* The theorems.                                                           *)

LEMMA NextIInv == IInv /\ [Next]_vars => IInv'
BY WorldIInv, KillIInv, AccrualIInv, BonusIInv, VerifyIInv, StutterIInv DEF Next

\* The inductive invariant, for any shifts, tasks, kills and rows.
THEOREM SpecIInv == Spec => []IInv
BY InitIInv, NextIInv, PTL DEF Spec

\* The variables keep their types; above all, no count of rows goes below zero, however
\* deletions and commits of jobs that overlap interleave.
THEOREM TypeCorrect == Spec => []TypeOK
<1>1. IInv => TypeOK
  BY DEF IInv
<1> QED BY <1>1, SpecIInv, PTL

\* However jobs overlap and wherever they are killed, a fine is never left without the base
\* pay of its shift.
THEOREM FinesArePaid == Spec => []FinesComeWithPay
<1>1. IInv => FinesComeWithPay
  <2> SUFFICES ASSUME IInv, NEW s \in Shifts,
                      NEW r \in {Late(s)} \cup UNION {VerdictRows(t) : t \in TasksOf(s)}, adj[r] > 0
               PROVE  Has(BaseRows(s))
    BY DEF FinesComeWithPay, Has, Held
  <2>1. r \in Rows /\ IsFine(r) /\ Subject(r) = s
    <3>1. CASE r = Late(s)
      BY <3>1, OtherFacts, AccrualAssumption DEF IsFine, Subject
    <3>2. ASSUME NEW t \in TasksOf(s), r \in VerdictRows(t) PROVE r \in Rows /\ IsFine(r) /\ Subject(r) = s
      BY <3>2, TaskFacts DEF TasksOf, Subject
    <3> QED BY <3>1, <3>2
  <2>2. Paid(s)
    BY <2>1 DEF IInv, FinesPaid
  <2> QED BY <2>2, BaseFacts DEF Paid, Has, Held
<1> QED BY <1>1, SpecIInv, PTL

\* Jobs that take turns pay the base of a shift once.
THEOREM BaseIsPaidOnce == Spec => []OneBase
<1>1. IInv => OneBase
  <2> SUFFICES ASSUME IInv, Alone, NEW s \in Shifts, NEW r \in Held(BaseRows(s))
               PROVE  adj[r] = 1 /\ Held(BaseRows(s)) = {r}
    BY DEF OneBase, AtMostOne
  <2>1. BasesOK
    BY DEF IInv, Turns
  <2>2. ASSUME NEW x \in Held(BaseRows(s)) PROVE adj[x] = 1 /\ x = Base(s, shift[s].pay)
    BY <2>1, <2>2 DEF Held, BaseRows, BasesOK
  <2> QED BY <2>2
<1> QED BY <1>1, SpecIInv, PTL

\* Jobs that take turns keep the base of a shift equal to what the shift pays.
THEOREM BaseMatchesShift == Spec => []PayMatches
<1>1. IInv => PayMatches
  BY DEF IInv, Turns, BasesOK, PayMatches, Has, Held
<1> QED BY <1>1, SpecIInv, PTL

\* No step but the commit of the bonus job touches a row without a shift.
LEMMA PremiumStays ==
  ASSUME IInv, [Next]_vars, NEW t \in Tasks, NEW r \in PremiumRows(t),
         Alone, Has(VerdictRows(t))
  PROVE  adj'[r] = adj[r]
<1>0. /\ r \in Rows /\ r.tag = "entry" /\ r.of = t /\ ~IsBase(r)
      /\ r.kind # "late_start" /\ r.kind # "manual"
  BY TaskFacts
<1>1. \A s \in Shifts : r # Manual(s)
  BY <1>0, OtherFacts
<1>2. ASSUME NEW s \in Shifts, EnterManual(s) \/ DeleteManual(s) PROVE adj'[r] = adj[r]
  <2>1. adj \in [Rows -> Nat]
    BY DEF IInv, TypeOK
  <2> QED BY <1>0, <1>1, <1>2, <2>1 DEF EnterManual, DeleteManual, Insert
<1>3. CASE World
  BY <1>2, <1>3 DEF World, EndShift, SaveNotes, Age, MoveOpening, MarkTask, OwnerMarksTask
<1>4. ASSUME NEW p \in Accruers, CommitAccrual(p) PROVE adj'[r] = adj[r]
  <2>1. p \in Jobs /\ AccrueRun(job[p])
    BY DEF IInv, Runs, Jobs
  <2>2. r \notin job[p].new
    BY <1>0, <1>4, <2>1 DEF AccrueRun, CommitAccrual
  <2> QED BY <1>0, <1>4, <2>2 DEF CommitAccrual, Insert
<1>5. ASSUME NEW b \in Bonusers, CommitBonuses(b) PROVE adj'[r] = adj[r]
  <2>1. b \in Jobs /\ BonusAlone(job[b])
    BY DEF IInv, Turns, RunAlone, Jobs
  <2>2. r \notin job[b].new
    BY <1>0, <1>5, <2>1 DEF BonusAlone, CommitBonuses
  <2> QED BY <1>0, <1>5, <2>2 DEF CommitBonuses, Insert
<1>6. ASSUME NEW v \in Verifiers, CommitVerify(v) PROVE adj'[r] = adj[r]
  BY <1>0, <1>6, CommitVerifyRows
<1>7. ASSUME NEW p \in Accruers, AccrualStep(p) PROVE adj'[r] = adj[r]
  BY <1>4, <1>7 DEF AccrualStep, StartAccrual, AccrueShift, AccrueShiftRaises, Accrue
<1>8. ASSUME NEW b \in Bonusers, BonusStep(b) PROVE adj'[r] = adj[r]
  BY <1>5, <1>8 DEF BonusStep, StartBonuses, SkipTask, PriceTask, Pass, BonusesRaise
<1>9. ASSUME NEW v \in Verifiers, VerifyStep(v) PROVE adj'[r] = adj[r]
  BY <1>6, <1>9 DEF VerifyStep, StartVerify, SelectWorked, VerifyBase, VerifyRaises, VerifyLate
<1> QED BY <1>3, <1>7, <1>8, <1>9 DEF Next, Kill, vars

\* Taking turns, the bonus job adds nothing to a task the accrual has judged.
THEOREM JudgedTasksArePriced == Spec => JudgedIsPriced
<1> DEFINE Kept == \A t \in Tasks : Alone /\ Has(VerdictRows(t)) =>
                     \A r \in PremiumRows(t) : adj'[r] = adj[r]
<1>1. IInv /\ [Next]_vars => [Kept]_vars
  BY PremiumStays
<1> QED BY <1>1, SpecIInv, PTL DEF Spec, JudgedIsPriced

\* A verification that commits leaves no shift it found worked without its base.
THEOREM VerificationMends == Spec => VerifyMends
<1> DEFINE Mended == \A v \in Verifiers : CommitVerify(v) =>
                       \A r \in job[v].loaded : \E p \in Pays : adj'[Base(r.of, p)] > 0
<1>1. ASSUME IInv, NEW v \in Verifiers, CommitVerify(v), NEW r \in job[v].loaded
      PROVE  \E p \in Pays : adj'[Base(r.of, p)] > 0
  <2>0. v \in Jobs /\ VerifyRun(job[v]) /\ job[v].pc = "commit" /\ job[v] \in JobType
    BY <1>1 DEF IInv, Runs, Jobs, TypeOK, CommitVerify
  <2>1. PICK s \in Shifts : s = r.of
    BY <2>0, RowSorts DEF VerifyRun, JobType
  <2>2. CASE Paid(s)
    BY <1>1, <2>1, <2>2, CommitVerifyIInv DEF Paid
  <2>3. CASE PaidBy(job[v].new, s)
    <3>1. PICK b \in job[v].new : IsBase(b) /\ b.of = s
      BY <2>3 DEF PaidBy
    <3>2. b \in Rows /\ b.tag \in Pays /\ b = Base(s, b.tag) /\ (s \in job[v].ended => b.tag = "cut")
      BY <2>0, <3>1, RowSorts DEF VerifyRun, JobType
    <3>3. adj'[b] = adj[b] + 1 /\ adj[b] \in Nat
      BY <1>1, <2>0, <3>1, <3>2, CommitVerifyRows DEF Pays, VerifyRun
    <3> QED BY <2>1, <3>2, <3>3
  <2> QED BY <2>0, <2>1, <2>2, <2>3 DEF VerifyRun
<1>2. IInv /\ [Next]_vars => [Mended]_vars
  BY <1>1
<1> QED BY <1>2, SpecIInv, PTL DEF Spec, VerifyMends
===============================================================================
