------------------------- MODULE PayrollBooks_proofs -------------------------
(***************************************************************************)
(* Theorems of PayrollBooks, for any rows, objects, periods and runs.      *)
(***************************************************************************)
EXTENDS PayrollBooks, FiniteSetTheorems, TLAPS

-----------------------------------------------------------------------------
(* The invariant, first what holds however runs and requests overlap.       *)

RowType == [state : {"none", "there", "gone"}, day : Periods, amount : Amounts,
            entry : Entries \cup {NoEntry}]
EntryType == [there : BOOLEAN, sum : SUBSET Parts]
JobType == [pc : {"idle", "daily", "recalc", "commit"}, period : Periods,
            todo : SUBSET Objects, loaded : SUBSET Parts, made : SUBSET Entries,
            sum : [Entries -> SUBSET Parts], link : [Rows -> Entries \cup {NoEntry}]]

ByHand(r) == Kind[r] \in {"manual", "incident"}

\* A row may be applied to e, and base pay counted in e.
Fits(r, e) == /\ ~ByHand(r) => e.period = Day[r]
              /\ Kind[r] = "base" => e.object = Home[r]

SumFits(e, parts) == \A x \in parts : Kind[x[1]] = "base" => e \in KeyOf(Home[x[1]], Day[x[1]])

RowsOK ==
  \A r \in Rows : /\ Kind[r] # "incident" => row[r].day = Day[r]
                  /\ row[r].state # "there" => row[r].entry = NoEntry
                  /\ row[r].entry # NoEntry => row[r].entry \in Made /\ Fits(r, row[r].entry)

RunOK(run) ==
  /\ run.pc = "idle" => run = IdleJob
  /\ \A r \in Rows : run.link[r] # NoEntry => run.link[r] \in run.made /\ Fits(r, run.link[r])
  /\ \A e \in Entries : SumFits(e, run.sum[e])
  /\ run.pc = "daily" => \A x \in run.loaded : Kind[x[1]] # "incident" => Day[x[1]] = run.period

SumsOK == \A e \in Entries : SumFits(e, entry[e].sum)

(* Besides, until operations overlap.                                       *)

OneForAll(E) == \A e, f \in E : e.object = f.object /\ e.period = f.period => e = f

\* The rows applied to e, after the run if it has applied them.
MadeIn(en) == {e \in Entries : en[e].there}
AppliedIn(rw, run, e) ==
  {r \in Rows : /\ rw[r].state = "there"
                /\ (IF run.link[r] # NoEntry THEN run.link[r] ELSE rw[r].entry) = e}

\* A run that nobody disturbs: what it has loaded is so, it applies only rows that are
\* there and applied to nothing, it counts what it applies; and a recalculation leaves
\* each entry it has come to balanced.
AloneIn(rw, en, run) ==
  /\ OneForAll(MadeIn(en) \cup run.made)
  /\ \A r \in Rows : run.link[r] # NoEntry => rw[r].state = "there" /\ rw[r].entry = NoEntry
  /\ \A x \in run.loaded : rw[x[1]].state = "there" /\ x = <<x[1], rw[x[1]].amount>>
  /\ \A e \in run.made : \A x \in run.sum[e] : x[1] \in AppliedIn(rw, run, e)
  /\ run.pc = "daily" =>
       /\ \A x \in run.loaded : rw[x[1]].entry = NoEntry
       /\ \A r \in Rows : run.link[r] # NoEntry => Home[r] \notin run.todo
  /\ run.pc = "recalc" =>
       \A e \in run.made : /\ e.object \notin run.todo
                           /\ run.sum[e] = {<<r, rw[r].amount>> : r \in AppliedIn(rw, run, e)}

CountedIn(rw, en) ==
  \A e \in MadeIn(en) : \A x \in en[e].sum :
    Kind[x[1]] # "incident" => rw[x[1]].state = "there" /\ rw[x[1]].entry = e

Alone ==
  /\ \A j, q \in Jobs : job[j].pc # "idle" /\ job[q].pc # "idle" => j = q
  /\ \A j \in Jobs : AloneIn(row, entry, job[j])
  /\ OneForAll(MadeIn(entry)) /\ CountedIn(row, entry)

RunsOK == /\ \A j \in Jobs : RunOK(job[j])
          /\ \A j \in Recalcs : job[j].pc \in {"idle", "recalc"}

Basic == /\ row \in [Rows -> RowType] /\ entry \in [Entries -> EntryType]
         /\ job \in [Jobs -> JobType] /\ mixed \in BOOLEAN
         /\ upsets \in 0 .. MaxUpsets /\ runs \in 0 .. MaxRuns

GInv == Basic /\ RowsOK /\ RunsOK /\ SumsOK

IInv == GInv /\ (~mixed => Alone)

-----------------------------------------------------------------------------
(* What the operators return.                                              *)

LEMMA NoEntryIsNone == NoEntry \notin Entries
BY BooksAssumption, SMT DEF NoEntry, Entries

LEMMA BasicIsType ==
  ASSUME Basic, RowsOK PROVE TypeOK
<1>1. ASSUME NEW r \in Rows
      PROVE  row[r] \in [state : {"none", "there", "gone"}, day : Periods, amount : Amounts,
                         entry : Made \cup {NoEntry}]
  BY <1>1, SMT DEF Basic, RowsOK, RowType
<1>2. row \in [Rows -> [state : {"none", "there", "gone"}, day : Periods, amount : Amounts,
                        entry : Made \cup {NoEntry}]]
  BY <1>1, SMT DEF Basic
<1> QED BY <1>2, SMT DEF Basic, TypeOK, EntryType, JobType

LEMMA IdleIsJob == IdleJob \in JobType /\ IdleJob.pc = "idle" /\ RunOK(IdleJob)
<1>1. (CHOOSE p \in Periods : TRUE) \in Periods
  BY BooksAssumption, Zenon
<1>2. IdleJob \in JobType
  BY <1>1, SMT DEF IdleJob, JobType
<1>3. /\ IdleJob.pc = "idle" /\ IdleJob.made = {}
      /\ \A r \in Rows : IdleJob.link[r] = NoEntry
      /\ \A e \in Entries : IdleJob.sum[e] = {}
  BY SMT DEF IdleJob
<1> QED BY <1>2, <1>3, SMT DEF RunOK, SumFits

\* A run sees a row as it has loaded it, or as it is.
LEMMA SeenPart ==
  ASSUME Basic, NEW j \in Jobs, NEW r \in Rows
  PROVE  /\ PartSeen(j, r) \in Parts /\ PartSeen(j, r)[1] = r
         /\ PartSeen(j, r) \in job[j].loaded \/ PartSeen(j, r) = Part(r)
<1>1. Part(r) \in Parts /\ Part(r)[1] = r
  BY SMT DEF Basic, RowType, Part, Parts
<1>2. job[j].loaded \subseteq Parts
  BY SMT DEF Basic, JobType
<1>3. CASE \E x \in job[j].loaded : x[1] = r
  <2>1. PartSeen(j, r) = CHOOSE x \in job[j].loaded : x[1] = r
    BY <1>3, Zenon DEF PartSeen
  <2>2. PartSeen(j, r) \in job[j].loaded /\ PartSeen(j, r)[1] = r
    BY <1>3, <2>1, Zenon
  <2> QED BY <1>2, <2>2
<1>4. CASE ~ \E x \in job[j].loaded : x[1] = r
  <2>1. PartSeen(j, r) = Part(r)
    BY <1>4, Zenon DEF PartSeen
  <2> QED BY <1>1, <2>1
<1> QED BY <1>3, <1>4

LEMMA SeenParts ==
  ASSUME Basic, NEW j \in Jobs, NEW S \in SUBSET Rows
  PROVE  /\ {PartSeen(j, r) : r \in S} \subseteq Parts
         /\ \A x \in {PartSeen(j, r) : r \in S} : x[1] \in S
BY SeenPart

LEMMA TargetIsKey ==
  ASSUME Basic, NEW j \in Jobs, NEW o \in Objects, NEW e \in Target(j, o)
  PROVE  e \in Entries /\ e \in KeyOf(o, job[j].period)
<1>1. job[j].period \in Periods
  BY SMT DEF Basic, JobType
<1>2. CASE Found(j, o) # {}
  <2>1. e \in Found(j, o)
    BY <1>2, Zenon DEF Target
  <2> QED BY <2>1, SMT DEF Found, KeyOf
<1>3. CASE Found(j, o) = {}
  <2>1. \E n \in 1 .. MaxCopies : e = [object |-> o, period |-> job[j].period, copy |-> n]
    BY <1>3, Zenon DEF Target
  <2> QED BY <1>1, <2>1, SMT DEF KeyOf, Entries
<1> QED BY <1>2, <1>3

\* What a recalculation takes for o may be counted, and what is new applied, there.
LEMMA TakenFits ==
  ASSUME Basic, RowsOK, NEW j \in Jobs, NEW o \in Objects,
         NEW e \in KeyOf(o, job[j].period), NEW r \in Taken(j, o)
  PROVE  /\ r \in Rows
         /\ Kind[r] = "base" => e \in KeyOf(Home[r], Day[r])
         /\ AppliedTo(j, r) = NoEntry => Fits(r, e)
<1>1. e \in Entries /\ e.object = o /\ e.period = job[j].period
  BY DEF KeyOf
<1>2. /\ r \in Rows
      /\ Kind[r] = "base" => Home[r] = o
      /\ AppliedTo(j, r) = NoEntry => \/ row[r].day = job[j].period
                                      \/ AppliedTo(j, r) \in Found(j, o)
      /\ ~ByHand(r) => row[r].day = job[j].period
  BY Zenon DEF Taken, ByHand
<1>3. AppliedTo(j, r) \in Found(j, o) => AppliedTo(j, r) \in Entries
  BY DEF Found, KeyOf
<1>4. Kind[r] # "incident" => row[r].day = Day[r]
  BY <1>2 DEF RowsOK
<1>5. Kind[r] = "base" => Day[r] = e.period
  BY <1>1, <1>2, <1>4 DEF ByHand
<1> QED BY <1>1, <1>2, <1>3, <1>4, <1>5, NoEntryIsNone DEF Fits, KeyOf, ByHand

-----------------------------------------------------------------------------
(* One run changes.                                                        *)

LEMMA RunChanges ==
  ASSUME Basic, RunsOK, NEW j \in Jobs, NEW run \in JobType, RunOK(run),
         job' = [job EXCEPT ![j] = run], j \in Recalcs => run.pc \in {"idle", "recalc"}
  PROVE  job' \in [Jobs -> JobType] /\ RunsOK'
<1>1. job' \in [Jobs -> JobType]
  BY SMT DEF Basic
<1>2. \A q \in Jobs : job'[q] = IF q = j THEN run ELSE job[q]
  BY SMT DEF Basic
<1>3. ASSUME NEW q \in Jobs PROVE RunOK(job'[q])
  BY <1>2, <1>3, Zenon DEF RunsOK
<1>4. ASSUME NEW q \in Recalcs PROVE job'[q].pc \in {"idle", "recalc"}
  BY <1>2, <1>4, Zenon DEF RunsOK, Jobs
<1> QED BY <1>1, <1>3, <1>4, Zenon DEF RunsOK

\* A run enters parts into e and applies the fresh rows to it.
Into(old, run, e, parts, fresh) ==
  /\ run.made = old.made \cup {e}
  /\ run.sum = [old.sum EXCEPT ![e] = parts]
  /\ run.link = [r \in Rows |-> IF r \in fresh THEN e ELSE old.link[r]]

LEMMA IntoOK ==
  ASSUME NEW old \in JobType, RunOK(old), NEW run \in JobType, run.pc # "idle", NEW e \in Entries,
         NEW parts \in SUBSET Parts, NEW fresh \in SUBSET Rows, Into(old, run, e, parts, fresh),
         SumFits(e, parts), \A r \in fresh : Fits(r, e),
         run.pc = "daily" => \A x \in run.loaded : Kind[x[1]] # "incident" => Day[x[1]] = run.period
  PROVE  RunOK(run)
<1>1. ASSUME NEW r \in Rows, run.link[r] # NoEntry PROVE run.link[r] \in run.made /\ Fits(r, run.link[r])
  <2>1. run.link[r] = IF r \in fresh THEN e ELSE old.link[r]
    BY Zenon DEF Into
  <2>2. CASE r \in fresh
    BY <2>1, <2>2, Zenon DEF Into
  <2>3. CASE r \notin fresh
    BY <1>1, <2>1, <2>3, Zenon DEF Into, RunOK
  <2> QED BY <2>2, <2>3
<1>2. ASSUME NEW f \in Entries PROVE SumFits(f, run.sum[f])
  <2>1. run.sum[f] = IF f = e THEN parts ELSE old.sum[f]
    BY SMT DEF Into, JobType
  <2> QED BY <2>1, Zenon DEF RunOK
<1> QED BY <1>1, <1>2, Zenon DEF RunOK

LEMMA OnlyRun ==
  ASSUME GInv, NEW j \in Jobs, NEW run \in JobType, RunOK(run),
         job' = [job EXCEPT ![j] = run], j \in Recalcs => run.pc \in {"idle", "recalc"},
         UNCHANGED <<row, entry>>, mixed' \in BOOLEAN, upsets' \in 0 .. MaxUpsets, runs' \in 0 .. MaxRuns
  PROVE  GInv'
<1>1. job' \in [Jobs -> JobType] /\ RunsOK'
  BY RunChanges DEF GInv
<1>2. Basic' BY <1>1 DEF GInv, Basic
<1>3. RowsOK' BY DEF GInv, RowsOK, Made
<1>4. SumsOK' BY DEF GInv, SumsOK
<1> QED BY <1>1, <1>2, <1>3, <1>4 DEF GInv

-----------------------------------------------------------------------------
(* The invariant that needs no quiet: requests.                            *)

\* What a request may do to the row r and to the entries.
LEMMA OnlyRow ==
  ASSUME GInv, NEW r \in Rows, NEW new \in RowType, row' = [row EXCEPT ![r] = new],
         Kind[r] # "incident" => new.day = Day[r],
         new.state # "there" => new.entry = NoEntry,
         new.entry # NoEntry => new.entry \in Made /\ Fits(r, new.entry),
         entry' \in [Entries -> EntryType], \A e \in Entries : entry'[e].there = entry[e].there,
         SumsOK', UNCHANGED job,
         mixed' \in BOOLEAN, upsets' \in 0 .. MaxUpsets, runs' \in 0 .. MaxRuns
  PROVE  GInv'
<1>1. row' \in [Rows -> RowType] /\ \A x \in Rows : row'[x] = IF x = r THEN new ELSE row[x]
  BY SMT DEF GInv, Basic
<1>2. Basic' BY <1>1 DEF GInv, Basic
<1>3. Made' = Made BY SMT DEF Made
<1>4. RowsOK'
  <2> SUFFICES ASSUME NEW x \in Rows
               PROVE  /\ Kind[x] # "incident" => row'[x].day = Day[x]
                      /\ row'[x].state # "there" => row'[x].entry = NoEntry
                      /\ row'[x].entry # NoEntry => row'[x].entry \in Made /\ Fits(x, row'[x].entry)
    BY <1>3, Zenon DEF RowsOK
  <2> QED BY <1>1, Zenon DEF GInv, RowsOK
<1>5. RunsOK' BY DEF GInv, RunsOK
<1> QED BY <1>2, <1>4, <1>5 DEF GInv

\* New sums of an entry from its rows, after only the row r has changed and not moved.
LEMMA ResumOK ==
  ASSUME GInv, NEW r \in Rows, row' \in [Rows -> RowType],
         \A x \in Rows : row'[x].entry \in {row[x].entry, NoEntry},
         NEW e \in Entries \cup {NoEntry}, Resum(e)
  PROVE  /\ entry' \in [Entries -> EntryType] /\ SumsOK'
         /\ \A f \in Entries : entry'[f].there = entry[f].there
<1> DEFINE parts == {<<x, row'[x].amount>> : x \in {y \in Rows : row'[y].state = "there" /\ row'[y].entry = e}}
<1>1. CASE e \in Made
  <2>1. e \in Entries BY <1>1 DEF Made
  <2>2. entry' = [entry EXCEPT ![e].sum = parts] BY <1>1, Zenon DEF Resum
  <2>3. parts \subseteq Parts BY SMT DEF RowType, Parts
  <2>4. SumFits(e, parts)
    <3> SUFFICES ASSUME NEW x \in Rows, row'[x].entry = e, Kind[x] = "base" PROVE e \in KeyOf(Home[x], Day[x])
      BY SMT DEF SumFits
    <3>1. row[x].entry = e BY <2>1, NoEntryIsNone
    <3>2. Fits(x, e) BY <2>1, <3>1, NoEntryIsNone, Zenon DEF GInv, RowsOK
    <3> QED BY <2>1, <3>2, SMT DEF Fits, ByHand, KeyOf
  <2> HIDE DEF parts
  <2>5. \A f \in Entries : /\ entry'[f].sum = IF f = e THEN parts ELSE entry[f].sum
                           /\ entry'[f].there = entry[f].there
    BY <2>1, <2>2, SMT DEF GInv, Basic, EntryType
  <2>6. entry' \in [Entries -> EntryType]
    BY <2>1, <2>2, <2>3, SMT DEF GInv, Basic, EntryType
  <2>7. SumsOK' BY <2>4, <2>5, Zenon DEF GInv, SumsOK
  <2> QED BY <2>5, <2>6, <2>7
<1>2. CASE e \notin Made
  BY <1>2 DEF Resum, GInv, Basic, SumsOK
<1> QED BY <1>1, <1>2

LEMMA AppearsG ==
  ASSUME GInv, NEW r \in Rows, RowAppears(r) PROVE GInv'
<1> DEFINE new == [row[r] EXCEPT !.state = "there"]
<1>1. row[r] \in RowType /\ row[r].state = "none"
  BY DEF GInv, Basic, RowAppears
<1>2. row' = [row EXCEPT ![r] = new] BY SMT DEF RowAppears
<1>3. /\ new \in RowType /\ new.day = row[r].day /\ new.entry = row[r].entry
      /\ row[r].entry = NoEntry /\ (Kind[r] # "incident" => row[r].day = Day[r])
  BY <1>1, SMT DEF RowType, GInv, RowsOK
<1> HIDE DEF new
<1>4. UNCHANGED <<entry, job, mixed, upsets, runs>> BY DEF RowAppears
<1>5. SumsOK' BY <1>4 DEF GInv, SumsOK
<1> QED BY <1>2, <1>3, <1>4, <1>5, OnlyRow DEF GInv, Basic

LEMMA AddsG ==
  ASSUME GInv, NEW r \in Rows, NEW e \in Entries, OwnerAdds(r, e) \/ ManagerAdds(r, e) PROVE GInv'
<1> DEFINE new == [row[r] EXCEPT !.state = "there", !.entry = e]
<1>1. /\ row[r] \in RowType /\ Kind[r] = "manual" /\ Home[r] = e.object /\ entry[e].there
      /\ row' = [row EXCEPT ![r] = new]
  BY DEF GInv, Basic, OwnerAdds, ManagerAdds, AddTo
<1>2. new \in RowType BY <1>1 DEF RowType
<1>2a. /\ new.day = row[r].day /\ new.entry = e /\ new.state = "there"
      /\ (Kind[r] # "incident" => row[r].day = Day[r])
  BY <1>1, SMT DEF RowType, GInv, RowsOK
<1> HIDE DEF new
<1>3. Fits(r, e) /\ e \in Made BY <1>1, SMT DEF Fits, ByHand, Made
<1>4. UNCHANGED job /\ mixed' \in BOOLEAN /\ UNCHANGED <<upsets, runs>>
  BY Zenon DEF OwnerAdds, ManagerAdds, Request, GInv, Basic
<1>5. Part(r) \in Parts /\ Part(r)[1] = r BY <1>1, SMT DEF Part, Parts, RowType
<1>6. /\ entry' \in [Entries -> EntryType] /\ SumsOK'
      /\ \A f \in Entries : entry'[f].there = entry[f].there
  <2>1. CASE OwnerAdds(r, e)
    <3>1. entry' = [entry EXCEPT ![e].sum = @ \cup {Part(r)}] BY <2>1, Zenon DEF OwnerAdds
    <3>2. \A f \in Entries : /\ entry'[f].sum = IF f = e THEN entry[e].sum \cup {Part(r)} ELSE entry[f].sum
                             /\ entry'[f].there = entry[f].there
      BY <3>1, SMT DEF GInv, Basic, EntryType
    <3>3. entry' \in [Entries -> EntryType]
      BY <1>5, <3>1, SMT DEF GInv, Basic, EntryType
    <3>4. SumFits(e, entry[e].sum \cup {Part(r)})
      BY <1>1, <1>5 DEF GInv, SumsOK, SumFits
    <3>5. SumsOK' BY <3>2, <3>4, Zenon DEF GInv, SumsOK
    <3> QED BY <3>2, <3>3, <3>5
  <2>2. CASE ManagerAdds(r, e)
    BY <2>2 DEF ManagerAdds, GInv, Basic, SumsOK
  <2> QED BY <2>1, <2>2
<1> QED BY <1>1, <1>2, <1>2a, <1>3, <1>4, <1>6, OnlyRow DEF GInv, Basic

LEMMA EditG ==
  ASSUME GInv, NEW r \in Rows, Edit(r) PROVE GInv'
<1> DEFINE new == [row[r] EXCEPT !.amount = @ + 1]
<1>1. /\ row[r] \in RowType /\ row[r].state = "there" /\ row[r].amount < MaxAmounts
      /\ row' = [row EXCEPT ![r] = new]
  BY SMT DEF GInv, Basic, Edit, There
<1>2. /\ new \in RowType /\ new.day = row[r].day /\ new.entry = row[r].entry /\ new.state = "there"
      /\ (Kind[r] # "incident" => row[r].day = Day[r])
      /\ row[r].entry # NoEntry => row[r].entry \in Made /\ Fits(r, row[r].entry)
  BY <1>1, BooksAssumption, SMT DEF RowType, GInv, RowsOK, Amounts
<1> HIDE DEF new
<1>3. /\ row' \in [Rows -> RowType] /\ \A x \in Rows : row'[x].entry = row[x].entry
  BY <1>1, <1>2, SMT DEF GInv, Basic
<1>4. row[r].entry \in Entries \cup {NoEntry} /\ Resum(row[r].entry)
  BY <1>1, SMT DEF RowType, Edit
<1>5. /\ entry' \in [Entries -> EntryType] /\ SumsOK'
      /\ \A f \in Entries : entry'[f].there = entry[f].there
  BY <1>3, <1>4, ResumOK
<1>6. UNCHANGED job /\ mixed' \in BOOLEAN /\ upsets' \in 0 .. MaxUpsets /\ UNCHANGED runs
  BY BooksAssumption, SMT DEF Edit, Request, Upset, GInv, Basic, Busy
<1> QED BY <1>1, <1>2, <1>5, <1>6, OnlyRow DEF GInv, Basic

LEMMA DeletesG ==
  ASSUME GInv, NEW r \in Rows, OwnerDeletes(r) PROVE GInv'
<1> DEFINE new == [row[r] EXCEPT !.state = "gone", !.entry = NoEntry]
<1>1. row[r] \in RowType /\ row' = [row EXCEPT ![r] = new]
  BY SMT DEF GInv, Basic, OwnerDeletes
<1>2. new \in RowType BY <1>1 DEF RowType
<1>2a. /\ new.day = row[r].day /\ new.entry = NoEntry
      /\ (Kind[r] # "incident" => row[r].day = Day[r])
  BY <1>1, SMT DEF RowType, GInv, RowsOK
<1> HIDE DEF new
<1>3. /\ row' \in [Rows -> RowType] /\ \A x \in Rows : row'[x].entry \in {row[x].entry, NoEntry}
  BY <1>1, <1>2, <1>2a, SMT DEF GInv, Basic
<1>4. row[r].entry \in Entries \cup {NoEntry} /\ Resum(row[r].entry)
  BY <1>1, SMT DEF RowType, OwnerDeletes
<1>5. /\ entry' \in [Entries -> EntryType] /\ SumsOK'
      /\ \A f \in Entries : entry'[f].there = entry[f].there
  BY <1>3, <1>4, ResumOK
<1>6. UNCHANGED job /\ mixed' \in BOOLEAN /\ upsets' \in 0 .. MaxUpsets /\ UNCHANGED runs
  BY BooksAssumption, SMT DEF OwnerDeletes, Request, Upset, GInv, Basic, Busy
<1> QED BY <1>1, <1>2, <1>2a, <1>5, <1>6, OnlyRow DEF GInv, Basic

LEMMA MovesG ==
  ASSUME GInv, NEW r \in Rows, NEW p \in Periods, IncidentMoves(r, p) PROVE GInv'
<1> DEFINE new == [row[r] EXCEPT !.day = p, !.entry = NoEntry]
<1>1. row[r] \in RowType /\ row' = [row EXCEPT ![r] = new] /\ Kind[r] = "incident"
  BY SMT DEF GInv, Basic, IncidentMoves
<1>2. new \in RowType BY <1>1 DEF RowType
<1>2a. new.entry = NoEntry BY <1>1, SMT DEF RowType
<1> HIDE DEF new
<1>3. UNCHANGED <<job, entry, runs>> /\ mixed' \in BOOLEAN /\ upsets' \in 0 .. MaxUpsets
  BY BooksAssumption, SMT DEF IncidentMoves, Request, Upset, GInv, Basic, Busy
<1>4. SumsOK' BY <1>3 DEF GInv, SumsOK
<1> QED BY <1>1, <1>2, <1>2a, <1>3, <1>4, OnlyRow DEF GInv, Basic

-----------------------------------------------------------------------------
(* The invariant that needs no quiet: runs.                                *)

LEMMA BeginG ==
  ASSUME GInv, NEW j \in Jobs, NEW run \in JobType, RunOK(run), Begin(j, run),
         j \in Recalcs => run.pc = "recalc"
  PROVE  GInv'
<1>1. runs' \in 0 .. MaxRuns /\ mixed' \in BOOLEAN /\ upsets' \in 0 .. MaxUpsets
  <2>1. mixed' \in BOOLEAN BY Zenon DEF Begin, GInv, Basic
  <2>2. runs' \in 0 .. MaxRuns /\ upsets' \in 0 .. MaxUpsets
    BY BooksAssumption, SMT DEF Begin, GInv, Basic
  <2> QED BY <2>1, <2>2
<1> QED BY <1>1, OnlyRun, Zenon DEF Begin

\* A run that has begun and has loaded parts.
Started(run, pc, p, parts, objects) ==
  /\ run.pc = pc /\ run.period = p /\ run.loaded = parts /\ run.todo = objects
  /\ run.made = {} /\ run.sum = IdleJob.sum /\ run.link = IdleJob.link

LEMMA StartedOK ==
  ASSUME NEW run \in JobType, NEW pc \in {"daily", "recalc"}, NEW p, NEW parts, NEW objects,
         Started(run, pc, p, parts, objects), \A x \in parts : Kind[x[1]] # "incident" => Day[x[1]] = p
  PROVE  RunOK(run)
<1>1. /\ \A r \in Rows : run.link[r] = NoEntry
      /\ \A e \in Entries : run.sum[e] = {}
  BY SMT DEF Started, IdleJob
<1> QED BY <1>1, SMT DEF Started, RunOK, SumFits

LEMMA StartDailyG ==
  ASSUME GInv, NEW d \in Dailies, NEW p \in Periods, StartDaily(d, p) PROVE GInv'
<1> DEFINE rows == IF "shared" \in Plan THEN Unapplied(p) ELSE {}
           parts == {Part(r) : r \in rows}
           objects == {Home[r] : r \in rows}
           run == [IdleJob EXCEPT !.pc = "daily", !.period = p, !.loaded = parts, !.todo = objects]
<1>1. Begin(d, run) BY Zenon DEF StartDaily
<1>2. \A r \in rows : r \in Rows /\ row[r].day = p BY Zenon DEF Unapplied
<1> HIDE DEF rows
<1>3. parts \subseteq Parts /\ \A x \in parts : x[1] \in rows
  BY <1>2, SMT DEF Part, Parts, GInv, Basic, RowType
<1>4. objects \subseteq Objects BY <1>2, BooksAssumption
<1>5. \A x \in parts : Kind[x[1]] # "incident" => Day[x[1]] = p
  BY <1>2, <1>3 DEF GInv, RowsOK
<1> HIDE DEF parts, objects
<1>6. run \in JobType BY <1>3, <1>4, IdleIsJob DEF JobType
<1>7. Started(run, "daily", p, parts, objects)
  BY IdleIsJob, SMT DEF Started, JobType, IdleJob
<1> HIDE DEF run
<1>8. RunOK(run) BY <1>5, <1>6, <1>7, StartedOK
<1>9. d \in Jobs /\ d \notin Recalcs BY BooksAssumption DEF Jobs
<1> QED BY <1>1, <1>6, <1>8, <1>9, BeginG

LEMMA StartRecalcG ==
  ASSUME GInv, NEW j \in Recalcs, NEW p \in Periods, StartRecalc(j, p) PROVE GInv'
<1> DEFINE run == [IdleJob EXCEPT !.pc = "recalc", !.period = p, !.todo = Objects]
<1>1. Begin(j, run) BY Zenon DEF StartRecalc
<1>2. run \in JobType BY IdleIsJob DEF JobType
<1>3. Started(run, "recalc", p, {}, Objects)
  BY IdleIsJob, SMT DEF Started, JobType, IdleJob
<1> HIDE DEF run
<1>4. RunOK(run) BY <1>2, <1>3, StartedOK
<1> QED BY <1>1, <1>2, <1>3, <1>4, BeginG DEF Jobs, Started

\* A run enters what is new and what is counted for o into an entry of o.
LEMMA EnterG ==
  ASSUME GInv, NEW j \in Jobs, NEW o \in Objects, NEW run \in JobType, NEW e \in Target(j, o),
         NEW S \in SUBSET Rows, NEW fresh \in SUBSET Rows,
         job' = [job EXCEPT ![j] = run], UNCHANGED <<row, entry, mixed, upsets, runs>>,
         Into(job[j], run, e, {PartSeen(j, r) : r \in S}, fresh),
         run.pc # "idle", j \in Recalcs => run.pc = "recalc",
         \A r \in S : Kind[r] = "base" => e \in KeyOf(Home[r], Day[r]),
         \A r \in fresh : Fits(r, e),
         run.pc = "daily" => \A x \in run.loaded : Kind[x[1]] # "incident" => Day[x[1]] = run.period
  PROVE  GInv'
<1> DEFINE parts == {PartSeen(j, r) : r \in S}
<1>1. e \in Entries BY TargetIsKey DEF GInv
<1>2. parts \subseteq Parts /\ \A x \in parts : x[1] \in S BY SeenParts DEF GInv
<1>3. SumFits(e, parts) BY <1>2, Zenon DEF SumFits
<1> HIDE DEF parts
<1>4. RunOK(job[j]) /\ job[j] \in JobType BY DEF GInv, RunsOK, Basic
<1>5. Into(job[j], run, e, parts, fresh) BY DEF parts
<1>6. RunOK(run) BY <1>1, <1>2, <1>3, <1>4, <1>5, IntoOK
<1> QED BY <1>6, OnlyRun, Zenon DEF GInv, Basic

\* The rows as a run sees them.
Seen(j, S) == {PartSeen(j, r) : r \in S}

\* What Enter leaves in the run.
Entered(old, e, o, parts, fresh, seen) ==
  [old EXCEPT !.todo = old.todo \ {o}, !.made = old.made \cup {e},
              !.sum = [old.sum EXCEPT ![e] = parts],
              !.loaded = old.loaded \cup seen,
              !.link = [r \in Rows |-> IF r \in fresh THEN e ELSE old.link[r]]]

GoesOn(old, run, o, seen) ==
  /\ run.pc = old.pc /\ run.period = old.period
  /\ run.todo = old.todo \ {o} /\ run.loaded = old.loaded \cup seen

LEMMA EnteredRun ==
  ASSUME NEW old \in JobType, NEW o \in Objects, NEW parts \in SUBSET Parts,
         NEW fresh \in SUBSET Rows, NEW e \in Entries, NEW seen \in SUBSET Parts
  PROVE  /\ Entered(old, e, o, parts, fresh, seen) \in JobType
         /\ Into(old, Entered(old, e, o, parts, fresh, seen), e, parts, fresh)
         /\ GoesOn(old, Entered(old, e, o, parts, fresh, seen), o, seen)
<1> DEFINE run == Entered(old, e, o, parts, fresh, seen)
           links == [r \in Rows |-> IF r \in fresh THEN e ELSE old.link[r]]
           sums == [old.sum EXCEPT ![e] = parts]
           todo == old.todo \ {o}
           made == old.made \cup {e}
           loaded == old.loaded \cup seen
           new == [old EXCEPT !.todo = todo, !.made = made, !.sum = sums, !.loaded = loaded, !.link = links]
<1>1. links \in [Rows -> Entries \cup {NoEntry}] BY SMT DEF JobType
<1>2. sums \in [Entries -> SUBSET Parts] BY SMT DEF JobType
<1>3. todo \in SUBSET Objects /\ made \in SUBSET Entries /\ loaded \in SUBSET Parts
  BY SMT DEF JobType
<1>4. run = new BY Zenon DEF Entered
<1> HIDE DEF links, sums, todo, made, loaded
<1>5. /\ new.pc = old.pc /\ new.period = old.period /\ new.todo = todo
      /\ new.loaded = loaded /\ new.made = made /\ new.sum = sums /\ new.link = links
  BY SMT DEF JobType
<1>5a. new \in JobType BY <1>1, <1>2, <1>3 DEF JobType
<1> HIDE DEF new
<1>6. Into(old, new, e, parts, fresh) BY <1>5, Zenon DEF Into, links, sums, made
<1>7. GoesOn(old, new, o, seen) BY <1>5, Zenon DEF GoesOn, todo, loaded
<1> HIDE DEF run
<1> QED BY <1>4, <1>5a, <1>6, <1>7 DEF run

LEMMA DailyObjectG ==
  ASSUME GInv, NEW d \in Dailies, NEW o \in Objects, DailyObject(d, o) PROVE GInv'
<1> DEFINE fresh == {r \in Rows : Home[r] = o /\ \E x \in job[d].loaded : x[1] = r}
           parts == Seen(d, fresh)
           run(e) == Entered(job[d], e, o, parts, fresh, parts)
<1>0. d \in Jobs /\ d \notin Recalcs /\ job[d] \in JobType BY BooksAssumption DEF Jobs, GInv, Basic
<1>1. /\ job[d].pc = "daily"
      /\ UNCHANGED <<row, entry, mixed, upsets, runs>>
  BY Zenon DEF DailyObject
<1>2. PICK e \in Target(d, o) : job' = [job EXCEPT ![d] = run(e)]
  BY Zenon DEF DailyObject, Enter, Entered, Seen
<1>3. \A r \in fresh : Home[r] = o /\ (Kind[r] # "incident" => Day[r] = job[d].period)
  BY <1>0, <1>1, Zenon DEF GInv, RunsOK, RunOK
<1>4. fresh \in SUBSET Rows OBVIOUS
<1>5. e \in Entries /\ e.object = o /\ e.period = job[d].period
  BY <1>0, TargetIsKey DEF GInv, KeyOf
<1> HIDE DEF fresh
<1>6. parts \in SUBSET Parts /\ \A x \in parts : x[1] \in fresh
  BY <1>0, <1>4, SeenParts DEF GInv, Seen
<1> HIDE DEF parts
<1> DEFINE new == run(e)
<1>6a. job[d] \in JobType /\ o \in Objects /\ parts \in SUBSET Parts /\ fresh \in SUBSET Rows /\ e \in Entries
  BY <1>0, <1>4, <1>5, <1>6
<1>6b. new \in JobType /\ Into(job[d], new, e, parts, fresh) /\ GoesOn(job[d], new, o, parts)
  BY <1>6a, EnteredRun
<1> HIDE DEF new, run
<1>7. new.pc = job[d].pc /\ new.period = job[d].period /\ new.loaded = job[d].loaded \cup parts
  BY <1>6b DEF GoesOn
<1>8. \A r \in fresh : /\ Kind[r] = "base" => e \in KeyOf(Home[r], Day[r])
                       /\ Fits(r, e)
  BY <1>3, <1>5 DEF Fits, ByHand, KeyOf
<1>9. \A x \in new.loaded : Kind[x[1]] # "incident" => Day[x[1]] = new.period
  <2>1. \A x \in job[d].loaded : Kind[x[1]] # "incident" => Day[x[1]] = job[d].period
    BY <1>0, <1>1, Zenon DEF GInv, RunsOK, RunOK
  <2> QED BY <1>3, <1>6, <1>7, <2>1
<1>10. job' = [job EXCEPT ![d] = new] BY <1>2 DEF new
<1>11. Into(job[d], new, e, {PartSeen(d, r) : r \in fresh}, fresh) BY <1>6b DEF parts, Seen
<1> QED BY <1>0, <1>1, <1>4, <1>6b, <1>7, <1>8, <1>9, <1>10, <1>11, EnterG

LEMMA RecalcObjectG ==
  ASSUME GInv, NEW j \in Recalcs, NEW o \in Objects, RecalcObject(j, o) PROVE GInv'
<1> DEFINE taken == Taken(j, o)
           parts == Seen(j, taken)
           fresh == {r \in taken : AppliedTo(j, r) = NoEntry}
           seen == Seen(j, fresh)
           run(e) == Entered(job[j], e, o, parts, fresh, seen)
<1>0. j \in Jobs /\ job[j] \in JobType BY DEF Jobs, GInv, Basic
<1>1. /\ job[j].pc = "recalc"
      /\ UNCHANGED <<row, entry, mixed, upsets, runs>>
  BY Zenon DEF RecalcObject
<1>2. PICK e \in Target(j, o) : job' = [job EXCEPT ![j] = run(e)]
  BY Zenon DEF RecalcObject, Enter, Entered, Seen
<1>3. taken \in SUBSET Rows BY DEF Taken
<1>4. fresh \in SUBSET Rows /\ \A r \in fresh : r \in taken /\ AppliedTo(j, r) = NoEntry BY <1>3
<1>5. e \in Entries /\ e \in KeyOf(o, job[j].period) BY <1>0, TargetIsKey DEF GInv
<1>6. \A r \in taken : /\ Kind[r] = "base" => e \in KeyOf(Home[r], Day[r])
                       /\ AppliedTo(j, r) = NoEntry => Fits(r, e)
  BY <1>0, <1>5, TakenFits, Zenon DEF GInv
<1> HIDE DEF taken, fresh
<1>7. parts \in SUBSET Parts /\ seen \in SUBSET Parts
  BY <1>0, <1>3, <1>4, SeenParts DEF GInv, Seen
<1> HIDE DEF parts, seen
<1> DEFINE new == run(e)
<1>7a. job[j] \in JobType /\ o \in Objects /\ parts \in SUBSET Parts /\ fresh \in SUBSET Rows /\ e \in Entries
       /\ seen \in SUBSET Parts
  BY <1>0, <1>4, <1>5, <1>7
<1>7b. new \in JobType /\ Into(job[j], new, e, parts, fresh) /\ GoesOn(job[j], new, o, seen)
  BY <1>7a, EnteredRun
<1> HIDE DEF new, run
<1>8. new.pc = job[j].pc BY <1>7b DEF GoesOn
<1>9. \A r \in fresh : Fits(r, e) BY <1>4, <1>6
<1>10. job' = [job EXCEPT ![j] = new] BY <1>2 DEF new
<1>11. Into(job[j], new, e, {PartSeen(j, r) : r \in taken}, fresh) BY <1>7b DEF parts, Seen
<1> QED BY <1>0, <1>1, <1>3, <1>4, <1>6, <1>7b, <1>8, <1>9, <1>10, <1>11, EnterG

\* A run goes on, or ends, with nothing entered.
LEMMA PassesG ==
  ASSUME GInv, NEW j \in Jobs, UNCHANGED <<row, entry, mixed, runs>>, upsets' \in 0 .. MaxUpsets,
         \/ \E o \in Objects : job' = [job EXCEPT ![j].todo = @ \ {o}]
         \/ j \notin Recalcs /\ job[j].pc = "daily" /\ job' = [job EXCEPT ![j].pc = "commit"]
         \/ job' = [job EXCEPT ![j] = IdleJob],
         job[j].pc # "idle" \/ job' = [job EXCEPT ![j] = IdleJob]
  PROVE  GInv'
<1>0. job[j] \in JobType /\ RunOK(job[j]) /\ mixed \in BOOLEAN /\ runs \in 0 .. MaxRuns
      /\ (j \in Recalcs => job[j].pc \in {"idle", "recalc"})
  BY DEF GInv, Basic, RunsOK
<1>1. ASSUME NEW run \in JobType, run.pc # "idle", run.pc \in {job[j].pc, "commit"},
             run.made = job[j].made, run.sum = job[j].sum, run.link = job[j].link,
             run.loaded = job[j].loaded, run.period = job[j].period
      PROVE  RunOK(run)
  BY <1>0, <1>1, Zenon DEF RunOK
<1>2. CASE job' = [job EXCEPT ![j] = IdleJob]
  BY <1>0, <1>2, IdleIsJob, OnlyRun
<1>3. ASSUME NEW o \in Objects, job' = [job EXCEPT ![j].todo = @ \ {o}], job[j].pc # "idle" PROVE GInv'
  <2> DEFINE run == [job[j] EXCEPT !.todo = @ \ {o}]
  <2>1. run \in JobType BY <1>0 DEF JobType
  <2>2. /\ run.made = job[j].made /\ run.sum = job[j].sum /\ run.link = job[j].link
        /\ run.loaded = job[j].loaded /\ run.period = job[j].period /\ run.pc = job[j].pc
    BY <1>0, SMT DEF JobType
  <2>3. job' = [job EXCEPT ![j] = run] BY <1>3
  <2> HIDE DEF run
  <2>4. RunOK(run) BY <1>1, <1>3, <2>1, <2>2
  <2> QED BY <1>0, <1>3, <2>1, <2>2, <2>3, <2>4, OnlyRun
<1>4. ASSUME j \notin Recalcs, job[j].pc = "daily", job' = [job EXCEPT ![j].pc = "commit"] PROVE GInv'
  <2> DEFINE run == [job[j] EXCEPT !.pc = "commit"]
  <2>1. run \in JobType BY <1>0 DEF JobType
  <2>2. /\ run.made = job[j].made /\ run.sum = job[j].sum /\ run.link = job[j].link
        /\ run.loaded = job[j].loaded /\ run.period = job[j].period /\ run.pc = "commit"
    BY <1>0, SMT DEF JobType
  <2>3. job' = [job EXCEPT ![j] = run] BY <1>4
  <2> HIDE DEF run
  <2>4. RunOK(run) BY <1>1, <2>1, <2>2
  <2> QED BY <1>0, <1>4, <2>1, <2>2, <2>3, <2>4, OnlyRun
<1> QED BY <1>2, <1>3, <1>4

LEMMA OwnScheduleG ==
  ASSUME GInv, NEW d \in Dailies, OwnSchedule(d) PROVE GInv'
<1> DEFINE taken == Taken(d, First)
           counted == {x \in taken : Kind[x] # "rare"}
           parts == {PartSeen(d, r) : r \in counted}
           fresh == {r \in taken : AppliedTo(d, r) = NoEntry}
<1>0. d \in Jobs /\ d \notin Recalcs /\ First \in Objects BY BooksAssumption DEF Jobs
<1>1. /\ job[d].pc = "daily" /\ job[d] \in JobType
      /\ UNCHANGED <<row, entry, mixed, upsets, runs>>
  BY <1>0, Zenon DEF OwnSchedule, GInv, Basic
<1>2. ASSUME NEW e \in Target(d, First),
             job' = [job EXCEPT ![d] = [job[d] EXCEPT
                       !.pc = "commit", !.made = job[d].made \cup {e},
                       !.sum = [job[d].sum EXCEPT ![e] = parts],
                       !.link = [r \in Rows |-> IF r \in fresh THEN e ELSE job[d].link[r]]]]
      PROVE  GInv'
  <2>1. e \in KeyOf(First, job[d].period) /\ e \in Entries BY <1>0, TargetIsKey DEF GInv
  <2>2. taken \in SUBSET Rows BY DEF Taken
  <2>3. \A r \in taken : /\ Kind[r] = "base" => e \in KeyOf(Home[r], Day[r])
                         /\ AppliedTo(d, r) = NoEntry => Fits(r, e)
    BY <1>0, <2>1, TakenFits, Zenon DEF GInv
  <2> HIDE DEF taken
  <2>4. counted \in SUBSET Rows /\ fresh \in SUBSET Rows /\ \A r \in fresh : Fits(r, e)
    BY <2>2, <2>3
  <2>4a. \A r \in counted : Kind[r] = "base" => e \in KeyOf(Home[r], Day[r])
    BY <2>3
  <2> HIDE DEF counted, fresh
  <2>5. parts \in SUBSET Parts BY <1>0, <2>4, SeenParts DEF GInv
  <2> HIDE DEF parts
  <2> DEFINE sums == [job[d].sum EXCEPT ![e] = parts]
             lk == [r \in Rows |-> IF r \in fresh THEN e ELSE job[d].link[r]]
             run == [job[d] EXCEPT !.pc = "commit", !.made = job[d].made \cup {e},
                                   !.sum = sums, !.link = lk]
  <2>6. job' = [job EXCEPT ![d] = run] BY <1>2
  <2>7. sums \in [Entries -> SUBSET Parts] /\ lk \in [Rows -> Entries \cup {NoEntry}]
    <3>1. sums \in [Entries -> SUBSET Parts] BY <1>1, <2>1, <2>5, SMT DEF JobType
    <3>2. lk \in [Rows -> Entries \cup {NoEntry}] BY <1>1, <2>1, SMT DEF JobType
    <3> HIDE DEF sums, lk
    <3> QED BY <3>1, <3>2
  <2>8. run.made = job[d].made \cup {e} /\ run.sum = sums /\ run.link = lk /\ run.pc = "commit"
    BY <1>1, SMT DEF JobType
  <2>9. Into(job[d], run, e, parts, fresh) BY <2>8, Zenon DEF Into
  <2> HIDE DEF sums, lk
  <2>10. run \in JobType BY <1>1, <2>1, <2>7 DEF JobType
  <2> HIDE DEF run
  <2> QED BY <1>0, <1>1, <2>4, <2>4a, <2>6, <2>8, <2>9, <2>10, EnterG DEF parts
<1>3. CASE job' = [job EXCEPT ![d].pc = "commit"]
  <2>1. upsets' \in 0 .. MaxUpsets BY <1>1 DEF GInv, Basic
  <2> QED BY <1>0, <1>1, <1>3, <2>1, PassesG
<1> QED BY <1>2, <1>3, Zenon DEF OwnSchedule

LEMMA CommitG ==
  ASSUME GInv, NEW j \in Jobs, Commit(j) PROVE GInv'
<1> DEFINE run == job[j]
<1>0. run \in JobType /\ RunOK(run) BY DEF GInv, Basic, RunsOK
<1>1. /\ \A r \in Applies(j) : There(r)
      /\ row' = [r \in Rows |-> IF r \in Applies(j) THEN [row[r] EXCEPT !.entry = run.link[r]] ELSE row[r]]
      /\ entry' = [e \in Entries |-> IF e \in run.made THEN [there |-> TRUE, sum |-> run.sum[e]] ELSE entry[e]]
      /\ job' = [job EXCEPT ![j] = IdleJob]
      /\ UNCHANGED <<mixed, upsets, runs>>
  BY Zenon DEF Commit
<1>2. Made' = Made \cup run.made
  BY <1>0, <1>1, SMT DEF Made, JobType
<1>3. ASSUME NEW r \in Rows
      PROVE  /\ row'[r] \in RowType /\ row'[r].day = row[r].day /\ row'[r].state = row[r].state
             /\ row'[r].entry = IF r \in Applies(j) THEN run.link[r] ELSE row[r].entry
  <2>1. row[r] \in RowType /\ run.link[r] \in Entries \cup {NoEntry} BY <1>0 DEF GInv, Basic, JobType
  <2>2. row'[r] = IF r \in Applies(j) THEN [row[r] EXCEPT !.entry = run.link[r]] ELSE row[r] BY <1>1
  <2> QED BY <2>1, <2>2, SMT DEF RowType
<1>4. RowsOK'
  <2> SUFFICES ASSUME NEW r \in Rows
               PROVE  /\ Kind[r] # "incident" => row'[r].day = Day[r]
                      /\ row'[r].state # "there" => row'[r].entry = NoEntry
                      /\ row'[r].entry # NoEntry => row'[r].entry \in Made' /\ Fits(r, row'[r].entry)
    BY Zenon DEF RowsOK
  <2>1. /\ Kind[r] # "incident" => row[r].day = Day[r]
        /\ row[r].state # "there" => row[r].entry = NoEntry
        /\ row[r].entry # NoEntry => row[r].entry \in Made /\ Fits(r, row[r].entry)
    BY DEF GInv, RowsOK
  <2>2. CASE r \in Applies(j)
    <3>1. run.link[r] \in run.made /\ Fits(r, run.link[r]) BY <1>0, <2>2, Zenon DEF RunOK, Applies
    <3>2. row[r].state = "there" BY <1>1, <2>2 DEF There
    <3> QED BY <1>2, <1>3, <2>1, <2>2, <3>1, <3>2
  <2>3. CASE r \notin Applies(j)
    BY <1>2, <1>3, <2>1, <2>3
  <2> QED BY <2>2, <2>3
<1>5. SumsOK'
  <2> SUFFICES ASSUME NEW e \in Entries PROVE SumFits(e, entry'[e].sum) BY Zenon DEF SumsOK
  <2>1. SumFits(e, run.sum[e]) /\ SumFits(e, entry[e].sum) BY <1>0, Zenon DEF RunOK, GInv, SumsOK
  <2>2. entry'[e].sum = IF e \in run.made THEN run.sum[e] ELSE entry[e].sum BY <1>1, SMT
  <2> QED BY <2>1, <2>2
<1>6. job' \in [Jobs -> JobType] /\ RunsOK' BY <1>1, IdleIsJob, RunChanges DEF GInv
<1>7. Basic'
  <2>1. entry' \in [Entries -> EntryType] BY <1>0, <1>1, SMT DEF GInv, Basic, EntryType, JobType
  <2>2. row' \in [Rows -> RowType] BY <1>1, <1>3, SMT
  <2> QED BY <1>1, <1>6, <2>1, <2>2 DEF GInv, Basic
<1> QED BY <1>4, <1>5, <1>6, <1>7 DEF GInv

LEMMA EndsG ==
  ASSUME GInv, NEW j \in Jobs, CommitFails(j) \/ Kill(j) PROVE GInv'
<1>1. job' = [job EXCEPT ![j] = IdleJob] /\ UNCHANGED <<row, entry, mixed, runs>>
  BY DEF CommitFails, Kill
<1>2. upsets' \in 0 .. MaxUpsets
  BY BooksAssumption, SMT DEF CommitFails, Kill, Upset, GInv, Basic
<1> QED BY <1>1, <1>2, PassesG

LEMMA InitG == Init => GInv
<1> SUFFICES ASSUME Init PROVE GInv OBVIOUS
<1>1. row \in [Rows -> RowType]
  <2>1. \A r \in Rows : [state |-> "none", day |-> Day[r], amount |-> 1, entry |-> NoEntry] \in RowType
    <3>1. 1 \in Amounts BY BooksAssumption, SMT DEF Amounts
    <3>2. \A r \in Rows : Day[r] \in Periods BY BooksAssumption
    <3> QED BY <3>1, <3>2, SMT DEF RowType
  <2> QED BY <2>1, SMT DEF Init
<1>2. entry \in [Entries -> EntryType] /\ \A e \in Entries : entry[e].sum = {}
  BY SMT DEF Init, EntryType
<1>3. \A j \in Jobs : job[j] = IdleJob BY SMT DEF Init
<1>4. job \in [Jobs -> JobType] BY IdleIsJob, SMT DEF Init
<1>5. mixed \in BOOLEAN BY Zenon DEF Init
<1>5a. upsets \in 0 .. MaxUpsets /\ runs \in 0 .. MaxRuns BY BooksAssumption, SMT DEF Init
<1>6. Basic BY <1>1, <1>2, <1>4, <1>5, <1>5a DEF Basic
<1>7. RowsOK BY SMT DEF Init, RowsOK
<1>8. RunsOK BY <1>3, IdleIsJob DEF RunsOK, Jobs
<1>9. SumsOK BY <1>2, SMT DEF SumsOK, SumFits
<1> QED BY <1>6, <1>7, <1>8, <1>9 DEF GInv

LEMMA StepG == GInv /\ [Next]_vars => GInv'
<1> SUFFICES ASSUME GInv, [Next]_vars PROVE GInv' OBVIOUS
<1>0. upsets \in 0 .. MaxUpsets BY DEF GInv, Basic
<1>1. CASE People
  BY <1>1, AppearsG, EditG, DeletesG, AddsG, MovesG DEF People, OwnerEdits, ManagerEdits
<1>2. ASSUME NEW d \in Dailies, DailyStep(d) PROVE GInv'
  <2>1. ASSUME NEW o \in Objects, DailyObjectRaises(d, o) PROVE GInv'
    BY <1>0, <2>1, PassesG DEF DailyObjectRaises, TwoFound, Jobs
  <2> QED BY <1>2, <2>1, StartDailyG, DailyObjectG, OwnScheduleG DEF DailyStep
<1>3. ASSUME NEW j \in Recalcs, RecalcStep(j) PROVE GInv'
  <2>1. ASSUME NEW o \in Objects, RecalcNothing(j, o) \/ RecalcRaises(j, o) PROVE GInv'
    BY <1>0, <2>1, PassesG DEF RecalcNothing, RecalcRaises, TwoFound, Jobs
  <2> QED BY <1>3, <2>1, StartRecalcG, RecalcObjectG DEF RecalcStep
<1>4. ASSUME NEW j \in Jobs, Commit(j) \/ CommitFails(j) \/ Kill(j) PROVE GInv'
  BY <1>4, CommitG, EndsG
<1>5. CASE UNCHANGED vars
  BY <1>5 DEF vars, GInv, Basic, RowsOK, RunsOK, SumsOK, Made
<1> QED BY <1>1, <1>2, <1>3, <1>4, <1>5 DEF Next

-----------------------------------------------------------------------------
(* The invariant until operations overlap.                                 *)

LEMMA IdleAlone ==
  ASSUME NEW rw, NEW en, OneForAll(MadeIn(en)) PROVE AloneIn(rw, en, IdleJob)
<1>1. /\ IdleJob.pc = "idle" /\ IdleJob.made = {} /\ IdleJob.loaded = {}
      /\ \A r \in Rows : IdleJob.link[r] = NoEntry
  BY SMT DEF IdleJob
<1> HIDE DEF IdleJob
<1>2. MadeIn(en) \cup IdleJob.made = MadeIn(en) BY <1>1
<1> QED BY <1>1, <1>2, Zenon DEF AloneIn

LEMMA StartAlone ==
  ASSUME NEW rw, NEW en, OneForAll(MadeIn(en)), NEW run, NEW pc \in {"daily", "recalc"}, NEW p,
         NEW parts, NEW objects, Started(run, pc, p, parts, objects),
         \A x \in parts : /\ rw[x[1]].state = "there" /\ x = <<x[1], rw[x[1]].amount>>
                          /\ rw[x[1]].entry = NoEntry
  PROVE  AloneIn(rw, en, run)
<1>1. /\ run.made = {} /\ run.loaded = parts
      /\ \A r \in Rows : run.link[r] = NoEntry
  BY SMT DEF IdleJob, Started
<1>2. MadeIn(en) \cup run.made = MadeIn(en) BY <1>1
<1> QED BY <1>1, <1>2, Zenon DEF AloneIn

\* A row that appears is in nobody's way.
LEMMA AppearsAlone ==
  ASSUME NEW rw \in [Rows -> RowType], NEW en, NEW run \in JobType, AloneIn(rw, en, run),
         NEW r \in Rows, rw[r].state = "none", rw[r].entry = NoEntry,
         NEW new \in [Rows -> RowType], \A x \in Rows : x # r => new[x] = rw[x],
         new[r].entry = NoEntry
  PROVE  AloneIn(new, en, run)
<1>1. run.link[r] = NoEntry BY DEF AloneIn
<1>2. ASSUME NEW e \in Entries PROVE AppliedIn(new, run, e) = AppliedIn(rw, run, e)
  BY <1>1, NoEntryIsNone, SMT DEF AppliedIn
<1>3. \A x \in run.loaded : x[1] \in Rows /\ x[1] # r BY SMT DEF AloneIn, JobType, Parts
<1>4. \A e \in run.made : e \in Entries BY DEF JobType
<1>5. ASSUME NEW e \in run.made
      PROVE  {<<x, new[x].amount>> : x \in AppliedIn(new, run, e)}
               = {<<x, rw[x].amount>> : x \in AppliedIn(rw, run, e)}
  <2>1. \A x \in AppliedIn(rw, run, e) : x \in Rows /\ x # r BY DEF AppliedIn
  <2>2. AppliedIn(new, run, e) = AppliedIn(rw, run, e) BY <1>2, <1>4
  <2> QED BY <2>1, <2>2
<1>6. \A x \in run.loaded : new[x[1]] = rw[x[1]] BY <1>3
<1>7. \A x \in Rows : run.link[x] # NoEntry => new[x] = rw[x] BY <1>1
<1>8. OneForAll(MadeIn(en) \cup run.made) BY Zenon DEF AloneIn
<1>9. \A x \in Rows : run.link[x] # NoEntry => new[x].state = "there" /\ new[x].entry = NoEntry
  BY <1>7, Zenon DEF AloneIn
<1>10. \A x \in run.loaded : new[x[1]].state = "there" /\ x = <<x[1], new[x[1]].amount>>
  BY <1>6, Zenon DEF AloneIn
<1>11. \A e \in run.made : \A x \in run.sum[e] : x[1] \in AppliedIn(new, run, e)
  BY <1>2, <1>4, Zenon DEF AloneIn
<1>12. run.pc = "daily" =>
         /\ \A x \in run.loaded : new[x[1]].entry = NoEntry
         /\ \A x \in Rows : run.link[x] # NoEntry => Home[x] \notin run.todo
  BY <1>6, Zenon DEF AloneIn
<1>13. run.pc = "recalc" =>
         \A e \in run.made : /\ e.object \notin run.todo
                             /\ run.sum[e] = {<<x, new[x].amount>> : x \in AppliedIn(new, run, e)}
  BY <1>5, Zenon DEF AloneIn
<1> QED BY <1>8, <1>9, <1>10, <1>11, <1>12, <1>13, Zenon DEF AloneIn

\* A run that passes over an object, or has no more objects, is alone as before.
LEMMA PassesAlone ==
  ASSUME NEW rw, NEW en, NEW old, AloneIn(rw, en, old), NEW run,
         run.made = old.made, run.sum = old.sum, run.link = old.link, run.loaded = old.loaded,
         run.todo \subseteq old.todo, run.pc \in {old.pc, "commit"}
  PROVE  AloneIn(rw, en, run)
<1>1. \A e : AppliedIn(rw, run, e) = AppliedIn(rw, old, e) BY DEF AppliedIn
<1>2. ASSUME run.pc = "recalc", NEW e \in run.made
      PROVE  /\ e.object \notin run.todo
             /\ run.sum[e] = {<<r, rw[r].amount>> : r \in AppliedIn(rw, run, e)}
  <2>1. /\ e.object \notin old.todo
        /\ old.sum[e] = {<<r, rw[r].amount>> : r \in AppliedIn(rw, old, e)}
    BY <1>2, Zenon DEF AloneIn
  <2> QED BY <1>1, <2>1
<1>3. run.pc = "daily" => old.pc = "daily" OBVIOUS
<1>4. \A e \in run.made : \A x \in run.sum[e] : x[1] \in AppliedIn(rw, run, e)
  BY <1>1, Zenon DEF AloneIn
<1>5. /\ OneForAll(MadeIn(en) \cup run.made)
      /\ \A r \in Rows : run.link[r] # NoEntry => rw[r].state = "there" /\ rw[r].entry = NoEntry
      /\ \A x \in run.loaded : rw[x[1]].state = "there" /\ x = <<x[1], rw[x[1]].amount>>
  BY Zenon DEF AloneIn
<1>6. run.pc = "daily" =>
       /\ \A x \in run.loaded : rw[x[1]].entry = NoEntry
       /\ \A r \in Rows : run.link[r] # NoEntry => Home[r] \notin run.todo
  BY <1>3, Zenon DEF AloneIn
<1> QED BY <1>2, <1>4, <1>5, <1>6, Zenon DEF AloneIn

\* The entry a run turns to is the only one of its object and period.
LEMMA TargetAlone ==
  ASSUME GInv, NEW j \in Jobs, AloneIn(row, entry, job[j]), NEW o \in Objects, NEW e \in Target(j, o)
  PROVE  /\ OneForAll(MadeIn(entry) \cup job[j].made \cup {e})
         /\ \A f \in Found(j, o) : f = e
<1> DEFINE made == MadeIn(entry) \cup job[j].made
<1>1. OneForAll(made) BY Zenon DEF AloneIn
<1>2. /\ e \in Entries /\ e.object = o /\ e.period = job[j].period
  BY TargetIsKey DEF GInv, KeyOf
<1>3. \A f : f \in Found(j, o) <=> f \in made /\ f \in Entries /\ f.object = o /\ f.period = job[j].period
  BY DEF Found, KeyOf, Made, MadeIn
<1>4. made \subseteq Entries BY DEF GInv, Basic, JobType, MadeIn
<1> HIDE DEF made
<1>5. CASE Found(j, o) # {}
  <2>1. e \in Found(j, o) BY <1>5, Zenon DEF Target
  <2>2. made \cup {e} = made BY <1>3, <2>1
  <2>3. \A f \in Found(j, o) : f = e BY <1>1, <1>3, <2>1 DEF OneForAll
  <2> QED BY <1>1, <2>2, <2>3 DEF made
<1>6. CASE Found(j, o) = {}
  <2>1. \A f \in made : ~(f.object = e.object /\ f.period = e.period)
    BY <1>2, <1>3, <1>4, <1>6
  <2>2. OneForAll(made \cup {e}) BY <1>1, <2>1 DEF OneForAll
  <2> QED BY <1>6, <2>2 DEF made
<1> QED BY <1>5, <1>6

LEMMA SeenAlone ==
  ASSUME GInv, NEW j \in Jobs, AloneIn(row, entry, job[j]), NEW r \in Rows
  PROVE  PartSeen(j, r) = <<r, row[r].amount>>
BY SeenPart DEF GInv, AloneIn, Part

\* What is entered while a run is alone leaves it alone.
LEMMA EnterAlone ==
  ASSUME GInv, NEW j \in Jobs, AloneIn(row, entry, job[j]), NEW o \in Objects, NEW e \in Target(j, o),
         NEW S \in SUBSET Rows, NEW fresh \in SUBSET Rows, NEW run \in JobType,
         Into(job[j], run, e, Seen(j, S), fresh),
         \A r \in fresh : There(r) /\ AppliedTo(j, r) = NoEntry,
         \A r \in S : There(r) /\ (r \in fresh \/ AppliedTo(j, r) = e),
         run.loaded \subseteq job[j].loaded \cup Seen(j, fresh),
         run.pc \in {"daily", "recalc"} => run.pc = job[j].pc /\ run.todo = job[j].todo \ {o},
         run.pc = "daily" => \A r \in fresh : Home[r] = o,
         run.pc = "recalc" => \A r \in Rows : There(r) /\ (r \in fresh \/ AppliedTo(j, r) = e) => r \in S
  PROVE  AloneIn(row, entry, run)
<1> DEFINE old == job[j]
<1>0. old \in JobType /\ RunOK(old) BY DEF GInv, Basic, RunsOK
<1>1. e \in Entries /\ e.object = o /\ e # NoEntry BY TargetIsKey, NoEntryIsNone DEF GInv, KeyOf
<1>2. /\ run.made = old.made \cup {e}
      /\ \A f \in Entries : run.sum[f] = IF f = e THEN Seen(j, S) ELSE old.sum[f]
      /\ \A r \in Rows : run.link[r] = IF r \in fresh THEN e ELSE old.link[r]
  BY <1>0, SMT DEF Into, JobType
<1>3. \A r \in Rows : AppliedTo(j, r) = IF old.link[r] # NoEntry THEN old.link[r] ELSE row[r].entry
  BY Zenon DEF AppliedTo
<1>4. \A r \in fresh : row[r].state = "there" /\ row[r].entry = NoEntry /\ old.link[r] = NoEntry
  BY <1>3 DEF There
<1>5. /\ OneForAll(MadeIn(entry) \cup old.made)
      /\ \A r \in Rows : old.link[r] # NoEntry => row[r].state = "there" /\ row[r].entry = NoEntry
      /\ \A x \in old.loaded : row[x[1]].state = "there" /\ x = <<x[1], row[x[1]].amount>>
      /\ \A f \in old.made : \A x \in old.sum[f] : x[1] \in AppliedIn(row, old, f)
      /\ old.pc = "daily" =>
           /\ \A x \in old.loaded : row[x[1]].entry = NoEntry
           /\ \A r \in Rows : old.link[r] # NoEntry => Home[r] \notin old.todo
      /\ old.pc = "recalc" =>
           \A f \in old.made : /\ f.object \notin old.todo
                               /\ old.sum[f] = {<<r, row[r].amount>> : r \in AppliedIn(row, old, f)}
  BY Zenon DEF AloneIn
<1>6. \A x \in Seen(j, fresh) : x[1] \in fresh /\ x = <<x[1], row[x[1]].amount>>
  BY SeenAlone DEF Seen
<1>7. /\ Seen(j, S) = {<<r, row[r].amount>> : r \in S}
      /\ \A x \in Seen(j, S) : x[1] \in S
  BY SeenAlone DEF Seen
<1>8. \A f : f \in old.made \/ f \in run.made => f \in Entries /\ f # NoEntry
  BY <1>0, NoEntryIsNone DEF JobType
<1> HIDE DEF old
<1>9. ASSUME NEW f \in Entries, f # e, f # NoEntry PROVE AppliedIn(row, run, f) = AppliedIn(row, old, f)
  <2>1. ASSUME NEW r \in Rows
        PROVE  /\ r \in AppliedIn(row, run, f) <=>
                    row[r].state = "there" /\ (IF run.link[r] # NoEntry THEN run.link[r] ELSE row[r].entry) = f
               /\ r \in AppliedIn(row, old, f) <=>
                    row[r].state = "there" /\ (IF old.link[r] # NoEntry THEN old.link[r] ELSE row[r].entry) = f
    BY Zenon DEF AppliedIn
  <2>2. ASSUME NEW r \in Rows PROVE r \in AppliedIn(row, run, f) <=> r \in AppliedIn(row, old, f)
    <3>1. CASE r \in fresh
      <4>1. run.link[r] = e /\ old.link[r] = NoEntry /\ row[r].entry = NoEntry BY <1>2, <1>4, <3>1
      <4> QED BY <1>9, <2>1, <4>1
    <3>2. CASE r \notin fresh
      <4>1. run.link[r] = old.link[r] BY <1>2, <3>2
      <4> QED BY <2>1, <4>1
    <3> QED BY <3>1, <3>2
  <2> QED BY <2>2, Zenon DEF AppliedIn
<1>10. ASSUME NEW r \in Rows
       PROVE  r \in AppliedIn(row, run, e) <=> There(r) /\ (r \in fresh \/ AppliedTo(j, r) = e)
  <2>1. r \in AppliedIn(row, run, e) <=>
          row[r].state = "there" /\ (IF run.link[r] # NoEntry THEN run.link[r] ELSE row[r].entry) = e
    BY Zenon DEF AppliedIn
  <2> QED BY <1>1, <1>2, <1>3, <2>1 DEF There
<1>11. OneForAll(MadeIn(entry) \cup run.made)
  <2>1. OneForAll(MadeIn(entry) \cup old.made \cup {e}) BY TargetAlone DEF old
  <2>2. MadeIn(entry) \cup old.made \cup {e} = MadeIn(entry) \cup run.made BY <1>2
  <2> QED BY <2>1, <2>2
<1>12. \A r \in Rows : run.link[r] # NoEntry => row[r].state = "there" /\ row[r].entry = NoEntry
  BY <1>2, <1>4, <1>5
<1>13. \A x \in run.loaded : row[x[1]].state = "there" /\ x = <<x[1], row[x[1]].amount>>
  <2> SUFFICES ASSUME NEW x \in run.loaded
               PROVE  row[x[1]].state = "there" /\ x = <<x[1], row[x[1]].amount>>
    OBVIOUS
  <2>1. x \in old.loaded \/ x \in Seen(j, fresh) BY DEF old
  <2> QED BY <1>4, <1>5, <1>6, <2>1
<1>14. ASSUME NEW f \in run.made, NEW x \in run.sum[f] PROVE x[1] \in AppliedIn(row, run, f)
  <2>1. CASE f = e
    <3>1. x \in Seen(j, S) BY <1>1, <1>2, <1>14, <2>1
    <3> QED BY <1>7, <1>10, <2>1, <3>1
  <2>2. CASE f # e
    <3>1. f \in old.made /\ x \in old.sum[f] BY <1>2, <1>8, <1>14, <2>2
    <3>2. x[1] \in AppliedIn(row, old, f) BY <1>5, <3>1
    <3> QED BY <1>8, <1>9, <2>2, <3>1, <3>2
  <2> QED BY <2>1, <2>2
<1>15. ASSUME run.pc = "daily"
       PROVE  /\ \A x \in run.loaded : row[x[1]].entry = NoEntry
              /\ \A r \in Rows : run.link[r] # NoEntry => Home[r] \notin run.todo
  <2>1. /\ old.pc = "daily" /\ run.todo = old.todo \ {o} /\ \A r \in fresh : Home[r] = o
        /\ run.loaded \subseteq old.loaded \cup Seen(j, fresh)
    BY <1>15 DEF old
  <2>2. /\ \A x \in old.loaded : row[x[1]].entry = NoEntry
        /\ \A r \in Rows : old.link[r] # NoEntry => Home[r] \notin old.todo
    BY <1>5, <2>1
  <2>3. \A x \in run.loaded : row[x[1]].entry = NoEntry BY <1>4, <1>6, <2>1, <2>2
  <2>4. \A r \in Rows : run.link[r] # NoEntry => Home[r] \notin run.todo BY <1>2, <2>1, <2>2
  <2> QED BY <2>3, <2>4
<1>16. ASSUME run.pc = "recalc", NEW f \in run.made
       PROVE  /\ f.object \notin run.todo
              /\ run.sum[f] = {<<r, row[r].amount>> : r \in AppliedIn(row, run, f)}
  <2>1. /\ old.pc = "recalc" /\ run.todo = old.todo \ {o}
        /\ \A r \in Rows : There(r) /\ (r \in fresh \/ AppliedTo(j, r) = e) => r \in S
    BY <1>16 DEF old
  <2>2. CASE f = e
    <3>1. S = AppliedIn(row, run, e)
      <4>1. \A r \in Rows : r \in S <=> r \in AppliedIn(row, run, e) BY <1>10, <2>1
      <4> QED BY <4>1 DEF AppliedIn
    <3> QED BY <1>1, <1>2, <1>7, <2>1, <2>2, <3>1
  <2>3. CASE f # e
    <3>1. f \in old.made /\ f \in Entries /\ f # NoEntry BY <1>2, <1>8, <1>16, <2>3
    <3>2. /\ f.object \notin old.todo
          /\ old.sum[f] = {<<r, row[r].amount>> : r \in AppliedIn(row, old, f)}
      BY <1>5, <2>1, <3>1
    <3>3. AppliedIn(row, run, f) = AppliedIn(row, old, f) BY <1>9, <2>3, <3>1
    <3>4. run.sum[f] = old.sum[f] BY <1>2, <2>3, <3>1
    <3> QED BY <2>1, <3>2, <3>3, <3>4
  <2> QED BY <2>2, <2>3
<1> QED BY <1>11, <1>12, <1>13, <1>14, <1>15, <1>16, Zenon DEF AloneIn

\* What a recalculation takes are the rows applied to its entry and those applied to none.
LEMMA TakenAlone ==
  ASSUME GInv, NEW j \in Jobs, AloneIn(row, entry, job[j]), NEW o \in Objects, NEW e \in Target(j, o),
         NEW r \in Rows
  PROVE  /\ r \in Taken(j, o) => There(r) /\ AppliedTo(j, r) \in {NoEntry, e}
         /\ There(r) /\ AppliedTo(j, r) = e => r \in Taken(j, o)
<1>1. \A f \in Found(j, o) : f = e BY TargetAlone
<1>2. /\ e \in Entries /\ e # NoEntry /\ e.object = o /\ e.period = job[j].period
  BY TargetIsKey, NoEntryIsNone DEF GInv, KeyOf
<1>3. r \in Taken(j, o) => There(r) /\ AppliedTo(j, r) \in {NoEntry, e}
  BY <1>1, Zenon DEF Taken
<1>4. ASSUME There(r), AppliedTo(j, r) = e PROVE r \in Taken(j, o)
  <2>1. \/ job[j].link[r] # NoEntry /\ job[j].link[r] = e
        \/ row[r].entry = e
    BY <1>4, Zenon DEF AppliedTo
  <2>2. /\ job[j].link[r] # NoEntry => job[j].link[r] \in job[j].made /\ Fits(r, job[j].link[r])
        /\ row[r].entry # NoEntry => row[r].entry \in Made /\ Fits(r, row[r].entry)
        /\ Kind[r] # "incident" => row[r].day = Day[r]
    BY Zenon DEF GInv, RowsOK, RunsOK, RunOK
  <2>3. e \in Made \cup job[j].made /\ Fits(r, e) BY <1>2, <2>1, <2>2
  <2>4. e \in Found(j, o) BY <1>2, <2>3 DEF Found, KeyOf
  <2>5. /\ Kind[r] = "base" => Home[r] = o
        /\ Kind[r] \in {"manual", "incident"} \/ row[r].day = job[j].period
    BY <1>2, <2>2, <2>3 DEF Fits, ByHand
  <2> QED BY <1>4, <2>4, <2>5, Zenon DEF Taken
<1> QED BY <1>3, <1>4

\* Quiet holds: nothing has overlapped so far.
AInv == GInv /\ Alone /\ ~mixed

\* The run j changes itself and nothing else.
LEMMA RunAlone ==
  ASSUME AInv, NEW j \in Jobs, NEW run \in JobType, AloneIn(row, entry, run),
         job' = [job EXCEPT ![j] = run], UNCHANGED <<row, entry>>,
         \A q \in Jobs : q # j => job[q].pc = "idle"
  PROVE  Alone'
<1>1. \A q \in Jobs : job'[q] = IF q = j THEN run ELSE job[q] BY SMT DEF AInv, GInv, Basic
<1>2. \A p, q \in Jobs : job'[p].pc # "idle" /\ job'[q].pc # "idle" => p = q BY <1>1
<1>3. \A q \in Jobs : AloneIn(row, entry, job'[q]) BY <1>1, Zenon DEF AInv, Alone
<1>4. row' = row /\ entry' = entry OBVIOUS
<1>5. \A q \in Jobs : AloneIn(row', entry', job'[q]) BY <1>3, <1>4
<1>6. OneForAll(MadeIn(entry')) /\ CountedIn(row', entry') BY <1>4 DEF AInv, Alone
<1> QED BY <1>2, <1>5, <1>6 DEF Alone

LEMMA OthersIdle ==
  ASSUME AInv, NEW j \in Jobs, job[j].pc # "idle"
  PROVE  \A q \in Jobs : q # j => job[q].pc = "idle"
BY Zenon DEF AInv, Alone

LEMMA StopAlone ==
  ASSUME AInv, NEW j \in Jobs, job[j].pc # "idle", job' = [job EXCEPT ![j] = IdleJob],
         UNCHANGED <<row, entry>>
  PROVE  Alone'
<1>1. AloneIn(row, entry, IdleJob) BY IdleAlone DEF AInv, Alone
<1> QED BY <1>1, IdleIsJob, OthersIdle, RunAlone

LEMMA PassAlone ==
  ASSUME AInv, NEW j \in Jobs, job[j].pc # "idle", UNCHANGED <<row, entry>>,
         \/ \E o \in Objects : job' = [job EXCEPT ![j].todo = @ \ {o}]
         \/ job' = [job EXCEPT ![j].pc = "commit"]
         \/ job' = [job EXCEPT ![j] = IdleJob]
  PROVE  Alone'
<1>0. job[j] \in JobType /\ AloneIn(row, entry, job[j]) BY DEF AInv, GInv, Basic, Alone
<1>1. CASE job' = [job EXCEPT ![j] = IdleJob] BY <1>1, StopAlone
<1>2. ASSUME NEW o \in Objects, job' = [job EXCEPT ![j].todo = @ \ {o}] PROVE Alone'
  <2> DEFINE run == [job[j] EXCEPT !.todo = @ \ {o}]
  <2>1. run \in JobType BY <1>0 DEF JobType
  <2>2. /\ run.made = job[j].made /\ run.sum = job[j].sum /\ run.link = job[j].link
        /\ run.loaded = job[j].loaded /\ run.todo \subseteq job[j].todo /\ run.pc = job[j].pc
    BY <1>0, SMT DEF JobType
  <2>3. job' = [job EXCEPT ![j] = run] BY <1>2
  <2> HIDE DEF run
  <2>4. AloneIn(row, entry, run) BY <1>0, <2>2, PassesAlone
  <2> QED BY <2>1, <2>3, <2>4, OthersIdle, RunAlone
<1>3. ASSUME job' = [job EXCEPT ![j].pc = "commit"] PROVE Alone'
  <2> DEFINE run == [job[j] EXCEPT !.pc = "commit"]
  <2>1. run \in JobType BY <1>0 DEF JobType
  <2>2. /\ run.made = job[j].made /\ run.sum = job[j].sum /\ run.link = job[j].link
        /\ run.loaded = job[j].loaded /\ run.todo \subseteq job[j].todo /\ run.pc = "commit"
    BY <1>0, SMT DEF JobType
  <2>3. job' = [job EXCEPT ![j] = run] BY <1>3
  <2> HIDE DEF run
  <2>4. AloneIn(row, entry, run) BY <1>0, <2>2, PassesAlone
  <2> QED BY <2>1, <2>3, <2>4, OthersIdle, RunAlone
<1> QED BY <1>1, <1>2, <1>3

LEMMA StartDailyA ==
  ASSUME AInv, ~mixed', NEW d \in Dailies, NEW p \in Periods, StartDaily(d, p) PROVE Alone'
<1> DEFINE rows == IF "shared" \in Plan THEN Unapplied(p) ELSE {}
           parts == {Part(r) : r \in rows}
           objects == {Home[r] : r \in rows}
           run == [IdleJob EXCEPT !.pc = "daily", !.period = p, !.loaded = parts, !.todo = objects]
<1>1. Begin(d, run) BY Zenon DEF StartDaily
<1>2. \A r \in rows : r \in Rows /\ row[r].state = "there" /\ row[r].entry = NoEntry
  BY Zenon DEF Unapplied, There
<1> HIDE DEF rows
<1>3. parts \subseteq Parts
  BY <1>2, SMT DEF Part, Parts, AInv, GInv, Basic, RowType
<1>4. objects \subseteq Objects BY <1>2, BooksAssumption
<1>5. \A x \in parts : /\ row[x[1]].state = "there" /\ x = <<x[1], row[x[1]].amount>>
                       /\ row[x[1]].entry = NoEntry
  BY <1>2 DEF Part
<1> HIDE DEF parts, objects
<1>6. run \in JobType BY <1>3, <1>4, IdleIsJob DEF JobType
<1>7. Started(run, "daily", p, parts, objects)
  BY IdleIsJob, SMT DEF Started, JobType, IdleJob
<1> HIDE DEF run
<1>8. AloneIn(row, entry, run) BY <1>5, <1>7, StartAlone DEF AInv, Alone
<1>9. d \in Jobs /\ \A q \in Jobs : job[q].pc = "idle" BY <1>1, Zenon DEF Jobs, Begin, Busy
<1>10. job' = [job EXCEPT ![d] = run] /\ UNCHANGED <<row, entry>> BY <1>1 DEF Begin
<1> QED BY <1>6, <1>8, <1>9, <1>10, RunAlone

LEMMA StartRecalcA ==
  ASSUME AInv, ~mixed', NEW j \in Recalcs, NEW p \in Periods, StartRecalc(j, p) PROVE Alone'
<1> DEFINE run == [IdleJob EXCEPT !.pc = "recalc", !.period = p, !.todo = Objects]
<1>1. Begin(j, run) BY Zenon DEF StartRecalc
<1>2. run \in JobType BY IdleIsJob DEF JobType
<1>3. Started(run, "recalc", p, {}, Objects)
  BY IdleIsJob, SMT DEF Started, JobType, IdleJob
<1> HIDE DEF run
<1>4. AloneIn(row, entry, run)
  <2>1. OneForAll(MadeIn(entry)) BY DEF AInv, Alone
  <2>2. PICK parts : parts = {} OBVIOUS
  <2>3. Started(run, "recalc", p, parts, Objects) BY <1>3, <2>2
  <2>4. \A x \in parts : /\ row[x[1]].state = "there" /\ x = <<x[1], row[x[1]].amount>>
                         /\ row[x[1]].entry = NoEntry
    BY <2>2
  <2> QED BY <2>1, <2>3, <2>4, StartAlone
<1>5. j \in Jobs /\ \A q \in Jobs : job[q].pc = "idle" BY <1>1, Zenon DEF Jobs, Begin, Busy
<1>6. job' = [job EXCEPT ![j] = run] /\ UNCHANGED <<row, entry>> BY <1>1 DEF Begin
<1> QED BY <1>2, <1>4, <1>5, <1>6, RunAlone

LEMMA DailyObjectA ==
  ASSUME AInv, NEW d \in Dailies, NEW o \in Objects, DailyObject(d, o) PROVE Alone'
<1> DEFINE fresh == {r \in Rows : Home[r] = o /\ \E x \in job[d].loaded : x[1] = r}
           parts == Seen(d, fresh)
           run(e) == Entered(job[d], e, o, parts, fresh, parts)
<1>0. GInv /\ d \in Jobs /\ job[d] \in JobType /\ AloneIn(row, entry, job[d])
  BY DEF Jobs, AInv, GInv, Basic, Alone
<1>1. job[d].pc = "daily" /\ o \in job[d].todo /\ UNCHANGED <<row, entry>>
  BY Zenon DEF DailyObject
<1>2. PICK e \in Target(d, o) : job' = [job EXCEPT ![d] = run(e)]
  BY Zenon DEF DailyObject, Enter, Entered, Seen
<1>3. \A r \in fresh : Home[r] = o /\ row[r].state = "there" /\ row[r].entry = NoEntry
  BY <1>0, <1>1, Zenon DEF AloneIn
<1>4. fresh \in SUBSET Rows OBVIOUS
<1>5. e \in Entries BY <1>0, TargetIsKey DEF GInv
<1> HIDE DEF fresh
<1>6. parts \in SUBSET Parts BY <1>0, <1>4, SeenParts DEF GInv, Seen
<1> HIDE DEF parts
<1> DEFINE new == run(e)
<1>7. job[d] \in JobType /\ o \in Objects /\ parts \in SUBSET Parts /\ fresh \in SUBSET Rows /\ e \in Entries
  BY <1>0, <1>4, <1>5, <1>6
<1>8. new \in JobType /\ Into(job[d], new, e, parts, fresh) /\ GoesOn(job[d], new, o, parts)
  BY <1>7, EnteredRun
<1>9. job' = [job EXCEPT ![d] = new] BY <1>2
<1> HIDE DEF new, run
<1>10. /\ new.pc = "daily" /\ new.todo = job[d].todo \ {o} /\ new.loaded = job[d].loaded \cup parts
  BY <1>1, <1>8 DEF GoesOn
<1>11. \A r \in fresh : There(r) /\ AppliedTo(d, r) = NoEntry
  <2>1. \A r \in fresh : job[d].link[r] = NoEntry
    BY <1>0, <1>1, <1>3, <1>4, Zenon DEF AloneIn
  <2> QED BY <1>3, <2>1 DEF There, AppliedTo
<1>12. AloneIn(row, entry, new)
  BY <1>0, <1>1, <1>3, <1>4, <1>8, <1>10, <1>11, EnterAlone DEF parts
<1> QED BY <1>0, <1>1, <1>8, <1>9, <1>12, OthersIdle, RunAlone

LEMMA RecalcObjectA ==
  ASSUME AInv, NEW j \in Recalcs, NEW o \in Objects, RecalcObject(j, o) PROVE Alone'
<1> DEFINE taken == Taken(j, o)
           parts == Seen(j, taken)
           fresh == {r \in taken : AppliedTo(j, r) = NoEntry}
           seen == Seen(j, fresh)
           run(e) == Entered(job[j], e, o, parts, fresh, seen)
<1>0. GInv /\ j \in Jobs /\ job[j] \in JobType /\ AloneIn(row, entry, job[j])
  BY DEF Jobs, AInv, GInv, Basic, Alone
<1>1. job[j].pc = "recalc" /\ UNCHANGED <<row, entry>>
  BY Zenon DEF RecalcObject
<1>2. PICK e \in Target(j, o) : job' = [job EXCEPT ![j] = run(e)]
  BY Zenon DEF RecalcObject, Enter, Entered, Seen
<1>3. taken \in SUBSET Rows BY DEF Taken
<1>4. fresh \in SUBSET Rows /\ \A r : r \in fresh <=> r \in taken /\ AppliedTo(j, r) = NoEntry BY <1>3
<1>5. e \in Entries BY <1>0, TargetIsKey DEF GInv
<1>6. ASSUME NEW r \in Rows
      PROVE  /\ r \in taken => There(r) /\ AppliedTo(j, r) \in {NoEntry, e}
             /\ There(r) /\ AppliedTo(j, r) = e => r \in taken
  BY <1>0, TakenAlone
<1> HIDE DEF taken, fresh
<1>7. job[j] \in JobType /\ o \in Objects /\ parts \in SUBSET Parts /\ fresh \in SUBSET Rows /\ e \in Entries
      /\ seen \in SUBSET Parts
  BY <1>0, <1>3, <1>4, <1>5, SeenParts DEF GInv, Seen
<1> HIDE DEF parts, seen
<1> DEFINE new == run(e)
<1>8. new \in JobType /\ Into(job[j], new, e, parts, fresh) /\ GoesOn(job[j], new, o, seen)
  BY <1>7, EnteredRun
<1>9. job' = [job EXCEPT ![j] = new] BY <1>2
<1> HIDE DEF new, run
<1>10. /\ new.pc = "recalc" /\ new.todo = job[j].todo \ {o} /\ new.loaded = job[j].loaded \cup seen
  BY <1>1, <1>8 DEF GoesOn
<1>11. /\ \A r \in fresh : There(r) /\ AppliedTo(j, r) = NoEntry
       /\ \A r \in taken : There(r) /\ (r \in fresh \/ AppliedTo(j, r) = e)
       /\ \A r \in Rows : There(r) /\ (r \in fresh \/ AppliedTo(j, r) = e) => r \in taken
  BY <1>3, <1>4, <1>6
<1>12. new.loaded \subseteq job[j].loaded \cup Seen(j, fresh) BY <1>10 DEF seen
<1>13. AloneIn(row, entry, new)
  BY <1>0, <1>1, <1>3, <1>4, <1>8, <1>10, <1>11, <1>12, EnterAlone DEF parts
<1> QED BY <1>0, <1>1, <1>8, <1>9, <1>13, OthersIdle, RunAlone

LEMMA OwnScheduleA ==
  ASSUME AInv, NEW d \in Dailies, OwnSchedule(d) PROVE Alone'
<1> DEFINE taken == Taken(d, First)
           counted == {x \in taken : Kind[x] # "rare"}
           parts == Seen(d, counted)
           fresh == {r \in taken : AppliedTo(d, r) = NoEntry}
           links(e) == [r \in Rows |-> IF r \in fresh THEN e ELSE job[d].link[r]]
           run(e) == [job[d] EXCEPT !.pc = "commit", !.made = job[d].made \cup {e},
                                    !.sum = [job[d].sum EXCEPT ![e] = parts], !.link = links(e)]
<1>0. GInv /\ d \in Jobs /\ job[d] \in JobType /\ AloneIn(row, entry, job[d]) /\ First \in Objects
  BY BooksAssumption DEF Jobs, AInv, GInv, Basic, Alone
<1>1. job[d].pc = "daily" /\ UNCHANGED <<row, entry>>
  BY Zenon DEF OwnSchedule
<1>2. ASSUME NEW e \in Target(d, First), job' = [job EXCEPT ![d] = run(e)] PROVE Alone'
  <2>1. e \in Entries BY <1>0, TargetIsKey DEF GInv
  <2>2. taken \in SUBSET Rows BY DEF Taken
  <2>3. ASSUME NEW r \in Rows
        PROVE  r \in taken => There(r) /\ AppliedTo(d, r) \in {NoEntry, e}
    BY <1>0, TakenAlone
  <2> HIDE DEF taken
  <2>4. /\ counted \in SUBSET Rows /\ fresh \in SUBSET Rows
        /\ \A r : r \in fresh <=> r \in taken /\ AppliedTo(d, r) = NoEntry
        /\ \A r \in counted : r \in taken
    BY <2>2
  <2> HIDE DEF counted, fresh
  <2>5. parts \in SUBSET Parts BY <1>0, <2>4, SeenParts DEF GInv, Seen
  <2> HIDE DEF parts
  <2> DEFINE sums == [job[d].sum EXCEPT ![e] = parts]
             lk == links(e)
             made == job[d].made \cup {e}
             new == [job[d] EXCEPT !.pc = "commit", !.made = made, !.sum = sums, !.link = lk]
  <2>6. job' = [job EXCEPT ![d] = new] BY <1>2
  <2>7. sums \in [Entries -> SUBSET Parts] BY <1>0, <2>1, <2>5, SMT DEF JobType
  <2>8. lk \in [Rows -> Entries \cup {NoEntry}] BY <1>0, <2>1, SMT DEF JobType
  <2>9. made \in SUBSET Entries BY <1>0, <2>1, SMT DEF JobType
  <2> HIDE DEF sums, lk, made
  <2>10. new \in JobType BY <1>0, <2>7, <2>8, <2>9 DEF JobType
  <2>11. /\ new.made = made /\ new.sum = sums /\ new.link = lk /\ new.pc = "commit"
         /\ new.loaded = job[d].loaded
    BY <1>0, SMT DEF JobType
  <2> HIDE DEF new, run
  <2>12. Into(job[d], new, e, parts, fresh) BY <2>11, Zenon DEF Into, sums, lk, made
  <2>13. /\ \A r \in fresh : There(r) /\ AppliedTo(d, r) = NoEntry
         /\ \A r \in counted : There(r) /\ (r \in fresh \/ AppliedTo(d, r) = e)
    BY <2>2, <2>3, <2>4
  <2>14. new.loaded \subseteq job[d].loaded \cup Seen(d, fresh) BY <2>11
  <2>15. AloneIn(row, entry, new)
    BY <1>0, <2>4, <2>10, <2>11, <2>12, <2>13, <2>14, EnterAlone DEF parts
  <2> QED BY <1>0, <1>1, <2>6, <2>10, <2>15, OthersIdle, RunAlone
<1>3. CASE job' = [job EXCEPT ![d].pc = "commit"]
  BY <1>0, <1>1, <1>3, PassAlone
<1>4. \/ \E e \in Target(d, First) : job' = [job EXCEPT ![d] = run(e)]
      \/ job' = [job EXCEPT ![d].pc = "commit"]
  BY Zenon DEF OwnSchedule, Seen
<1> QED BY <1>2, <1>3, <1>4

\* What a commit leaves of a run that was alone.
LEMMA CommitAlone ==
  ASSUME AInv, NEW j \in Jobs, Commit(j)
  PROVE  /\ Alone'
         /\ job[j].pc = "recalc" => \A e \in job[j].made : Balanced(e)'
<1> DEFINE run == job[j]
<1>0. GInv /\ run \in JobType /\ RunOK(run) /\ AloneIn(row, entry, run)
  BY DEF AInv, GInv, Basic, RunsOK, Alone
<1>1. /\ \A r \in Applies(j) : There(r)
      /\ row' = [r \in Rows |-> IF r \in Applies(j) THEN [row[r] EXCEPT !.entry = run.link[r]] ELSE row[r]]
      /\ entry' = [e \in Entries |-> IF e \in run.made THEN [there |-> TRUE, sum |-> run.sum[e]] ELSE entry[e]]
      /\ job' = [job EXCEPT ![j] = IdleJob]
      /\ job[j].pc # "idle"
  BY Zenon DEF Commit, Finished
<1>2. MadeIn(entry') = MadeIn(entry) \cup run.made
  BY <1>0, <1>1, SMT DEF MadeIn, JobType
<1>3. ASSUME NEW r \in Rows
      PROVE  /\ row'[r].state = row[r].state /\ row'[r].amount = row[r].amount
             /\ row'[r].entry = IF run.link[r] # NoEntry THEN run.link[r] ELSE row[r].entry
  <2>1. row[r] \in RowType BY <1>0 DEF GInv, Basic
  <2>2. row'[r] = IF r \in Applies(j) THEN [row[r] EXCEPT !.entry = run.link[r]] ELSE row[r] BY <1>1
  <2>3. r \in Applies(j) <=> run.link[r] # NoEntry BY DEF Applies
  <2> QED BY <2>1, <2>2, <2>3, SMT DEF RowType
<1>4. OneForAll(MadeIn(entry')) BY <1>0, <1>2, Zenon DEF AloneIn
<1>5. \A e \in Entries : entry'[e].sum = IF e \in run.made THEN run.sum[e] ELSE entry[e].sum
  BY <1>1, SMT
<1>6. \A e \in run.made : e \in Entries BY <1>0 DEF JobType
<1>7. CountedIn(row', entry')
  <2> SUFFICES ASSUME NEW e \in MadeIn(entry'), NEW x \in entry'[e].sum, Kind[x[1]] # "incident"
               PROVE  row'[x[1]].state = "there" /\ row'[x[1]].entry = e
    BY Zenon DEF CountedIn
  <2>1. e \in Entries BY DEF MadeIn
  <2>2. x[1] \in Rows
    <3>1. entry'[e].sum \subseteq Parts BY <1>0, <1>5, <2>1 DEF JobType, GInv, Basic, EntryType
    <3> QED BY <3>1 DEF Parts
  <2>3. CASE e \in run.made
    <3>1. x[1] \in AppliedIn(row, run, e) BY <1>0, <1>5, <2>1, <2>3, Zenon DEF AloneIn
    <3> QED BY <1>3, <2>2, <3>1 DEF AppliedIn
  <2>4. CASE e \notin run.made
    <3>1. e \in MadeIn(entry) /\ x \in entry[e].sum BY <1>2, <1>5, <2>1, <2>4
    <3>2. row[x[1]].state = "there" /\ row[x[1]].entry = e
      BY <3>1, Zenon DEF AInv, Alone, CountedIn
    <3>3. e # NoEntry BY <2>1, NoEntryIsNone
    <3>4. run.link[x[1]] = NoEntry BY <1>0, <2>2, <3>2, <3>3, Zenon DEF AloneIn
    <3> QED BY <1>3, <2>2, <3>2, <3>4
  <2> QED BY <2>3, <2>4
<1>8. \A q \in Jobs : job'[q] = IdleJob
  <2>1. \A q \in Jobs : q # j => job[q] = IdleJob
    BY <1>1, OthersIdle, Zenon DEF AInv, GInv, RunsOK, RunOK
  <2> QED BY <1>1, <2>1, SMT DEF AInv, GInv, Basic
<1>9. \A q \in Jobs : AloneIn(row', entry', job'[q]) BY <1>4, <1>8, IdleAlone
<1>10. \A p, q \in Jobs : job'[p].pc # "idle" /\ job'[q].pc # "idle" => p = q BY <1>8, IdleIsJob
<1>11. Alone' BY <1>4, <1>7, <1>9, <1>10 DEF Alone
<1>12. ASSUME job[j].pc = "recalc", NEW e \in run.made PROVE Balanced(e)'
  <2>1. e \in Entries /\ e # NoEntry BY <1>6, NoEntryIsNone
  <2>2. run.sum[e] = {<<r, row[r].amount>> : r \in AppliedIn(row, run, e)}
    BY <1>0, <1>12, Zenon DEF AloneIn
  <2>3. ASSUME NEW r \in Rows
        PROVE  r \in AppliedIn(row, run, e) <=> row'[r].state = "there" /\ row'[r].entry = e
    BY <1>3 DEF AppliedIn
  <2>4. {<<r, row[r].amount>> : r \in AppliedIn(row, run, e)}
          = {<<r, row'[r].amount>> : r \in {x \in Rows : row'[x].state = "there" /\ row'[x].entry = e}}
    <3>1. AppliedIn(row, run, e) = {x \in Rows : row'[x].state = "there" /\ row'[x].entry = e}
      BY <2>3 DEF AppliedIn
    <3>2. \A r \in AppliedIn(row, run, e) : row'[r].amount = row[r].amount BY <1>3 DEF AppliedIn
    <3> QED BY <3>1, <3>2
  <2>5. entry'[e].sum = run.sum[e] BY <1>5, <1>12, <2>1
  <2> QED BY <2>2, <2>4, <2>5, Zenon DEF Balanced, LinkedTo, There, Part
<1> QED BY <1>11, <1>12

-----------------------------------------------------------------------------
(* Requests: while nothing has overlapped, no run is under way.            *)

LEMMA RequestAlone ==
  ASSUME AInv, ~mixed', Request, MadeIn(entry') = MadeIn(entry), CountedIn(row', entry')
  PROVE  Alone'
<1>1. \A j \in Jobs : job[j].pc = "idle" BY Zenon DEF Request, Busy
<1>2. \A j \in Jobs : job'[j] = IdleJob BY <1>1 DEF Request, AInv, GInv, RunsOK, RunOK
<1>3. OneForAll(MadeIn(entry')) BY DEF AInv, Alone
<1>4. \A j \in Jobs : AloneIn(row', entry', job'[j]) BY <1>2, <1>3, IdleAlone
<1>5. \A p, q \in Jobs : job'[p].pc # "idle" /\ job'[q].pc # "idle" => p = q BY <1>2, IdleIsJob
<1> QED BY <1>3, <1>4, <1>5 DEF Alone

\* A row changes and an entry gets its sums from the rows.
LEMMA ResumAlone ==
  ASSUME AInv, NEW r \in Rows, row' \in [Rows -> RowType],
         \A x \in Rows : x # r => row'[x] = row[x],
         NEW e \in Entries \cup {NoEntry}, row[r].entry = e, Resum(e),
         row'[r].entry \in {e, NoEntry}
  PROVE  MadeIn(entry') = MadeIn(entry) /\ CountedIn(row', entry')
<1>0. /\ entry' \in [Entries -> EntryType]
      /\ \A f \in Entries : entry'[f].there = entry[f].there
  BY ResumOK DEF AInv
<1>1. MadeIn(entry') = MadeIn(entry) BY <1>0 DEF MadeIn
<1> DEFINE parts == {<<x, row'[x].amount>> : x \in {y \in Rows : row'[y].state = "there" /\ row'[y].entry = e}}
<1>2. \A x \in parts : row'[x[1]].state = "there" /\ row'[x[1]].entry = e OBVIOUS
<1>3. \A f \in Entries : entry'[f].sum = IF f = e /\ f \in Made THEN parts ELSE entry[f].sum
  <2>1. CASE e \in Made
    <3>1. entry' = [entry EXCEPT ![e].sum = parts] /\ e \in Entries BY <2>1, Zenon DEF Resum, Made
    <3> HIDE DEF parts
    <3> QED BY <2>1, <3>1, SMT DEF AInv, GInv, Basic, EntryType
  <2>2. CASE e \notin Made
    BY <2>2, SMT DEF Resum
  <2> QED BY <2>1, <2>2
<1> HIDE DEF parts
<1>4. CountedIn(row', entry')
  <2> SUFFICES ASSUME NEW f \in MadeIn(entry'), NEW x \in entry'[f].sum, Kind[x[1]] # "incident"
               PROVE  row'[x[1]].state = "there" /\ row'[x[1]].entry = f
    BY Zenon DEF CountedIn
  <2>1. f \in Entries /\ f \in MadeIn(entry) /\ f \in Made BY <1>1 DEF MadeIn, Made
  <2>2. CASE f = e
    BY <1>2, <1>3, <2>1, <2>2
  <2>3. CASE f # e
    <3>1. x \in entry[f].sum BY <1>3, <2>1, <2>3
    <3>2. x[1] \in Rows BY <2>1, <3>1, SMT DEF AInv, GInv, Basic, EntryType, Parts
    <3>3. row[x[1]].state = "there" /\ row[x[1]].entry = f BY <2>1, <3>1, Zenon DEF AInv, Alone, CountedIn
    <3> QED BY <2>3, <3>2, <3>3
  <2> QED BY <2>2, <2>3
<1> QED BY <1>1, <1>4

LEMMA ChangesAlone ==
  ASSUME AInv, ~mixed', NEW r \in Rows, Edit(r) \/ OwnerDeletes(r) PROVE Alone'
<1>1. row[r] \in RowType BY DEF AInv, GInv, Basic
<1>2. GInv' BY EditG, DeletesG DEF AInv
<1>3. row' \in [Rows -> RowType] BY <1>2 DEF GInv, Basic
<1>4. \A x \in Rows : x # r => row'[x] = row[x]
  BY SMT DEF Edit, OwnerDeletes, AInv, GInv, Basic
<1>5. row'[r].entry \in {row[r].entry, NoEntry}
  <2>1. CASE Edit(r)
    <3>1. row' = [row EXCEPT ![r] = [row[r] EXCEPT !.amount = @ + 1]] BY <2>1 DEF Edit
    <3>2. row'[r] = [row[r] EXCEPT !.amount = @ + 1] BY <3>1 DEF AInv, GInv, Basic
    <3> QED BY <1>1, <3>2, SMT DEF RowType
  <2>2. CASE OwnerDeletes(r)
    <3>1. row'[r] = [row[r] EXCEPT !.state = "gone", !.entry = NoEntry]
      BY <2>2, Zenon DEF OwnerDeletes, AInv, GInv, Basic
    <3> QED BY <1>1, <3>1, SMT DEF RowType
  <2> QED BY <2>1, <2>2
<1>6. Request /\ Resum(row[r].entry) BY Zenon DEF Edit, OwnerDeletes
<1>7. row[r].entry \in Entries \cup {NoEntry} BY <1>1, SMT DEF RowType
<1>8. MadeIn(entry') = MadeIn(entry) /\ CountedIn(row', entry')
  BY <1>3, <1>4, <1>5, <1>6, <1>7, ResumAlone
<1> QED BY <1>6, <1>8, RequestAlone

LEMMA AddsAlone ==
  ASSUME AInv, ~mixed', NEW r \in Rows, NEW e \in Entries, OwnerAdds(r, e) \/ ManagerAdds(r, e)
  PROVE  Alone'
<1>0. row[r] \in RowType /\ RowsOK BY DEF AInv, GInv, Basic
<1>1. /\ row[r].state = "none" /\ entry[e].there
      /\ row' = [row EXCEPT ![r] = [row[r] EXCEPT !.state = "there", !.entry = e]]
      /\ Request
  BY Zenon DEF OwnerAdds, ManagerAdds, AddTo
<1>2. /\ row'[r].state = "there" /\ row'[r].entry = e
      /\ \A x \in Rows : x # r => row'[x] = row[x]
  BY <1>0, <1>1, SMT DEF AInv, GInv, Basic, RowType
<1>3. Part(r)[1] = r BY DEF Part
<1>4. \A f \in Entries : /\ entry'[f].there = entry[f].there
                         /\ entry'[f].sum \subseteq entry[f].sum \cup (IF f = e THEN {Part(r)} ELSE {})
  <2>1. CASE OwnerAdds(r, e)
    <3>1. entry' = [entry EXCEPT ![e].sum = @ \cup {Part(r)}] BY <2>1, Zenon DEF OwnerAdds
    <3> QED BY <3>1, SMT DEF AInv, GInv, Basic, EntryType
  <2>2. CASE ManagerAdds(r, e)
    BY <2>2 DEF ManagerAdds
  <2> QED BY <2>1, <2>2
<1>5. MadeIn(entry') = MadeIn(entry) BY <1>4 DEF MadeIn
<1>6. CountedIn(row', entry')
  <2> SUFFICES ASSUME NEW f \in MadeIn(entry'), NEW x \in entry'[f].sum, Kind[x[1]] # "incident"
               PROVE  row'[x[1]].state = "there" /\ row'[x[1]].entry = f
    BY Zenon DEF CountedIn
  <2>1. f \in Entries /\ f \in MadeIn(entry) BY <1>5 DEF MadeIn
  <2>2. CASE x \in entry[f].sum
    <3>1. x[1] \in Rows BY <2>1, <2>2, SMT DEF AInv, GInv, Basic, EntryType, Parts
    <3>2. row[x[1]].state = "there" /\ row[x[1]].entry = f BY <2>1, <2>2, Zenon DEF AInv, Alone, CountedIn
    <3> QED BY <1>1, <1>2, <3>1, <3>2
  <2>3. CASE x \notin entry[f].sum
    <3>1. f = e /\ x = Part(r) BY <1>4, <2>1, <2>3
    <3> QED BY <1>2, <1>3, <3>1
  <2> QED BY <2>2, <2>3
<1> QED BY <1>1, <1>5, <1>6, RequestAlone

LEMMA MovesAlone ==
  ASSUME AInv, ~mixed', NEW r \in Rows, NEW p \in Periods, IncidentMoves(r, p) PROVE Alone'
<1>1. /\ Kind[r] = "incident" /\ Request /\ entry' = entry
      /\ \A x \in Rows : x # r => row'[x] = row[x]
  BY SMT DEF IncidentMoves, AInv, GInv, Basic
<1>2. CountedIn(row', entry')
  <2> SUFFICES ASSUME NEW f \in MadeIn(entry), NEW x \in entry[f].sum, Kind[x[1]] # "incident"
               PROVE  row'[x[1]].state = "there" /\ row'[x[1]].entry = f
    BY <1>1, Zenon DEF CountedIn
  <2>1. x[1] \in Rows /\ x[1] # r BY <1>1, SMT DEF AInv, GInv, Basic, EntryType, Parts, MadeIn
  <2>2. row[x[1]].state = "there" /\ row[x[1]].entry = f BY Zenon DEF AInv, Alone, CountedIn
  <2> QED BY <1>1, <2>1, <2>2
<1>3. MadeIn(entry') = MadeIn(entry) BY <1>1
<1> QED BY <1>1, <1>2, <1>3, RequestAlone

LEMMA AppearsA ==
  ASSUME AInv, NEW r \in Rows, RowAppears(r) PROVE Alone'
<1>0. row \in [Rows -> RowType] /\ row[r] \in RowType /\ row[r].state = "none" /\ row[r].entry = NoEntry
  BY DEF AInv, GInv, Basic, RowAppears, RowsOK
<1>1. GInv' BY AppearsG DEF AInv
<1>2. row' \in [Rows -> RowType] BY <1>1 DEF GInv, Basic
<1>3. /\ \A x \in Rows : x # r => row'[x] = row[x]
      /\ row'[r].entry = NoEntry
      /\ UNCHANGED <<entry, job>>
  BY <1>0, SMT DEF RowAppears, RowType
<1>4. ASSUME NEW j \in Jobs PROVE AloneIn(row', entry', job'[j])
  <2>1. job[j] \in JobType /\ AloneIn(row, entry, job[j]) BY DEF AInv, GInv, Basic, Alone
  <2>2. AloneIn(row', entry, job[j]) BY <1>0, <1>2, <1>3, <2>1, AppearsAlone
  <2> QED BY <1>3, <2>2
<1>5. CountedIn(row', entry')
  <2> SUFFICES ASSUME NEW f \in MadeIn(entry), NEW x \in entry[f].sum, Kind[x[1]] # "incident"
               PROVE  row'[x[1]].state = "there" /\ row'[x[1]].entry = f
    BY <1>3, Zenon DEF CountedIn
  <2>1. x[1] \in Rows BY SMT DEF AInv, GInv, Basic, EntryType, Parts, MadeIn
  <2>2. row[x[1]].state = "there" /\ row[x[1]].entry = f BY Zenon DEF AInv, Alone, CountedIn
  <2> QED BY <1>0, <1>3, <2>1, <2>2
<1>6. OneForAll(MadeIn(entry')) BY <1>3 DEF AInv, Alone
<1>7. \A p, q \in Jobs : job'[p].pc # "idle" /\ job'[q].pc # "idle" => p = q BY <1>3 DEF AInv, Alone
<1> QED BY <1>4, <1>5, <1>6, <1>7 DEF Alone

-----------------------------------------------------------------------------
(* The theorems.                                                           *)

LEMMA InitI == Init => IInv
<1> SUFFICES ASSUME Init PROVE IInv OBVIOUS
<1>1. GInv BY InitG
<1>2. \A j \in Jobs : job[j] = IdleJob BY SMT DEF Init
<1>3. MadeIn(entry) = {} BY SMT DEF Init, MadeIn
<1>4. OneForAll(MadeIn(entry)) /\ CountedIn(row, entry) BY <1>3, Zenon DEF OneForAll, CountedIn
<1>5. \A j \in Jobs : AloneIn(row, entry, job[j]) BY <1>2, <1>4, IdleAlone
<1>6. \A p, q \in Jobs : job[p].pc # "idle" /\ job[q].pc # "idle" => p = q BY <1>2, IdleIsJob
<1> QED BY <1>1, <1>4, <1>5, <1>6 DEF IInv, Alone

LEMMA StepI == IInv /\ [Next]_vars => IInv'
<1> SUFFICES ASSUME IInv, [Next]_vars PROVE IInv' OBVIOUS
<1>0. GInv' BY StepG DEF IInv
<1>1. mixed' \/ (~mixed' /\ ~mixed)
  <2>1. CASE UNCHANGED vars BY <2>1 DEF vars
  <2>2. CASE People
    BY <2>2, Zenon DEF People, RowAppears, OwnerEdits, ManagerEdits, Edit, OwnerDeletes, OwnerAdds, ManagerAdds,
                       IncidentMoves, Request
  <2>3. ASSUME NEW d \in Dailies, DailyStep(d) PROVE mixed' \/ (~mixed' /\ ~mixed)
    BY <2>3, Zenon DEF DailyStep, StartDaily, Begin, DailyObject, DailyObjectRaises, OwnSchedule
  <2>4. ASSUME NEW j \in Recalcs, RecalcStep(j) PROVE mixed' \/ (~mixed' /\ ~mixed)
    BY <2>4, Zenon DEF RecalcStep, StartRecalc, Begin, RecalcObject, RecalcNothing, RecalcRaises
  <2>5. ASSUME NEW j \in Jobs, Commit(j) \/ CommitFails(j) \/ Kill(j) PROVE mixed' \/ (~mixed' /\ ~mixed)
    BY <2>5, Zenon DEF Commit, CommitFails, Kill
  <2> QED BY <2>1, <2>2, <2>3, <2>4, <2>5 DEF Next
<1>2. ASSUME ~mixed', ~mixed PROVE Alone'
  <2>0. AInv BY <1>2 DEF IInv, AInv
  <2>1. CASE UNCHANGED vars
    <3>1. row' = row /\ entry' = entry /\ job' = job BY <2>1 DEF vars
    <3> QED BY <2>0, <3>1 DEF AInv, Alone
  <2>2. CASE People
    BY <1>2, <2>0, <2>2, AppearsA, ChangesAlone, AddsAlone, MovesAlone DEF People, OwnerEdits, ManagerEdits
  <2>3. ASSUME NEW d \in Dailies, DailyStep(d) PROVE Alone'
    <3>1. ASSUME NEW o \in Objects, DailyObjectRaises(d, o) PROVE Alone'
      BY <2>0, <3>1, PassAlone DEF DailyObjectRaises, TwoFound, Jobs
    <3> QED BY <1>2, <2>0, <2>3, <3>1, StartDailyA, DailyObjectA, OwnScheduleA DEF DailyStep
  <2>4. ASSUME NEW j \in Recalcs, RecalcStep(j) PROVE Alone'
    <3>1. ASSUME NEW o \in Objects, RecalcNothing(j, o) \/ RecalcRaises(j, o) PROVE Alone'
      BY <2>0, <3>1, PassAlone DEF RecalcNothing, RecalcRaises, TwoFound, Jobs
    <3> QED BY <1>2, <2>0, <2>4, <3>1, StartRecalcA, RecalcObjectA DEF RecalcStep
  <2>5. ASSUME NEW j \in Jobs, CommitFails(j) \/ Kill(j) PROVE Alone'
    <3>1. job[j].pc # "idle" /\ job' = [job EXCEPT ![j] = IdleJob] /\ UNCHANGED <<row, entry>>
      BY <2>5 DEF CommitFails, Kill, Finished
    <3> QED BY <2>0, <3>1, StopAlone
  <2>6. ASSUME NEW j \in Jobs, Commit(j) PROVE Alone'
    BY <2>0, <2>6, CommitAlone
  <2> QED BY <2>1, <2>2, <2>3, <2>4, <2>5, <2>6 DEF Next
<1> QED BY <1>0, <1>1, <1>2 DEF IInv

\* The inductive invariant, for any rows, objects, periods and runs.
THEOREM SpecIInv == Spec => []IInv
BY InitI, StepI, PTL DEF Spec

\* Types: above all, a row is applied only to an entry that is there, although the run that
\* applies it inserts the entry in the same commit and others commit in between.
THEOREM TypeCorrect == Spec => []TypeOK
<1>1. IInv => TypeOK BY BasicIsType DEF IInv, GInv
<1> QED BY <1>1, SpecIInv, PTL

\* Base pay stays with its own object and period, however the daily task, recalculations,
\* statements and requests overlap.
THEOREM BaseStaysHome == Spec => []BaseAtHome
<1>1. IInv => BaseAtHome
  <2> SUFFICES ASSUME IInv, NEW e \in Made, NEW r \in Rows, Kind[r] = "base",
                      r \in LinkedTo(e) \/ \E a \in Amounts : <<r, a>> \in entry[e].sum
               PROVE  e \in KeyOf(Home[r], Day[r])
    BY Zenon DEF BaseAtHome
  <2>1. e \in Entries /\ e # NoEntry BY NoEntryIsNone DEF Made
  <2>2. CASE r \in LinkedTo(e)
    <3>1. row[r].entry = e BY <2>2 DEF LinkedTo
    <3>2. Fits(r, e) BY <2>1, <3>1, Zenon DEF IInv, GInv, RowsOK
    <3> QED BY <2>1, <3>2 DEF Fits, ByHand, KeyOf
  <2>3. ASSUME NEW a \in Amounts, <<r, a>> \in entry[e].sum PROVE e \in KeyOf(Home[r], Day[r])
    <3>1. SumFits(e, entry[e].sum) BY <2>1 DEF IInv, GInv, SumsOK
    <3>2. <<r, a>>[1] = r OBVIOUS
    <3> QED BY <2>3, <3>1, <3>2, Zenon DEF SumFits
  <2> QED BY <2>2, <2>3
<1> QED BY <1>1, SpecIInv, PTL

\* Until operations overlap for the first time, the look before the insert is enough: an
\* object has one entry a period, for any number of copies the table could hold.
THEOREM OneEntryEach == Spec => []OneEntry
<1>1. IInv => OneEntry
  <2> SUFFICES ASSUME IInv, ~mixed, NEW o \in Objects, NEW p \in Periods
               PROVE  Cardinality(Made \cap KeyOf(o, p)) <= 1
    BY DEF OneEntry
  <2> DEFINE E == Made \cap KeyOf(o, p)
  <2>1. \A e, f \in E : e = f
    <3>1. OneForAll(MadeIn(entry)) BY DEF IInv, Alone
    <3>2. \A e \in E : e \in MadeIn(entry) /\ e.object = o /\ e.period = p BY DEF Made, MadeIn, KeyOf
    <3> HIDE DEF E
    <3> QED BY <3>1, <3>2 DEF OneForAll
  <2> HIDE DEF E
  <2>2. Cardinality(E) <= 1
    <3>1. CASE E = {} BY <3>1, FS_EmptySet
    <3>2. CASE E # {}
      <4>1. PICK e : e \in E BY <3>2
      <4>2. E = {e} BY <2>1, <4>1
      <4> QED BY <4>2, FS_Singleton
    <3> QED BY <3>1, <3>2
  <2> QED BY <2>2 DEF E
<1> QED BY <1>1, SpecIInv, PTL

\* Until operations overlap, what an entry counts is applied to that entry and to no other,
\* so that no row is paid twice.
THEOREM RowsCountedOnce == Spec => []CountedOnce
<1>1. IInv => CountedOnce
  <2> SUFFICES ASSUME IInv, ~mixed, NEW e \in Made, NEW x \in entry[e].sum, Kind[x[1]] # "incident"
               PROVE  x[1] \in LinkedTo(e)
    BY Zenon DEF CountedOnce
  <2>1. e \in Entries /\ e \in MadeIn(entry) BY DEF Made, MadeIn
  <2>2. x[1] \in Rows BY <2>1, SMT DEF IInv, GInv, Basic, EntryType, Parts
  <2>3. row[x[1]].state = "there" /\ row[x[1]].entry = e BY <2>1, Zenon DEF IInv, Alone, CountedIn
  <2> QED BY <2>2, <2>3 DEF LinkedTo, There
<1> QED BY <1>1, SpecIInv, PTL

\* A recalculation that runs alone leaves every entry it comes to with the sums of the rows
\* that are applied to it, whatever the daily task or the manager has left there.
THEOREM RecalculationMends == Spec => RecalcMends
<1>1. IInv => [\A j \in Recalcs : ~mixed /\ Commit(j) => \A e \in job[j].made : Balanced(e)']_vars
  <2> SUFFICES ASSUME IInv, NEW j \in Recalcs, ~mixed, Commit(j), NEW e \in job[j].made
               PROVE  Balanced(e)'
    OBVIOUS
  <2>1. AInv /\ j \in Jobs BY DEF IInv, AInv, Jobs
  <2>2. job[j].pc = "recalc" BY Zenon DEF IInv, GInv, RunsOK, Commit, Finished
  <2> QED BY <2>1, <2>2, CommitAlone
<1> QED BY <1>1, SpecIInv, PTL DEF RecalcMends
===============================================================================
