----------------------------- MODULE PayrollBooks -----------------------------
(***************************************************************************)
(* From the rows of payroll_adjustments to the entries an employee is paid *)
(* by.  An entry stands for an object and a period; a row says which entry *)
(* it is applied to, and the entry keeps the sums of its rows.  Entries    *)
(* are made by the daily task create_payroll_entries_by_schedule and by    *)
(* whoever asks for a recalculation or a statement; owner and manager add, *)
(* edit and delete rows meanwhile.                                         *)
(*                                                                         *)
(* The rows are those of one employee with one contract.  A sum is kept as *)
(* the set of rows it was made of, each with the amount it had then.  No   *)
(* constraint makes the entry of an object and a period unique, and no     *)
(* reader locks.                                                           *)
(***************************************************************************)
EXTENDS Naturals, FiniteSets

CONSTANTS
  Objects,
  Periods,      \* of the schedule of payments; they do not overlap
  Rows,
  Kind,         \* [Rows -> {"base", "extra", "rare", "manual", "incident"}]
  Home,         \* [Rows -> Objects], the object_id of a row
  Day,          \* [Rows -> Periods], where the end of its shift or its creation falls
  First,        \* the first of the contract's allowed objects
  Plan,         \* which parts of the daily task the contract takes part in:
                \* "shared" schedules of objects, "own" schedule
  Dailies,      \* runs of the daily task that may overlap
  Recalcs,      \* requests to recalculate or to show a statement
  MaxCopies,    \* bound: entries of one object and period
  MaxAmounts,   \* bound: amounts a row has one after the other
  MaxUpsets,    \* bound: runs killed, rows edited, deleted or moved
  MaxRuns       \* bound: runs begun

ASSUME BooksAssumption ==
  /\ Kind \in [Rows -> {"base", "extra", "rare", "manual", "incident"}]
  /\ Home \in [Rows -> Objects] /\ Day \in [Rows -> Periods]
  /\ First \in Objects /\ Periods # {}
  /\ Plan \subseteq {"shared", "own"}
  /\ Dailies \cap Recalcs = {}
  /\ MaxCopies \in Nat /\ MaxAmounts \in Nat \ {0} /\ MaxUpsets \in Nat /\ MaxRuns \in Nat

VARIABLES
  row,          \* there or not, the period its date falls into, its amount, its entry
  entry,        \* [Entries -> the rows its sums were made of, and whether it is there]
  job,          \* a run: what it has yet to look at, the rows it has loaded, the entries
                \* it has made or changed with their sums, the rows it has applied to them
  mixed,        \* has a run or a request begun while another was running?
  upsets, runs

vars == <<row, entry, job, mixed, upsets, runs>>

Jobs == Dailies \cup Recalcs
Amounts == 1 .. MaxAmounts
Parts == Rows \X Amounts
Entries == [object : Objects, period : Periods, copy : 1 .. MaxCopies]
NoEntry == [object |-> "none", period |-> "none", copy |-> 0]
IdleJob == [pc |-> "idle", period |-> CHOOSE p \in Periods : TRUE, todo |-> {}, loaded |-> {},
            made |-> {}, sum |-> [e \in Entries |-> {}], link |-> [r \in Rows |-> NoEntry]]

There(r) == row[r].state = "there"
Made == {e \in Entries : entry[e].there}
KeyOf(o, p) == {e \in Entries : e.object = o /\ e.period = p}
LinkedTo(e) == {r \in Rows : There(r) /\ row[r].entry = e}
Part(r) == <<r, row[r].amount>>

\* The sums of an entry are those of the rows applied to it.
Balanced(e) == entry[e].sum = {Part(r) : r \in LinkedTo(e)}

Init ==
  /\ row = [r \in Rows |-> [state |-> "none", day |-> Day[r], amount |-> 1, entry |-> NoEntry]]
  /\ entry = [e \in Entries |-> [there |-> FALSE, sum |-> {}]]
  /\ job = [j \in Jobs |-> IdleJob]
  /\ mixed = FALSE
  /\ upsets = 0 /\ runs = 0

-----------------------------------------------------------------------------
(* Rows: the accrual, the owner, the manager, the incidents.  A request is  *)
(* a transaction of its own.                                               *)

Busy == \E j \in Jobs : job[j].pc # "idle"
Request == mixed' = (mixed \/ Busy) /\ UNCHANGED <<job, runs>>
Upset == upsets < MaxUpsets /\ upsets' = upsets + 1

\* Entered or accrued, and not applied yet.
RowAppears(r) ==
  /\ row[r].state = "none"
  /\ row' = [row EXCEPT ![r].state = "there"]
  /\ UNCHANGED <<entry, job, mixed, upsets, runs>>

AddTo(r, e) ==
  /\ row[r].state = "none" /\ Kind[r] = "manual" /\ Home[r] = e.object
  /\ entry[e].there
  /\ row' = [row EXCEPT ![r] = [row[r] EXCEPT !.state = "there", !.entry = e]]

\* add-deduction and add-bonus: applied at once, the sums grow by the amount.
OwnerAdds(r, e) ==
  /\ AddTo(r, e)
  /\ entry' = [entry EXCEPT ![e].sum = @ \cup {Part(r)}]
  /\ Request /\ UNCHANGED upsets

\* The manager's add-adjustment applies the row and leaves the sums alone.
ManagerAdds(r, e) == AddTo(r, e) /\ Request /\ UNCHANGED <<entry, upsets>>

\* An edit or a deletion makes the sums of the entry anew from its rows.
Resum(e) ==
  entry' = IF e \in Made
             THEN [entry EXCEPT ![e].sum = {<<r, row'[r].amount>> :
                     r \in {x \in Rows : row'[x].state = "there" /\ row'[x].entry = e}}]
             ELSE entry

Edit(r) ==
  /\ There(r) /\ row[r].amount < MaxAmounts
  /\ row' = [row EXCEPT ![r].amount = @ + 1]
  /\ Resum(row[r].entry)
  /\ Request /\ Upset

OwnerEdits(r) == Edit(r)
ManagerEdits(r) == Kind[r] = "manual" /\ Edit(r)

\* Rows entered by hand only; the manager's route fails before it deletes.
OwnerDeletes(r) ==
  /\ There(r) /\ Kind[r] = "manual"
  /\ row' = [row EXCEPT ![r] = [row[r] EXCEPT !.state = "gone", !.entry = NoEntry]]
  /\ Resum(row[r].entry)
  /\ Request /\ Upset

\* Another date of an incident: its rows move there and are not applied any more;
\* the entry that has counted them is not touched.
IncidentMoves(r, p) ==
  /\ There(r) /\ Kind[r] = "incident" /\ row[r].day # p
  /\ row' = [row EXCEPT ![r] = [row[r] EXCEPT !.day = p, !.entry = NoEntry]]
  /\ Request /\ Upset /\ UNCHANGED entry

-----------------------------------------------------------------------------
(* What a run sees: the committed rows under what it has written itself.    *)

Begin(j, run) ==
  /\ job[j].pc = "idle"
  /\ runs < MaxRuns /\ runs' = runs + 1
  /\ mixed' = (mixed \/ Busy)
  /\ job' = [job EXCEPT ![j] = run]
  /\ UNCHANGED <<row, entry, upsets>>

Found(j, o) == (Made \cup job[j].made) \cap KeyOf(o, job[j].period)
AppliedTo(j, r) == IF job[j].link[r] # NoEntry THEN job[j].link[r] ELSE row[r].entry

\* A row that is in the session keeps the amount it was loaded with.
PartSeen(j, r) == IF \E x \in job[j].loaded : x[1] = r
                    THEN CHOOSE x \in job[j].loaded : x[1] = r ELSE Part(r)

\* An entry that is found is changed; otherwise a new one is inserted.
Target(j, o) ==
  IF Found(j, o) # {} THEN Found(j, o)
  ELSE {[object |-> o, period |-> job[j].period, copy |-> n] :
          n \in {1 + Cardinality({e \in KeyOf(o, job[j].period) :
                                    e \in Made \/ \E q \in Jobs : e \in job[q].made})} \cap 1 .. MaxCopies}

\* The entry of o gets sums from the rows counted, and the fresh rows are applied to it.
Enter(j, o, parts, fresh) ==
  \E e \in Target(j, o) :
    job' = [job EXCEPT ![j] = [job[j] EXCEPT
              !.todo = job[j].todo \ {o}, !.made = job[j].made \cup {e},
              !.sum = [job[j].sum EXCEPT ![e] = parts],
              !.loaded = job[j].loaded \cup {PartSeen(j, r) : r \in fresh},
              !.link = [r \in Rows |-> IF r \in fresh THEN e ELSE job[j].link[r]]]]

\* scalar_one_or_none raises when there are two; the object is passed over.
TwoFound(j, o) ==
  /\ Cardinality(Found(j, o)) > 1
  /\ job' = [job EXCEPT ![j].todo = @ \ {o}]

-----------------------------------------------------------------------------
(* create_payroll_entries_by_schedule.                                     *)

Unapplied(p) == {r \in Rows : There(r) /\ row[r].entry = NoEntry /\ row[r].day = p}

\* All rows of the period, of whatever object, one entry for each object.
StartDaily(d, p) ==
  LET rows == IF "shared" \in Plan THEN Unapplied(p) ELSE {}
  IN  Begin(d, [IdleJob EXCEPT !.pc = "daily", !.period = p, !.loaded = {Part(r) : r \in rows},
                               !.todo = {Home[r] : r \in rows}])

\* The sums are made of the new rows alone, also those of an entry that exists.
DailyObject(d, o) ==
  LET fresh == {r \in Rows : Home[r] = o /\ \E x \in job[d].loaded : x[1] = r}
  IN  /\ job[d].pc = "daily" /\ o \in job[d].todo
      /\ Cardinality(Found(d, o)) <= 1
      /\ Enter(d, o, {PartSeen(d, r) : r \in fresh}, fresh)
      /\ UNCHANGED <<row, entry, mixed, upsets, runs>>

DailyObjectRaises(d, o) ==
  /\ job[d].pc = "daily" /\ o \in job[d].todo
  /\ TwoFound(d, o)
  /\ UNCHANGED <<row, entry, mixed, upsets, runs>>

\* Mutant of Taken: base pay of every object.
TakenAnywhere(j, o) ==
  {r \in Rows :
     /\ There(r)
     /\ \/ AppliedTo(j, r) = NoEntry /\ row[r].day = job[j].period
        \/ AppliedTo(j, r) \in Found(j, o)}

\* The rows a recalculation of o takes: those applied to its entry and those not
\* applied at all, of any object but for base pay.  Rows without a shift stay
\* with their entry whatever their date.
Taken(j, o) ==
  {r \in Rows :
     /\ There(r)
     /\ Kind[r] = "base" => Home[r] = o
     /\ \/ AppliedTo(j, r) = NoEntry /\ row[r].day = job[j].period
        \/ /\ AppliedTo(j, r) \in Found(j, o)
           /\ Kind[r] \in {"manual", "incident"} \/ row[r].day = job[j].period}

\* The contract's own schedule, on its first object; rare kinds of rows are in
\* neither of its lists.
OwnSchedule(d) ==
  LET taken == Taken(d, First)
      fresh == {r \in taken : AppliedTo(d, r) = NoEntry}
  IN  /\ job[d].pc = "daily" /\ job[d].todo = {} /\ "own" \in Plan
      /\ \/ /\ Cardinality(Found(d, First)) <= 1 /\ taken # {}
            /\ \E e \in Target(d, First) :
                 job' = [job EXCEPT ![d] = [job[d] EXCEPT
                           !.pc = "commit", !.made = job[d].made \cup {e},
                           !.sum = [job[d].sum EXCEPT ![e] =
                                      {PartSeen(d, r) : r \in {x \in taken : Kind[x] # "rare"}}],
                           !.link = [r \in Rows |-> IF r \in fresh THEN e ELSE job[d].link[r]]]]
         \/ /\ Cardinality(Found(d, First)) > 1 \/ taken = {}
            /\ job' = [job EXCEPT ![d].pc = "commit"]
      /\ UNCHANGED <<row, entry, mixed, upsets, runs>>

-----------------------------------------------------------------------------
(* manual-recalculate, and the statements that see to their entries first.  *)

StartRecalc(j, p) ==
  Begin(j, [IdleJob EXCEPT !.pc = "recalc", !.period = p, !.todo = Objects])

\* Mutant of RecalcObject: the sums of the rows that are new.
RecalcNewOnly(j, o) ==
  LET fresh == {r \in Taken(j, o) : AppliedTo(j, r) = NoEntry}
  IN  /\ job[j].pc = "recalc" /\ o \in job[j].todo
      /\ Cardinality(Found(j, o)) <= 1 /\ Taken(j, o) # {}
      /\ Enter(j, o, {PartSeen(j, r) : r \in fresh}, fresh)
      /\ UNCHANGED <<row, entry, mixed, upsets, runs>>

\* Mutant of RecalcObject: no look for an entry.
RecalcBlindly(j, o) ==
  LET fresh == {r \in Taken(j, o) : AppliedTo(j, r) = NoEntry}
      new == [object |-> o, period |-> job[j].period,
              copy |-> 1 + Cardinality(Made \cap KeyOf(o, job[j].period))]
  IN  /\ job[j].pc = "recalc" /\ o \in job[j].todo
      /\ fresh # {} /\ new \in Entries
      /\ job' = [job EXCEPT ![j] = [job[j] EXCEPT
                   !.todo = @ \ {o}, !.made = @ \cup {new},
                   !.sum = [@ EXCEPT ![new] = {PartSeen(j, r) : r \in fresh}],
                   !.link = [r \in Rows |-> IF r \in fresh THEN new ELSE job[j].link[r]]]]
      /\ UNCHANGED <<row, entry, mixed, upsets, runs>>

\* Mutant of RecalcObject: the rows are counted and not applied.
RecalcUnlinked(j, o) ==
  /\ job[j].pc = "recalc" /\ o \in job[j].todo
  /\ Cardinality(Found(j, o)) <= 1 /\ Taken(j, o) # {}
  /\ Enter(j, o, {PartSeen(j, r) : r \in Taken(j, o)}, {})
  /\ UNCHANGED <<row, entry, mixed, upsets, runs>>

\* process_contract_period.
RecalcObject(j, o) ==
  LET taken == Taken(j, o)
  IN  /\ job[j].pc = "recalc" /\ o \in job[j].todo
      /\ Cardinality(Found(j, o)) <= 1 /\ taken # {}
      /\ Enter(j, o, {PartSeen(j, r) : r \in taken}, {r \in taken : AppliedTo(j, r) = NoEntry})
      /\ UNCHANGED <<row, entry, mixed, upsets, runs>>

RecalcNothing(j, o) ==
  /\ job[j].pc = "recalc" /\ o \in job[j].todo
  /\ Cardinality(Found(j, o)) <= 1 /\ Taken(j, o) = {}
  /\ job' = [job EXCEPT ![j].todo = @ \ {o}]
  /\ UNCHANGED <<row, entry, mixed, upsets, runs>>

\* The recalculation passes the object over, a statement fails.
RecalcRaises(j, o) ==
  /\ job[j].pc = "recalc" /\ o \in job[j].todo
  /\ \/ TwoFound(j, o)
     \/ Cardinality(Found(j, o)) > 1 /\ job' = [job EXCEPT ![j] = IdleJob]
  /\ UNCHANGED <<row, entry, mixed, upsets, runs>>

-----------------------------------------------------------------------------
(* The one commit at the end, and the ends without one.                    *)

Finished(j) ==
  /\ job[j].todo = {}
  /\ \/ job[j].pc \in {"recalc", "commit"}
     \/ job[j].pc = "daily" /\ "own" \notin Plan

\* An UPDATE of a row that is gone fails, and with it all others.
Applies(j) == {r \in Rows : job[j].link[r] # NoEntry}

\* Mutant of Commit: the rows are applied by themselves.
CommitRowsOnly(j) ==
  /\ Finished(j)
  /\ row' = [r \in Rows |-> IF r \in Applies(j) THEN [row[r] EXCEPT !.entry = job[j].link[r]]
                                                 ELSE row[r]]
  /\ job' = [job EXCEPT ![j] = IdleJob]
  /\ UNCHANGED <<entry, mixed, upsets, runs>>

Commit(j) ==
  /\ Finished(j)
  /\ \A r \in Applies(j) : There(r)
  /\ row' = [r \in Rows |-> IF r \in Applies(j) THEN [row[r] EXCEPT !.entry = job[j].link[r]]
                                                 ELSE row[r]]
  /\ entry' = [e \in Entries |-> IF e \in job[j].made THEN [there |-> TRUE, sum |-> job[j].sum[e]]
                                                       ELSE entry[e]]
  /\ job' = [job EXCEPT ![j] = IdleJob]
  /\ UNCHANGED <<mixed, upsets, runs>>

CommitFails(j) ==
  /\ Finished(j)
  /\ \E r \in Applies(j) : ~There(r)
  /\ job' = [job EXCEPT ![j] = IdleJob]
  /\ UNCHANGED <<row, entry, mixed, upsets, runs>>

Kill(j) ==
  /\ job[j].pc # "idle" /\ Upset
  /\ job' = [job EXCEPT ![j] = IdleJob]
  /\ UNCHANGED <<row, entry, mixed, runs>>

-----------------------------------------------------------------------------
People ==
  \E r \in Rows :
    \/ RowAppears(r) \/ OwnerEdits(r) \/ ManagerEdits(r) \/ OwnerDeletes(r)
    \/ \E e \in Entries : OwnerAdds(r, e) \/ ManagerAdds(r, e)
    \/ \E p \in Periods : IncidentMoves(r, p)

DailyStep(d) ==
  \/ \E p \in Periods : StartDaily(d, p)
  \/ \E o \in Objects : DailyObject(d, o) \/ DailyObjectRaises(d, o)
  \/ OwnSchedule(d)

RecalcStep(j) ==
  \/ \E p \in Periods : StartRecalc(j, p)
  \/ \E o \in Objects : RecalcObject(j, o) \/ RecalcNothing(j, o) \/ RecalcRaises(j, o)

Next ==
  \/ People
  \/ \E d \in Dailies : DailyStep(d)
  \/ \E j \in Recalcs : RecalcStep(j)
  \/ \E j \in Jobs : Commit(j) \/ CommitFails(j) \/ Kill(j)

Spec == Init /\ [][Next]_vars

-----------------------------------------------------------------------------
(* What is promised.                                                       *)

\* The variables keep their types, and a row is applied to an entry that is there.
TypeOK ==
  /\ row \in [Rows -> [state : {"none", "there", "gone"}, day : Periods, amount : Amounts,
                       entry : Made \cup {NoEntry}]]
  /\ entry \in [Entries -> [there : BOOLEAN, sum : SUBSET Parts]]
  /\ job \in [Jobs -> [pc : {"idle", "daily", "recalc", "commit"}, period : Periods,
                       todo : SUBSET Objects, loaded : SUBSET Parts, made : SUBSET Entries,
                       sum : [Entries -> SUBSET Parts], link : [Rows -> Entries \cup {NoEntry}]]]
  /\ mixed \in BOOLEAN
  /\ upsets \in 0 .. MaxUpsets /\ runs \in 0 .. MaxRuns

\* Until operations overlap for the first time, an object has one entry a period.
OneEntry == ~mixed => \A o \in Objects, p \in Periods : Cardinality(Made \cap KeyOf(o, p)) <= 1

\* Base pay is applied to, and counted in, an entry of its own object and period,
\* however runs and requests overlap.
BaseAtHome ==
  \A e \in Made : \A r \in Rows :
    Kind[r] = "base" /\ (r \in LinkedTo(e) \/ \E a \in Amounts : <<r, a>> \in entry[e].sum) =>
      e \in KeyOf(Home[r], Day[r])

\* Until operations overlap, no row is paid twice: what an entry counts is applied to
\* that entry.  An incident that is given another date is the exception.
CountedOnce ==
  ~mixed => \A e \in Made : \A x \in entry[e].sum :
              Kind[x[1]] # "incident" => x[1] \in LinkedTo(e)

\* A recalculation that runs alone mends every entry it comes to, whatever the
\* daily task or the manager has left behind.
RecalcMends ==
  [][\A j \in Recalcs : ~mixed /\ Commit(j) => \A e \in job[j].made : Balanced(e)']_vars

\* Contradicted: what is applied to an entry is in its sums.
AppliedIsCounted ==
  \A e \in Made : \A r \in LinkedTo(e) : Kind[r] = "base" => \E x \in entry[e].sum : x[1] = r
===============================================================================
