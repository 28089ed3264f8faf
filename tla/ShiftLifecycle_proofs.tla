----------------------- MODULE ShiftLifecycle_proofs -----------------------
(***************************************************************************)
(* Theorems of ShiftLifecycle, for any number of users, schedules,         *)
(* dialogues, requests and runs of the task.                               *)
(***************************************************************************)
EXTENDS ShiftLifecycle, FiniteSetTheorems, TLAPS

Inserted == {i \in ShiftIds : shift[i].status # "none"}

\* A row of a schedule is of its employee at its object, and has begun.
RowOK(i) ==
  /\ shift[i].user \in Users
  /\ shift[i].object \in Objects
  /\ shift[i].sched # NoSched => /\ SchedUser[shift[i].sched] = shift[i].user
                                 /\ SchedObject[shift[i].sched] = shift[i].object
  /\ shift[i].start <= now

RowsOK == \A i \in Inserted : RowOK(i)

\* What a dialogue carries: an object, the user's own schedule there, a row.
SessionOK(c) ==
  /\ sess[c].pc # "idle" => sess[c].object \in Objects
  /\ /\ sess[c].pc \in {"check", "insert", "sync", "commit"}
     /\ sess[c].sched # NoSched
     => /\ SchedUser[sess[c].sched] = UserOf[c]
        /\ SchedObject[sess[c].sched] = sess[c].object
  /\ sess[c].pc \in {"closeRead", "closeCommit"} => sess[c].shift \in Inserted

\* A request cancels rows of the schedules it cancels.
CancelOK(m) ==
  \A i \in canc[m].linked : /\ i \in Inserted
                            /\ shift[i].sched \in canc[m].scheds \cup {NoSched}

VerifyOK(v) ==
  \A i \in due[v] : i \in Inserted /\ now >= Closing[shift[i].object]

\* A run closes rows whose end has passed and opens schedules that have begun.
RunOK(w) ==
  /\ wk[w].t <= now
  /\ wk[w].shifts \subseteq Inserted
  /\ wk[w].pc = "shiftCommit" =>
       /\ wk[w].shift \in Inserted
       /\ Ended(shift[wk[w].shift].object, shift[wk[w].shift].sched)
  /\ wk[w].pc = "scheduleCommit" => wk[w].sched \in Schedules
  /\ wk[w].next # NoSched => SchedStart[wk[w].next] <= now

IInv ==
  /\ TypeOK
  /\ RowsOK
  /\ \A c \in Sessions : SessionOK(c)
  /\ \A m \in Managers : CancelOK(m)
  /\ \A v \in Verifiers : VerifyOK(v)
  /\ \A w \in Workers : RunOK(w)
  /\ CompletedIsAccounted

-----------------------------------------------------------------------------
LEMMA InitIInv == Init => IInv
<1> USE ConstantsAssumption
<1> SUFFICES ASSUME Init PROVE IInv OBVIOUS
<1>1. TypeOK
  BY DEF Init, TypeOK, SchedStatus, ShiftRow, NoShift, NewShift, Session, IdleSession,
         SessionPcs, Cancellation, IdleCancel, Run, IdleWorker, WorkerPcs
<1>2. Inserted = {}
  BY DEF Init, Inserted, NoShift, NewShift
<1>3. /\ RowsOK
      /\ \A c \in Sessions : SessionOK(c)
      /\ \A m \in Managers : CancelOK(m)
      /\ \A v \in Verifiers : VerifyOK(v)
  BY <1>2 DEF Init, RowsOK, SessionOK, CancelOK, VerifyOK, IdleSession, IdleCancel
<1>4. \A w \in Workers : RunOK(w)
  BY DEF Init, RunOK, IdleWorker
<1>5. CompletedIsAccounted
  BY DEF Init, CompletedIsAccounted
<1> QED BY <1>1, <1>3, <1>4, <1>5 DEF IInv

-----------------------------------------------------------------------------
(* What a step that keeps the rows leaves true.                            *)

\* Every row stays and keeps its columns, the status excepted; time goes on.
Keeps ==
  /\ now' \in Nat /\ now <= now'
  /\ \A i \in Inserted : /\ shift'[i].status # "none"
                         /\ shift'[i].user = shift[i].user
                         /\ shift'[i].object = shift[i].object
                         /\ shift'[i].sched = shift[i].sched
                         /\ shift'[i].start = shift[i].start

LEMMA KeepsInserted == Keeps => Inserted \subseteq Inserted'
BY DEF Keeps, Inserted

\* What a process carries stays good while others step.
LEMMA FrameLemma ==
  ASSUME IInv, Keeps
  PROVE  /\ \A c \in Sessions : sess'[c] = sess[c] => SessionOK(c)'
         /\ \A m \in Managers : canc'[m] = canc[m] => CancelOK(m)'
         /\ \A v \in Verifiers : due'[v] = due[v] => VerifyOK(v)'
         /\ \A w \in Workers : wk'[w] = wk[w] => RunOK(w)'
<1> USE ConstantsAssumption, KeepsInserted
<1>1. \A c \in Sessions : sess'[c] = sess[c] => SessionOK(c)'
  BY DEF IInv, SessionOK
<1>2. \A m \in Managers : canc'[m] = canc[m] => CancelOK(m)'
  BY DEF IInv, CancelOK, Keeps
<1>3. \A v \in Verifiers : due'[v] = due[v] => VerifyOK(v)'
  <2> SUFFICES ASSUME NEW v \in Verifiers, due'[v] = due[v], NEW i \in due[v]
               PROVE  i \in Inserted' /\ now' >= Closing[shift'[i].object]
    BY DEF VerifyOK
  <2>1. i \in Inserted /\ now >= Closing[shift[i].object]
    BY DEF IInv, VerifyOK
  <2>2. Closing[shift[i].object] \in Nat /\ now \in Nat
    BY <2>1 DEF IInv, TypeOK, RowsOK, RowOK
  <2> QED BY <2>1, <2>2 DEF Keeps
<1>4. \A w \in Workers : wk'[w] = wk[w] => RunOK(w)'
  <2> SUFFICES ASSUME NEW w \in Workers, wk'[w] = wk[w]
               PROVE  RunOK(w)'
    OBVIOUS
  <2> DEFINE i == wk[w].shift
             n == wk[w].next
  <2>1. RunOK(w) /\ wk[w] \in Run /\ now \in Nat
    BY DEF IInv, TypeOK
  <2>2. wk[w].t <= now'
    BY <2>1 DEF RunOK, Keeps, Run
  <2>3. ASSUME wk[w].pc = "shiftCommit"
        PROVE  i \in Inserted' /\ Ended(shift[i].object, shift[i].sched)'
    <3>1. i \in Inserted /\ Ended(shift[i].object, shift[i].sched)
      BY <2>1, <2>3 DEF RunOK
    <3>2. /\ shift[i].object \in Objects
          /\ shift[i].sched \in Schedules \cup {NoSched}
      BY <3>1 DEF IInv, TypeOK, RowsOK, RowOK, Inserted, ShiftRow
    <3>3. /\ Closing[shift[i].object] \in Nat
          /\ PlannedEnd(shift[i].object, shift[i].sched) \in Nat
      BY <3>2 DEF PlannedEnd
    <3>4. shift'[i].object = shift[i].object /\ shift'[i].sched = shift[i].sched
      BY <3>1 DEF Keeps
    <3> QED BY <2>1, <3>1, <3>3, <3>4 DEF Ended, Keeps, PlannedEnd
  <2>4. n # NoSched => SchedStart[n] <= now'
    <3> SUFFICES ASSUME n # NoSched PROVE SchedStart[n] <= now'
      OBVIOUS
    <3>1. n \in Schedules
      BY <2>1 DEF Run
    <3> QED BY <2>1, <3>1 DEF RunOK, Keeps
  <2> QED BY <2>1, <2>2, <2>3, <2>4 DEF RunOK
<1> QED BY <1>1, <1>2, <1>3, <1>4

\* A step of a dialogue that changes no table and leaves its locals good.
LEMMA DialogueLemma ==
  ASSUME IInv, NEW c \in Sessions, NEW s \in Session,
         sess' = [sess EXCEPT ![c] = s], SessionOK(c)',
         UNCHANGED <<now, database, canc, due, wk>>
  PROVE  IInv'
<1>1. Keeps
  BY DEF Keeps, IInv, TypeOK, database, Inserted
<1>2. TypeOK'
  BY DEF IInv, TypeOK, database
<1>3. RowsOK' /\ CompletedIsAccounted'
  BY DEF IInv, RowsOK, RowOK, Inserted, CompletedIsAccounted, database
<1>4. \A d \in Sessions : SessionOK(d)'
  <2>1. \A d \in Sessions : d # c => sess'[d] = sess[d]
    BY DEF IInv, TypeOK
  <2> QED BY <1>1, <2>1, FrameLemma
<1> QED BY <1>1, <1>2, <1>3, <1>4, FrameLemma DEF IInv

LEMMA IdleSessionType == IdleSession \in Session
BY DEF IdleSession, Session, SessionPcs

LEMMA LeaveLemma ==
  ASSUME IInv, NEW c \in Sessions, Leave(c), UNCHANGED <<now, database, canc, due, wk>>
  PROVE  IInv'
<1>1. sess' = [sess EXCEPT ![c] = IdleSession] /\ sess'[c] = IdleSession
  BY DEF Leave, IInv, TypeOK
<1>2. SessionOK(c)'
  BY <1>1 DEF SessionOK, IdleSession
<1> QED BY <1>1, <1>2, IdleSessionType, DialogueLemma

LEMMA GotoLemma ==
  ASSUME IInv, NEW c \in Sessions, NEW pc \in SessionPcs, Goto(c, pc),
         sess[c].pc # "idle",
         pc \in {"check", "insert", "sync", "commit"} => sess[c].pc \in {"check", "insert", "sync", "commit"},
         pc \in {"closeRead", "closeCommit"} => sess[c].pc \in {"closeRead", "closeCommit"},
         UNCHANGED <<now, database, canc, due, wk>>
  PROVE  IInv'
<1> DEFINE s == [sess[c] EXCEPT !.pc = pc]
<1>1. sess[c] \in Session /\ SessionOK(c)
  BY DEF IInv, TypeOK
<1>2. s \in Session
  BY <1>1 DEF Session
<1>3. sess' = [sess EXCEPT ![c] = s] /\ sess'[c] = s
  BY DEF Goto, IInv, TypeOK
<1>4. /\ s.pc = pc /\ s.object = sess[c].object /\ s.sched = sess[c].sched
      /\ s.shift = sess[c].shift
  BY <1>1 DEF Session
<1>5. Inserted' = Inserted
  BY DEF Inserted, database
<1>6. SessionOK(c)'
  <2> HIDE DEF s
  <2> QED BY <1>1, <1>3, <1>4, <1>5 DEF SessionOK
<1> HIDE DEF s
<1> QED BY <1>2, <1>3, <1>6, DialogueLemma

-----------------------------------------------------------------------------
(* Each action of a dialogue keeps the invariant.                          *)

LEMMA PickedSchedule ==
  ASSUME NEW u \in Users, NEW k \in PlannedToday(u)
  PROVE  k \in Schedules /\ SchedUser[k] = u /\ k # NoSched /\ SchedObject[k] \in Objects
BY ConstantsAssumption DEF PlannedToday

LEMMA AskOpenShiftIInv ==
  ASSUME IInv, NEW c \in Sessions, NEW o \in Objects, NEW k \in Schedules \cup {NoSched},
         AskOpenShift(c, o, k)
  PROVE  IInv'
<1> DEFINE s == [IdleSession EXCEPT !.pc = "check", !.object = o, !.sched = k]
<1>1. s \in Session /\ s.pc = "check" /\ s.object = o /\ s.sched = k
  BY DEF IdleSession, Session, SessionPcs
<1>2. sess' = [sess EXCEPT ![c] = s] /\ sess'[c] = s
  BY DEF AskOpenShift, IInv, TypeOK
<1>3. k # NoSched => SchedUser[k] = UserOf[c] /\ SchedObject[k] = o
  BY ConstantsAssumption, PickedSchedule DEF AskOpenShift
<1> HIDE DEF s
<1>4. SessionOK(c)'
  BY <1>1, <1>2, <1>3 DEF SessionOK
<1> QED BY <1>1, <1>2, <1>4, DialogueLemma DEF AskOpenShift

LEMMA CheckOpenIInv ==
  ASSUME IInv, NEW c \in Sessions, CheckOpen(c) PROVE IInv'
<1>1. sess[c].pc = "check" /\ UNCHANGED <<now, database, canc, due, wk>>
  BY DEF CheckOpen
<1>2. \/ Goto(c, "check") \/ Goto(c, "rollback") \/ Goto(c, "insert") \/ Goto(c, "sync")
  BY DEF CheckOpen, OpenFails
<1>3. {"check", "rollback", "insert", "sync"} \subseteq SessionPcs
  BY DEF SessionPcs
<1> QED BY <1>1, <1>2, <1>3, GotoLemma

LEMMA OpenRaisesIInv ==
  ASSUME IInv, NEW c \in Sessions, OpenRaises(c) PROVE IInv'
<1>1. sess[c].pc \in {"insert", "sync", "commit"} /\ UNCHANGED <<now, database, canc, due, wk>>
  BY DEF OpenRaises
<1>2. Goto(c, "check") \/ Goto(c, "rollback")
  BY DEF OpenRaises, OpenFails
<1>3. {"check", "rollback"} \subseteq SessionPcs
  BY DEF SessionPcs
<1> QED BY <1>1, <1>2, <1>3, GotoLemma

LEMMA SyncOnShiftOpenIInv ==
  ASSUME IInv, NEW c \in Sessions, SyncOnShiftOpen(c) PROVE IInv'
<1> PICK b \in {"active", "cancelled"} :
      sess' = [sess EXCEPT ![c].pc = "commit", ![c].born = b]
  BY DEF SyncOnShiftOpen
<1> DEFINE s == [sess[c] EXCEPT !.pc = "commit", !.born = b]
<1>1. sess[c] \in Session /\ SessionOK(c) /\ sess[c].pc = "sync"
  BY DEF IInv, TypeOK, SyncOnShiftOpen
<1>2. s \in Session /\ s.pc = "commit" /\ s.object = sess[c].object /\ s.sched = sess[c].sched
  BY <1>1 DEF Session, SessionPcs
<1>3. sess' = [sess EXCEPT ![c] = s] /\ sess'[c] = s
  BY DEF IInv, TypeOK
<1> HIDE DEF s
<1>4. SessionOK(c)'
  BY <1>1, <1>2, <1>3 DEF SessionOK
<1> QED BY <1>2, <1>3, <1>4, DialogueLemma DEF SyncOnShiftOpen

LEMMA AskOpenObjectIInv ==
  ASSUME IInv, NEW c \in Sessions, NEW o \in Objects, AskOpenObject(c, o) PROVE IInv'
<1> DEFINE s == [IdleSession EXCEPT !.pc = "openObject", !.mode = "object", !.object = o]
<1>1. s \in Session /\ s.pc = "openObject" /\ s.object = o
  BY DEF IdleSession, Session, SessionPcs
<1>2. sess' = [sess EXCEPT ![c] = s] /\ sess'[c] = s
  BY DEF AskOpenObject, IInv, TypeOK
<1> HIDE DEF s
<1>3. SessionOK(c)'
  BY <1>1, <1>2 DEF SessionOK
<1> QED BY <1>1, <1>2, <1>3, DialogueLemma DEF AskOpenObject

LEMMA CheckOpenObjectIInv ==
  ASSUME IInv, NEW c \in Sessions, CheckOpenObject(c) PROVE IInv'
<1>1. /\ sess[c].pc = "openObject" /\ UNCHANGED <<now, database, canc, due, wk>>
      /\ Leave(c) \/ Goto(c, "insertObject")
  BY DEF CheckOpenObject
<1>2. "insertObject" \in SessionPcs
  BY DEF SessionPcs
<1> QED BY <1>1, <1>2, LeaveLemma, GotoLemma

LEMMA ReadOpeningIInv ==
  ASSUME IInv, NEW c \in Sessions, sess[c].pc # "idle", ReadOpening(c),
         UNCHANGED <<now, database, canc, due, wk>>
  PROVE  IInv'
<1>1. CASE Leave(c)
  BY <1>1, LeaveLemma
<1>2. CASE ~Leave(c)
  <2> DEFINE o == sess[c].object
             r == CHOOSE x \in openRows[o] : TRUE
             s == [sess[c] EXCEPT !.pc = "closeRow", !.row = r]
  <2>1. sess[c] \in Session /\ SessionOK(c) /\ o \in Objects
    BY DEF IInv, TypeOK, SessionOK
  <2>2. Cardinality(openRows[o]) = 1 /\ sess' = [sess EXCEPT ![c].pc = "closeRow", ![c].row = r]
    BY <1>2 DEF ReadOpening
  <2>3. openRows[o] # {}
    <3>1. SUFFICES ASSUME openRows[o] = {} PROVE FALSE
      OBVIOUS
    <3>2. Cardinality(openRows[o]) = 0
      BY <3>1, FS_EmptySet
    <3> QED BY <2>2, <3>2
  <2>4. r \in OpeningIds
    BY <2>1, <2>3 DEF IInv, TypeOK
  <2> HIDE DEF r
  <2>5. s \in Session /\ s.pc = "closeRow" /\ s.object = o
    BY <2>1, <2>4 DEF Session, SessionPcs
  <2>6. sess' = [sess EXCEPT ![c] = s] /\ sess'[c] = s
    BY <2>2 DEF IInv, TypeOK
  <2> HIDE DEF s
  <2>7. SessionOK(c)'
    BY <2>1, <2>5, <2>6 DEF SessionOK
  <2> QED BY <2>5, <2>6, <2>7, DialogueLemma
<1> QED BY <1>1, <1>2

LEMMA RollbackOpenObjectIInv ==
  ASSUME IInv, NEW c \in Sessions, RollbackOpenObject(c) PROVE IInv'
BY ReadOpeningIInv DEF RollbackOpenObject

\* An active row of the user is there, at an object.
LEMMA ActiveRow ==
  ASSUME IInv, NEW u \in Users, NEW i \in ActiveOf(u)
  PROVE  i \in Inserted /\ shift[i].object \in Objects /\ i \in ShiftIds
BY DEF ActiveOf, Inserted, IInv, RowsOK, RowOK

LEMMA AskCloseLemma ==
  ASSUME IInv, NEW c \in Sessions, NEW i \in ActiveOf(UserOf[c]), NEW s \in Session,
         s.pc = "closeRead", s.object = shift[i].object, s.shift = i,
         sess' = [sess EXCEPT ![c] = s], UNCHANGED <<now, database, canc, due, wk>>
  PROVE  IInv'
<1>1. i \in Inserted /\ shift[i].object \in Objects
  BY ActiveRow, ConstantsAssumption
<1>2. Inserted' = Inserted /\ sess'[c] = s
  BY DEF Inserted, database, IInv, TypeOK
<1>3. SessionOK(c)'
  BY <1>1, <1>2 DEF SessionOK
<1> QED BY <1>3, DialogueLemma

LEMMA AskCloseShiftIInv ==
  ASSUME IInv, NEW c \in Sessions, NEW i \in ShiftIds, AskCloseShift(c, i) PROVE IInv'
<1> DEFINE s == [IdleSession EXCEPT !.pc = "closeRead", !.object = shift[i].object, !.shift = i]
<1>1. i \in ActiveOf(UserOf[c]) /\ shift[i].object \in Objects
  BY ActiveRow, ConstantsAssumption DEF AskCloseShift
<1>2. s \in Session /\ s.pc = "closeRead" /\ s.object = shift[i].object /\ s.shift = i
  BY <1>1 DEF IdleSession, Session, SessionPcs
<1>3. sess' = [sess EXCEPT ![c] = s] /\ UNCHANGED <<now, database, canc, due, wk>>
  BY DEF AskCloseShift
<1> HIDE DEF s
<1> QED BY <1>1, <1>2, <1>3, AskCloseLemma

LEMMA AskCloseObjectIInv ==
  ASSUME IInv, NEW c \in Sessions, NEW i \in ShiftIds, AskCloseObject(c, i) PROVE IInv'
<1> DEFINE s == [IdleSession EXCEPT !.pc = "closeRead", !.mode = "object",
                                   !.object = shift[i].object, !.shift = i]
<1>1. i \in ActiveOf(UserOf[c]) /\ shift[i].object \in Objects
  BY ActiveRow, ConstantsAssumption DEF AskCloseObject
<1>2. s \in Session /\ s.pc = "closeRead" /\ s.object = shift[i].object /\ s.shift = i
  BY <1>1 DEF IdleSession, Session, SessionPcs
<1>3. sess' = [sess EXCEPT ![c] = s] /\ UNCHANGED <<now, database, canc, due, wk>>
  BY DEF AskCloseObject
<1> HIDE DEF s
<1> QED BY <1>1, <1>2, <1>3, AskCloseLemma

LEMMA CloseShiftReadIInv ==
  ASSUME IInv, NEW c \in Sessions, CloseShiftRead(c) PROVE IInv'
<1>1. /\ sess[c].pc = "closeRead" /\ UNCHANGED <<now, database, canc, due, wk>>
      /\ Leave(c) \/ Goto(c, "closeCommit")
  BY DEF CloseShiftRead
<1>2. "closeCommit" \in SessionPcs
  BY DEF SessionPcs
<1> QED BY <1>1, <1>2, LeaveLemma, GotoLemma

LEMMA AfterCloseIInv ==
  ASSUME IInv, NEW c \in Sessions, AfterClose(c) PROVE IInv'
<1>1. sess[c].pc = "closed" /\ UNCHANGED <<now, database, canc, due, wk>>
  BY DEF AfterClose
<1>2. ReadOpening(c) \/ Leave(c)
  BY DEF AfterClose
<1> QED BY <1>1, <1>2, LeaveLemma, ReadOpeningIInv

LEMMA AbandonIInv ==
  ASSUME IInv, NEW c \in Sessions, Abandon(c) PROVE IInv'
BY LeaveLemma DEF Abandon

\* The opening of an object is inserted or closed.
LEMMA OpeningsLemma ==
  ASSUME IInv, NEW c \in Sessions, NEW s \in Session,
         sess' = [sess EXCEPT ![c] = s], SessionOK(c)',
         UNCHANGED <<now, sched, autoClosed, shift, canc, due, wk>>,
         openRows' \in [Objects -> SUBSET OpeningIds], nOpenings' \in 0 .. MaxOpenings
  PROVE  IInv'
<1>1. Keeps
  BY DEF Keeps, Inserted, IInv, TypeOK
<1>2. TypeOK'
  BY DEF IInv, TypeOK
<1>3. RowsOK' /\ CompletedIsAccounted'
  BY DEF IInv, RowsOK, RowOK, Inserted, CompletedIsAccounted
<1>4. \A d \in Sessions : SessionOK(d)'
  <2>1. \A d \in Sessions : d # c => sess'[d] = sess[d]
    BY DEF IInv, TypeOK
  <2> QED BY <1>1, <2>1, FrameLemma
<1> QED BY <1>1, <1>2, <1>3, <1>4, FrameLemma DEF IInv

LEMMA InsertOpeningRowType ==
  ASSUME IInv, NEW o \in Objects, InsertOpeningRow(o)
  PROVE  openRows' \in [Objects -> SUBSET OpeningIds] /\ nOpenings' \in 0 .. MaxOpenings
BY ConstantsAssumption DEF InsertOpeningRow, IInv, TypeOK, OpeningIds

LEMMA InsertOpeningIInv ==
  ASSUME IInv, NEW c \in Sessions, InsertOpening(c) PROVE IInv'
<1> DEFINE s == [sess[c] EXCEPT !.pc = "sync"]
<1>1. /\ sess[c] \in Session /\ SessionOK(c) /\ sess[c].pc = "insert"
      /\ InsertOpeningRow(sess[c].object)
      /\ UNCHANGED <<now, sched, autoClosed, shift, canc, due, wk>>
  BY DEF IInv, TypeOK, InsertOpening
<1>2. s \in Session /\ s.pc = "sync" /\ s.object = sess[c].object /\ s.sched = sess[c].sched
  BY <1>1 DEF Session, SessionPcs
<1>3. sess' = [sess EXCEPT ![c] = s] /\ sess'[c] = s
  BY DEF IInv, TypeOK, InsertOpening, Goto
<1> HIDE DEF s
<1>4. SessionOK(c)' /\ sess[c].object \in Objects
  BY <1>1, <1>2, <1>3 DEF SessionOK
<1> QED BY <1>1, <1>2, <1>3, <1>4, OpeningsLemma, InsertOpeningRowType

LEMMA InsertObjectOpeningIInv ==
  ASSUME IInv, NEW c \in Sessions, InsertObjectOpening(c) PROVE IInv'
<1> DEFINE o == sess[c].object
           here == {k \in PlannedToday(UserOf[c]) : SchedObject[k] = o}
<1>1. /\ sess[c] \in Session /\ o \in Objects /\ InsertOpeningRow(o)
      /\ UNCHANGED <<now, sched, autoClosed, shift, canc, due, wk>>
  BY DEF IInv, TypeOK, InsertObjectOpening, SessionOK
<1> PICK k \in IF here = {} THEN {NoSched} ELSE here :
      sess' = [sess EXCEPT ![c].pc = "check", ![c].sched = k]
  BY DEF InsertObjectOpening
<1>2. /\ k \in Schedules \cup {NoSched}
      /\ k # NoSched => SchedUser[k] = UserOf[c] /\ SchedObject[k] = o
  BY DEF PlannedToday
<1> DEFINE s == [sess[c] EXCEPT !.pc = "check", !.sched = k]
<1>3. s \in Session /\ s.pc = "check" /\ s.object = o /\ s.sched = k
  BY <1>1, <1>2 DEF Session, SessionPcs
<1>4. sess' = [sess EXCEPT ![c] = s] /\ sess'[c] = s
  BY DEF IInv, TypeOK
<1> HIDE DEF s, here
<1>5. SessionOK(c)'
  BY <1>1, <1>2, <1>3, <1>4 DEF SessionOK
<1> QED BY <1>1, <1>3, <1>4, <1>5, OpeningsLemma, InsertOpeningRowType

LEMMA CloseObjectIInv ==
  ASSUME IInv, NEW c \in Sessions, CloseObject(c) PROVE IInv'
<1>1. /\ sess' = [sess EXCEPT ![c] = IdleSession]
      /\ UNCHANGED <<now, sched, autoClosed, shift, nOpenings, canc, due, wk>>
      /\ openRows' \in [Objects -> SUBSET OpeningIds]
      /\ nOpenings \in 0 .. MaxOpenings
  BY DEF CloseObject, Leave, IInv, TypeOK
<1>2. sess'[c] = IdleSession
  BY <1>1 DEF IInv, TypeOK
<1>3. SessionOK(c)'
  BY <1>2 DEF SessionOK, IdleSession
<1> QED BY <1>1, <1>3, IdleSessionType, OpeningsLemma

-----------------------------------------------------------------------------
(* The steps that change the rows: each row is left alone, inserted or     *)
(* ended, as ShiftRecords has it.                                          *)

RowsBegun == \A i \in ShiftIds : shift[i].status = "none" /\ shift'[i].status # "none"
                                 => shift'[i].start <= now

LEMMA RowsLemma ==
  ASSUME IInv, TypeOK', Records!Next, RowsBegun, now <= now'
  PROVE  Keeps /\ RowsOK'
<1>1. Keeps
  <2>1. now' \in Nat
    BY DEF TypeOK
  <2>2. ASSUME NEW i \in Inserted
        PROVE  /\ shift'[i].status # "none"
               /\ shift'[i].user = shift[i].user
               /\ shift'[i].object = shift[i].object
               /\ shift'[i].sched = shift[i].sched
               /\ shift'[i].start = shift[i].start
    <3>1. i \in ShiftIds /\ shift[i] \in ShiftRow /\ shift[i].status # "none"
      BY <2>2 DEF Inserted, IInv, TypeOK
    <3>2. shift'[i] = shift[i] \/ Records!End(i)
      BY <3>1 DEF Records!Next, Records!Insert
    <3>3. CASE Records!End(i)
      <4> PICK t \in Final : shift'[i] = [shift[i] EXCEPT !.status = t]
        BY <3>3 DEF Records!End, Records!Ended, Final
      <4> QED BY <3>1 DEF ShiftRow, Final
    <3> QED BY <3>1, <3>2, <3>3
  <2> QED BY <2>1, <2>2 DEF Keeps
<1>2. ASSUME NEW i \in Inserted' PROVE RowOK(i)'
  <2>1. i \in ShiftIds /\ shift'[i] \in ShiftRow /\ shift[i] \in ShiftRow
    BY <1>2 DEF Inserted, TypeOK, IInv
  <2>2. CASE i \in Inserted
    <3>1. RowOK(i) /\ shift[i].start \in Nat /\ now \in Nat /\ now' \in Nat
      BY <2>1, <2>2 DEF IInv, RowsOK, TypeOK, ShiftRow
    <3> QED BY <1>1, <2>2, <3>1 DEF Keeps, RowOK
  <2>3. CASE i \notin Inserted
    <3>1. shift[i].status = "none" /\ shift'[i].status # "none"
      BY <2>1, <2>3, <1>2 DEF Inserted
    <3>2. Records!Insert(i)
      BY <2>1, <3>1 DEF Records!Next, Records!End
    <3>3. shift'[i].start <= now' /\ now \in Nat /\ now' \in Nat
      BY <2>1, <3>1 DEF RowsBegun, IInv, TypeOK, ShiftRow
    <3> QED BY <3>2, <3>3 DEF Records!Insert, RowOK
  <2> QED BY <2>2, <2>3
<1> QED BY <1>1, <1>2 DEF RowsOK

\* Rows that end, whoever ends them.
LEMMA EndLemma ==
  ASSUME IInv, NEW S, S \subseteq Inserted, NEW status \in Final,
         shift' = [i \in ShiftIds |-> IF i \in S THEN [shift[i] EXCEPT !.status = status]
                                      ELSE shift[i]]
  PROVE  shift' \in [ShiftIds -> ShiftRow] /\ Records!Next /\ RowsBegun
<1>1. \A i \in ShiftIds : shift[i] \in ShiftRow
  BY DEF IInv, TypeOK
<1>2. \A i \in ShiftIds : [shift[i] EXCEPT !.status = status] \in ShiftRow
  BY <1>1 DEF ShiftRow, Final
<1>3. shift' \in [ShiftIds -> ShiftRow]
  BY <1>1, <1>2
<1>4. ASSUME NEW i \in ShiftIds PROVE shift'[i] = shift[i] \/ Records!End(i)
  BY <1>4 DEF Records!End, Records!Ended, Final, Inserted
<1>5. RowsBegun
  BY DEF RowsBegun, Inserted
<1> QED BY <1>3, <1>4, <1>5 DEF Records!Next

\* base is the table with some of its rows ended.
Ending(base) ==
  \A j \in ShiftIds :
    \/ base[j] = shift[j]
    \/ /\ j \in Inserted
       /\ \E s \in Final : base[j] = [shift[j] EXCEPT !.status = s]

\* What a new row must be.
NewRowOK(r) ==
  /\ r \in ShiftRow
  /\ r.status \in {"active", "cancelled"}
  /\ r.user \in Users
  /\ r.object \in Objects
  /\ r.sched # NoSched => /\ SchedUser[r.sched] = r.user
                         /\ SchedObject[r.sched] = r.object
  /\ r.start <= now

\* A row inserted, and others that end with it.
LEMMA InsertLemma ==
  ASSUME IInv, NEW base \in [ShiftIds -> ShiftRow], Ending(base),
         NEW i \in ShiftIds, NextShift(i), NEW r, NewRowOK(r), shift' = [base EXCEPT ![i] = r]
  PROVE  /\ shift' \in [ShiftIds -> ShiftRow] /\ Records!Next /\ RowsBegun
         /\ \A j \in Inserted : shift'[j] = base[j]
<1>1. shift'[i] = r /\ \A j \in ShiftIds : j # i => shift'[j] = base[j]
  OBVIOUS
<1>2. Records!Insert(i)
  BY <1>1 DEF Records!Insert, NextShift, NewRowOK, ShiftRow
<1>3. ASSUME NEW j \in ShiftIds, j # i PROVE shift'[j] = shift[j] \/ Records!End(j)
  BY <1>1, <1>3 DEF Records!End, Records!Ended, Final, Inserted, Ending
<1>4. RowsBegun
  <2>1. \A j \in ShiftIds : shift[j].status = "none" => base[j] = shift[j]
    BY DEF Ending, Inserted
  <2> QED BY <1>1, <2>1 DEF RowsBegun, NewRowOK
<1>5. i \notin Inserted
  BY DEF NextShift, Inserted
<1> QED BY <1>1, <1>2, <1>3, <1>4, <1>5 DEF Records!Next, Inserted, NewRowOK

\* The invariant after a step of which these parts are known.
LEMMA StepLemma ==
  ASSUME IInv, TypeOK', Records!Next, RowsBegun, now <= now', CompletedIsAccounted',
         \A c \in Sessions : sess'[c] = sess[c] \/ SessionOK(c)',
         \A m \in Managers : canc'[m] = canc[m] \/ CancelOK(m)',
         \A v \in Verifiers : due'[v] = due[v] \/ VerifyOK(v)',
         \A w \in Workers : wk'[w] = wk[w] \/ RunOK(w)'
  PROVE  IInv'
<1>1. Keeps /\ RowsOK'
  BY RowsLemma
<1> QED BY <1>1, FrameLemma DEF IInv

LEMMA CommitOpenIInv ==
  ASSUME IInv, NEW c \in Sessions, CommitOpen(c)
  PROVE  IInv' /\ Records!Next
<1> PICK i \in ShiftIds :
      /\ NextShift(i)
      /\ shift' = [shift EXCEPT ![i] =
           NewShift(sess[c].born, UserOf[c], sess[c].object, sess[c].sched, now)]
  BY DEF CommitOpen
<1>1. /\ sess[c] \in Session /\ SessionOK(c) /\ sess[c].pc = "commit" /\ now \in Nat
      /\ shift \in [ShiftIds -> ShiftRow]
  BY DEF IInv, TypeOK, CommitOpen
<1>2. /\ sess[c].born \in {"active", "cancelled"} /\ UserOf[c] \in Users
      /\ sess[c].object \in Objects /\ sess[c].sched \in Schedules \cup {NoSched}
      /\ sess[c].sched # NoSched => /\ SchedUser[sess[c].sched] = UserOf[c]
                                   /\ SchedObject[sess[c].sched] = sess[c].object
  BY <1>1, ConstantsAssumption DEF Session, SessionOK
<1>3. /\ shift' \in [ShiftIds -> ShiftRow] /\ Records!Next /\ RowsBegun
      /\ \A j \in Inserted : shift'[j] = shift[j]
  <2>1. NewRowOK(NewShift(sess[c].born, UserOf[c], sess[c].object, sess[c].sched, now))
    BY <1>1, <1>2 DEF NewRowOK, NewShift, ShiftRow
  <2>2. Ending(shift)
    BY DEF Ending
  <2> QED BY <1>1, <2>1, <2>2, InsertLemma
<1>4. /\ sess' = [sess EXCEPT ![c] = IdleSession]
      /\ UNCHANGED <<now, sched, autoClosed, openRows, nOpenings, canc, due, wk>>
  BY DEF CommitOpen, Leave
<1>5. TypeOK'
  BY <1>3, <1>4, IdleSessionType DEF IInv, TypeOK
<1>6. CompletedIsAccounted'
  <2> SUFFICES ASSUME NEW k \in Schedules, sched[k] = "completed", ~autoClosed[k]
               PROVE  \E j \in ShiftIds : shift'[j].sched = k /\ shift'[j].status = "completed"
    BY <1>4 DEF CompletedIsAccounted
  <2> PICK j \in ShiftIds : shift[j].sched = k /\ shift[j].status = "completed"
    BY DEF IInv, CompletedIsAccounted
  <2> QED BY <1>3 DEF Inserted
<1>7. \A d \in Sessions : sess'[d] = sess[d] \/ SessionOK(d)'
  BY <1>4 DEF IInv, TypeOK, SessionOK, IdleSession
<1> QED BY <1>1, <1>3, <1>4, <1>5, <1>6, <1>7, StepLemma

LEMMA CloseShiftCommitIInv ==
  ASSUME IInv, NEW c \in Sessions, CloseShiftCommit(c)
  PROVE  IInv' /\ Records!Next
<1> DEFINE i == sess[c].shift
           k == shift[i].sched
           cancelled == k # NoSched /\ sched[k] = "cancelled"
           status == IF cancelled THEN "cancelled" ELSE "completed"
<1>1. /\ sess[c] \in Session /\ SessionOK(c) /\ sess[c].pc = "closeCommit" /\ now \in Nat
      /\ shift \in [ShiftIds -> ShiftRow] /\ sched \in [Schedules -> SchedStatus]
  BY DEF IInv, TypeOK, CloseShiftCommit
<1>2. i \in Inserted /\ i \in ShiftIds /\ k \in Schedules \cup {NoSched}
  BY <1>1 DEF SessionOK, Inserted, ShiftRow
<1>3. /\ shift' = [shift EXCEPT ![i].status = status]
      /\ sched' = IF k # NoSched /\ ~cancelled THEN [sched EXCEPT ![k] = "completed"] ELSE sched
      /\ Goto(c, "closed")
      /\ UNCHANGED <<now, autoClosed, openRows, nOpenings, canc, due, wk>>
  BY DEF CloseShiftCommit
<1>4. shift' = [j \in ShiftIds |-> IF j \in {i} THEN [shift[j] EXCEPT !.status = status]
                                   ELSE shift[j]]
  BY <1>1, <1>3
<1>5. shift' \in [ShiftIds -> ShiftRow] /\ Records!Next /\ RowsBegun
  BY <1>2, <1>4, EndLemma DEF Final
<1>6. sched' \in [Schedules -> SchedStatus]
  BY <1>1, <1>2, <1>3 DEF SchedStatus
<1>7. sess' \in [Sessions -> Session]
  <2>1. [sess[c] EXCEPT !.pc = "closed"] \in Session
    BY <1>1 DEF Session, SessionPcs
  <2> QED BY <1>3, <2>1 DEF Goto, IInv, TypeOK
<1>8. TypeOK'
  BY <1>3, <1>5, <1>6, <1>7 DEF IInv, TypeOK
<1>9. CompletedIsAccounted'
  <2> SUFFICES ASSUME NEW n \in Schedules, sched'[n] = "completed", ~autoClosed[n]
               PROVE  \E j \in ShiftIds : shift'[j].sched = n /\ shift'[j].status = "completed"
    BY <1>3 DEF CompletedIsAccounted
  <2>1. shift'[i].sched = k /\ shift'[i].status = status
    BY <1>1, <1>2, <1>4 DEF ShiftRow
  <2>2. CASE n = k
    BY <1>1, <1>2, <1>3, <2>1, <2>2, ConstantsAssumption
  <2>3. CASE n # k
    <3>1. sched[n] = "completed"
      BY <1>1, <1>2, <1>3, <2>3
    <3> PICK j \in ShiftIds : shift[j].sched = n /\ shift[j].status = "completed"
      BY <3>1 DEF IInv, CompletedIsAccounted
    <3> QED BY <1>4, <2>3
  <2> QED BY <2>2, <2>3
<1>10. \A d \in Sessions : sess'[d] = sess[d] \/ SessionOK(d)'
  <2>1. \A d \in Sessions : d # c => sess'[d] = sess[d]
    BY <1>3 DEF Goto, IInv, TypeOK
  <2>2. sess'[c].pc = "closed" /\ sess'[c].object = sess[c].object
    BY <1>1, <1>3 DEF Goto, IInv, TypeOK, Session
  <2>3. SessionOK(c)'
    BY <1>1, <2>2 DEF SessionOK
  <2> QED BY <2>1, <2>3
<1> QED BY <1>1, <1>3, <1>5, <1>8, <1>9, <1>10, StepLemma

-----------------------------------------------------------------------------
(* The web requests and the clock.                                         *)

LEMMA SameTables ==
  ASSUME IInv, UNCHANGED database
  PROVE  Records!Next /\ RowsBegun /\ CompletedIsAccounted'
BY DEF Records!Next, RowsBegun, IInv, CompletedIsAccounted, database

LEMMA StartCancelLemma ==
  ASSUME IInv, NEW m \in Managers, NEW scheds \in SUBSET Schedules,
         NEW linked \in SUBSET Inserted, NEW fresh \in BOOLEAN,
         NEW place \in Objects \cup {NoObject},
         \A i \in linked : shift[i].sched \in scheds \cup {NoSched},
         StartCancel(m, scheds, linked, fresh, place)
  PROVE  IInv'
<1> DEFINE r == [busy |-> TRUE, scheds |-> scheds, linked |-> linked, fresh |-> fresh,
                 place |-> place]
<1>1. r \in Cancellation /\ r.linked = linked /\ r.scheds = scheds
  BY DEF Cancellation, Inserted
<1>2. canc' = [canc EXCEPT ![m] = r] /\ UNCHANGED <<now, database, sess, due, wk>>
  BY DEF StartCancel
<1> HIDE DEF r
<1>3. TypeOK'
  BY <1>1, <1>2 DEF IInv, TypeOK, database
<1>4. Inserted' = Inserted /\ shift' = shift /\ now <= now'
  BY <1>2 DEF Inserted, database, IInv, TypeOK
<1>5. canc'[m] = r
  BY <1>2 DEF IInv, TypeOK
<1>6. CancelOK(m)'
  BY <1>1, <1>4, <1>5 DEF CancelOK
<1>7. \A n \in Managers : canc'[n] = canc[n] \/ CancelOK(n)'
  BY <1>2, <1>6 DEF IInv, TypeOK
<1> QED BY <1>2, <1>3, <1>4, <1>7, SameTables, StepLemma

LEMMA CancelReadIInv ==
  ASSUME IInv, NEW m \in Managers,
         \/ \E k \in Schedules, fresh \in BOOLEAN : CancelScheduleRead(m, k, fresh)
         \/ \E k \in Schedules : EmployeeCancelRead(m, k)
         \/ \E u \in Users : TerminateRead(m, u)
         \/ \E i \in ShiftIds : CancelShiftRead(m, i)
         \/ \E o \in Objects : DeleteObjectRead(m, o)
  PROVE  IInv'
<1>1. ASSUME NEW k \in Schedules, NEW fresh \in BOOLEAN, CancelScheduleRead(m, k, fresh)
      PROVE  IInv'
  <2> DEFINE linked == IF fresh THEN {} ELSE LinkedActive(k)
  <2>1. linked \in SUBSET Inserted /\ \A i \in linked : shift[i].sched = k
    BY DEF LinkedActive, Inserted
  <2>2. StartCancel(m, {k}, linked, fresh, NoObject)
    BY <1>1 DEF CancelScheduleRead
  <2> HIDE DEF linked
  <2> QED BY <2>1, <2>2, StartCancelLemma
<1>2. ASSUME NEW k \in Schedules, EmployeeCancelRead(m, k) PROVE IInv'
  <2>1. StartCancel(m, {k}, {}, FALSE, NoObject)
    BY <1>2 DEF EmployeeCancelRead
  <2> DEFINE none == {}
  <2>2. none \in SUBSET Inserted /\ \A i \in none : shift[i].sched \in {k} \cup {NoSched}
    OBVIOUS
  <2>3. StartCancel(m, {k}, none, FALSE, NoObject) /\ {k} \in SUBSET Schedules
    BY <2>1
  <2> HIDE DEF none
  <2> QED BY <2>2, <2>3, StartCancelLemma
<1>3. ASSUME NEW u \in Users, TerminateRead(m, u) PROVE IInv'
  <2> PICK S \in SUBSET Schedules : StartCancel(m, S, {}, TRUE, NoObject)
    BY <1>3 DEF TerminateRead
  <2> DEFINE none == {}
  <2>1. none \in SUBSET Inserted /\ \A i \in none : shift[i].sched \in S \cup {NoSched}
    OBVIOUS
  <2>2. StartCancel(m, S, none, TRUE, NoObject)
    OBVIOUS
  <2> HIDE DEF none
  <2> QED BY <2>1, <2>2, StartCancelLemma
<1>4. ASSUME NEW i \in ShiftIds, CancelShiftRead(m, i) PROVE IInv'
  <2>1. StartCancel(m, {}, {i}, FALSE, NoObject) /\ i \in Inserted /\ shift[i].sched = NoSched
    BY <1>4 DEF CancelShiftRead, Inserted
  <2> DEFINE none == {}
             one == {i}
  <2>2. /\ none \in SUBSET Schedules /\ one \in SUBSET Inserted
        /\ \A j \in one : shift[j].sched \in none \cup {NoSched}
        /\ StartCancel(m, none, one, FALSE, NoObject)
    BY <2>1
  <2> HIDE DEF none, one
  <2> QED BY <2>2, StartCancelLemma
<1>5. ASSUME NEW o \in Objects, DeleteObjectRead(m, o) PROVE IInv'
  <2> PICK S \in SUBSET Schedules : StartCancel(m, S, {}, FALSE, o)
    BY <1>5 DEF DeleteObjectRead
  <2> DEFINE none == {}
  <2>1. none \in SUBSET Inserted /\ \A i \in none : shift[i].sched \in S \cup {NoSched}
    OBVIOUS
  <2>2. StartCancel(m, S, none, FALSE, o)
    OBVIOUS
  <2> HIDE DEF none
  <2> QED BY <2>1, <2>2, StartCancelLemma
<1> QED BY <1>1, <1>2, <1>3, <1>4, <1>5

LEMMA CancelCommitIInv ==
  ASSUME IInv, NEW m \in Managers, CancelCommit(m)
  PROVE  IInv' /\ Records!Next
<1> DEFINE scheds == canc[m].scheds
           anew == IF canc[m].fresh THEN UNION {LinkedActive(k) : k \in scheds} ELSE {}
           cancelled == canc[m].linked \cup anew \cup ActiveAt(canc[m].place)
<1>1. canc[m] \in Cancellation /\ CancelOK(m) /\ now \in Nat
  BY DEF IInv, TypeOK
<1>2. /\ sched' = [k \in Schedules |-> IF k \in scheds THEN "cancelled" ELSE sched[k]]
      /\ shift' = [i \in ShiftIds |->
           IF i \in cancelled THEN [shift[i] EXCEPT !.status = "cancelled"] ELSE shift[i]]
      /\ canc' = [canc EXCEPT ![m] = IdleCancel]
      /\ UNCHANGED <<now, autoClosed, openRows, nOpenings, sess, due, wk>>
  BY DEF CancelCommit
<1>3. /\ cancelled \subseteq Inserted
      /\ \A i \in cancelled : \/ shift[i].sched \in scheds \cup {NoSched}
                             \/ shift[i].status = "active"
  BY <1>1 DEF CancelOK, LinkedActive, ActiveAt, Inserted, Cancellation
<1> HIDE DEF scheds, anew, cancelled
<1>4. shift' \in [ShiftIds -> ShiftRow] /\ Records!Next /\ RowsBegun
  BY <1>2, <1>3, EndLemma DEF Final
<1>5. IdleCancel \in Cancellation
  BY DEF IdleCancel, Cancellation
<1>6. sched' \in [Schedules -> SchedStatus]
  BY <1>2 DEF IInv, TypeOK, SchedStatus
<1>7. TypeOK'
  BY <1>2, <1>4, <1>5, <1>6 DEF IInv, TypeOK
<1>8. CompletedIsAccounted'
  <2> SUFFICES ASSUME NEW k \in Schedules, sched'[k] = "completed", ~autoClosed[k]
               PROVE  \E j \in ShiftIds : shift'[j].sched = k /\ shift'[j].status = "completed"
    BY <1>2 DEF CompletedIsAccounted
  <2>1. sched[k] = "completed" /\ k \notin scheds
    BY <1>2
  <2> PICK j \in ShiftIds : shift[j].sched = k /\ shift[j].status = "completed"
    BY <2>1 DEF IInv, CompletedIsAccounted
  <2>2. k # NoSched
    BY ConstantsAssumption
  <2>3. j \notin cancelled
    BY <1>3, <2>1, <2>2
  <2> QED BY <1>2, <2>3
<1>9. \A n \in Managers : canc'[n] = canc[n] \/ CancelOK(n)'
  BY <1>2 DEF IInv, TypeOK, CancelOK, IdleCancel
<1> QED BY <1>1, <1>2, <1>4, <1>7, <1>8, <1>9, StepLemma

LEMMA VerifyReadIInv ==
  ASSUME IInv, NEW v \in Verifiers, VerifyRead(v) PROVE IInv'
<1> USE ConstantsAssumption
<1> DEFINE S == {i \in ShiftIds : /\ shift[i].status = "active"
                                 /\ now >= Closing[shift[i].object] + Hour}
<1>1. due' = [due EXCEPT ![v] = S] /\ UNCHANGED <<now, database, sess, canc, wk>>
  BY DEF VerifyRead
<1>2. \A i \in S : i \in Inserted /\ now >= Closing[shift[i].object]
  <2> SUFFICES ASSUME NEW i \in S PROVE i \in Inserted /\ now >= Closing[shift[i].object]
    OBVIOUS
  <2>1. i \in Inserted
    BY DEF Inserted
  <2>2. Closing[shift[i].object] \in Nat
    BY <2>1 DEF IInv, RowsOK, RowOK
  <2> QED BY <2>1, <2>2 DEF IInv, TypeOK
<1>3. S \subseteq ShiftIds
  OBVIOUS
<1> HIDE DEF S
<1>4. TypeOK'
  BY <1>1, <1>3 DEF IInv, TypeOK, database
<1>5. Inserted' = Inserted /\ shift' = shift /\ now <= now' /\ now' = now /\ due'[v] = S
  BY <1>1 DEF Inserted, database, IInv, TypeOK
<1>6. VerifyOK(v)'
  BY <1>2, <1>5 DEF VerifyOK
<1>7. \A x \in Verifiers : due'[x] = due[x] \/ VerifyOK(x)'
  BY <1>1, <1>6 DEF IInv, TypeOK
<1> QED BY <1>1, <1>4, <1>5, <1>7, SameTables, StepLemma

LEMMA VerifyCommitIInv ==
  ASSUME IInv, NEW v \in Verifiers, VerifyCommit(v)
  PROVE  IInv' /\ Records!Next
<1>1. /\ shift' = [i \in ShiftIds |->
           IF i \in due[v] THEN [shift[i] EXCEPT !.status = "completed"] ELSE shift[i]]
      /\ due' = [due EXCEPT ![v] = {}]
      /\ UNCHANGED <<now, sched, autoClosed, openRows, nOpenings, sess, canc, wk>>
  BY DEF VerifyCommit
<1>2. due[v] \subseteq Inserted /\ now <= now'
  BY <1>1 DEF IInv, TypeOK, VerifyOK
<1>3. shift' \in [ShiftIds -> ShiftRow] /\ Records!Next /\ RowsBegun
  BY <1>1, <1>2, EndLemma DEF Final
<1>4. TypeOK'
  BY <1>1, <1>3 DEF IInv, TypeOK
<1>5. CompletedIsAccounted'
  <2> SUFFICES ASSUME NEW k \in Schedules, sched[k] = "completed", ~autoClosed[k]
               PROVE  \E j \in ShiftIds : shift'[j].sched = k /\ shift'[j].status = "completed"
    BY <1>1 DEF CompletedIsAccounted
  <2> PICK j \in ShiftIds : shift[j].sched = k /\ shift[j].status = "completed"
    BY DEF IInv, CompletedIsAccounted
  <2>1. shift[j] \in ShiftRow
    BY DEF IInv, TypeOK
  <2> QED BY <1>1, <2>1 DEF ShiftRow
<1>6. \A x \in Verifiers : due'[x] = due[x] \/ VerifyOK(x)'
  BY <1>1 DEF IInv, TypeOK, VerifyOK
<1> QED BY <1>1, <1>2, <1>3, <1>4, <1>5, <1>6, StepLemma

LEMMA TickIInv ==
  ASSUME IInv, Tick PROVE IInv'
<1>1. TypeOK' /\ now <= now'
  BY DEF Tick, IInv, TypeOK, database
<1> QED BY <1>1, SameTables, StepLemma DEF Tick

-----------------------------------------------------------------------------
(* The runs of auto_close_shifts.                                          *)

\* What is due is over, and the end time written for it is past.
LEMMA DeadlineLemma ==
  ASSUME NEW o \in Objects, NEW k \in Schedules \cup {NoSched}, NEW t \in Nat,
         t >= Deadline(o, k)
  PROVE  /\ t >= PlannedEnd(o, k) \/ t >= Closing[o]
         /\ CloseAt(o, k) \in Nat /\ CloseAt(o, k) <= t
<1>1. /\ PlannedEnd(o, k) \in Nat /\ Closing[o] \in Nat /\ AutoClose[o] \in Nat /\ Hour \in Nat
  BY ConstantsAssumption DEF PlannedEnd
<1> QED BY <1>1 DEF Deadline, CloseAt

LEMMA RunLemma ==
  ASSUME IInv, NEW w \in Workers, NEW r \in Run, wk' = [wk EXCEPT ![w] = r], RunOK(w)',
         UNCHANGED <<now, database, sess, canc, due>>
  PROVE  IInv'
<1>1. TypeOK' /\ now <= now'
  BY DEF IInv, TypeOK, database
<1>2. \A x \in Workers : wk'[x] = wk[x] \/ RunOK(x)'
  BY DEF IInv, TypeOK
<1> QED BY <1>1, <1>2, SameTables, StepLemma

LEMMA IdleRun ==
  ASSUME IInv, NEW w \in Workers, wk' = [wk EXCEPT ![w] = IdleWorker], now' \in Nat
  PROVE  IdleWorker \in Run /\ RunOK(w)'
<1>1. IdleWorker \in Run
  BY DEF IdleWorker, Run, WorkerPcs
<1>2. wk'[w] = IdleWorker
  BY DEF IInv, TypeOK
<1>3. RunOK(w)'
  BY <1>2 DEF RunOK, IdleWorker
<1> QED BY <1>1, <1>3

LEMMA StartAutoCloseIInv ==
  ASSUME IInv, NEW w \in Workers, StartAutoClose(w) PROVE IInv'
<1> DEFINE S == {i \in ShiftIds : shift[i].status = "active" /\ shift[i].start < now}
           r == [IdleWorker EXCEPT !.pc = "shifts", !.t = now, !.shifts = S]
<1>1. S \subseteq Inserted /\ S \subseteq ShiftIds /\ now \in Nat
  BY DEF Inserted, IInv, TypeOK
<1>2. wk' = [wk EXCEPT ![w] = r] /\ UNCHANGED <<now, database, sess, canc, due>>
  BY DEF StartAutoClose
<1> HIDE DEF S
<1>3. r \in Run /\ r.pc = "shifts" /\ r.t = now /\ r.shifts = S /\ r.next = NoSched
  BY <1>1 DEF IdleWorker, Run, WorkerPcs
<1> HIDE DEF r
<1>4. wk'[w] = r /\ Inserted' = Inserted /\ now' = now
  BY <1>2 DEF IInv, TypeOK, Inserted, database
<1>5. RunOK(w)'
  BY <1>1, <1>3, <1>4 DEF RunOK
<1> QED BY <1>2, <1>3, <1>5, RunLemma

LEMMA SkipShiftIInv ==
  ASSUME IInv, NEW w \in Workers, NEW i \in ShiftIds, SkipShift(w, i) PROVE IInv'
<1> DEFINE r == [wk[w] EXCEPT !.shifts = @ \ {i}]
<1>1. wk[w] \in Run /\ RunOK(w) /\ wk[w].pc = "shifts"
  BY DEF IInv, TypeOK, SkipShift
<1>2. wk' = [wk EXCEPT ![w] = r] /\ UNCHANGED <<now, database, sess, canc, due>>
  BY DEF SkipShift, IInv, TypeOK
<1>3. /\ r \in Run /\ r.pc = "shifts" /\ r.t = wk[w].t /\ r.next = wk[w].next
      /\ r.shifts \subseteq wk[w].shifts
  BY <1>1 DEF Run
<1> HIDE DEF r
<1>4. wk'[w] = r /\ Inserted' = Inserted /\ now' = now
  BY <1>2 DEF IInv, TypeOK, Inserted, database
<1>5. RunOK(w)'
  BY <1>1, <1>3, <1>4 DEF RunOK
<1> QED BY <1>2, <1>3, <1>5, RunLemma

LEMMA PickShiftIInv ==
  ASSUME IInv, NEW w \in Workers, NEW i \in ShiftIds, PickShift(w, i) PROVE IInv'
<1> DEFINE o == shift[i].object
           k == shift[i].sched
<1>1. /\ wk[w] \in Run /\ RunOK(w) /\ wk[w].pc = "shifts" /\ now \in Nat
      /\ i \in wk[w].shifts /\ wk[w].t >= Deadline(o, k)
      /\ UNCHANGED <<now, database, sess, canc, due>>
  BY DEF IInv, TypeOK, PickShift
<1>2. i \in Inserted /\ o \in Objects /\ k \in Schedules \cup {NoSched} /\ wk[w].t \in Nat
      /\ wk[w].t <= now
  BY <1>1 DEF RunOK, IInv, RowsOK, RowOK, TypeOK, ShiftRow, Inserted, Run
<1>3. /\ wk[w].t >= PlannedEnd(o, k) \/ wk[w].t >= Closing[o]
      /\ CloseAt(o, k) \in Nat /\ CloseAt(o, k) <= wk[w].t
  BY <1>1, <1>2, DeadlineLemma
<1>4. Ended(o, k)
  <2>1. PlannedEnd(o, k) \in Nat /\ Closing[o] \in Nat
    BY <1>2, ConstantsAssumption DEF PlannedEnd
  <2> QED BY <1>1, <1>2, <1>3, <2>1 DEF Ended
<1> PICK n \in IF k = NoSched THEN {NoSched} ELSE OneOf(Consecutive(k, CloseAt(o, k))) :
      wk' = [wk EXCEPT ![w].pc = "shiftCommit", ![w].shifts = @ \ {i},
                       ![w].shift = i, ![w].next = n]
  BY DEF PickShift
<1>5. n \in Schedules \cup {NoSched} /\ (n # NoSched => SchedStart[n] <= now)
  <2>1. n = NoSched \/ n \in Consecutive(k, CloseAt(o, k))
    BY DEF OneOf
  <2> QED BY <1>1, <1>2, <1>3, <2>1 DEF Consecutive
<1> DEFINE r == [wk[w] EXCEPT !.pc = "shiftCommit", !.shifts = @ \ {i}, !.shift = i, !.next = n]
<1>6. wk' = [wk EXCEPT ![w] = r]
  BY DEF IInv, TypeOK
<1>7. /\ r \in Run /\ r.pc = "shiftCommit" /\ r.t = wk[w].t /\ r.next = n /\ r.shift = i
      /\ r.shifts \subseteq wk[w].shifts
  BY <1>1, <1>5 DEF Run, WorkerPcs
<1> HIDE DEF r
<1>8. wk'[w] = r /\ Inserted' = Inserted /\ now' = now /\ shift' = shift
  BY <1>1, <1>6 DEF IInv, TypeOK, Inserted, database
<1>9. RunOK(w)'
  BY <1>1, <1>2, <1>4, <1>5, <1>7, <1>8 DEF RunOK, Ended, PlannedEnd
<1> QED BY <1>1, <1>6, <1>7, <1>9, RunLemma

LEMMA AutoOpenLemma ==
  ASSUME IInv, NEW base \in [ShiftIds -> ShiftRow], Ending(base),
         NEW n \in Schedules \cup {NoSched}, n # NoSched => SchedStart[n] <= now,
         AutoOpen(base, n)
  PROVE  /\ shift' \in [ShiftIds -> ShiftRow] /\ Records!Next /\ RowsBegun
         /\ \A j \in Inserted : shift'[j] = base[j]
<1>1. CASE shift' = base
  <2>1. \A j \in ShiftIds : shift'[j] = shift[j] \/ Records!End(j)
    BY <1>1 DEF Ending, Records!End, Records!Ended, Final, Inserted
  <2>2. RowsBegun
    BY <1>1 DEF RowsBegun, Ending, Inserted
  <2> QED BY <1>1, <2>1, <2>2 DEF Records!Next
<1>2. CASE shift' # base
  <2>1. n # NoSched
    BY <1>2 DEF AutoOpen
  <2> PICK i \in ShiftIds :
        /\ NextShift(i)
        /\ shift' = [base EXCEPT ![i] =
             NewShift("active", SchedUser[n], SchedObject[n], n, SchedStart[n])]
    BY <1>2 DEF AutoOpen
  <2>2. NewRowOK(NewShift("active", SchedUser[n], SchedObject[n], n, SchedStart[n]))
    BY <2>1, ConstantsAssumption DEF NewRowOK, NewShift, ShiftRow
  <2> QED BY <2>2, InsertLemma
<1> QED BY <1>1, <1>2

LEMMA CommitShiftIInv ==
  ASSUME IInv, NEW w \in Workers, CommitShift(w)
  PROVE  IInv' /\ Records!Next
<1> DEFINE i == wk[w].shift
           k == shift[i].sched
           n == wk[w].next
           base == [shift EXCEPT ![i].status = "completed"]
           r == [wk[w] EXCEPT !.pc = "shifts", !.shift = 0, !.next = NoSched,
                              !.touched = @ \cup {shift[i].object}]
<1>1. /\ wk[w] \in Run /\ RunOK(w) /\ wk[w].pc = "shiftCommit" /\ now \in Nat
      /\ shift \in [ShiftIds -> ShiftRow] /\ sched \in [Schedules -> SchedStatus]
  BY DEF IInv, TypeOK, CommitShift
<1>2. /\ i \in Inserted /\ i \in ShiftIds /\ k \in Schedules \cup {NoSched}
      /\ shift[i].object \in Objects /\ shift[i] \in ShiftRow
      /\ n \in Schedules \cup {NoSched} /\ (n # NoSched => SchedStart[n] <= now)
  BY <1>1 DEF RunOK, Inserted, IInv, RowsOK, RowOK, ShiftRow, Run
<1>3. /\ AutoOpen(base, n)
      /\ sched' = IF k = NoSched THEN sched ELSE [sched EXCEPT ![k] = "completed"]
      /\ UNCHANGED <<now, autoClosed, openRows, nOpenings, sess, canc, due>>
  BY DEF CommitShift
<1>4. wk' = [wk EXCEPT ![w] = r]
  BY DEF CommitShift, IInv, TypeOK
<1>5. /\ r \in Run /\ r.pc = "shifts" /\ r.t = wk[w].t /\ r.shifts = wk[w].shifts
      /\ r.next = NoSched
  BY <1>1, <1>2 DEF Run, WorkerPcs
<1>6. base \in [ShiftIds -> ShiftRow] /\ Ending(base)
  <2>1. [shift[i] EXCEPT !.status = "completed"] \in ShiftRow
    BY <1>2 DEF ShiftRow
  <2>2. /\ base \in [ShiftIds -> ShiftRow]
        /\ base[i] = [shift[i] EXCEPT !.status = "completed"]
        /\ \A j \in ShiftIds : j # i => base[j] = shift[j]
    BY <1>1, <1>2, <2>1
  <2> HIDE DEF base
  <2> QED BY <1>2, <2>2 DEF Ending, Final
<1>7. /\ base[i].status = "completed" /\ base[i].sched = k
      /\ \A j \in ShiftIds : j # i => base[j] = shift[j]
  BY <1>1, <1>2 DEF ShiftRow
<1> HIDE DEF base, r
<1>8. /\ shift' \in [ShiftIds -> ShiftRow] /\ Records!Next /\ RowsBegun
      /\ \A j \in Inserted : shift'[j] = base[j]
  BY <1>2, <1>3, <1>6, AutoOpenLemma
<1>9. sched' \in [Schedules -> SchedStatus]
  BY <1>1, <1>2, <1>3 DEF SchedStatus
<1>10. TypeOK'
  BY <1>3, <1>4, <1>5, <1>8, <1>9 DEF IInv, TypeOK
<1>11. CompletedIsAccounted'
  <2> SUFFICES ASSUME NEW x \in Schedules, sched'[x] = "completed", ~autoClosed[x]
               PROVE  \E j \in ShiftIds : shift'[j].sched = x /\ shift'[j].status = "completed"
    BY <1>3 DEF CompletedIsAccounted
  <2>1. CASE x = k
    BY <1>2, <1>7, <1>8, <2>1
  <2>2. CASE x # k
    <3>1. sched[x] = "completed"
      BY <1>1, <1>3, <2>2
    <3> PICK j \in ShiftIds : shift[j].sched = x /\ shift[j].status = "completed"
      BY <3>1 DEF IInv, CompletedIsAccounted
    <3>2. j # i /\ j \in Inserted
      BY <2>2 DEF Inserted
    <3> QED BY <1>7, <1>8, <3>2
  <2> QED BY <2>1, <2>2
<1>12. RunOK(w)'
  <2>1. wk'[w] = r
    BY <1>4 DEF IInv, TypeOK
  <2>2. Inserted \subseteq Inserted'
    <3>1. now <= now'
      BY <1>1, <1>3
    <3> QED BY <1>8, <1>10, <3>1, RowsLemma, KeepsInserted
  <2> QED BY <1>1, <1>3, <1>5, <2>1, <2>2 DEF RunOK
<1>13. \A x \in Workers : wk'[x] = wk[x] \/ RunOK(x)'
  BY <1>4, <1>12 DEF IInv, TypeOK
<1> QED BY <1>1, <1>3, <1>8, <1>10, <1>11, <1>13, StepLemma

LEMMA CommitScheduleIInv ==
  ASSUME IInv, NEW w \in Workers, CommitSchedule(w)
  PROVE  IInv' /\ Records!Next
<1> DEFINE k == wk[w].sched
           n == wk[w].next
           opens == n # NoSched /\ \E i \in ShiftIds : NextShift(i)
           r == [wk[w] EXCEPT !.pc = "schedules", !.sched = NoSched, !.next = NoSched,
                              !.touched = @ \cup {SchedObject[k]}]
<1>1. /\ wk[w] \in Run /\ RunOK(w) /\ wk[w].pc = "scheduleCommit" /\ now \in Nat
      /\ shift \in [ShiftIds -> ShiftRow] /\ sched \in [Schedules -> SchedStatus]
  BY DEF IInv, TypeOK, CommitSchedule
<1>2. /\ k \in Schedules /\ SchedObject[k] \in Objects
      /\ n \in Schedules \cup {NoSched} /\ (n # NoSched => SchedStart[n] <= now)
  BY <1>1, ConstantsAssumption DEF RunOK, Run
<1>3. /\ AutoOpen(shift, n)
      /\ sched' = [j \in Schedules |-> IF j = k THEN "completed"
                                       ELSE IF opens /\ j = n THEN "in_progress"
                                       ELSE sched[j]]
      /\ autoClosed' = [autoClosed EXCEPT ![k] = TRUE]
      /\ UNCHANGED <<now, openRows, nOpenings, sess, canc, due>>
  BY DEF CommitSchedule
<1>4. wk' = [wk EXCEPT ![w] = r]
  BY DEF CommitSchedule, IInv, TypeOK
<1>5. /\ r \in Run /\ r.pc = "schedules" /\ r.t = wk[w].t /\ r.shifts = wk[w].shifts
      /\ r.next = NoSched
  BY <1>1, <1>2 DEF Run, WorkerPcs
<1> HIDE DEF r, opens
<1>6. Ending(shift)
  BY DEF Ending
<1>7. /\ shift' \in [ShiftIds -> ShiftRow] /\ Records!Next /\ RowsBegun
      /\ \A j \in Inserted : shift'[j] = shift[j]
  BY <1>1, <1>2, <1>3, <1>6, AutoOpenLemma
<1>8. sched' \in [Schedules -> SchedStatus] /\ autoClosed' \in [Schedules -> BOOLEAN]
  BY <1>1, <1>3 DEF SchedStatus, IInv, TypeOK
<1>9. TypeOK'
  BY <1>3, <1>4, <1>5, <1>7, <1>8 DEF IInv, TypeOK
<1>10. CompletedIsAccounted'
  <2> SUFFICES ASSUME NEW x \in Schedules, sched'[x] = "completed", ~autoClosed'[x]
               PROVE  \E j \in ShiftIds : shift'[j].sched = x /\ shift'[j].status = "completed"
    BY DEF CompletedIsAccounted
  <2>1. x # k
    BY <1>2, <1>3 DEF IInv, TypeOK
  <2>2. sched[x] = "completed" /\ ~autoClosed[x]
    BY <1>2, <1>3, <2>1 DEF IInv, TypeOK
  <2> PICK j \in ShiftIds : shift[j].sched = x /\ shift[j].status = "completed"
    BY <2>2 DEF IInv, CompletedIsAccounted
  <2> QED BY <1>7 DEF Inserted
<1>11. RunOK(w)'
  <2>1. wk'[w] = r
    BY <1>4 DEF IInv, TypeOK
  <2>2. Inserted \subseteq Inserted'
    BY <1>7 DEF Inserted
  <2> QED BY <1>1, <1>3, <1>5, <2>1, <2>2 DEF RunOK
<1>12. \A x \in Workers : wk'[x] = wk[x] \/ RunOK(x)'
  BY <1>4, <1>11 DEF IInv, TypeOK
<1> QED BY <1>1, <1>3, <1>7, <1>9, <1>10, <1>12, StepLemma

\* A step of a run between its commits.
LEMMA QuietRunLemma ==
  ASSUME IInv, NEW w \in Workers, NEW r \in Run, wk' = [wk EXCEPT ![w] = r],
         r.t = wk[w].t, r.shifts \subseteq wk[w].shifts, r.next = wk[w].next,
         r.pc \notin {"shiftCommit", "scheduleCommit"},
         UNCHANGED <<now, database, sess, canc, due>>
  PROVE  IInv'
<1>1. wk'[w] = r /\ Inserted' = Inserted /\ now' = now /\ RunOK(w)
  BY DEF IInv, TypeOK, Inserted, database
<1>2. RunOK(w)'
  BY <1>1 DEF RunOK
<1> QED BY <1>2, RunLemma

LEMMA LoadSchedulesIInv ==
  ASSUME IInv, NEW w \in Workers, LoadSchedules(w) PROVE IInv'
<1> PICK S \in SUBSET Schedules : wk' = [wk EXCEPT ![w].pc = "schedules", ![w].scheds = S]
  BY DEF LoadSchedules
<1> DEFINE r == [wk[w] EXCEPT !.pc = "schedules", !.scheds = S]
<1>1. wk[w] \in Run /\ wk' = [wk EXCEPT ![w] = r] /\ UNCHANGED <<now, database, sess, canc, due>>
  BY DEF IInv, TypeOK, LoadSchedules
<1>2. /\ r \in Run /\ r.t = wk[w].t /\ r.shifts = wk[w].shifts /\ r.next = wk[w].next
      /\ r.pc = "schedules"
  BY <1>1 DEF Run, WorkerPcs
<1> HIDE DEF r
<1> QED BY <1>1, <1>2, QuietRunLemma

LEMMA SkipScheduleIInv ==
  ASSUME IInv, NEW w \in Workers, NEW k \in Schedules, SkipSchedule(w, k) PROVE IInv'
<1> DEFINE r == [wk[w] EXCEPT !.scheds = @ \ {k}]
<1>1. /\ wk[w] \in Run /\ wk' = [wk EXCEPT ![w] = r] /\ wk[w].pc = "schedules"
      /\ UNCHANGED <<now, database, sess, canc, due>>
  BY DEF IInv, TypeOK, SkipSchedule
<1>2. /\ r \in Run /\ r.t = wk[w].t /\ r.shifts = wk[w].shifts /\ r.next = wk[w].next
      /\ r.pc = "schedules"
  BY <1>1 DEF Run
<1> HIDE DEF r
<1> QED BY <1>1, <1>2, QuietRunLemma

LEMMA PickScheduleIInv ==
  ASSUME IInv, NEW w \in Workers, NEW k \in Schedules, PickSchedule(w, k) PROVE IInv'
<1> DEFINE o == SchedObject[k]
           worked == {i \in ShiftIds : shift[i].status = "completed" /\ shift[i].sched = k}
<1>1. /\ wk[w] \in Run /\ RunOK(w) /\ wk[w].t \in Nat /\ wk[w].t <= now /\ now \in Nat
      /\ wk[w].t >= Deadline(o, k) /\ o \in Objects
      /\ UNCHANGED <<now, database, sess, canc, due>>
  BY ConstantsAssumption DEF IInv, TypeOK, PickSchedule, RunOK, Run
<1>2. CloseAt(o, k) \in Nat /\ CloseAt(o, k) <= wk[w].t
  BY <1>1, DeadlineLemma
<1> PICK n \in IF Cardinality(worked) = 1 THEN OneOf(Consecutive(k, CloseAt(o, k))) ELSE {NoSched} :
      wk' = [wk EXCEPT ![w].pc = "scheduleCommit", ![w].scheds = @ \ {k},
                       ![w].sched = k, ![w].next = n]
  BY DEF PickSchedule
<1>3. n \in Schedules \cup {NoSched} /\ (n # NoSched => SchedStart[n] <= now)
  <2>1. n = NoSched \/ n \in Consecutive(k, CloseAt(o, k))
    BY DEF OneOf
  <2> QED BY <1>1, <1>2, <2>1 DEF Consecutive
<1> DEFINE r == [wk[w] EXCEPT !.pc = "scheduleCommit", !.scheds = @ \ {k}, !.sched = k, !.next = n]
<1>4. wk' = [wk EXCEPT ![w] = r]
  BY DEF IInv, TypeOK
<1>5. /\ r \in Run /\ r.pc = "scheduleCommit" /\ r.t = wk[w].t /\ r.next = n /\ r.sched = k
      /\ r.shifts = wk[w].shifts
  BY <1>1, <1>3 DEF Run, WorkerPcs
<1> HIDE DEF r
<1>6. wk'[w] = r /\ Inserted' = Inserted /\ now' = now
  BY <1>1, <1>4 DEF IInv, TypeOK, Inserted, database
<1>7. RunOK(w)'
  BY <1>1, <1>3, <1>5, <1>6 DEF RunOK
<1> QED BY <1>1, <1>4, <1>5, <1>7, RunLemma

LEMMA StartOpeningsIInv ==
  ASSUME IInv, NEW w \in Workers, StartOpenings(w) PROVE IInv'
<1> DEFINE r == [wk[w] EXCEPT !.pc = "openings"]
<1>1. wk[w] \in Run /\ wk' = [wk EXCEPT ![w] = r] /\ UNCHANGED <<now, database, sess, canc, due>>
  BY DEF IInv, TypeOK, StartOpenings
<1>2. /\ r \in Run /\ r.t = wk[w].t /\ r.shifts = wk[w].shifts /\ r.next = wk[w].next
      /\ r.pc = "openings"
  BY <1>1 DEF Run, WorkerPcs
<1> HIDE DEF r
<1> QED BY <1>1, <1>2, QuietRunLemma

LEMMA EndRunIInv ==
  ASSUME IInv, NEW w \in Workers, wk' = [wk EXCEPT ![w] = IdleWorker],
         UNCHANGED <<now, database, sess, canc, due>>
  PROVE  IInv'
<1>1. now' \in Nat
  BY DEF IInv, TypeOK
<1> QED BY <1>1, IdleRun, RunLemma

LEMMA ExamineObjectIInv ==
  ASSUME IInv, NEW w \in Workers, NEW o \in Objects, ExamineObject(w, o) PROVE IInv'
<1>1. /\ wk[w] \in Run /\ wk[w].pc = "openings" /\ openRows[o] \subseteq OpeningIds
      /\ UNCHANGED <<now, database, sess, canc, due>>
  BY DEF IInv, TypeOK, ExamineObject
<1> DEFINE r == [wk[w] EXCEPT !.touched = @ \ {o}]
           q == [r EXCEPT !.rows = @ \cup openRows[o]]
<1>2. \/ wk' = [wk EXCEPT ![w] = r]
      \/ wk' = [wk EXCEPT ![w] = IdleWorker]
      \/ wk' = [wk EXCEPT ![w] = q]
  BY DEF ExamineObject
<1>3. /\ r \in Run /\ r.t = wk[w].t /\ r.shifts = wk[w].shifts /\ r.next = wk[w].next
      /\ r.pc = "openings"
  BY <1>1 DEF Run
<1>4. /\ q \in Run /\ q.t = wk[w].t /\ q.shifts = wk[w].shifts /\ q.next = wk[w].next
      /\ q.pc = "openings"
  BY <1>1 DEF Run
<1> HIDE DEF r, q
<1>5. CASE wk' = [wk EXCEPT ![w] = r]
  BY <1>1, <1>3, <1>5, QuietRunLemma
<1>6. CASE wk' = [wk EXCEPT ![w] = q]
  BY <1>1, <1>4, <1>6, QuietRunLemma
<1> QED BY <1>1, <1>2, <1>5, <1>6, EndRunIInv

LEMMA CommitOpeningsIInv ==
  ASSUME IInv, NEW w \in Workers, CommitOpenings(w) PROVE IInv'
<1>1. /\ wk' = [wk EXCEPT ![w] = IdleWorker] /\ now \in Nat
      /\ UNCHANGED <<now, sched, autoClosed, shift, nOpenings, sess, canc, due>>
      /\ openRows' \in [Objects -> SUBSET OpeningIds]
  BY DEF IInv, TypeOK, CommitOpenings
<1>2. IdleWorker \in Run /\ RunOK(w)'
  BY <1>1, IdleRun
<1>3. TypeOK' /\ now <= now'
  BY <1>1, <1>2 DEF IInv, TypeOK
<1>4. Records!Next /\ RowsBegun /\ CompletedIsAccounted'
  BY <1>1 DEF Records!Next, RowsBegun, IInv, CompletedIsAccounted
<1>5. \A x \in Workers : wk'[x] = wk[x] \/ RunOK(x)'
  BY <1>1, <1>2 DEF IInv, TypeOK
<1> QED BY <1>1, <1>3, <1>4, <1>5, StepLemma

LEMMA KillAutoCloseIInv ==
  ASSUME IInv, NEW w \in Workers, KillAutoClose(w) PROVE IInv'
BY EndRunIInv DEF KillAutoClose

-----------------------------------------------------------------------------
(* The theorems.                                                           *)

\* The rows of shifts change in six commits only.
LEMMA ShiftChangers ==
  ASSUME Next, shift' # shift
  PROVE  \/ \E c \in Sessions : CommitOpen(c) \/ CloseShiftCommit(c)
         \/ \E m \in Managers : CancelCommit(m)
         \/ \E v \in Verifiers : VerifyCommit(v)
         \/ \E w \in Workers : CommitShift(w) \/ CommitSchedule(w)
<1>1. ~Tick
  BY DEF Tick, database
<1>2. ASSUME NEW c \in Sessions, SessionStep(c)
      PROVE  CommitOpen(c) \/ CloseShiftCommit(c)
  BY <1>2 DEF SessionStep, AskOpenShift, CheckOpen, InsertOpening, SyncOnShiftOpen, AskOpenObject,
     CheckOpenObject, InsertObjectOpening, RollbackOpenObject, AskCloseShift, AskCloseObject,
     CloseShiftRead, AfterClose, CloseObject, Abandon, OpenRaises, database
<1>3. ASSUME NEW m \in Managers, ManagerStep(m)
      PROVE  CancelCommit(m)
  BY <1>3 DEF ManagerStep, CancelScheduleRead, EmployeeCancelRead, TerminateRead,
     CancelShiftRead, DeleteObjectRead, StartCancel, database
<1>4. ASSUME NEW v \in Verifiers, VerifierStep(v)
      PROVE  VerifyCommit(v)
  BY <1>4 DEF VerifierStep, VerifyRead, database
<1>5. ASSUME NEW w \in Workers, WorkerStep(w)
      PROVE  CommitShift(w) \/ CommitSchedule(w)
  BY <1>5 DEF WorkerStep, AutoCloseStep, StartAutoClose, SkipShift, PickShift, LoadSchedules,
     SkipSchedule, PickSchedule, StartOpenings, ExamineObject, CommitOpenings, KillAutoClose,
     database
<1> QED BY <1>1, <1>2, <1>3, <1>4, <1>5 DEF Next

LEMMA SessionStepIInv ==
  ASSUME IInv, NEW c \in Sessions, SessionStep(c)
  PROVE  IInv' /\ Records!Next
<1>1. \/ shift' = shift \/ CommitOpen(c) \/ CloseShiftCommit(c)
  BY DEF SessionStep, AskOpenShift, CheckOpen, InsertOpening, SyncOnShiftOpen, AskOpenObject,
         CheckOpenObject, InsertObjectOpening, RollbackOpenObject, AskCloseShift, AskCloseObject,
         CloseShiftRead, AfterClose, CloseObject, Abandon, OpenRaises, database
<1>2. Records!Next
  BY <1>1, CommitOpenIInv, CloseShiftCommitIInv DEF Records!Next
<1>3. IInv'
  BY AskOpenShiftIInv, CheckOpenIInv, InsertOpeningIInv, SyncOnShiftOpenIInv, CommitOpenIInv,
     AskOpenObjectIInv, CheckOpenObjectIInv, InsertObjectOpeningIInv, RollbackOpenObjectIInv,
     AskCloseShiftIInv, AskCloseObjectIInv, CloseShiftReadIInv, CloseShiftCommitIInv,
     AfterCloseIInv, CloseObjectIInv, AbandonIInv, OpenRaisesIInv
  DEF SessionStep
<1> QED BY <1>2, <1>3

LEMMA WebStepIInv ==
  ASSUME IInv, \/ \E m \in Managers : ManagerStep(m)
               \/ \E v \in Verifiers : VerifierStep(v)
  PROVE  IInv' /\ Records!Next
<1>1. ASSUME NEW m \in Managers, ManagerStep(m) PROVE IInv' /\ Records!Next
  <2>1. CASE CancelCommit(m)
    BY <2>1, CancelCommitIInv
  <2>2. CASE ~CancelCommit(m)
    <3>1. IInv'
      BY <1>1, <2>2, CancelReadIInv DEF ManagerStep
    <3>2. shift' = shift
      BY <1>1, <2>2 DEF ManagerStep, CancelScheduleRead, EmployeeCancelRead, TerminateRead,
                        CancelShiftRead, DeleteObjectRead, StartCancel, database
    <3> QED BY <3>1, <3>2 DEF Records!Next
  <2> QED BY <2>1, <2>2
<1>2. ASSUME NEW v \in Verifiers, VerifierStep(v) PROVE IInv' /\ Records!Next
  <2>1. CASE VerifyRead(v)
    BY <2>1, VerifyReadIInv DEF VerifyRead, database, Records!Next
  <2>2. CASE VerifyCommit(v)
    BY <2>2, VerifyCommitIInv
  <2> QED BY <1>2, <2>1, <2>2 DEF VerifierStep
<1> QED BY <1>1, <1>2

LEMMA WorkerStepIInv ==
  ASSUME IInv, NEW w \in Workers, WorkerStep(w)
  PROVE  IInv' /\ Records!Next
<1>1. \/ shift' = shift \/ CommitShift(w) \/ CommitSchedule(w)
  BY DEF WorkerStep, AutoCloseStep, StartAutoClose, SkipShift, PickShift, LoadSchedules,
         SkipSchedule, PickSchedule, StartOpenings, ExamineObject, CommitOpenings, KillAutoClose,
         database
<1>2. Records!Next
  BY <1>1, CommitShiftIInv, CommitScheduleIInv DEF Records!Next
<1>3. IInv'
  BY StartAutoCloseIInv, SkipShiftIInv, PickShiftIInv, CommitShiftIInv, LoadSchedulesIInv,
     SkipScheduleIInv, PickScheduleIInv, CommitScheduleIInv, StartOpeningsIInv, ExamineObjectIInv,
     CommitOpeningsIInv, KillAutoCloseIInv
  DEF WorkerStep, AutoCloseStep
<1> QED BY <1>2, <1>3

LEMMA NextIInv == IInv /\ [Next]_vars => IInv' /\ [Records!Next]_shift
<1> SUFFICES ASSUME IInv, [Next]_vars PROVE IInv' /\ [Records!Next]_shift
  OBVIOUS
<1>1. CASE UNCHANGED vars
  <2>1. TypeOK' /\ now <= now'
    BY <1>1 DEF IInv, TypeOK, vars
  <2> QED BY <1>1, <2>1, SameTables, StepLemma DEF vars, database
<1>2. CASE Tick
  BY <1>2, TickIInv DEF Tick, database
<1>3. CASE Next /\ ~Tick
  BY <1>3, SessionStepIInv, WebStepIInv, WorkerStepIInv DEF Next
<1> QED BY <1>1, <1>2, <1>3

LEMMA InductiveInvariant == Spec => []IInv
<1>1. Init => IInv
  BY InitIInv
<1>2. IInv /\ [Next]_vars => IInv'
  BY NextIInv
<1> QED BY <1>1, <1>2, PTL DEF Spec

\* The variables keep their types, whatever users, requests and runs do.
THEOREM TypeCorrect == Spec => []TypeOK
<1>1. IInv => TypeOK
  BY DEF IInv
<1> QED BY <1>1, InductiveInvariant, PTL

\* A completed schedule was closed by auto_close_shifts or has a completed
\* shift, however the writers of both tables interleave.
THEOREM CompletedSchedulesAccounted == Spec => []CompletedIsAccounted
<1>1. IInv => CompletedIsAccounted
  BY DEF IInv
<1> QED BY <1>1, InductiveInvariant, PTL

\* No shift starts in the future, the ones opened by the task included.
THEOREM ShiftsStartInPast == Spec => []StartedInPast
<1>1. IInv => StartedInPast
  BY DEF IInv, RowsOK, RowOK, Inserted, StartedInPast
<1> QED BY <1>1, InductiveInvariant, PTL

\* A shift before its end and before the closing is completed by its employee
\* alone: not by a stale run of the task, nor by the payroll verification.
THEOREM EarlyEndsAreManual == Spec => EarlyEndIsManual
<1> DEFINE A == \A i \in ShiftIds :
                  /\ shift[i].status = "active"
                  /\ shift'[i].status = "completed"
                  /\ ~Ended(shift[i].object, shift[i].sched)
                  => \E c \in Sessions : sess[c].pc = "closeCommit" /\ sess[c].shift = i
<1>1. IInv /\ [Next]_vars => [A]_vars
  <2> SUFFICES ASSUME IInv, Next, NEW i \in ShiftIds, shift[i].status = "active",
                      shift'[i].status = "completed", ~Ended(shift[i].object, shift[i].sched)
               PROVE  \E c \in Sessions : sess[c].pc = "closeCommit" /\ sess[c].shift = i
    OBVIOUS
  <2>1. i \in Inserted /\ shift[i] \in ShiftRow
    BY DEF Inserted, IInv, TypeOK
  <2>2. shift' # shift
    OBVIOUS
  <2>3. CASE \E c \in Sessions : CloseShiftCommit(c)
    <3> PICK c \in Sessions : CloseShiftCommit(c)
      BY <2>3
    <3>1. sess[c].shift = i
      BY DEF CloseShiftCommit, IInv, TypeOK
    <3> QED BY <3>1 DEF CloseShiftCommit
  <2>4. CASE \E c \in Sessions : CommitOpen(c)
    BY <2>1, <2>4 DEF CommitOpen, NextShift, IInv, TypeOK, Inserted
  <2>5. CASE \E m \in Managers : CancelCommit(m)
    BY <2>1, <2>5 DEF CancelCommit, ShiftRow
  <2>6. CASE \E v \in Verifiers : VerifyCommit(v)
    BY <2>1, <2>6 DEF VerifyCommit, IInv, VerifyOK, Ended
  <2>7. CASE \E w \in Workers : CommitShift(w)
    <3> PICK w \in Workers : CommitShift(w)
      BY <2>7
    <3> DEFINE base == [shift EXCEPT ![wk[w].shift].status = "completed"]
    <3>1. AutoOpen(base, wk[w].next) /\ RunOK(w) /\ wk[w].pc = "shiftCommit"
      BY DEF CommitShift, IInv
    <3>2. shift'[i] = base[i]
      BY <2>1, <3>1 DEF AutoOpen, NextShift, Inserted, IInv, TypeOK
    <3>3. wk[w].shift = i
      BY <3>2 DEF IInv, TypeOK
    <3> QED BY <3>1, <3>3 DEF RunOK
  <2>8. CASE \E w \in Workers : CommitSchedule(w)
    BY <2>1, <2>8 DEF CommitSchedule, AutoOpen, NextShift, Inserted, IInv, TypeOK
  <2> QED BY <2>2, <2>3, <2>4, <2>5, <2>6, <2>7, <2>8, ShiftChangers
<1> QED BY <1>1, InductiveInvariant, PTL DEF Spec, EarlyEndIsManual

\* The shifts implement ShiftRecords: every step inserts rows as it allows or
\* ends them, and none is reopened, moved or given to another employee.
THEOREM ImplementsRecords == Spec => KeepsRecords
<1>1. Init => Records!Init
  BY DEF Init, Records!Init, NoShift, NewShift
<1>2. IInv /\ [Next]_vars => [Records!Next]_shift
  BY NextIInv
<1> QED BY <1>1, <1>2, InductiveInvariant, PTL DEF Spec, KeepsRecords, Records!Spec
=============================================================================
