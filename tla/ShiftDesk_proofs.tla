-------------------------- MODULE ShiftDesk_proofs --------------------------
(***************************************************************************)
(* What the checks of open_shift and the status matrix secure when a user  *)
(* holds one dialogue at a time, for any number of users, schedules and    *)
(* requests: one active shift for a user if auto_close_shifts has no next  *)
(* schedule to open, the matrix if it does not run and nobody cancels.     *)
(* The README says how either fails without its premises.                  *)
(***************************************************************************)
EXTENDS ShiftLifecycle_proofs

OneDialogue == \A c, d \in Sessions : UserOf[c] = UserOf[d] => c = d

\* auto_close_shifts, if it runs, has no second slot of the same person at the
\* same object that starts where the first ends.
NothingFollows ==
  \/ Workers = {}
  \/ \A k, n \in Schedules :
       k # n /\ SchedUser[k] = SchedUser[n] /\ SchedObject[k] = SchedObject[n]
         => SchedEnd[k] # SchedStart[n]

NothingToOpen == \A w \in Workers : wk[w].next = NoSched

OpenPcs == {"insert", "sync", "commit"}

\* Past its check, a dialogue that opens a shift is of a user with none.
Opening(c) == sess[c].pc \in OpenPcs => ActiveOf(UserOf[c]) = {}

OneInv ==
  /\ IInv
  /\ OneActiveShift
  /\ \A c \in Sessions : Opening(c)
  /\ NothingToOpen

\* No row becomes active, or an active one another user's.
NoNew ==
  \A i \in ShiftIds : shift'[i].status = "active" =>
    shift[i].status = "active" /\ shift'[i].user = shift[i].user

LEMMA InitOneInv == Init => OneInv
<1> SUFFICES ASSUME Init PROVE OneInv OBVIOUS
<1>1. OneActiveShift /\ \A c \in Sessions : Opening(c)
  BY DEF Init, OneActiveShift, Opening, OpenPcs, IdleSession, NoShift, NewShift
<1>2. NothingToOpen
  BY DEF Init, NothingToOpen, IdleWorker
<1> QED BY <1>1, <1>2, InitIInv DEF OneInv

LEMMA NoNewLemma ==
  ASSUME OneInv, NoNew
  PROVE  /\ OneActiveShift'
         /\ \A u : ActiveOf(u)' \subseteq ActiveOf(u)
         /\ \A c \in Sessions :
              (sess'[c].pc \in OpenPcs => sess[c].pc \in OpenPcs) => Opening(c)'
<1>1. OneActiveShift'
  BY DEF OneInv, OneActiveShift, NoNew
<1>2. \A u : ActiveOf(u)' \subseteq ActiveOf(u)
  BY DEF ActiveOf, NoNew
<1> QED BY <1>1, <1>2 DEF OneInv, Opening

\* A user with an active shift has exactly one: _get_active_shift finds it.
LEMMA OneActiveCardinality ==
  ASSUME OneActiveShift, NEW u, ActiveOf(u) # {}
  PROVE  Cardinality(ActiveOf(u)) = 1
<1> PICK i : i \in ActiveOf(u)
  OBVIOUS
<1>1. ActiveOf(u) = {i}
  BY DEF ActiveOf, OneActiveShift
<1> QED BY <1>1, FS_Singleton

LEMMA CheckOpenOne ==
  ASSUME OneInv, NEW c \in Sessions, CheckOpen(c)
  PROVE  OneActiveShift' /\ \A d \in Sessions : Opening(d)'
<1>1. NoNew
  BY DEF CheckOpen, database, NoNew
<1>2. \A d \in Sessions \ {c} : sess'[d] = sess[d]
  BY DEF CheckOpen, OpenFails, Goto, OneInv, IInv, TypeOK
<1>3. sess'[c].pc \in OpenPcs => ActiveOf(UserOf[c]) = {}
  <2>1. CASE Cardinality(ActiveOf(UserOf[c])) = 1
    <3>1. Goto(c, "rollback") \/ Goto(c, "check")
      BY <2>1 DEF CheckOpen, OpenFails
    <3>2. sess \in [Sessions -> Session]
      BY DEF OneInv, IInv, TypeOK
    <3> QED BY <3>1, <3>2 DEF Goto, OpenPcs, Session
  <2>2. CASE Cardinality(ActiveOf(UserOf[c])) # 1
    BY <2>2, OneActiveCardinality DEF OneInv
  <2> QED BY <2>1, <2>2
<1>4. ActiveOf(UserOf[c])' \subseteq ActiveOf(UserOf[c])
  BY <1>1, NoNewLemma
<1>5. Opening(c)'
  BY <1>3, <1>4 DEF Opening
<1> QED BY <1>1, <1>2, <1>5, NoNewLemma

\* The row a CommitOpen inserts, and the rows it leaves.
LEMMA CommitOpenRows ==
  ASSUME IInv, NEW c \in Sessions, CommitOpen(c)
  PROVE  \E i \in ShiftIds :
           /\ shift[i].status = "none"
           /\ shift'[i] = NewShift(sess[c].born, UserOf[c], sess[c].object, sess[c].sched, now)
           /\ \A j \in ShiftIds \ {i} : shift'[j] = shift[j]
BY DEF CommitOpen, NextShift, IInv, TypeOK

LEMMA CommitOpenOne ==
  ASSUME OneDialogue, OneInv, NEW c \in Sessions, CommitOpen(c)
  PROVE  OneActiveShift' /\ \A d \in Sessions : Opening(d)'
<1>1. PICK i \in ShiftIds :
        /\ shift[i].status = "none"
        /\ shift'[i] = NewShift(sess[c].born, UserOf[c], sess[c].object, sess[c].sched, now)
        /\ \A j \in ShiftIds \ {i} : shift'[j] = shift[j]
  BY CommitOpenRows DEF OneInv
<1>2. ActiveOf(UserOf[c]) = {}
  BY DEF OneInv, Opening, OpenPcs, CommitOpen
<1>3. OneActiveShift'
  BY <1>1, <1>2 DEF OneInv, OneActiveShift, NewShift, ActiveOf
<1>4. ASSUME NEW d \in Sessions PROVE Opening(d)'
  <2>1. CASE d = c
    BY <2>1 DEF CommitOpen, Leave, IdleSession, Opening, OpenPcs, OneInv, IInv, TypeOK
  <2>2. CASE d # c
    <3>1. sess'[d] = sess[d] /\ UserOf[d] # UserOf[c]
      BY <2>2 DEF CommitOpen, Leave, OneDialogue, OneInv, IInv, TypeOK
    <3>2. ActiveOf(UserOf[d])' \subseteq ActiveOf(UserOf[d])
      BY <1>1, <3>1 DEF ActiveOf, NewShift
    <3> QED BY <3>1, <3>2 DEF OneInv, Opening
  <2> QED BY <2>1, <2>2
<1> QED BY <1>3, <1>4

\* The other steps of a dialogue end shifts or leave them.
LEMMA OtherSessionStepOne ==
  ASSUME OneInv, NEW c \in Sessions, SessionStep(c), ~CheckOpen(c), ~CommitOpen(c)
  PROVE  OneActiveShift' /\ \A d \in Sessions : Opening(d)'
<1>0. IInv /\ sess \in [Sessions -> Session]
  BY DEF OneInv, IInv, TypeOK
<1>1. CASE CloseShiftCommit(c)
  <2>1. NoNew
    BY <1>0, <1>1 DEF CloseShiftCommit, NoNew, IInv, TypeOK, ShiftRow
  <2>2. \A d \in Sessions : sess'[d].pc \in OpenPcs => sess[d].pc \in OpenPcs
    BY <1>0, <1>1 DEF CloseShiftCommit, Goto, OpenPcs
  <2> QED BY <2>1, <2>2, NoNewLemma
<1>2. CASE ~CloseShiftCommit(c)
  <2>1. NoNew
    BY <1>2 DEF NoNew, SessionStep, AskOpenShift, InsertOpening, SyncOnShiftOpen, AskOpenObject,
       CheckOpenObject, InsertObjectOpening, RollbackOpenObject, AskCloseShift, AskCloseObject,
       CloseShiftRead, AfterClose, CloseObject, Abandon, OpenRaises, database
  <2>2. \A d \in Sessions : sess'[d].pc \in OpenPcs => sess[d].pc \in OpenPcs
    <3>1. CASE \/ InsertOpening(c) \/ SyncOnShiftOpen(c)
      BY <1>0, <3>1 DEF InsertOpening, SyncOnShiftOpen, Goto, OpenPcs, Session
    <3>2. CASE \/ CheckOpenObject(c) \/ InsertObjectOpening(c) \/ RollbackOpenObject(c)
               \/ CloseShiftRead(c) \/ AfterClose(c) \/ CloseObject(c) \/ Abandon(c) \/ OpenRaises(c)
      BY <1>0, <3>2 DEF CheckOpenObject, InsertObjectOpening, RollbackOpenObject, CloseShiftRead,
         AfterClose, CloseObject, Abandon, OpenRaises, OpenFails, ReadOpening, Goto, Leave, IdleSession, OpenPcs, Session
    <3>3. CASE \/ \E o \in Objects, k \in Schedules \cup {NoSched} : AskOpenShift(c, o, k)
               \/ \E o \in Objects : AskOpenObject(c, o)
               \/ \E i \in ShiftIds : AskCloseShift(c, i) \/ AskCloseObject(c, i)
      <4>1. ASSUME NEW o \in Objects, NEW k \in Schedules \cup {NoSched}, AskOpenShift(c, o, k)
            PROVE  \A d \in Sessions : sess'[d].pc \in OpenPcs => sess[d].pc \in OpenPcs
        BY <1>0, <4>1 DEF AskOpenShift, IdleSession, OpenPcs
      <4>2. ASSUME NEW o \in Objects, AskOpenObject(c, o)
            PROVE  \A d \in Sessions : sess'[d].pc \in OpenPcs => sess[d].pc \in OpenPcs
        BY <1>0, <4>2 DEF AskOpenObject, IdleSession, OpenPcs
      <4>3. ASSUME NEW i \in ShiftIds, AskCloseShift(c, i) \/ AskCloseObject(c, i)
            PROVE  \A d \in Sessions : sess'[d].pc \in OpenPcs => sess[d].pc \in OpenPcs
        BY <1>0, <4>3 DEF AskCloseShift, AskCloseObject, IdleSession, OpenPcs
      <4> QED BY <3>3, <4>1, <4>2, <4>3
    <3> QED BY <1>2, <3>1, <3>2, <3>3 DEF SessionStep
  <2> QED BY <2>1, <2>2, NoNewLemma
<1> QED BY <1>1, <1>2

LEMMA WebStepOne ==
  ASSUME OneInv, \/ Tick \/ UNCHANGED vars
                 \/ \E m \in Managers : ManagerStep(m)
                 \/ \E v \in Verifiers : VerifierStep(v)
  PROVE  NoNew /\ sess' = sess
<1>1. CASE Tick \/ UNCHANGED vars
  BY <1>1 DEF Tick, vars, database, NoNew
<1>2. ASSUME NEW m \in Managers, ManagerStep(m) PROVE NoNew /\ sess' = sess
  <2>1. CASE CancelCommit(m)
    BY <2>1 DEF CancelCommit, NoNew, OneInv, IInv, TypeOK, ShiftRow
  <2>2. CASE ~CancelCommit(m)
    BY <1>2, <2>2 DEF ManagerStep, CancelScheduleRead, EmployeeCancelRead, TerminateRead,
                      CancelShiftRead, DeleteObjectRead, StartCancel, database, NoNew
  <2> QED BY <2>1, <2>2
<1>3. ASSUME NEW v \in Verifiers, VerifierStep(v) PROVE NoNew /\ sess' = sess
  BY <1>3 DEF VerifierStep, VerifyRead, VerifyCommit, database, NoNew, OneInv, IInv, TypeOK,
              ShiftRow
<1> QED BY <1>1, <1>2, <1>3

\* The task ends shifts, and with nothing that follows it begins none.
LEMMA WorkerStepOne ==
  ASSUME NothingFollows, OneInv, NEW w \in Workers, WorkerStep(w)
  PROVE  NoNew /\ sess' = sess /\ NothingToOpen'
<1>1. /\ IInv /\ wk \in [Workers -> Run] /\ wk[w].next = NoSched /\ RunOK(w)
      /\ shift \in [ShiftIds -> ShiftRow]
  BY DEF OneInv, NothingToOpen, IInv, TypeOK
<1>2. sess' = sess
  BY DEF WorkerStep, StartAutoClose, AutoCloseStep, KillAutoClose, SkipShift, PickShift,
         CommitShift, LoadSchedules, SkipSchedule, PickSchedule, CommitSchedule, StartOpenings,
         ExamineObject, CommitOpenings
<1>3. NoNew
  <2>1. CASE CommitShift(w)
    <3>1. wk[w].shift \in ShiftIds /\ shift' = [shift EXCEPT ![wk[w].shift].status = "completed"]
      BY <1>1, <2>1 DEF CommitShift, AutoOpen, RunOK, Inserted
    <3> QED BY <1>1, <3>1 DEF NoNew, ShiftRow
  <2>2. CASE CommitSchedule(w)
    BY <1>1, <2>2 DEF CommitSchedule, AutoOpen, NoNew
  <2>3. CASE ~CommitShift(w) /\ ~CommitSchedule(w)
    BY <2>3 DEF WorkerStep, StartAutoClose, AutoCloseStep, KillAutoClose, SkipShift, PickShift,
         LoadSchedules, SkipSchedule, PickSchedule, StartOpenings, ExamineObject, CommitOpenings,
         database, NoNew
  <2> QED BY <2>1, <2>2, <2>3
<1>4. \A x \in Workers \ {w} : wk'[x] = wk[x]
  BY <1>1 DEF WorkerStep, StartAutoClose, AutoCloseStep, KillAutoClose, SkipShift, PickShift,
         CommitShift, LoadSchedules, SkipSchedule, PickSchedule, CommitSchedule, StartOpenings,
         ExamineObject, CommitOpenings
<1>5. wk'[w].next = NoSched
  <2>1. ASSUME NEW i \in ShiftIds, PickShift(w, i) PROVE wk'[w].next = NoSched
    <3> DEFINE o == shift[i].object
               k == shift[i].sched
    <3>1. PICK n \in IF k = NoSched THEN {NoSched} ELSE OneOf(Consecutive(k, CloseAt(o, k))) :
            wk' = [wk EXCEPT ![w].pc = "shiftCommit", ![w].shifts = @ \ {i},
                             ![w].shift = i, ![w].next = n]
      BY <2>1 DEF PickShift
    <3>2. k \in Schedules \cup {NoSched} /\ Consecutive(k, CloseAt(o, k)) \subseteq Schedules
      BY <1>1 DEF ShiftRow, Consecutive
    <3>3. k # NoSched => Consecutive(k, CloseAt(o, k)) = {}
      BY <3>2 DEF NothingFollows, Consecutive
    <3>4. n = NoSched
      BY <3>1, <3>3 DEF OneOf
    <3> QED BY <1>1, <3>1, <3>4 DEF Run
  <2>2. ASSUME NEW k \in Schedules, PickSchedule(w, k) PROVE wk'[w].next = NoSched
    <3>1. Consecutive(k, CloseAt(SchedObject[k], k)) = {}
      BY DEF NothingFollows, Consecutive
    <3> QED BY <1>1, <2>2, <3>1 DEF PickSchedule, OneOf, Run
  <2>3. ASSUME NEW o \in Objects, ExamineObject(w, o) PROVE wk'[w].next = NoSched
    BY <1>1, <2>3 DEF ExamineObject, IdleWorker, Run
  <2>4. CASE StartAutoClose(w) \/ KillAutoClose(w) \/ CommitOpenings(w)
    <3>1. CASE StartAutoClose(w)
      <4>1. wk'[w].next = IdleWorker.next
        BY <1>1, <3>1 DEF StartAutoClose, IdleWorker
      <4> QED BY <4>1 DEF IdleWorker
    <3>2. CASE KillAutoClose(w) \/ CommitOpenings(w)
      <4>1. wk'[w] = IdleWorker
        BY <1>1, <3>2 DEF KillAutoClose, CommitOpenings
      <4> QED BY <4>1 DEF IdleWorker
    <3> QED BY <2>4, <3>1, <3>2
  <2>5. CASE CommitShift(w) \/ CommitSchedule(w) \/ LoadSchedules(w) \/ StartOpenings(w)
    BY <1>1, <2>5 DEF CommitShift, CommitSchedule, LoadSchedules, StartOpenings, Run
  <2>6. ASSUME NEW i \in ShiftIds, SkipShift(w, i) PROVE wk'[w].next = NoSched
    BY <1>1, <2>6 DEF SkipShift, Run
  <2>7. ASSUME NEW k \in Schedules, SkipSchedule(w, k) PROVE wk'[w].next = NoSched
    BY <1>1, <2>7 DEF SkipSchedule, Run
  <2> QED BY <2>1, <2>2, <2>3, <2>4, <2>5, <2>6, <2>7 DEF WorkerStep, AutoCloseStep
<1> QED BY <1>1, <1>2, <1>3, <1>4, <1>5 DEF OneInv, NothingToOpen

LEMMA NextOneInv ==
  ASSUME OneDialogue, NothingFollows, OneInv, [Next]_vars
  PROVE  OneInv'
<1>1. IInv'
  BY NextIInv DEF OneInv
<1>2. OneActiveShift' /\ \A d \in Sessions : Opening(d)'
  <2>1. CASE \E c \in Sessions : SessionStep(c)
    BY <2>1, CheckOpenOne, CommitOpenOne, OtherSessionStepOne
  <2>2. CASE ~\E c \in Sessions : SessionStep(c)
    <3>1. NoNew /\ sess' = sess
      BY <2>2, WebStepOne, WorkerStepOne DEF Next
    <3> QED BY <3>1, NoNewLemma
  <2> QED BY <2>1, <2>2
<1>3. NothingToOpen'
  <2>1. CASE \E w \in Workers : WorkerStep(w)
    BY <2>1, WorkerStepOne
  <2>2. ASSUME NEW c \in Sessions, SessionStep(c) PROVE wk' = wk
    BY <2>2 DEF SessionStep, AskOpenShift, CheckOpen, InsertOpening, SyncOnShiftOpen, CommitOpen,
       OpenRaises, AskOpenObject, CheckOpenObject, InsertObjectOpening, RollbackOpenObject,
       AskCloseShift, AskCloseObject, CloseShiftRead, CloseShiftCommit, AfterClose, CloseObject,
       Abandon
  <2>3. CASE \/ Tick \/ UNCHANGED vars \/ \E m \in Managers : ManagerStep(m)
             \/ \E v \in Verifiers : VerifierStep(v)
    BY <2>3 DEF Tick, vars, OneInv, NothingToOpen, ManagerStep, CancelScheduleRead, EmployeeCancelRead, TerminateRead,
       CancelShiftRead, DeleteObjectRead, StartCancel, CancelCommit, VerifierStep, VerifyRead,
       VerifyCommit
  <2> QED BY <2>1, <2>2, <2>3 DEF Next, OneInv, NothingToOpen
<1> QED BY <1>1, <1>2, <1>3 DEF OneInv

\* With one dialogue at a time for each user and no schedule that follows
\* another without a gap, a user never has two active shifts, whatever the web
\* requests and the runs of auto_close_shifts do.
THEOREM OneActiveShiftOfOneDialogue ==
  ASSUME OneDialogue, NothingFollows
  PROVE  Spec => []OneActiveShift
<1>1. Init => OneInv
  BY InitOneInv
<1>2. OneInv /\ [Next]_vars => OneInv'
  BY NextOneInv
<1>3. OneInv => OneActiveShift
  BY DEF OneInv
<1> QED BY <1>1, <1>2, <1>3, PTL DEF Spec

-----------------------------------------------------------------------------
(* The status matrix, without the task and when nobody cancels on the web. *)

\* A dialogue that closes a shift closes the only one its user may have.
ClosingOK(c) ==
  sess[c].pc \in {"closeRead", "closeCommit"} =>
    /\ shift[sess[c].shift].user = UserOf[c]
    /\ ActiveOf(UserOf[c]) \subseteq {sess[c].shift}

\* A shift about to be inserted as active is of a schedule that is not over.
BornOK(c) ==
  sess[c].pc = "commit" /\ sess[c].born = "active" /\ sess[c].sched # NoSched
    => sched[sess[c].sched] \notin Final

NoneCancelled == \A k \in Schedules : sched[k] # "cancelled"

MatrixInv ==
  /\ OneInv
  /\ StatusMatrix
  /\ NoneCancelled
  /\ \A c \in Sessions : ClosingOK(c) /\ BornOK(c)

LEMMA InitMatrixInv == Init => MatrixInv
<1> USE ConstantsAssumption
<1> SUFFICES ASSUME Init PROVE MatrixInv OBVIOUS
<1>1. StatusMatrix /\ NoneCancelled
  BY DEF Init, StatusMatrix, NoneCancelled, NoShift, NewShift
<1>2. \A c \in Sessions : ClosingOK(c) /\ BornOK(c)
  BY DEF Init, ClosingOK, BornOK, IdleSession
<1> QED BY <1>1, <1>2, InitOneInv DEF MatrixInv

LEMMA MatrixTypes ==
  ASSUME MatrixInv
  PROVE  /\ IInv /\ OneActiveShift
         /\ sess \in [Sessions -> Session] /\ sched \in [Schedules -> SchedStatus]
         /\ shift \in [ShiftIds -> ShiftRow]
BY DEF MatrixInv, OneInv, IInv, TypeOK

\* What a step leaves of it that changes no schedule and ends shifts at most.
LEMMA QuietLemma ==
  ASSUME MatrixInv, NoNew, sched' = sched,
         \A i \in ShiftIds : /\ shift'[i].sched = shift[i].sched
                             /\ shift'[i].user = shift[i].user
  PROVE  /\ StatusMatrix' /\ NoneCancelled'
         /\ \A c \in Sessions : sess'[c] = sess[c] => ClosingOK(c)' /\ BornOK(c)'
<1>1. NoneCancelled'
  BY DEF MatrixInv, NoneCancelled
<1>2. StatusMatrix'
  BY <1>1, MatrixTypes DEF MatrixInv, StatusMatrix, NoneCancelled, NoNew, ShiftRow
<1>3. ASSUME NEW c \in Sessions, sess'[c] = sess[c] PROVE ClosingOK(c)' /\ BornOK(c)'
  <2>1. BornOK(c)'
    BY <1>3 DEF MatrixInv, BornOK
  <2>2. ActiveOf(UserOf[c])' \subseteq ActiveOf(UserOf[c])
    BY NoNewLemma DEF MatrixInv
  <2>3. sess[c].pc \in {"closeRead", "closeCommit"} => sess[c].shift \in ShiftIds
    BY MatrixTypes DEF IInv, SessionOK, Inserted
  <2>4. ClosingOK(c)'
    BY <1>3, <2>2, <2>3 DEF MatrixInv, ClosingOK
  <2> QED BY <2>1, <2>4
<1> QED BY <1>1, <1>2, <1>3

\* A dialogue begins to close the active shift of its user.
LEMMA AskCloseMatrix ==
  ASSUME MatrixInv, NEW c \in Sessions, NEW i \in ShiftIds,
         AskCloseShift(c, i) \/ AskCloseObject(c, i)
  PROVE  ClosingOK(c)' /\ BornOK(c)'
<1>1. i \in ActiveOf(UserOf[c])
  BY DEF AskCloseShift, AskCloseObject
<1>2. ActiveOf(UserOf[c]) \subseteq {i} /\ shift[i].user = UserOf[c]
  BY <1>1, MatrixTypes DEF OneActiveShift, ActiveOf
<1>3. sess'[c].pc = "closeRead" /\ sess'[c].shift = i /\ shift' = shift
  BY MatrixTypes DEF AskCloseShift, AskCloseObject, IdleSession, database
<1>4. ActiveOf(UserOf[c])' = ActiveOf(UserOf[c])
  BY <1>3 DEF ActiveOf
<1> QED BY <1>2, <1>3, <1>4 DEF ClosingOK, BornOK

\* The other steps of a dialogue that change neither shifts nor schedules.
LEMMA QuietSessionMatrix ==
  ASSUME MatrixInv, NEW c \in Sessions, SessionStep(c), ~CommitOpen(c), ~CloseShiftCommit(c)
  PROVE  /\ shift' = shift /\ sched' = sched
         /\ \A d \in Sessions \ {c} : sess'[d] = sess[d]
         /\ ClosingOK(c)' /\ BornOK(c)'
<1> USE MatrixTypes
<1>1. shift' = shift /\ sched' = sched
  BY DEF SessionStep, AskOpenShift, CheckOpen, InsertOpening, SyncOnShiftOpen, AskOpenObject,
     CheckOpenObject, InsertObjectOpening, RollbackOpenObject, AskCloseShift, AskCloseObject,
     CloseShiftRead, AfterClose, CloseObject, Abandon, OpenRaises, database
<1>2. \A d \in Sessions \ {c} : sess'[d] = sess[d]
  BY DEF SessionStep, AskOpenShift, CheckOpen, InsertOpening, SyncOnShiftOpen, AskOpenObject,
     CheckOpenObject, InsertObjectOpening, RollbackOpenObject, AskCloseShift, AskCloseObject,
     CloseShiftRead, AfterClose, CloseObject, Abandon, OpenRaises, OpenFails, ReadOpening, Goto, Leave
<1>3. ClosingOK(c)' /\ BornOK(c)'
  <2>1. ActiveOf(UserOf[c])' = ActiveOf(UserOf[c])
    BY <1>1 DEF ActiveOf
  <2>2. CASE \E i \in ShiftIds : AskCloseShift(c, i) \/ AskCloseObject(c, i)
    BY <2>2, AskCloseMatrix
  <2>3. CASE SyncOnShiftOpen(c)
    BY <1>1, <2>3 DEF SyncOnShiftOpen, ClosingOK, BornOK, Session
  <2>4. CASE CloseShiftRead(c)
    <3>1. CASE Leave(c)
      BY <3>1 DEF Leave, IdleSession, ClosingOK, BornOK
    <3>2. CASE Goto(c, "closeCommit") /\ sess[c].pc = "closeRead"
      <4>1. sess'[c].pc = "closeCommit" /\ sess'[c].shift = sess[c].shift
        BY <3>2 DEF Goto, Session
      <4> QED BY <1>1, <2>1, <3>2, <4>1 DEF MatrixInv, ClosingOK, BornOK
    <3> QED BY <2>4, <3>1, <3>2 DEF CloseShiftRead
  <2>5. ASSUME ~SyncOnShiftOpen(c), ~CloseShiftRead(c),
               ~\E i \in ShiftIds : AskCloseShift(c, i) \/ AskCloseObject(c, i)
        PROVE  sess'[c].pc \notin {"commit", "closeRead", "closeCommit"}
    <3>1. ASSUME NEW o \in Objects, NEW k \in Schedules \cup {NoSched}, AskOpenShift(c, o, k)
          PROVE  sess'[c].pc = "check"
      BY <3>1 DEF AskOpenShift, IdleSession
    <3>2. ASSUME NEW o \in Objects, AskOpenObject(c, o)
          PROVE  sess'[c].pc = "openObject"
      BY <3>2 DEF AskOpenObject, IdleSession
    <3>3. CASE CheckOpen(c)
      <4>1. \E p \in {"check", "rollback", "insert", "sync"} : Goto(c, p)
        BY <3>3 DEF CheckOpen, OpenFails
      <4> QED BY <4>1 DEF Goto, Session
    <3>4. CASE InsertOpening(c) \/ CheckOpenObject(c) \/ InsertObjectOpening(c) \/ CloseObject(c)
               \/ Abandon(c) \/ OpenRaises(c)
      BY <3>4 DEF InsertOpening, CheckOpenObject, InsertObjectOpening, CloseObject, Abandon, OpenRaises, OpenFails, Goto,
                  Leave, IdleSession, Session
    <3>5. CASE RollbackOpenObject(c) \/ AfterClose(c)
      BY <3>5 DEF RollbackOpenObject, AfterClose, ReadOpening, Leave, IdleSession, Session
    <3> QED BY <2>5, <3>1, <3>2, <3>3, <3>4, <3>5 DEF SessionStep
  <2> QED BY <2>2, <2>3, <2>4, <2>5 DEF ClosingOK, BornOK
<1> QED BY <1>1, <1>2, <1>3

LEMMA CommitOpenMatrix ==
  ASSUME OneDialogue, MatrixInv, NEW c \in Sessions, CommitOpen(c)
  PROVE  /\ StatusMatrix' /\ NoneCancelled'
         /\ \A d \in Sessions : ClosingOK(d)' /\ BornOK(d)'
<1> USE MatrixTypes
<1>1. PICK i \in ShiftIds :
        /\ shift[i].status = "none"
        /\ shift'[i] = NewShift(sess[c].born, UserOf[c], sess[c].object, sess[c].sched, now)
        /\ \A j \in ShiftIds \ {i} : shift'[j] = shift[j]
  BY CommitOpenRows
<1>2. sched' = sched /\ sess' = [sess EXCEPT ![c] = IdleSession]
  BY DEF CommitOpen, Leave
<1>3. NoneCancelled'
  BY <1>2 DEF MatrixInv, NoneCancelled
<1>4. StatusMatrix'
  <2> SUFFICES ASSUME NEW j \in ShiftIds, shift'[j].sched # NoSched
               PROVE  /\ shift'[j].status = "active" => sched[shift'[j].sched] \notin Final
                      /\ shift'[j].status = "completed" => sched[shift'[j].sched] # "cancelled"
    BY <1>2 DEF StatusMatrix
  <2>1. CASE j = i
    <3>1. /\ shift'[j].status = sess[c].born
          /\ shift'[j].sched = sess[c].sched
      BY <1>1, <2>1 DEF NewShift
    <3>2. sess[c].born \in {"active", "cancelled"} /\ sess[c].pc = "commit"
      BY DEF CommitOpen, Session
    <3> QED BY <3>1, <3>2 DEF MatrixInv, BornOK
  <2>2. CASE j # i
    BY <1>1, <2>2 DEF MatrixInv, StatusMatrix
  <2> QED BY <2>1, <2>2
<1>5. ASSUME NEW d \in Sessions PROVE ClosingOK(d)' /\ BornOK(d)'
  <2>1. CASE d = c
    BY <1>2, <2>1 DEF ClosingOK, BornOK, IdleSession
  <2>2. CASE d # c
    <3>1. sess'[d] = sess[d] /\ UserOf[d] # UserOf[c]
      BY <1>2, <2>2 DEF OneDialogue
    <3>2. BornOK(d)'
      BY <1>2, <3>1 DEF MatrixInv, BornOK
    <3>3. ActiveOf(UserOf[d])' \subseteq ActiveOf(UserOf[d])
      BY <1>1, <3>1 DEF ActiveOf, NewShift
    <3>4. ASSUME sess[d].pc \in {"closeRead", "closeCommit"}
          PROVE  shift'[sess[d].shift] = shift[sess[d].shift]
      BY <1>1, <3>4 DEF IInv, SessionOK, Inserted
    <3>5. ClosingOK(d)'
      BY <3>1, <3>3, <3>4 DEF MatrixInv, ClosingOK
    <3> QED BY <3>2, <3>5
  <2> QED BY <2>1, <2>2
<1> QED BY <1>3, <1>4, <1>5

\* The shift and its schedule are completed together: the schedule has no other
\* active shift, for it would be of the same user.
LEMMA CloseShiftCommitMatrix ==
  ASSUME OneDialogue, MatrixInv, NEW c \in Sessions, CloseShiftCommit(c)
  PROVE  /\ StatusMatrix' /\ NoneCancelled'
         /\ \A d \in Sessions : ClosingOK(d)' /\ BornOK(d)'
<1> USE MatrixTypes, ConstantsAssumption
<1> DEFINE i == sess[c].shift
           k == shift[i].sched
<1>1. i \in ShiftIds /\ i \in Inserted /\ k \in Schedules \cup {NoSched}
  BY DEF CloseShiftCommit, IInv, SessionOK, Inserted, ShiftRow
<1>2. shift[i].user = UserOf[c] /\ ActiveOf(UserOf[c]) \subseteq {i}
  BY DEF CloseShiftCommit, MatrixInv, ClosingOK
<1>3. k # NoSched => sched[k] # "cancelled"
  BY <1>1 DEF MatrixInv, NoneCancelled
<1>4. /\ shift' = [shift EXCEPT ![i].status = "completed"]
      /\ sched' = IF k # NoSched THEN [sched EXCEPT ![k] = "completed"] ELSE sched
  BY <1>3 DEF CloseShiftCommit
<1>5. sess' = [sess EXCEPT ![c].pc = "closed"]
  BY DEF CloseShiftCommit, Goto
<1> HIDE DEF i, k
<1>6. \A n \in Schedules : sched'[n] = IF n = k THEN "completed" ELSE sched[n]
  BY <1>4
<1>7. /\ shift'[i].status = "completed"
      /\ \A j \in ShiftIds : /\ shift'[j].user = shift[j].user
                             /\ shift'[j].sched = shift[j].sched
                             /\ j # i => shift'[j] = shift[j]
  BY <1>1, <1>4 DEF ShiftRow
<1>8. NoneCancelled'
  BY <1>6 DEF MatrixInv, NoneCancelled
\* Of schedule k no shift but i is active.
<1>9. ASSUME NEW j \in ShiftIds, k # NoSched, shift[j].sched = k, shift[j].status = "active"
      PROVE  j = i
  <2>1. i \in Inserted /\ j \in Inserted
    BY <1>1, <1>9 DEF Inserted
  <2>2. shift[j].user = SchedUser[k] /\ shift[i].user = SchedUser[k]
    BY <2>1, <1>9 DEF IInv, RowsOK, RowOK, k
  <2> QED BY <1>2, <1>9, <2>2 DEF ActiveOf
<1>10. StatusMatrix'
  <2> SUFFICES ASSUME NEW j \in ShiftIds, shift'[j].sched # NoSched
               PROVE  /\ shift'[j].status = "active" => sched'[shift'[j].sched] \notin Final
                      /\ shift'[j].status = "completed" => sched'[shift'[j].sched] # "cancelled"
    BY DEF StatusMatrix
  <2>1. shift'[j].sched \in Schedules
    BY <1>7 DEF ShiftRow
  <2>2. shift'[j].status = "completed" => sched'[shift'[j].sched] # "cancelled"
    BY <1>8, <2>1 DEF NoneCancelled
  <2>3. ASSUME shift'[j].status = "active" PROVE sched'[shift'[j].sched] \notin Final
    <3>1. j # i /\ shift'[j] = shift[j]
      BY <1>7, <2>3
    <3>2. shift[j].sched # k
      BY <1>9, <2>3, <3>1
    <3>3. sched[shift[j].sched] \notin Final
      BY <2>3, <3>1 DEF MatrixInv, StatusMatrix
    <3> QED BY <1>6, <2>1, <3>1, <3>2, <3>3
  <2> QED BY <2>2, <2>3
<1>11. ASSUME NEW d \in Sessions PROVE ClosingOK(d)' /\ BornOK(d)'
  <2>1. CASE d = c
    BY <1>5, <2>1 DEF ClosingOK, BornOK, Session
  <2>2. CASE d # c
    <3>1. sess'[d] = sess[d] /\ UserOf[d] # UserOf[c]
      BY <1>5, <2>2 DEF OneDialogue
    <3>2. ActiveOf(UserOf[d])' \subseteq ActiveOf(UserOf[d])
      BY <1>7 DEF ActiveOf
    <3>3. ClosingOK(d)'
      <4>1. sess[d].pc \in {"closeRead", "closeCommit"} => sess[d].shift \in ShiftIds
        BY DEF IInv, SessionOK, Inserted
      <4> QED BY <1>7, <3>1, <3>2, <4>1 DEF MatrixInv, ClosingOK
    <3>4. ASSUME sess[d].pc = "commit", sess[d].born = "active", sess[d].sched # NoSched
          PROVE  sched'[sess[d].sched] \notin Final
      <4>1. sess[d].sched \in Schedules /\ SchedUser[sess[d].sched] = UserOf[d]
        BY <3>4 DEF IInv, SessionOK, Session
      <4>2. k # NoSched => SchedUser[k] = UserOf[c]
        BY <1>1, <1>2 DEF IInv, RowsOK, RowOK, k
      <4>3. sess[d].sched # k
        BY <3>1, <3>4, <4>1, <4>2
      <4> QED BY <1>6, <3>4, <4>1, <4>3 DEF MatrixInv, BornOK
    <3> QED BY <3>1, <3>3, <3>4 DEF BornOK
  <2> QED BY <2>1, <2>2
<1> QED BY <1>8, <1>10, <1>11

LEMMA NextMatrixInv ==
  ASSUME OneDialogue, Workers = {}, Managers = {}, MatrixInv, [Next]_vars
  PROVE  MatrixInv'
<1> USE MatrixTypes
<1>1. OneInv'
  BY NextOneInv DEF MatrixInv, NothingFollows
<1>2. /\ StatusMatrix' /\ NoneCancelled'
      /\ \A d \in Sessions : ClosingOK(d)' /\ BornOK(d)'
  <2>1. ASSUME NEW c \in Sessions, SessionStep(c), ~CommitOpen(c), ~CloseShiftCommit(c)
        PROVE  /\ StatusMatrix' /\ NoneCancelled'
               /\ \A d \in Sessions : ClosingOK(d)' /\ BornOK(d)'
    <3>1. /\ shift' = shift /\ sched' = sched
          /\ \A d \in Sessions \ {c} : sess'[d] = sess[d]
          /\ ClosingOK(c)' /\ BornOK(c)'
      BY <2>1, QuietSessionMatrix
    <3>2. NoNew
      BY <3>1 DEF NoNew
    <3> QED BY <3>1, <3>2, QuietLemma
  <2>2. CASE ~\E c \in Sessions : SessionStep(c)
    <3>1. Tick \/ UNCHANGED vars \/ \E v \in Verifiers : VerifierStep(v)
      BY <2>2 DEF Next
    <3>2. NoNew /\ sess' = sess
      BY <3>1, WebStepOne DEF MatrixInv
    <3>3. /\ sched' = sched
          /\ \A i \in ShiftIds : /\ shift'[i].sched = shift[i].sched
                                 /\ shift'[i].user = shift[i].user
      <4>1. CASE Tick \/ UNCHANGED vars
        BY <4>1 DEF Tick, vars, database
      <4>2. ASSUME NEW v \in Verifiers, VerifierStep(v) PROVE sched' = sched /\ \A i \in ShiftIds : /\ shift'[i].sched = shift[i].sched
                                                     /\ shift'[i].user = shift[i].user
        BY <4>2 DEF VerifierStep, VerifyRead, VerifyCommit, database, ShiftRow
      <4> QED BY <3>1, <4>1, <4>2
    <3> QED BY <3>2, <3>3, QuietLemma
  <2> QED BY <2>1, <2>2, CommitOpenMatrix, CloseShiftCommitMatrix
<1> QED BY <1>1, <1>2 DEF MatrixInv

\* With one dialogue at a time for each user, the task not running and nobody
\* cancelling on the web, no shift contradicts its schedule.
THEOREM MatrixOfOneDialogue ==
  ASSUME OneDialogue, Workers = {}, Managers = {}
  PROVE  Spec => []StatusMatrix
<1>1. Init => MatrixInv
  BY InitMatrixInv
<1>2. MatrixInv /\ [Next]_vars => MatrixInv'
  BY NextMatrixInv
<1>3. MatrixInv => StatusMatrix
  BY DEF MatrixInv
<1> QED BY <1>1, <1>2, <1>3, PTL DEF Spec
=============================================================================
