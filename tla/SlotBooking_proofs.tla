-------------------------- MODULE SlotBooking_proofs --------------------------
(***************************************************************************)
(* Theorems of SlotBooking, for any slots, contracts, people and requests: *)
(* of the limits that hold where desks take turns between a check and its  *)
(* insertion (Turns), and of what holds however they overlap.              *)
(***************************************************************************)
EXTENDS SlotBooking, Contracts_proofs, FiniteSetTheorems, WellFoundedInduction

Turns == Overlap = FALSE

-----------------------------------------------------------------------------
(* Types, and what a desk has checked.                                     *)

Times == Moments \cup {0}
BookedRow == [status : {"none", "planned", "cancelled"}, employee : Employees,
              slot : Slots \cup {NoBooking.slot}, start : Times, end : Times,
              by : {"calendar", "manager", "bot"}]

TablesOK ==
  /\ booking \in [Bookings -> BookedRow]
  /\ plan \in [Desks -> [at : 0 .. MaxBookings, row : BookedRow]]

\* One desk at a time has a plan; it moves a row that is still planned, or none.
PlansOK ==
  \A d \in Desks : plan[d] # NoPlan =>
    /\ \A q \in Desks \ {d} : plan[q] = NoPlan
    /\ plan[d].row.status = "planned"
    /\ plan[d].row.slot \in Slots
    /\ d # "bot" <=> plan[d].row.by # "bot"
    /\ plan[d].at # 0 => /\ d = "owner" /\ plan[d].at \in Planned
                         /\ ObjectOf(booking[plan[d].at]) = ObjectOf(plan[d].row)

\* What a page has found free is still free.
PlansFree ==
  \A d \in Desks : plan[d] # NoPlan /\ d # "bot" => ~IsBusy(plan[d].row, plan[d].at)

LEMMA EmptyRows ==
  /\ NoBooking \in BookedRow /\ CancelledRow \in BookedRow
  /\ NoPlan \in [at : 0 .. MaxBookings, row : BookedRow]
  /\ NoBooking.status = "none" /\ CancelledRow.status = "cancelled" /\ NoPlan.at = 0
  /\ NoPlan.row.status = "none"
<1>1. NoBooking \in BookedRow /\ NoBooking.status = "none"
  <2>1. NoBooking.slot = CHOOSE s \in Slots : TRUE
    BY DEF NoBooking
  <2> QED BY <2>1, ContractsAssumption DEF NoBooking, BookedRow, Times
<1>2. CancelledRow \in BookedRow /\ CancelledRow.status = "cancelled"
  <2> HIDE DEF NoBooking
  <2> QED BY <1>1 DEF CancelledRow, BookedRow
<1> QED BY <1>1, <1>2, BookingAssumption DEF NoPlan

\* The row a desk asks for.
LEMMA WantedRow ==
  ASSUME NEW d \in Desks, NEW e \in Employees, NEW s \in Slots, NEW start \in Moments, NEW end \in Moments
  PROVE  LET row == Wanted(d, e, s, start, end) IN
         /\ row \in BookedRow
         /\ row.status = "planned" /\ row.employee = e /\ row.slot = s /\ row.by = Kind(d)
         /\ d # "bot" <=> row.by # "bot"
  BY DEF Wanted, BookedRow, Times, Kind, Desks

LEMMA InitTables == BookingInit => TablesOK /\ PlansOK /\ PlansFree /\ Planned = {}
  BY EmptyRows DEF BookingInit, TablesOK, PlansOK, PlansFree, Planned

-----------------------------------------------------------------------------
(* The steps, as far as they touch the tables.                             *)

\* A step that leaves bookings and plans alone or takes rows out of them, while no desk
\* has a plan.
Removes(gone) == booking' = Cancelled(gone) /\ UNCHANGED plan

\* Every step is one of these, also where desks do not take turns.
LEMMA AnySteps ==
  ASSUME TablesOK, BookingNext
  PROVE  \/ \E d \in Desks : Insert(d)
         \/ Move
         \/ /\ ~Overlap => Quiet
            /\ \/ \E d \in Desks : Check(d)
               \/ \E b \in Bookings : CheckMove(b)
               \/ \E gone \in SUBSET Bookings : Removes(gone)
<1>0. booking = [b \in Bookings |-> booking[b]]
  BY DEF TablesOK
<1>1. ASSUME NEW b \in Bookings, CancelBooking(b) PROVE Removes({b})
  BY <1>0, <1>1 DEF CancelBooking, Removes, Cancelled
<1>2. ASSUME NEW p \in Owners, TerminateAndCancel(p) PROVE \E gone \in SUBSET Bookings : Removes(gone)
  <2>1. ASSUME NEW e, NEW dated, NEW c
        PROVE  {b \in PlannedOf(e) : dated \/ ObjectOf(booking[b]) \in LostObjects(c)} \in SUBSET Bookings
    BY DEF PlannedOf, Planned
  <2> QED BY <1>2, <2>1 DEF TerminateAndCancel, Removes
<1>3. ASSUME NEW p \in Managers, NEW c \in Contracts, ManagerTerminatesAndCancels(p, c)
      PROVE  \E gone \in SUBSET Bookings : Removes(gone)
  <2>1. PlannedOf(contract[c].employee) \subseteq Bookings
    BY DEF PlannedOf, Planned
  <2>2. booking' = Cancelled({}) \/ booking' = Cancelled(PlannedOf(contract[c].employee))
    BY <1>0, <1>3 DEF ManagerTerminatesAndCancels, Cancelled
  <2> QED BY <1>3, <2>1, <2>2 DEF ManagerTerminatesAndCancels, Removes
<1>4. ASSUME UNCHANGED <<booking, plan>> PROVE Removes({})
  BY <1>0, <1>4 DEF Removes, Cancelled
<1> QED BY <1>1, <1>2, <1>3, <1>4 DEF BookingNext, PlanStep, FreeStep

\* Where they take turns, what is not an insertion or a move begins with no plan anywhere.
LEMMA Steps ==
  ASSUME Turns, TablesOK, BookingNext
  PROVE  \/ \E d \in Desks : Insert(d)
         \/ Move
         \/ Quiet /\ \E d \in Desks : Check(d)
         \/ Quiet /\ \E b \in Bookings : CheckMove(b)
         \/ Quiet /\ \E gone \in SUBSET Bookings : Removes(gone)
  BY AnySteps DEF Turns

-----------------------------------------------------------------------------
(* Nobody in two places.                                                   *)

BusyInv == TablesOK /\ PlansOK /\ PlansFree /\ NotInTwoPlaces

LEMMA MeetsBothWays == \A a, b : Meets(a, b) <=> Meets(b, a)
  BY DEF Meets

\* With no plan left there is nothing to say of plans.
LEMMA QuietPlans == Quiet => PlansOK /\ PlansFree
  BY DEF Quiet, PlansOK, PlansFree

LEMMA InsertStep ==
  ASSUME TablesOK, PlansOK, NEW d \in Desks, Insert(d)
  PROVE  /\ TablesOK' /\ Quiet'
         /\ \E b \in Bookings : /\ booking[b].status = "none"
                                /\ Planned' = Planned \cup {b}
                                /\ booking'[b] = plan[d].row
                                /\ \A a \in Planned : a # b /\ booking'[a] = booking[a]
<1>1. PICK b \in FreeRow : booking' = [booking EXCEPT ![b] = plan[d].row]
  BY DEF Insert
<1>2. b \in Bookings /\ booking[b].status = "none"
  BY DEF FreeRow
<1>3. plan[d].row \in BookedRow /\ plan[d].row.status = "planned"
  BY DEF TablesOK, PlansOK, Insert
<1>4. booking' \in [Bookings -> BookedRow] /\ booking'[b] = plan[d].row
  BY <1>1, <1>2, <1>3 DEF TablesOK
<1>5. plan' \in [Desks -> [at : 0 .. MaxBookings, row : BookedRow]] /\ plan'[d] = NoPlan
      /\ \A q \in Desks \ {d} : plan'[q] = NoPlan
  BY EmptyRows DEF Insert, TablesOK, PlansOK
<1>6. \A a \in Bookings \ {b} : booking'[a] = booking[a]
  BY <1>1 DEF TablesOK
<1>7. Planned' = Planned \cup {b}
  BY <1>2, <1>3, <1>4, <1>6 DEF Planned
<1> QED BY <1>2, <1>4, <1>5, <1>6, <1>7 DEF TablesOK, Quiet, Planned

LEMMA MoveStep ==
  ASSUME TablesOK, PlansOK, Move
  PROVE  /\ TablesOK' /\ Quiet'
         /\ \E b \in Planned : LET row == plan["owner"].row IN
              /\ plan["owner"] # NoPlan /\ b = plan["owner"].at
              /\ Planned' = Planned
              /\ booking'[b] = [row EXCEPT !.slot = booking[b].slot]
              /\ \A a \in Planned \ {b} : booking'[a] = booking[a]
<1> DEFINE b == plan["owner"].at
           row == plan["owner"].row
<1>0. "owner" \in Desks
  BY DEF Desks
<1>1. plan["owner"] # NoPlan /\ b \in Planned
  BY <1>0, EmptyRows DEF Move, PlansOK
<1>2. b \in Bookings /\ row \in BookedRow /\ booking[b] \in BookedRow
  BY <1>0, <1>1 DEF Planned, TablesOK
<1>3. booking' = [booking EXCEPT ![b] = [row EXCEPT !.slot = booking[b].slot]]
  BY <1>1 DEF Move
<1>4. [row EXCEPT !.slot = booking[b].slot] \in BookedRow
      /\ [row EXCEPT !.slot = booking[b].slot].status = row.status
  BY <1>2 DEF BookedRow
<1>5. row.status = "planned" /\ \A q \in Desks \ {"owner"} : plan[q] = NoPlan
  BY <1>0, <1>1 DEF PlansOK
<1>6. /\ booking' \in [Bookings -> BookedRow]
      /\ booking'[b] = [row EXCEPT !.slot = booking[b].slot]
      /\ \A a \in Bookings \ {b} : booking'[a] = booking[a]
  BY <1>2, <1>3, <1>4 DEF TablesOK
<1>7. plan' \in [Desks -> [at : 0 .. MaxBookings, row : BookedRow]]
      /\ \A q \in Desks : plan'[q] = NoPlan
  BY <1>0, <1>5, EmptyRows DEF Move, TablesOK
<1>8. Planned' = Planned
  BY <1>1, <1>4, <1>5, <1>6 DEF Planned
<1> QED BY <1>1, <1>6, <1>7, <1>8 DEF TablesOK, Quiet, Planned

LEMMA RemoveStep ==
  ASSUME TablesOK, Quiet, NEW gone \in SUBSET Bookings, Removes(gone)
  PROVE  /\ TablesOK' /\ Quiet'
         /\ Planned' = Planned \ gone
         /\ \A a \in Planned' : booking'[a] = booking[a]
<1>1. booking' = [b \in Bookings |-> IF b \in gone THEN CancelledRow ELSE booking[b]]
  BY DEF Removes, Cancelled
<1>2. booking' \in [Bookings -> BookedRow]
  BY <1>1, EmptyRows DEF TablesOK
<1>3. plan' = plan
  BY DEF Removes
<1>4. Planned' = Planned \ gone
  BY <1>1, EmptyRows DEF Planned
<1>5. \A a \in Planned \ gone : booking'[a] = booking[a]
  BY <1>1 DEF Planned
<1> QED BY <1>2, <1>3, <1>4, <1>5 DEF TablesOK, Quiet

\* A plan is made by one desk, while no other has any.
LEMMA CheckStep ==
  ASSUME TablesOK, Quiet,
         (\E d \in Desks : Check(d)) \/ (\E b \in Bookings : CheckMove(b))
  PROVE  /\ TablesOK' /\ PlansOK' /\ UNCHANGED <<cvars, booking>>
         /\ \E d \in Desks :
              /\ Allows(d, plan'[d].row, plan'[d].at)
              /\ IsWithin(plan'[d].row) /\ plan'[d].row.by = Kind(d)
              /\ \A q \in Desks \ {d} : plan'[q] = NoPlan
<1>0. 0 \in 0 .. MaxBookings /\ Bookings \subseteq 0 .. MaxBookings /\ 0 \notin Bookings
  BY BookingAssumption DEF Bookings
<1>1. ASSUME NEW d \in Desks, Check(d)
      PROVE  /\ TablesOK' /\ PlansOK' /\ UNCHANGED <<cvars, booking>>
             /\ Allows(d, plan'[d].row, plan'[d].at)
             /\ IsWithin(plan'[d].row) /\ plan'[d].row.by = Kind(d)
             /\ \A q \in Desks \ {d} : plan'[q] = NoPlan
  <2>1. PICK e \in Employees, s \in Slots, start \in Moments, end \in Moments :
          /\ IsWithin(Wanted(d, e, s, start, end)) /\ Allows(d, Wanted(d, e, s, start, end), 0)
          /\ plan' = [plan EXCEPT ![d] = [at |-> 0, row |-> Wanted(d, e, s, start, end)]]
    BY <1>1 DEF Check
  <2>2. plan' \in [Desks -> [at : 0 .. MaxBookings, row : BookedRow]]
    BY <1>0, <2>1, WantedRow DEF TablesOK
  <2>3. plan'[d] = [at |-> 0, row |-> Wanted(d, e, s, start, end)]
    BY <2>1 DEF TablesOK
  <2>4. \A q \in Desks \ {d} : plan'[q] = NoPlan
    BY <2>1 DEF Quiet, TablesOK
  <2>5. UNCHANGED <<cvars, booking>>
    BY <1>1 DEF Check
  <2>6. PlansOK'
    BY <2>3, <2>4, WantedRow DEF PlansOK
  <2>7. Allows(d, plan'[d].row, plan'[d].at) /\ IsWithin(plan'[d].row) /\ plan'[d].row.by = Kind(d)
    BY <2>1, <2>3, WantedRow
  <2> QED BY <2>2, <2>4, <2>5, <2>6, <2>7 DEF TablesOK
<1>2. ASSUME NEW b \in Bookings, CheckMove(b)
      PROVE  /\ TablesOK' /\ PlansOK' /\ UNCHANGED <<cvars, booking>>
             /\ Allows("owner", plan'["owner"].row, plan'["owner"].at)
             /\ IsWithin(plan'["owner"].row) /\ plan'["owner"].row.by = Kind("owner")
             /\ \A q \in Desks \ {"owner"} : plan'[q] = NoPlan
  <2>0. "owner" \in Desks /\ "owner" # "bot" /\ b \in Planned
    BY <1>2 DEF Desks, CheckMove
  <2>1. PICK e \in Employees, s \in Slots, start \in Moments, end \in Moments :
          /\ Slot[s].object = ObjectOf(booking[b])
          /\ IsWithin(Wanted("owner", e, s, start, end))
          /\ Allows("owner", Wanted("owner", e, s, start, end), b)
          /\ plan' = [plan EXCEPT !["owner"] = [at |-> b, row |-> Wanted("owner", e, s, start, end)]]
    BY <1>2 DEF CheckMove
  <2>2. plan' \in [Desks -> [at : 0 .. MaxBookings, row : BookedRow]]
    BY <1>0, <2>0, <2>1, WantedRow DEF TablesOK
  <2>3. plan'["owner"] = [at |-> b, row |-> Wanted("owner", e, s, start, end)]
    BY <2>0, <2>1 DEF TablesOK
  <2>4. \A q \in Desks \ {"owner"} : plan'[q] = NoPlan
    BY <2>0, <2>1 DEF Quiet, TablesOK
  <2>5. UNCHANGED <<cvars, booking>>
    BY <1>2 DEF CheckMove
  <2>6. ObjectOf(plan'["owner"].row) = ObjectOf(booking[b])
    BY <2>0, <2>1, <2>3, WantedRow DEF ObjectOf
  <2>7. PlansOK'
    BY <2>0, <2>3, <2>4, <2>5, <2>6, WantedRow DEF PlansOK, Planned, ObjectOf
  <2>8. /\ Allows("owner", plan'["owner"].row, plan'["owner"].at)
        /\ IsWithin(plan'["owner"].row) /\ plan'["owner"].row.by = Kind("owner")
    BY <2>0, <2>1, <2>3, WantedRow
  <2> QED BY <2>0, <2>2, <2>4, <2>5, <2>7, <2>8 DEF TablesOK
<1>3. "owner" \in Desks
  BY DEF Desks
<1> QED BY <1>1, <1>2, <1>3

\* The row that comes in has been found free among all others.
LEMMA FreeKeeps ==
  ASSUME BusyInv, NEW at, NEW row, NEW b \in Bookings,
         Planned' \subseteq Planned \cup {b},
         booking'[b].employee = row.employee, booking'[b].start = row.start,
         booking'[b].end = row.end, booking'[b].by = row.by,
         \A a \in Planned \ {b} : booking'[a] = booking[a],
         row.by # "bot" => ~IsBusy(row, at),
         b \in Planned => at = b,
         at = b \/ at \notin Planned
  PROVE  NotInTwoPlaces'
<1> SUFFICES ASSUME NEW a \in Planned', NEW c \in Planned', a # c,
                    booking'[a].employee = booking'[c].employee, Meets(booking'[a], booking'[c])
             PROVE  "bot" \in {booking'[a].by, booking'[c].by}
  BY DEF NotInTwoPlaces
<1>1. ASSUME NEW x \in Planned \ {b}, booking'[x].employee = booking'[b].employee,
             Meets(booking'[x], booking'[b])
      PROVE  booking'[b].by = "bot"
  <2>1. booking[x].employee = row.employee /\ Meets(booking[x], row) /\ x # at
    BY <1>1 DEF Meets
  <2> QED BY <1>1, <2>1 DEF IsBusy
<1>2. CASE a # b /\ c # b
  <2>1. a \in Planned /\ c \in Planned /\ booking'[a] = booking[a] /\ booking'[c] = booking[c]
    BY <1>2
  <2> QED BY <2>1 DEF BusyInv, NotInTwoPlaces
<1>3. CASE a = b
  BY <1>1, <1>3, MeetsBothWays
<1>4. CASE c = b
  BY <1>1, <1>4
<1> QED BY <1>2, <1>3, <1>4

LEMMA NextBusyInv == Turns /\ BusyInv /\ [BookingNext]_vars => BusyInv'
<1> SUFFICES ASSUME Turns, BusyInv, [BookingNext]_vars PROVE BusyInv'
  OBVIOUS
<1> USE DEF BusyInv
<1>1. CASE UNCHANGED vars
  BY <1>1 DEF vars, cvars, TablesOK, PlansOK, PlansFree, NotInTwoPlaces, IsBusy, Planned, ObjectOf
<1>2. ASSUME NEW d \in Desks, Insert(d) PROVE BusyInv'
  <2>1. PICK b \in Bookings : /\ booking[b].status = "none"
                             /\ Planned' = Planned \cup {b}
                             /\ booking'[b] = plan[d].row
                             /\ \A a \in Planned : a # b /\ booking'[a] = booking[a]
    BY <1>2, InsertStep
  <2>2. plan[d] # NoPlan /\ plan[d].at = 0 /\ 0 \notin Planned
    BY <1>2 DEF Insert, Planned, Bookings
  <2>3. plan[d].row.by # "bot" => ~IsBusy(plan[d].row, 0)
    BY <2>2 DEF PlansOK, PlansFree
  <2>4. NotInTwoPlaces'
    BY <2>1, <2>2, <2>3, FreeKeeps
  <2> QED BY <1>2, <2>4, InsertStep, QuietPlans, PTL
<1>3. ASSUME Move PROVE BusyInv'
  <2> DEFINE row == plan["owner"].row
  <2>1. PICK b \in Planned : /\ plan["owner"] # NoPlan /\ b = plan["owner"].at
                            /\ Planned' = Planned
                            /\ booking'[b] = [row EXCEPT !.slot = booking[b].slot]
                            /\ \A a \in Planned \ {b} : booking'[a] = booking[a]
    BY <1>3, MoveStep
  <2>2. "owner" \in Desks /\ "owner" # "bot" /\ b \in Bookings
    BY <2>1 DEF Desks, Planned
  <2>3. row \in BookedRow
    BY <2>2 DEF TablesOK
  <2>4. /\ booking'[b].employee = row.employee /\ booking'[b].start = row.start
        /\ booking'[b].end = row.end /\ booking'[b].by = row.by
    BY <2>1, <2>3 DEF BookedRow
  <2>5. ~IsBusy(row, b)
    BY <2>1, <2>2 DEF PlansFree
  <2>6. NotInTwoPlaces'
    <3> HIDE DEF row
    <3>1. Planned' \subseteq Planned \cup {b} /\ b = b
      BY <2>1
    <3> QED BY <2>1, <2>2, <2>4, <2>5, <3>1, FreeKeeps
  <2> QED BY <1>3, <2>6, MoveStep, QuietPlans, PTL
<1>4. ASSUME Quiet, (\E d \in Desks : Check(d)) \/ (\E b \in Bookings : CheckMove(b)) PROVE BusyInv'
  <2>1. PICK d \in Desks : /\ Allows(d, plan'[d].row, plan'[d].at)
                          /\ \A q \in Desks \ {d} : plan'[q] = NoPlan
    BY <1>4, CheckStep
  <2>2. d # "bot" => ~IsBusy(plan'[d].row, plan'[d].at)
    BY <2>1 DEF Allows, Desks
  <2>3. PlansFree'
    BY <1>4, <2>1, <2>2, CheckStep DEF PlansFree, IsBusy, Planned
  <2>4. NotInTwoPlaces'
    <3>1. booking' = booking
      BY <1>4, CheckStep
    <3> QED BY <3>1 DEF NotInTwoPlaces, Planned
  <2> QED BY <1>4, <2>3, <2>4, CheckStep
<1>5. ASSUME Quiet, NEW gone \in SUBSET Bookings, Removes(gone) PROVE BusyInv'
  <2>1. Planned' \subseteq Planned /\ \A a \in Planned' : booking'[a] = booking[a]
    BY <1>5, RemoveStep
  <2>2. NotInTwoPlaces'
    BY <2>1 DEF NotInTwoPlaces
  <2> QED BY <1>5, <2>2, RemoveStep, QuietPlans, PTL
<1> QED BY <1>1, <1>2, <1>3, <1>4, <1>5, Steps

\* Where a desk's check and its insertion are not interrupted, nobody is planned into two
\* places at once but through the bot, whoever moves, cancels or terminates in between.
THEOREM NobodyInTwoPlaces == Turns => (BookingSpec => []NotInTwoPlaces)
<1> SUFFICES ASSUME Turns PROVE BookingSpec => []NotInTwoPlaces
  OBVIOUS
<1>1. BookingInit => BusyInv
  BY InitTables DEF BusyInv, NotInTwoPlaces
<1>2. BusyInv /\ [BookingNext]_vars => BusyInv'
  BY NextBusyInv
<1>3. BusyInv => NotInTwoPlaces
  BY DEF BusyInv
<1> QED BY <1>1, <1>2, <1>3, PTL DEF BookingSpec

-----------------------------------------------------------------------------
(* A contract behind each plan.                                            *)

\* The owner's form changes neither the objects nor the template of a contract.
ObjectsStay == Edits \subseteq {"content", "expires"}

\* Contracts that were signed at the start are in force or terminated, and what a request
\* will write leaves them so.
PlainRequest(r) ==
  /\ r.op \notin {"accept", "reject"}
  /\ r.op = "terminate" => r.new = Terminated(r.read) /\ r.read.status \in {"active", "terminated"}
  /\ r.op = "edit" => \E late \in BOOLEAN : r.new = [r.read EXCEPT !.late = late]

ContractsOK ==
  /\ TypeOK
  /\ \A c \in Contracts : contract[c].status \in {"active", "terminated"}
  /\ lapsed = {}
  /\ \A p \in People : PlainRequest(request[p])

LEMMA InitContracts == BookingInit => ContractsOK
<1> SUFFICES ASSUME BookingInit PROVE ContractsOK
  OBVIOUS
<1> USE ContractsAssumption, BookingAssumption, FirstRows
<1>1. contract \in [Contracts -> Row]
  <2>1. ASSUME NEW c \in Contracts
        PROVE  [NoRow EXCEPT !.status = "active", !.isActive = TRUE, !.signed = TRUE,
                             !.objects = Hired[c].objects, !.employee = Hired[c].employee] \in Row
    BY <2>1 DEF Row, Status, Contracts
  <2> QED BY <2>1 DEF BookingInit
<1>2. \A c \in Contracts : contract[c].status = "active"
  BY DEF BookingInit, NoRow
<1>3. user \in Users
  BY DEF BookingInit, Users, Role
<1>4. /\ versions \in [Contracts -> 0 .. ManyVersions]
      /\ otp = {} /\ lapsed = {} /\ handled = {} /\ begun \in 0 .. MaxRequests
  <2>1. /\ versions = [c \in Contracts |-> 1]
        /\ otp = {} /\ lapsed = {} /\ handled = {} /\ begun = 0
    BY DEF BookingInit
  <2> QED BY <2>1 DEF ManyVersions
<1>5. request \in [People -> Request] /\ \A p \in People : request[p] = Idle
  BY DEF BookingInit, Request
<1>6. TypeOK
  BY <1>1, <1>3, <1>4, <1>5 DEF TypeOK, Request, Users
<1>7. PlainRequest(Idle)
  BY DEF PlainRequest, Idle
<1> QED BY <1>2, <1>4, <1>5, <1>6, <1>7 DEF ContractsOK

\* What a step that ends no contract leaves of the access it gives.
Lasts(c) ==
  /\ contract'[c].employee = contract[c].employee
  /\ contract'[c].objects = contract[c].objects
  /\ Works(c) => Works(c)'

\* The step may write to the row of c alone, and its request is done or has a next step to do.
LEMMA RequestSteps ==
  ASSUME TypeOK, \A q \in People : PlainRequest(request[q]), NEW p \in People
  PROVE  /\ Done(p) => \A q \in People : PlainRequest(request'[q])
         /\ \A op \in Op \ {"accept", "reject", "terminate", "edit"} :
              Becomes(p, op) => \A q \in People : PlainRequest(request'[q])
         /\ \A r \in Request : PlainRequest(r) /\ request' = [request EXCEPT ![p] = r] =>
              \A q \in People : PlainRequest(request'[q])
<1>1. request \in [People -> Request]
  BY DEF TypeOK, Request
<1>2. ASSUME NEW r \in Request, PlainRequest(r), request' = [request EXCEPT ![p] = r]
      PROVE  \A q \in People : PlainRequest(request'[q])
  BY <1>1, <1>2
<1>3. ASSUME NEW op \in Op \ {"accept", "reject", "terminate", "edit"}, NEW c \in Contracts
      PROVE  /\ [Idle EXCEPT !.op = op, !.of = c] \in Request
             /\ PlainRequest([Idle EXCEPT !.op = op, !.of = c])
  <2>1. [Idle EXCEPT !.op = op, !.of = c] \in Request /\ [Idle EXCEPT !.op = op, !.of = c].op = op
    BY FirstRows DEF Request
  <2> QED BY <2>1 DEF PlainRequest
<1>4. request[p].of \in Contracts
  BY <1>1 DEF Request
<1>5. Idle \in Request /\ PlainRequest(Idle)
  BY FirstRows DEF Request, PlainRequest, Idle
<1>6. Done(p) => \A q \in People : PlainRequest(request'[q])
  BY <1>2, <1>5 DEF Done
<1>7. ASSUME NEW op \in Op \ {"accept", "reject", "terminate", "edit"}, Becomes(p, op)
      PROVE  \A q \in People : PlainRequest(request'[q])
  BY <1>2, <1>3, <1>4, <1>7 DEF Becomes
<1> QED BY <1>2, <1>6, <1>7

\* The tables after a step that writes to no contract.
LEMMA Untouched ==
  ASSUME ContractsOK, TypeOK', UNCHANGED <<contract, lapsed>>,
         \A q \in People : PlainRequest(request'[q]), handled \subseteq handled'
  PROVE  ContractsOK' /\ (\A c \in Contracts : Lasts(c)) /\ handled \subseteq handled'
  BY DEF ContractsOK, Lasts, Works

LEMMA OwnerAccess ==
  ASSUME ObjectsStay, ContractsOK, NEW p \in Owners, OwnerStep(p)
  PROVE  ContractsOK' /\ (\A c \in Contracts : Lasts(c)) /\ handled \subseteq handled'
<1>0. p \in People /\ TypeOK /\ TypeOK'
  BY OwnerTypes DEF Owners, ContractsOK
<1>1. /\ contract \in [Contracts -> Row] /\ request \in [People -> Request]
      /\ \A q \in People : PlainRequest(request[q])
      /\ \A c \in Contracts : Exists(c)
  BY <1>0 DEF TypeOK, Request, ContractsOK, Exists
<1>2. ASSUME NEW c \in Contracts, NEW e \in Employees, Create(p, c, e) PROVE FALSE
  BY <1>1, <1>2 DEF Create, IsNext
<1>3. ASSUME AssignEmployeeRole(p) \/ AssignManagerRole(p) \/ CheckContracts(p) \/ SettleRole(p)
      PROVE  /\ UNCHANGED <<contract, lapsed, handled>>
             /\ \A q \in People : PlainRequest(request'[q])
  <2>1. CASE AssignEmployeeRole(p)
    BY <1>0, <1>1, <2>1, RequestSteps DEF AssignEmployeeRole, Op
  <2>2. CASE AssignManagerRole(p)
    BY <1>0, <1>1, <2>2, RequestSteps DEF AssignManagerRole
  <2>3. CASE CheckContracts(p)
    <3> DEFINE r == [Idle EXCEPT !.op = "settle_role", !.of = request[p].of,
                                 !.found = Counted(contract[request[p].of].employee)]
    <3>1. Counted(contract[request[p].of].employee) \in SUBSET Contracts /\ request[p].of \in Contracts
      BY <1>0, <1>1 DEF Counted, Of, Request
    <3>2. r \in Request /\ r.op = "settle_role"
      BY <3>1, FirstRows DEF Request, Op
    <3>3. PlainRequest(r)
      BY <3>2 DEF PlainRequest
    <3> QED BY <1>0, <1>1, <2>3, <3>2, <3>3, RequestSteps DEF CheckContracts
  <2>4. CASE SettleRole(p)
    BY <1>0, <1>1, <2>4, RequestSteps DEF SettleRole
  <2> QED BY <1>3, <2>1, <2>2, <2>3, <2>4
<1>4. ASSUME NEW c \in Contracts, BeginTerminate(p, c)
      PROVE  /\ UNCHANGED <<contract, lapsed, handled>>
             /\ \A q \in People : PlainRequest(request'[q])
  <2> DEFINE r == [op |-> "terminate", of |-> c, read |-> contract[c],
                   new |-> Terminated(contract[c]), found |-> {}]
  <2>1. r \in Request
    BY <1>1, NewRows DEF Request, Op
  <2>2. PlainRequest(r)
    BY DEF PlainRequest, ContractsOK
  <2> QED BY <1>0, <1>1, <1>4, <2>1, <2>2, RequestSteps DEF BeginTerminate, Loads
<1>5. ASSUME NEW c \in Contracts, BeginEdit(p, c)
      PROVE  /\ UNCHANGED <<contract, lapsed, handled>>
             /\ \A q \in People : PlainRequest(request'[q])
  <2>1. PICK kinds \in SUBSET Edits, objects \in Grants :
          Loads(p, "edit", c, Changed(contract[c], kinds, objects))
    BY <1>5 DEF BeginEdit
  <2> DEFINE new == Changed(contract[c], kinds, objects)
             r == [op |-> "edit", of |-> c, read |-> contract[c], new |-> new, found |-> {}]
  <2>2. r \in Request
    BY <1>1, NewRows DEF Request, Op
  <2>3. \E late \in BOOLEAN : new = [contract[c] EXCEPT !.late = late]
    <3>1. "template" \notin kinds /\ "objects" \notin kinds
      BY DEF ObjectsStay
    <3>2. contract[c] \in Row
      BY <1>1
    <3>3. new = [contract[c] EXCEPT !.late = IF "expires" \in kinds THEN FALSE ELSE contract[c].late]
      BY <3>1, <3>2 DEF Changed, Row
    <3> QED BY <3>2, <3>3 DEF Row
  <2>4. PlainRequest(r)
    BY <2>3 DEF PlainRequest
  <2> QED BY <1>0, <1>1, <1>5, <2>1, <2>2, <2>4, RequestSteps DEF BeginEdit, Loads
<1>6. ASSUME CommitEdit(p)
      PROVE  ContractsOK' /\ (\A c \in Contracts : Lasts(c)) /\ handled \subseteq handled'
  <2> DEFINE c == request[p].of
             old == request[p].read
             new == request[p].new
  <2>1. /\ c \in Contracts /\ old \in Row /\ new \in Row
        /\ contract' = WrittenBack(c, old, new)
    BY <1>0, <1>1, <1>6 DEF CommitEdit, Request
  <2>2. PICK late \in BOOLEAN : new = [old EXCEPT !.late = late]
    BY <1>0, <1>1, <1>6 DEF CommitEdit, Doing, PlainRequest
  <2>3. /\ new.status = old.status /\ new.isActive = old.isActive
        /\ new.employee = old.employee /\ new.objects = old.objects
    BY <2>1, <2>2 DEF Row
  <2>4. /\ \A d \in Contracts : d # c => contract'[d] = contract[d]
        /\ contract'[c].status = contract[c].status /\ contract'[c].isActive = contract[c].isActive
        /\ contract'[c].employee = contract[c].employee /\ contract'[c].objects = contract[c].objects
    <3> DEFINE w == WrittenBack(c, old, new)
    <3>1. /\ \A d \in Contracts : d # c => w[d] = contract[d]
          /\ w[c].status = Column(old.status, new.status, contract[c].status)
          /\ w[c].isActive = Column(old.isActive, new.isActive, contract[c].isActive)
          /\ w[c].employee = Column(old.employee, new.employee, contract[c].employee)
          /\ w[c].objects = Column(old.objects, new.objects, contract[c].objects)
      BY <1>1, <2>1, WrittenBackRow
    <3> HIDE DEF c, old, new, w
    <3>2. contract' = w
      BY <2>1 DEF w
    <3> QED BY <2>3, <3>1, <3>2 DEF Column
  <2>5. \A d \in Contracts : Lasts(d) /\ contract'[d].status = contract[d].status
    BY <2>1, <2>4 DEF Lasts, Works
  <2>6. \A q \in People : PlainRequest(request'[q])
    BY <1>0, <1>1, <1>6, RequestSteps DEF CommitEdit, Op
  <2> QED BY <1>0, <1>6, <2>5, <2>6 DEF ContractsOK, CommitEdit
<1>7. ASSUME UNCHANGED <<contract, lapsed, handled>>, \A q \in People : PlainRequest(request'[q])
      PROVE  ContractsOK' /\ (\A c \in Contracts : Lasts(c)) /\ handled \subseteq handled'
  BY <1>0, <1>7, Untouched
<1> QED BY <1>2, <1>3, <1>4, <1>5, <1>6, <1>7 DEF OwnerStep

LEMMA OtherAccess ==
  ASSUME ObjectsStay, ContractsOK, OtherStep
  PROVE  ContractsOK' /\ (\A c \in Contracts : Lasts(c)) /\ handled \subseteq handled'
<1>0. TypeOK /\ TypeOK'
  BY NextTypeOK DEF ContractsOK, Next
<1>1. /\ contract \in [Contracts -> Row] /\ request \in [People -> Request]
      /\ \A q \in People : PlainRequest(request[q])
      /\ \A c \in Contracts : Exists(c) /\ ~Pending(c)
      /\ Employees \subseteq People /\ Managers \subseteq People
  BY <1>0, ContractsAssumption DEF TypeOK, Request, ContractsOK, Exists, Pending
<1>2. ASSUME NEW p \in Employees, EmployeeStep(p)
      PROVE  UNCHANGED <<contract, lapsed, handled, request>>
  <2>1. ASSUME NEW c \in Contracts, BeginAccept(p, c)
        PROVE  UNCHANGED <<contract, lapsed, handled, request>>
    BY <1>1, <2>1 DEF BeginAccept
  <2>2. ~CommitAccept(p) /\ ~CommitReject(p) /\ \A c \in Contracts : ~BeginReject(p, c)
    BY <1>1 DEF CommitAccept, CommitReject, BeginReject, Doing, PlainRequest
  <2> QED BY <1>2, <2>1, <2>2 DEF EmployeeStep
<1>3. ASSUME NEW p \in Managers, Promote(p) \/ Retire(p)
      PROVE  /\ UNCHANGED <<contract, lapsed, handled>>
             /\ \A q \in People : PlainRequest(request'[q])
  BY <1>0, <1>1, <1>3, RequestSteps DEF Promote, Retire
<1>4. ASSUME NEW p \in Managers, NEW c \in Contracts, NEW e \in Employees, ManagerHires(p, c, e)
      PROVE  FALSE
  BY <1>1, <1>4 DEF ManagerHires, IsNext
<1>5. ASSUME NEW p \in Managers, NEW c \in Contracts, ManagerEdits(p, c)
      PROVE  ContractsOK' /\ (\A d \in Contracts : Lasts(d)) /\ handled \subseteq handled'
  <2>1. /\ contract' = [contract EXCEPT ![c].status = "active"]
        /\ UNCHANGED <<lapsed, request>> /\ handled \subseteq handled'
    BY <1>5 DEF ManagerEdits
  <2>2. \A d \in Contracts : /\ Lasts(d)
                             /\ contract'[d].status \in {"active", contract[d].status}
    BY <1>1, <2>1 DEF Lasts, Works, Row
  <2> QED BY <1>0, <2>1, <2>2 DEF ContractsOK
<1>6. ASSUME NEW c \in Contracts, RequestOtp(c) \/ CodeIsGone(c) \/ TermEnds(c)
      PROVE  UNCHANGED <<contract, lapsed, handled, request>>
  BY <1>1, <1>6 DEF RequestOtp, CodeIsGone, TermEnds
<1>7. ASSUME LoadOffers \/ CommitOffers \/ OffersTaskDies PROVE FALSE
  BY <1>1, <1>7 DEF ContractsOK, LoadOffers, Expirable, CommitOffers, OffersTaskDies
<1>8. ASSUME UNCHANGED <<contract, lapsed, handled>>, \A q \in People : PlainRequest(request'[q])
      PROVE  ContractsOK' /\ (\A c \in Contracts : Lasts(c)) /\ handled \subseteq handled'
  BY <1>0, <1>8, Untouched
<1>9. ASSUME UNCHANGED <<contract, lapsed, handled, request>>
      PROVE  ContractsOK' /\ (\A c \in Contracts : Lasts(c)) /\ handled \subseteq handled'
  BY <1>1, <1>8, <1>9
<1>10. ASSUME NEW p \in Managers, ManagerStep(p)
       PROVE  ContractsOK' /\ (\A c \in Contracts : Lasts(c)) /\ handled \subseteq handled'
  BY <1>3, <1>4, <1>5, <1>8, <1>10 DEF ManagerStep
<1>11. ASSUME NEW p \in Employees, EmployeeStep(p)
       PROVE  ContractsOK' /\ (\A c \in Contracts : Lasts(c)) /\ handled \subseteq handled'
  BY <1>2, <1>9, <1>11
<1>12. ASSUME NEW p \in Owners, OwnerStep(p)
       PROVE  ContractsOK' /\ (\A c \in Contracts : Lasts(c)) /\ handled \subseteq handled'
  BY <1>12, OwnerAccess
<1>13. ASSUME \E c \in Contracts : RequestOtp(c) \/ CodeIsGone(c) \/ TermEnds(c)
       PROVE  ContractsOK' /\ (\A c \in Contracts : Lasts(c)) /\ handled \subseteq handled'
  BY <1>6, <1>9, <1>13
<1> QED BY <1>7, <1>10, <1>11, <1>12, <1>13 DEF OtherStep

\* The end of a contract leaves the others, and what both give to whom.
Ended(c) ==
  /\ \A d \in Contracts \ {c} : Lasts(d)
  /\ contract'[c].employee = contract[c].employee
  /\ contract'[c].objects = contract[c].objects

LEMMA TerminationAccess ==
  ASSUME ContractsOK
  PROVE  /\ \A p \in Owners : CommitTerminate(p) =>
              ContractsOK' /\ Ended(request[p].of) /\ handled' = handled
         /\ \A p \in Managers, c \in Contracts : ManagerTerminates(p, c) =>
              ContractsOK' /\ Ended(c) /\ handled' = handled \cup {c}
<1>1. /\ contract \in [Contracts -> Row] /\ request \in [People -> Request]
      /\ \A q \in People : PlainRequest(request[q])
      /\ TypeOK
  BY DEF TypeOK, Request, ContractsOK
<1>2. ASSUME NEW p \in Owners, CommitTerminate(p)
      PROVE  ContractsOK' /\ Ended(request[p].of) /\ handled' = handled
  <2> DEFINE c == request[p].of
             old == request[p].read
             new == request[p].new
             w == WrittenBack(c, old, new)
  <2>0. p \in People /\ TypeOK'
    BY <1>1, <1>2, TerminationTypes DEF Owners, TerminationStep
  <2>1. /\ c \in Contracts /\ old \in Row /\ new \in Row
        /\ contract' = w
    BY <1>1, <1>2, <2>0 DEF CommitTerminate, Request
  <2>2. new = Terminated(old) /\ old.status \in {"active", "terminated"}
    BY <1>1, <1>2, <2>0 DEF CommitTerminate, Doing, PlainRequest
  <2>3. new.status = "terminated" /\ new.employee = old.employee /\ new.objects = old.objects
    BY <2>1, <2>2 DEF Row, Terminated
  <2>4. /\ \A d \in Contracts : d # c => w[d] = contract[d]
        /\ w[c].status = Column(old.status, new.status, contract[c].status)
        /\ w[c].employee = Column(old.employee, new.employee, contract[c].employee)
        /\ w[c].objects = Column(old.objects, new.objects, contract[c].objects)
    BY <1>1, <2>1, WrittenBackRow
  <2>5. /\ \A d \in Contracts : d # c => contract'[d] = contract[d]
        /\ contract'[c].status \in {"terminated", contract[c].status}
        /\ contract'[c].employee = contract[c].employee /\ contract'[c].objects = contract[c].objects
    <3> HIDE DEF c, old, new, w
    <3> QED BY <2>1, <2>3, <2>4 DEF Column
  <2>6. Ended(c) /\ \A d \in Contracts : contract'[d].status \in {"terminated", contract[d].status}
    BY <2>1, <2>5 DEF Ended, Lasts, Works
  <2>7. \A q \in People : PlainRequest(request'[q])
    BY <1>1, <1>2, <2>0, RequestSteps DEF CommitTerminate, Op
  <2>8. UNCHANGED <<lapsed, handled>>
    BY <1>2 DEF CommitTerminate
  <2> QED BY <2>0, <2>6, <2>7, <2>8 DEF ContractsOK
<1>3. ASSUME NEW p \in Managers, NEW c \in Contracts, ManagerTerminates(p, c)
      PROVE  ContractsOK' /\ Ended(c) /\ handled' = handled \cup {c}
  <2>0. p \in People /\ TypeOK'
    BY <1>1, <1>3, TerminationTypes, ContractsAssumption DEF TerminationStep
  <2>1. contract' = [contract EXCEPT ![c] = Terminated(contract[c])]
    BY <1>3 DEF ManagerTerminates
  <2>2. /\ \A d \in Contracts : d # c => contract'[d] = contract[d]
        /\ contract'[c].status = "terminated"
        /\ contract'[c].employee = contract[c].employee /\ contract'[c].objects = contract[c].objects
    BY <1>1, <2>1 DEF Terminated, Row
  <2>3. Ended(c) /\ \A d \in Contracts : contract'[d].status \in {"terminated", contract[d].status}
    BY <2>2 DEF Ended, Lasts, Works
  <2>4. \A q \in People : PlainRequest(request'[q])
    <3> DEFINE r == [Idle EXCEPT !.op = "retire", !.of = c]
    <3>1. r \in Request /\ r.op = "retire"
      BY FirstRows DEF Request, Op
    <3>2. PlainRequest(r)
      BY <3>1 DEF PlainRequest
    <3> QED BY <1>1, <1>3, <2>0, <3>1, <3>2, RequestSteps DEF ManagerTerminates
  <2>5. lapsed' = lapsed /\ handled' = handled \cup {c}
    BY <1>3 DEF ManagerTerminates
  <2> QED BY <2>0, <2>3, <2>4, <2>5 DEF ContractsOK
<1> QED BY <1>2, <1>3

\* The contract that lets an employee work where the row says.
Covers(c, row) ==
  c \in Of(row.employee) /\ ObjectOf(row) \in contract[c].objects /\ (Works(c) \/ c \in handled)
Covered(row) == \E c \in Contracts : Covers(c, row)

PlansCovered == \A d \in Desks : plan[d] # NoPlan /\ d # "bot" => Covered(plan[d].row)

AccessInv == ContractsOK /\ TablesOK /\ PlansOK /\ PlansCovered /\ PlannedHasAccess

LEMMA AccessIsCover ==
  PlannedHasAccess <=> \A b \in Planned : booking[b].by # "bot" => Covered(booking[b])
  BY DEF PlannedHasAccess, Covered, Covers, Of

LEMMA QuietCovered == Quiet => PlansCovered
  BY DEF Quiet, PlansCovered

LEMMA CoverLasts ==
  ASSUME ContractsOK, ContractsOK', NEW c \in Contracts, Lasts(c), handled \subseteq handled', NEW row,
         Covers(c, row)
  PROVE  Covers(c, row)'
  BY DEF ContractsOK, Covers, Of, Exists, Lasts, ObjectOf

\* What a page has checked.
LEMMA AllowedIsCovered ==
  ASSUME NEW d \in Desks, d # "bot", NEW row, NEW at, Allows(d, row, at)
  PROVE  Covered(row)
  BY DEF Allows, HasAccess, Covered, Covers, Of, Desks

\* A row stays covered by another contract, or by the one that was ended on the manager's page.
LEMMA TerminateCovers ==
  ASSUME ContractsOK, ContractsOK', NEW c \in Contracts, Ended(c), handled \subseteq handled',
         NEW row, Covered(row),
         \/ c \in handled'
         \/ row.employee # contract[c].employee
         \/ ObjectOf(row) \notin LostObjects(c)
  PROVE  Covered(row)'
<1>1. PICK k \in Contracts : Covers(k, row)
  BY DEF Covered
<1>2. CASE k # c
  BY <1>1, <1>2, CoverLasts DEF Ended, Covered
<1>3. CASE k = c /\ c \in handled'
  <2>1. Covers(c, row)'
    BY <1>1, <1>3 DEF ContractsOK, Covers, Of, Exists, Ended, ObjectOf
  <2> QED BY <2>1 DEF Covered
<1>4. CASE k = c /\ ObjectOf(row) \notin LostObjects(c)
  <2>1. PICK d \in Of(contract[c].employee) \ {c} : Works(d) /\ ObjectOf(row) \in contract[d].objects
    BY <1>1, <1>4 DEF LostObjects, Covers
  <2>2. d \in Contracts /\ d # c /\ Covers(d, row)
    BY <1>1, <1>4, <2>1 DEF Covers, Of
  <2> QED BY <2>2, CoverLasts DEF Ended, Covered
<1>5. CASE k = c /\ row.employee # contract[c].employee
  BY <1>1, <1>5 DEF Covers, Of
<1> QED BY <1>2, <1>3, <1>4, <1>5

\* What remains planned when no desk has a plan.
LEMMA RemainsCovered ==
  ASSUME AccessInv, Quiet, ContractsOK', NEW gone \in SUBSET Bookings, Removes(gone),
         \A row : Covered(row) /\ (\E b \in Planned \ gone : row = booking[b]) => Covered(row)'
  PROVE  AccessInv'
<1>1. /\ TablesOK' /\ Quiet' /\ Planned' = Planned \ gone
      /\ \A b \in Planned' : booking'[b] = booking[b]
  BY RemoveStep DEF AccessInv
<1>2. ASSUME NEW b \in Planned', booking'[b].by # "bot"
      PROVE  (\E c \in Of(booking[b].employee) :
                ObjectOf(booking[b]) \in contract[c].objects /\ (Works(c) \/ c \in handled))'
  <2>1. PICK row : row = booking[b]
    OBVIOUS
  <2>2. row = booking'[b] /\ row.by # "bot" /\ b \in Planned \ gone /\ b \in Planned
    BY <1>1, <1>2, <2>1
  <2>3. Covered(row)
    BY <2>1, <2>2, AccessIsCover DEF AccessInv
  <2>4. Covered(row)'
    BY <2>1, <2>2, <2>3
  <2> QED BY <2>2, <2>4 DEF Covered, Covers, Of, Exists, ObjectOf, Works
<1>3. PlannedHasAccess'
  BY <1>2 DEF PlannedHasAccess
<1>4. PlansCovered' /\ PlansOK'
  BY <1>1, QuietCovered, QuietPlans, PTL
<1> QED BY <1>1, <1>3, <1>4 DEF AccessInv

\* Every step, as far as it matters to who may work where.
LEMMA AccessSteps ==
  ASSUME Turns, TablesOK, BookingNext
  PROVE  \/ UNCHANGED cvars /\ \E d \in Desks : Insert(d)
         \/ UNCHANGED cvars /\ Move
         \/ Quiet /\ ((\E d \in Desks : Check(d)) \/ (\E b \in Bookings : CheckMove(b)))
         \/ Quiet /\ UNCHANGED cvars /\ \E gone \in SUBSET Bookings : Removes(gone)
         \/ Quiet /\ \E p \in Owners : TerminateAndCancel(p)
         \/ Quiet /\ \E p \in Managers, c \in Contracts : ManagerTerminatesAndCancels(p, c)
         \/ Quiet /\ OtherStep /\ Removes({})
<1>0. booking = [b \in Bookings |-> booking[b]]
  BY DEF TablesOK
<1>1. CASE PlanStep
  BY <1>1 DEF PlanStep, Insert, Move
<1>2. CASE Quiet /\ FreeStep
  <2>1. ASSUME NEW b \in Bookings, CancelBooking(b) PROVE Removes({b}) /\ UNCHANGED cvars
    BY <1>0, <2>1 DEF CancelBooking, Removes, Cancelled
  <2>2. ASSUME UNCHANGED <<booking, plan>> PROVE Removes({})
    BY <1>0, <2>2 DEF Removes, Cancelled
  <2> QED BY <1>2, <2>1, <2>2 DEF FreeStep
<1> QED BY <1>1, <1>2 DEF BookingNext, Turns

LEMMA SameContracts ==
  ASSUME ContractsOK, UNCHANGED cvars
  PROVE  /\ ContractsOK' /\ (\A c \in Contracts : Lasts(c)) /\ handled' = handled
         /\ \A row : Covered(row) => Covered(row)'
<1>1. ContractsOK' /\ (\A c \in Contracts : Lasts(c)) /\ handled' = handled
  <2>1. TypeOK'
    BY NextTypeOK DEF ContractsOK, vars, cvars, TypeOK
  <2>2. \A q \in People : PlainRequest(request'[q])
    BY DEF ContractsOK, cvars
  <2> QED BY <2>1, <2>2 DEF ContractsOK, cvars, Lasts, Works
<1> QED BY <1>1, CoverLasts DEF Covered

\* A row is planned for somebody and some object that a contract covers.
LEMMA CoveredIsAccess ==
  ASSUME \A b \in Planned' : booking'[b].by # "bot" =>
           \E row : Covered(row)' /\ row.employee = booking'[b].employee
                    /\ ObjectOf(row) = ObjectOf(booking'[b])
  PROVE  PlannedHasAccess'
<1> SUFFICES ASSUME NEW b \in Planned', booking'[b].by # "bot"
             PROVE  (\E c \in Of(booking[b].employee) :
                       ObjectOf(booking[b]) \in contract[c].objects /\ (Works(c) \/ c \in handled))'
  BY DEF PlannedHasAccess
<1>1. PICK row : Covered(row)' /\ row.employee = booking'[b].employee
                 /\ ObjectOf(row) = ObjectOf(booking'[b])
  OBVIOUS
<1> QED BY <1>1 DEF Covered, Covers, Of, Exists, ObjectOf, Works

LEMMA NextAccessInv == Turns /\ ObjectsStay /\ AccessInv /\ [BookingNext]_vars => AccessInv'
<1> SUFFICES ASSUME Turns, ObjectsStay, AccessInv, [BookingNext]_vars PROVE AccessInv'
  OBVIOUS
<1>1. CASE UNCHANGED vars
  <2>1. UNCHANGED cvars /\ UNCHANGED <<booking, plan>>
    BY <1>1 DEF vars
  <2>2. ContractsOK'
    BY <2>1, SameContracts DEF AccessInv
  <2>3. TablesOK' /\ PlansOK'
    BY <2>1 DEF AccessInv, TablesOK, PlansOK, Planned, ObjectOf
  <2>4. PlansCovered' /\ PlannedHasAccess'
    BY <2>1 DEF AccessInv, PlansCovered, PlannedHasAccess, Planned, Covered, Covers, Of, Exists,
                Works, ObjectOf, cvars
  <2> QED BY <2>2, <2>3, <2>4 DEF AccessInv
<1>2. ASSUME UNCHANGED cvars, NEW d \in Desks, Insert(d) PROVE AccessInv'
  <2>1. PICK b \in Bookings : /\ Planned' = Planned \cup {b}
                             /\ booking'[b] = plan[d].row
                             /\ \A a \in Planned : booking'[a] = booking[a]
    BY <1>2, InsertStep DEF AccessInv
  <2>2. plan[d] # NoPlan /\ (plan[d].row.by # "bot" => d # "bot")
    BY <1>2 DEF Insert, PlansOK, AccessInv
  <2>3. plan[d].row.by # "bot" => Covered(plan[d].row)
    BY <2>2 DEF AccessInv, PlansCovered
  <2>4. ASSUME NEW x \in Planned', booking'[x].by # "bot"
        PROVE  \E row : Covered(row)' /\ row.employee = booking'[x].employee
                        /\ ObjectOf(row) = ObjectOf(booking'[x])
    <3>1. PICK row : row = booking'[x]
      OBVIOUS
    <3>2. Covered(row)
      <4>1. CASE x = b
        BY <2>1, <2>3, <2>4, <3>1, <4>1
      <4>2. CASE x # b
        <5>1. x \in Planned /\ row = booking[x] /\ row.by # "bot"
          BY <2>1, <2>4, <3>1, <4>2
        <5> QED BY <5>1, AccessIsCover DEF AccessInv
      <4> QED BY <4>1, <4>2
    <3>3. Covered(row)'
      BY <1>2, <3>2, SameContracts DEF AccessInv
    <3> QED BY <3>1, <3>3
  <2>5. PlannedHasAccess'
    BY <2>4, CoveredIsAccess
  <2>6. TablesOK' /\ Quiet' /\ ContractsOK'
    BY <1>2, InsertStep, SameContracts DEF AccessInv
  <2>7. PlansOK' /\ PlansCovered'
    BY <2>6, QuietPlans, QuietCovered, PTL
  <2> QED BY <2>5, <2>6, <2>7 DEF AccessInv
<1>3. ASSUME UNCHANGED cvars, Move PROVE AccessInv'
  <2> DEFINE moved == plan["owner"].row
  <2>1. PICK b \in Planned : /\ plan["owner"] # NoPlan /\ b = plan["owner"].at
                            /\ Planned' = Planned
                            /\ booking'[b] = [moved EXCEPT !.slot = booking[b].slot]
                            /\ \A a \in Planned \ {b} : booking'[a] = booking[a]
    BY <1>3, MoveStep DEF AccessInv
  <2>2. "owner" \in Desks /\ "owner" # "bot" /\ b \in Bookings /\ b # 0
    BY <2>1 DEF Desks, Planned, Bookings
  <2>3. moved \in BookedRow /\ ObjectOf(moved) = ObjectOf(booking[b]) /\ Covered(moved)
    BY <2>1, <2>2 DEF AccessInv, TablesOK, PlansOK, PlansCovered
  <2>4. booking'[b].employee = moved.employee /\ booking'[b].slot = booking[b].slot
    BY <2>1, <2>3 DEF BookedRow
  <2>5. ASSUME NEW x \in Planned', booking'[x].by # "bot"
        PROVE  \E row : Covered(row)' /\ row.employee = booking'[x].employee
                        /\ ObjectOf(row) = ObjectOf(booking'[x])
    <3>1. CASE x = b
      <4>1. PICK row : row = moved
        OBVIOUS
      <4>2. Covered(row) /\ row.employee = booking'[x].employee
            /\ ObjectOf(row) = ObjectOf(booking'[x])
        BY <2>3, <2>4, <3>1, <4>1 DEF ObjectOf
      <4>3. Covered(row)'
        BY <1>3, <4>2, SameContracts DEF AccessInv
      <4> QED BY <4>2, <4>3
    <3>2. CASE x # b
      <4>1. PICK row : row = booking[x]
        OBVIOUS
      <4>2. x \in Planned /\ row = booking'[x] /\ row.by # "bot"
        BY <2>1, <2>5, <3>2, <4>1
      <4>3. Covered(row)
        BY <4>1, <4>2, AccessIsCover DEF AccessInv
      <4>4. Covered(row)'
        BY <1>3, <4>3, SameContracts DEF AccessInv
      <4> QED BY <4>2, <4>4
    <3> QED BY <3>1, <3>2
  <2>6. PlannedHasAccess'
    BY <2>5, CoveredIsAccess
  <2>7. TablesOK' /\ Quiet' /\ ContractsOK'
    BY <1>3, MoveStep, SameContracts DEF AccessInv
  <2>8. PlansOK' /\ PlansCovered'
    BY <2>7, QuietPlans, QuietCovered, PTL
  <2> QED BY <2>6, <2>7, <2>8 DEF AccessInv
<1>4. ASSUME Quiet, (\E d \in Desks : Check(d)) \/ (\E b \in Bookings : CheckMove(b)) PROVE AccessInv'
  <2>1. TablesOK' /\ PlansOK' /\ UNCHANGED cvars /\ booking' = booking
    BY <1>4, CheckStep DEF AccessInv
  <2>2. PICK d \in Desks : /\ Allows(d, plan'[d].row, plan'[d].at)
                          /\ \A q \in Desks \ {d} : plan'[q] = NoPlan
    BY <1>4, CheckStep DEF AccessInv
  <2>3. ContractsOK'
    BY <2>1, SameContracts DEF AccessInv
  <2>4. PlansCovered'
    <3> SUFFICES ASSUME NEW q \in Desks, plan'[q] # NoPlan, q # "bot"
                 PROVE  Covered(plan[q].row)'
      BY DEF PlansCovered
    <3>1. PICK row : row = plan'[q].row
      OBVIOUS
    <3>2. q = d /\ Allows(q, row, plan'[q].at)
      BY <2>2, <3>1
    <3>3. Covered(row)
      BY <3>2, AllowedIsCovered
    <3>4. Covered(row)'
      BY <2>1, <3>3, SameContracts DEF AccessInv
    <3> QED BY <3>1, <3>4 DEF Covered, Covers, Of, Exists, ObjectOf, Works
  <2>5. PlannedHasAccess'
    BY <2>1 DEF AccessInv, PlannedHasAccess, Planned, Of, Exists, Works, ObjectOf, cvars
  <2> QED BY <2>1, <2>3, <2>4, <2>5 DEF AccessInv
<1>5. ASSUME Quiet, UNCHANGED cvars, NEW gone \in SUBSET Bookings, Removes(gone) PROVE AccessInv'
  BY <1>5, SameContracts, RemainsCovered DEF AccessInv
<1>6. ASSUME Quiet, NEW p \in Owners, TerminateAndCancel(p) PROVE AccessInv'
  <2> DEFINE c == request[p].of
             e == contract[c].employee
  <2>1. ContractsOK' /\ Ended(c) /\ handled' = handled /\ UNCHANGED plan
    BY <1>6, TerminationAccess DEF TerminateAndCancel, AccessInv
  <2>2. c \in Contracts
    BY <1>6 DEF AccessInv, ContractsOK, TypeOK, Request, TerminateAndCancel, CommitTerminate, Owners
  <2>3. PICK dated \in BOOLEAN :
          booking' = Cancelled({b \in PlannedOf(e) : dated \/ ObjectOf(booking[b]) \in LostObjects(c)})
    BY <1>6 DEF TerminateAndCancel
  <2> DEFINE gone == {b \in PlannedOf(e) : dated \/ ObjectOf(booking[b]) \in LostObjects(c)}
  <2>4. gone \in SUBSET Bookings /\ Removes(gone)
    BY <2>1, <2>3 DEF PlannedOf, Planned, Removes
  <2>5. \A b \in Planned \ gone : booking[b].employee # e \/ ObjectOf(booking[b]) \notin LostObjects(c)
    BY DEF PlannedOf
  <2>6. ASSUME NEW row, Covered(row), \E b \in Planned \ gone : row = booking[b] PROVE Covered(row)'
    <3>1. row.employee # e \/ ObjectOf(row) \notin LostObjects(c)
      BY <2>5, <2>6
    <3> HIDE DEF c, e, gone
    <3>2. handled \subseteq handled'
      BY <2>1
    <3>3. e = contract[c].employee
      BY DEF e
    <3> QED BY <2>1, <2>2, <2>6, <3>1, <3>2, <3>3, TerminateCovers DEF AccessInv
  <2> HIDE DEF c, e, gone
  <2> QED BY <1>6, <2>1, <2>4, <2>6, RemainsCovered
<1>7. ASSUME Quiet, NEW p \in Managers, NEW c \in Contracts, ManagerTerminatesAndCancels(p, c)
      PROVE  AccessInv'
  <2>1. ContractsOK' /\ Ended(c) /\ handled' = handled \cup {c} /\ UNCHANGED plan
    BY <1>7, TerminationAccess DEF ManagerTerminatesAndCancels, AccessInv
  <2>2. PICK gone \in SUBSET Bookings : Removes(gone)
    <3>1. PlannedOf(contract[c].employee) \in SUBSET Bookings
      BY DEF PlannedOf, Planned
    <3>2. booking' = Cancelled({}) \/ booking' = Cancelled(PlannedOf(contract[c].employee))
      BY <1>7 DEF ManagerTerminatesAndCancels, Cancelled, AccessInv, TablesOK
    <3> QED BY <2>1, <3>1, <3>2 DEF Removes
  <2>3. ASSUME NEW row, Covered(row) PROVE Covered(row)'
    BY <2>1, <2>3, TerminateCovers DEF AccessInv
  <2> QED BY <1>7, <2>1, <2>2, <2>3, RemainsCovered
<1>8. ASSUME Quiet, OtherStep, Removes({}) PROVE AccessInv'
  <2>1. ContractsOK' /\ (\A c \in Contracts : Lasts(c)) /\ handled \subseteq handled'
    BY <1>8, OtherAccess DEF AccessInv
  <2>2. ASSUME NEW row, Covered(row) PROVE Covered(row)'
    BY <2>1, <2>2, CoverLasts DEF AccessInv, Covered
  <2> QED BY <1>8, <2>1, <2>2, RemainsCovered
<1> QED BY <1>1, <1>2, <1>3, <1>4, <1>5, <1>6, <1>7, <1>8, AccessSteps DEF AccessInv

LEMMA InitAccessInv == BookingInit => AccessInv
<1> SUFFICES ASSUME BookingInit PROVE AccessInv
  OBVIOUS
<1>1. TablesOK /\ PlansOK /\ Planned = {}
  BY InitTables
<1>2. ContractsOK
  BY InitContracts
<1>3. PlansCovered
  BY DEF BookingInit, PlansCovered
<1> QED BY <1>1, <1>2, <1>3 DEF AccessInv, PlannedHasAccess

\* A shift planned on a page has a contract in force behind it for the object where it will
\* be worked, or one that was ended on the manager's page, whoever plans, moves, cancels,
\* edits and terminates, as long as no edit takes objects away from a contract.
THEOREM PlansHaveContracts == Turns /\ ObjectsStay => (BookingSpec => []PlannedHasAccess)
<1> SUFFICES ASSUME Turns, ObjectsStay PROVE BookingSpec => []PlannedHasAccess
  OBVIOUS
<1>1. BookingInit => AccessInv
  BY InitAccessInv
<1>2. AccessInv /\ [BookingNext]_vars => AccessInv'
  BY NextAccessInv
<1>3. AccessInv => PlannedHasAccess
  BY DEF AccessInv
<1> QED BY <1>1, <1>2, <1>3, PTL DEF BookingSpec

-----------------------------------------------------------------------------
(* Induction over finite sets, in the form of minimal members.             *)

\* A set of subsets of a finite set has a smallest member.
LEMMA Smallest ==
  ASSUME NEW S, IsFiniteSet(S), NEW T \in SUBSET (SUBSET S), T # {}
  PROVE  \E x \in T : \A y \in T : y \subseteq x => y = x
<1>1. IsWellFoundedOn(StrictSubsetOrdering(S), SUBSET S)
  BY FS_FiniteSubsetsOfFinite, FS_StrictSubsetOrderingWellFounded
<1>2. PICK x \in T : \A y \in T : ~(<<y, x>> \in StrictSubsetOrdering(S))
  BY <1>1, WFMin
<1>3. ASSUME NEW y \in T, y \subseteq x, y # x PROVE FALSE
  <2>1. <<y, x>> \in StrictSubsetOrdering(S)
    BY <1>3 DEF StrictSubsetOrdering
  <2> QED BY <1>2, <1>3, <2>1
<1> QED BY <1>2, <1>3

\* What holds of a set when it holds of its proper subsets holds of all finite sets.
LEMMA BySubsets ==
  ASSUME NEW S, IsFiniteSet(S), NEW Good \in SUBSET (SUBSET S),
         \A x \in SUBSET S : (\A y \in SUBSET x : y # x => y \in Good) => x \in Good
  PROVE  Good = SUBSET S
<1> SUFFICES ASSUME Good # SUBSET S PROVE FALSE
  OBVIOUS
<1> DEFINE Bad == (SUBSET S) \ Good
<1>1. Bad # {} /\ Bad \in SUBSET (SUBSET S)
  OBVIOUS
<1>2. PICK x \in Bad : \A y \in Bad : y \subseteq x => y = x
  <2> HIDE DEF Bad
  <2> QED BY <1>1, Smallest
<1>3. \A y \in SUBSET x : y # x => y \in Good
  BY <1>2
<1> QED BY <1>2, <1>3

\* The least of some naturals.
LEMMA LeastNat ==
  ASSUME NEW T \in SUBSET Nat, T # {}
  PROVE  \E x \in T : \A y \in T : x <= y
<1>1. PICK x \in T : \A y \in T : ~(<<y, x>> \in OpToRel(<, Nat))
  BY NatLessThanWellFounded, WFMin
<1>2. ASSUME NEW y \in T PROVE x <= y
  <2>1. <<y, x>> \notin OpToRel(<, Nat) /\ <<y, x>> \in Nat \X Nat
    BY <1>1
  <2>2. ~(y < x)
    BY <2>1 DEF OpToRel
  <2> QED BY <2>2
<1> QED BY <1>2

\* Induction over the naturals, for a set of them.
LEMMA BySteps ==
  ASSUME NEW Good \in SUBSET Nat, 0 \in Good, \A n \in Good : n + 1 \in Good
  PROVE  Good = Nat
<1> SUFFICES ASSUME Good # Nat PROVE FALSE
  OBVIOUS
<1> DEFINE Bad == Nat \ Good
<1>1. Bad # {} /\ Bad \in SUBSET Nat
  OBVIOUS
<1>2. PICK x \in Bad : \A y \in Bad : x <= y
  <2> HIDE DEF Bad
  <2> QED BY <1>1, LeastNat
<1>3. x # 0 /\ x - 1 \in Nat /\ x - 1 \notin Bad
  BY <1>2
<1>4. (x - 1) + 1 \in Good
  BY <1>3
<1> QED BY <1>2, <1>4

\* A finite set of naturals, one member of which is last by a pair of keys.
LEMMA LastOne ==
  ASSUME NEW S \in SUBSET Nat, IsFiniteSet(S), S # {}, NEW key \in [S -> Nat]
  PROVE  \E b \in S : \A a \in S \ {b} : key[a] < key[b] \/ (key[a] = key[b] /\ a < b)
<1> DEFINE Before(a, b) == key[a] < key[b] \/ (key[a] = key[b] /\ a < b)
           Has(x) == \E b \in x : \A a \in x \ {b} : Before(a, b)
           Good == {x \in SUBSET S : x = {} \/ Has(x)}
<1>1. ASSUME NEW x \in SUBSET S, \A y \in SUBSET x : y # x => y \in Good
      PROVE  x \in Good
  <2> SUFFICES ASSUME x # {} PROVE Has(x)
    OBVIOUS
  <2>1. PICK c \in x : TRUE
    OBVIOUS
  <2>2. x \ {c} \in Good
    BY <1>1
  <2>3. CASE x \ {c} = {}
    BY <2>3
  <2>4. CASE Has(x \ {c})
    <3>1. PICK b \in x \ {c} : \A a \in (x \ {c}) \ {b} : Before(a, b)
      BY <2>4
    <3>2. /\ b \in Nat /\ c \in Nat /\ b # c /\ key[b] \in Nat /\ key[c] \in Nat
          /\ \A a \in x : a \in Nat /\ key[a] \in Nat
      OBVIOUS
    <3>3. CASE Before(c, b)
      BY <3>1, <3>3
    <3>4. CASE Before(b, c)
      <4>1. \A a \in x \ {c} : Before(a, c)
        BY <3>1, <3>2, <3>4
      <4> QED BY <4>1
    <3> QED BY <3>2, <3>3, <3>4
  <2> QED BY <2>2, <2>3, <2>4
<1>2. Good = SUBSET S
  <2> HIDE DEF Good
  <2>1. Good \in SUBSET (SUBSET S)
    BY DEF Good
  <2> QED BY <1>1, <2>1, BySubsets
<1> QED BY <1>2

-----------------------------------------------------------------------------
(* The dealing out of a slot's rows.                                       *)

\* What one step of the recursion makes of the sets before.
DealtFrom(s, dealt, rows) ==
  IF rows = {} THEN [i \in 1 .. Slot[s].max |-> <<>>]
  ELSE LET b == CHOOSE b \in rows : ComesLast(b, rows) IN Deal(dealt[rows \ {b}], b)

RowsOK == booking \in [Bookings -> BookedRow]

LEMMA SlotFacts ==
  ASSUME NEW s \in Slots
  PROVE  /\ Slot[s].start \in Nat /\ Slot[s].end \in Nat /\ Slot[s].max \in Nat
         /\ Slot[s].max > 0 /\ Slot[s].start < Slot[s].end
  BY BookingAssumption

LEMMA BookingsFinite ==
  /\ IsFiniteSet(Bookings) /\ Bookings \in SUBSET Nat
  /\ IsFiniteSet(Planned) /\ Planned \in SUBSET Nat
<1>1. MaxBookings \in Int /\ 1 \in Int
  BY BookingAssumption
<1>2. IsFiniteSet(Bookings)
  BY <1>1, FS_Interval DEF Bookings
<1>3. Bookings \in SUBSET Nat
  BY <1>1 DEF Bookings
<1>4. Planned \subseteq Bookings
  BY DEF Planned
<1>5. IsFiniteSet(Planned)
  BY <1>2, <1>4, FS_Subset
<1> QED BY <1>2, <1>3, <1>4, <1>5

LEMMA RowTimes ==
  ASSUME RowsOK, NEW b \in Bookings
  PROVE  booking[b].start \in Nat /\ booking[b].end \in Nat
<1>1. Times \subseteq Nat
  BY DEF Times, Moments
<1> QED BY <1>1 DEF RowsOK, BookedRow

LEMMA RowsOfSlot ==
  ASSUME RowsOK, NEW s \in Slots
  PROVE  /\ RowsOf(s) \in SUBSET Nat /\ IsFiniteSet(RowsOf(s)) /\ RowsOf(s) \in SUBSET Planned
         /\ \A b \in RowsOf(s) : Busy(b).start \in Nat /\ Busy(b).end \in Nat
<1>1. RowsOf(s) \subseteq Planned
  BY DEF RowsOf
<1>2. ASSUME NEW b \in RowsOf(s) PROVE Busy(b).start \in Nat /\ Busy(b).end \in Nat
  BY <1>1, <1>2, RowTimes, SlotFacts DEF Busy, CutTo, RowsOf, Planned
<1> QED BY <1>1, <1>2, BookingsFinite, FS_Subset

\* Of some rows of a slot, one comes last.
LEMMA LastRow ==
  ASSUME RowsOK, NEW s \in Slots, NEW rows \in SUBSET RowsOf(s), rows # {}
  PROVE  \E b \in rows : ComesLast(b, rows)
<1> DEFINE key == [b \in rows |-> Busy(b).start]
<1>1. rows \in SUBSET Nat /\ IsFiniteSet(rows) /\ key \in [rows -> Nat]
  BY RowsOfSlot, FS_Subset
<1>2. \E b \in rows : \A a \in rows \ {b} : key[a] < key[b] \/ (key[a] = key[b] /\ a < b)
  <2> HIDE DEF key
  <2> QED BY <1>1, LastOne
<1> QED BY <1>2 DEF ComesLast

\* The recursion defines what it says.
LEMMA DealtExists ==
  ASSUME RowsOK, NEW s \in Slots
  PROVE  \E f : f = [rows \in SUBSET RowsOf(s) |-> DealtFrom(s, f, rows)]
<1> DEFINE R == RowsOf(s)
           Upto(f, n) == \A rows \in SUBSET R :
                           Cardinality(rows) <= n => f[rows] = DealtFrom(s, f, rows)
           Fun(f) == DOMAIN f = SUBSET R /\ f = [rows \in SUBSET R |-> f[rows]]
           Good == {n \in Nat : \E f : Fun(f) /\ Upto(f, n)}
<1>0. \A rows \in SUBSET R : IsFiniteSet(rows) /\ Cardinality(rows) \in Nat
  BY RowsOfSlot, FS_Subset, FS_CardinalityType
<1>1. 0 \in Good
  <2> DEFINE g == [rows \in SUBSET R |-> DealtFrom(s, <<>>, rows)]
  <2>1. \A rows \in SUBSET R : Cardinality(rows) <= 0 => rows = {}
    BY <1>0, FS_EmptySet
  <2>2. DealtFrom(s, <<>>, {}) = DealtFrom(s, g, {})
    BY DEF DealtFrom
  <2>3. Upto(g, 0)
    <3> SUFFICES ASSUME NEW rows \in SUBSET R, Cardinality(rows) <= 0
                 PROVE  g[rows] = DealtFrom(s, g, rows)
      OBVIOUS
    <3> QED BY <2>1, <2>2
  <2>4. Fun(g)
    OBVIOUS
  <2> QED BY <2>3, <2>4
<1>2. ASSUME NEW n \in Good PROVE n + 1 \in Good
  <2>1. PICK f : Fun(f) /\ Upto(f, n)
    OBVIOUS
  <2> DEFINE g == [rows \in SUBSET R |-> IF Cardinality(rows) <= n THEN f[rows]
                                         ELSE DealtFrom(s, f, rows)]
  <2>2. ASSUME NEW rows \in SUBSET R, Cardinality(rows) <= n + 1
        PROVE  g[rows] = DealtFrom(s, g, rows)
    <3>1. g[rows] = DealtFrom(s, f, rows)
      BY <2>1
    <3>2. DealtFrom(s, g, rows) = DealtFrom(s, f, rows)
      <4>1. CASE rows = {}
        BY <4>1 DEF DealtFrom
      <4>2. CASE rows # {}
        <5> DEFINE b == CHOOSE b \in rows : ComesLast(b, rows)
        <5>1. b \in rows
          BY <4>2, LastRow
        <5>2. Cardinality(rows \ {b}) = Cardinality(rows) - 1
          <6> HIDE DEF b
          <6> QED BY <1>0, <5>1, FS_RemoveElement
        <5>3. Cardinality(rows \ {b}) <= n
          <6> HIDE DEF b
          <6> QED BY <1>0, <2>2, <5>2
        <5>4. g[rows \ {b}] = f[rows \ {b}]
          <6> HIDE DEF b
          <6> QED BY <5>3
        <5> HIDE DEF g
        <5> QED BY <4>2, <5>4 DEF DealtFrom
      <4> QED BY <4>1, <4>2
    <3> QED BY <3>1, <3>2
  <2>3. Fun(g) /\ Upto(g, n + 1)
    BY <2>2
  <2> HIDE DEF g, Fun, Upto
  <2> QED BY <2>3
<1>3. Good = Nat
  <2> HIDE DEF Good
  <2>1. Good \in SUBSET Nat
    BY DEF Good
  <2> QED BY <1>1, <1>2, <2>1, BySteps
<1>4. Cardinality(R) \in Good
  BY <1>0, <1>3
<1>5. PICK f : Fun(f) /\ Upto(f, Cardinality(R))
  BY <1>4
<1>6. \A rows \in SUBSET R : f[rows] = DealtFrom(s, f, rows)
  BY <1>5, RowsOfSlot, FS_Subset
<1>7. f = [rows \in SUBSET R |-> DealtFrom(s, f, rows)]
  BY <1>5, <1>6
<1> QED BY <1>7

LEMMA DealtRecursion ==
  ASSUME RowsOK, NEW s \in Slots, NEW rows \in SUBSET RowsOf(s)
  PROVE  Dealt(s)[rows] = DealtFrom(s, Dealt(s), rows)
  BY DealtExists DEF Dealt, DealtFrom

At(b, m) == Busy(b).start <= m /\ m < Busy(b).end

\* Somebody is in each position at the moment.
Full(positions, s, m) ==
  \A i \in 1 .. Slot[s].max : \E k \in DOMAIN positions[i] : At(positions[i][k], m)

\* Two rows of a position have begun by the moment, and the first is not over.
Stacked(positions, s, m) ==
  \E i \in 1 .. Slot[s].max : \E j, k \in DOMAIN positions[i] :
    j < k /\ At(positions[i][j], m) /\ Busy(positions[i][k]).start <= m

\* A position is given a second row at a time only when no other is free.
DealtOK(positions, s, rows) ==
  /\ positions \in [1 .. Slot[s].max -> Seq(rows)]
  /\ \A b \in rows : \E i \in 1 .. Slot[s].max : \E k \in DOMAIN positions[i] : positions[i][k] = b
  /\ \A m \in Nat : Stacked(positions, s, m) => Full(positions, s, m)

\* Where a row is put.
LEMMA TargetFacts ==
  ASSUME RowsOK, NEW s \in Slots, NEW rows \in SUBSET RowsOf(s), NEW start \in Nat,
         NEW positions \in [1 .. Slot[s].max -> Seq(rows)]
  PROVE  LET i == Target(positions, start) IN
         /\ i \in 1 .. Slot[s].max
         /\ \/ IsFreeBy(positions[i], start)
            \/ \A j \in 1 .. Slot[s].max : /\ ~IsFreeBy(positions[j], start)
                                           /\ EndOf(positions[i]) <= EndOf(positions[j])
<1> DEFINE D == 1 .. Slot[s].max
           free == {i \in D : IsFreeBy(positions[i], start)}
<1>1. D \in SUBSET Nat /\ D # {} /\ free \in SUBSET Nat /\ DOMAIN positions = D
  BY SlotFacts
<1>2. CASE free # {}
  <2>1. \E i \in free : \A j \in free : i <= j
    <3> HIDE DEF free, D
    <3> QED BY <1>1, <1>2, LeastNat
  <2>2. Target(positions, start) = CHOOSE i \in free : \A j \in free : i <= j
    BY <1>1, <1>2 DEF Target
  <2>3. Target(positions, start) \in free
    <3> HIDE DEF free, D
    <3> QED BY <2>1, <2>2
  <2> QED BY <2>3
<1>3. CASE free = {}
  <2> DEFINE SoonerThan(i, j) == \/ EndOf(positions[i]) < EndOf(positions[j])
                                 \/ EndOf(positions[i]) = EndOf(positions[j]) /\ i <= j
             ends == {EndOf(positions[i]) : i \in D}
  <2>1. ASSUME NEW i \in D PROVE EndOf(positions[i]) \in Nat /\ ~IsFreeBy(positions[i], start)
    <3>1. positions[i] \in Seq(rows) /\ ~IsFreeBy(positions[i], start)
      BY <1>3
    <3>2. positions[i] # <<>>
      BY <3>1 DEF IsFreeBy
    <3>3. positions[i][Len(positions[i])] \in rows
      BY <3>1, <3>2
    <3> QED BY <3>1, <3>3, RowsOfSlot DEF EndOf
  <2>2. ends \in SUBSET Nat /\ ends # {}
    BY <1>1, <2>1
  <2>3. PICK e \in ends : \A x \in ends : e <= x
    <3> HIDE DEF ends
    <3> QED BY <2>2, LeastNat
  <2> DEFINE soonest == {i \in D : EndOf(positions[i]) = e}
  <2>4. soonest \in SUBSET Nat /\ soonest # {}
    BY <1>1, <2>3
  <2>5. PICK c \in soonest : \A j \in soonest : c <= j
    <3> HIDE DEF soonest
    <3> QED BY <2>4, LeastNat
  <2>6. c \in D /\ \A j \in D : SoonerThan(c, j)
    <3>1. c \in D /\ c \in Nat /\ EndOf(positions[c]) = e
      BY <1>1, <2>5
    <3>2. ASSUME NEW j \in D PROVE SoonerThan(c, j)
      <4>1. j \in Nat /\ EndOf(positions[j]) \in Nat /\ e \in Nat
        BY <1>1, <2>1, <2>2
      <4>2. e <= EndOf(positions[j])
        BY <2>3
      <4>3. EndOf(positions[j]) = e => c <= j
        BY <2>5
      <4> QED BY <3>1, <4>1, <4>2, <4>3
    <3> QED BY <3>1, <3>2
  <2>7. Target(positions, start) = CHOOSE i \in D : \A j \in D : SoonerThan(i, j)
    BY <1>1, <1>3 DEF Target
  <2>8. Target(positions, start) \in D /\ \A j \in D : SoonerThan(Target(positions, start), j)
    <3> HIDE DEF D, SoonerThan
    <3> QED BY <2>6, <2>7
  <2>9. \A j \in D : EndOf(positions[Target(positions, start)]) <= EndOf(positions[j])
    BY <2>1, <2>8
  <2> QED BY <2>1, <2>8, <2>9
<1> QED BY <1>2, <1>3

LEMMA DealKeeps ==
  ASSUME RowsOK, NEW s \in Slots, NEW rows \in SUBSET RowsOf(s), NEW b \in rows, ComesLast(b, rows),
         NEW positions, DealtOK(positions, s, rows \ {b})
  PROVE  DealtOK(Deal(positions, b), s, rows)
<1> DEFINE D == 1 .. Slot[s].max
           p == Target(positions, Busy(b).start)
           new == Deal(positions, b)
           n == Len(positions[p])
<1>0. positions \in [D -> Seq(rows \ {b})]
  BY DEF DealtOK
<1>1. /\ Busy(b).start \in Nat /\ Busy(b).end \in Nat
      /\ \A a \in rows \ {b} : /\ Busy(a).start \in Nat /\ Busy(a).end \in Nat
                               /\ Busy(a).start <= Busy(b).start
  BY RowsOfSlot DEF ComesLast
<1>2. /\ p \in D
      /\ \/ IsFreeBy(positions[p], Busy(b).start)
         \/ \A j \in D : /\ ~IsFreeBy(positions[j], Busy(b).start)
                         /\ EndOf(positions[p]) <= EndOf(positions[j])
  <2>1. rows \ {b} \in SUBSET RowsOf(s)
    OBVIOUS
  <2> QED BY <1>0, <1>1, <2>1, TargetFacts
<1> HIDE DEF p
<1>3. /\ new \in [D -> Seq(rows)]
      /\ new[p] = Append(positions[p], b)
      /\ \A i \in D : i # p => new[i] = positions[i]
  <2>1. Append(positions[p], b) \in Seq(rows)
    <3>1. positions[p] \in Seq(rows)
      BY <1>0, <1>2
    <3> QED BY <3>1
  <2>2. \A i \in D : positions[i] \in Seq(rows)
    BY <1>0
  <2>3. new = [positions EXCEPT ![p] = Append(positions[p], b)]
    BY DEF Deal, p
  <2> QED BY <1>0, <1>2, <2>1, <2>2, <2>3
<1> HIDE DEF new
<1>4. n \in Nat /\ Len(new[p]) = n + 1 /\ new[p][n + 1] = b
      /\ \A k \in 1 .. n : new[p][k] = positions[p][k]
  BY <1>0, <1>2, <1>3
<1>5. \A i \in D : /\ DOMAIN positions[i] \subseteq DOMAIN new[i]
                   /\ \A k \in DOMAIN positions[i] : new[i][k] = positions[i][k]
  BY <1>0, <1>2, <1>3, <1>4
<1>6. ASSUME NEW a \in rows
      PROVE  \E i \in D : \E k \in DOMAIN new[i] : new[i][k] = a
  <2>1. CASE a = b
    <3>1. n + 1 \in DOMAIN new[p] /\ new[p][n + 1] = a
      BY <1>2, <1>3, <1>4, <2>1
    <3> QED BY <1>2, <3>1
  <2>2. CASE a # b
    <3>1. PICK i \in D : \E k \in DOMAIN positions[i] : positions[i][k] = a
      BY <2>2 DEF DealtOK
    <3> QED BY <1>5, <3>1
  <2> QED BY <2>1, <2>2
<1>7. ASSUME NEW m \in Nat, Stacked(new, s, m)
      PROVE  Full(new, s, m)
  <2>1. Full(positions, s, m) => Full(new, s, m)
    BY <1>5 DEF Full
  <2>2. PICK i \in D : \E j, k \in DOMAIN new[i] :
          j < k /\ At(new[i][j], m) /\ Busy(new[i][k]).start <= m
    BY <1>7 DEF Stacked
  <2>3. PICK j, k \in DOMAIN new[i] : j < k /\ At(new[i][j], m) /\ Busy(new[i][k]).start <= m
    BY <2>2
  <2>4. CASE j \in DOMAIN positions[i] /\ k \in DOMAIN positions[i]
    <3>1. Stacked(positions, s, m)
      BY <1>5, <2>3, <2>4 DEF Stacked
    <3> QED BY <2>1, <3>1 DEF DealtOK
  <2>5. CASE ~(j \in DOMAIN positions[i] /\ k \in DOMAIN positions[i])
    <3>1. i = p
      BY <1>3, <2>5
    <3>2. /\ j \in 1 .. n /\ k = n + 1 /\ positions[p] \in Seq(rows \ {b}) /\ n > 0
          /\ DOMAIN positions[p] = 1 .. n
      BY <1>0, <1>2, <1>3, <1>4, <2>3, <2>5, <3>1
    <3>3. At(positions[p][j], m) /\ Busy(b).start <= m
      BY <1>4, <2>3, <3>1, <3>2
    <3>4. positions[p][n] \in rows \ {b}
      BY <3>2
    <3>5. CASE j < n
      <4>1. Busy(positions[p][n]).start <= m
        BY <1>1, <3>3, <3>4
      <4>2. n \in DOMAIN positions[p] /\ j \in DOMAIN positions[p]
        BY <3>2
      <4>3. Stacked(positions, s, m)
        BY <1>2, <3>3, <3>5, <4>1, <4>2 DEF Stacked
      <4> QED BY <2>1, <4>3 DEF DealtOK
    <3>6. CASE j = n
      <4>1. EndOf(positions[p]) \in Nat /\ EndOf(positions[p]) > m /\ positions[p] # <<>>
        BY <1>1, <3>2, <3>3, <3>4, <3>6 DEF EndOf, At
      <4>2. ~IsFreeBy(positions[p], Busy(b).start)
        BY <1>1, <3>3, <4>1 DEF IsFreeBy
      <4>3. ASSUME NEW q \in D PROVE \E l \in DOMAIN positions[q] : At(positions[q][l], m)
        <5>1. positions[q] # <<>> /\ EndOf(positions[p]) <= EndOf(positions[q])
          BY <1>2, <4>2, <4>3 DEF IsFreeBy
        <5> DEFINE l == Len(positions[q])
        <5>2. l \in DOMAIN positions[q] /\ positions[q][l] \in rows \ {b}
          <6>1. positions[q] \in Seq(rows \ {b})
            BY <1>0
          <6> QED BY <5>1, <6>1
        <5>3. Busy(positions[q][l]).end > m
          BY <1>1, <4>1, <5>1, <5>2 DEF EndOf
        <5>4. Busy(positions[q][l]).start <= m
          BY <1>1, <3>3, <5>2
        <5> QED BY <5>2, <5>3, <5>4 DEF At
      <4> QED BY <2>1, <4>3 DEF Full
    <3> QED BY <3>2, <3>5, <3>6
  <2> QED BY <2>4, <2>5
<1>8. /\ \A a \in rows : \E i \in D : \E k \in DOMAIN new[i] : new[i][k] = a
      /\ \A m \in Nat : Stacked(new, s, m) => Full(new, s, m)
  BY <1>6, <1>7
<1> QED BY <1>3, <1>8 DEF DealtOK, new

LEMMA AllDealtOK ==
  ASSUME RowsOK, NEW s \in Slots
  PROVE  DealtOK(Positions(s), s, RowsOf(s))
<1> DEFINE R == RowsOf(s)
           Good == {rows \in SUBSET R : DealtOK(Dealt(s)[rows], s, rows)}
<1>1. ASSUME NEW x \in SUBSET R, \A y \in SUBSET x : y # x => y \in Good
      PROVE  x \in Good
  <2>1. Dealt(s)[x] = DealtFrom(s, Dealt(s), x)
    BY DealtRecursion
  <2>2. CASE x = {}
    <3>1. Dealt(s)[x] = [i \in 1 .. Slot[s].max |-> <<>>]
      BY <2>1, <2>2 DEF DealtFrom
    <3>2. \A i \in 1 .. Slot[s].max : DOMAIN Dealt(s)[x][i] = {}
      BY <3>1
    <3>3. Dealt(s)[x] \in [1 .. Slot[s].max -> Seq(x)]
      BY <3>1
    <3>4. DealtOK(Dealt(s)[x], s, x)
      BY <2>2, <3>2, <3>3 DEF DealtOK, Stacked
    <3> QED BY <3>4
  <2>3. CASE x # {}
    <3> DEFINE b == CHOOSE b \in x : ComesLast(b, x)
    <3>1. b \in x /\ ComesLast(b, x)
      BY <2>3, LastRow
    <3>2. Dealt(s)[x] = Deal(Dealt(s)[x \ {b}], b)
      BY <2>1, <2>3 DEF DealtFrom
    <3> HIDE DEF b
    <3>3. DealtOK(Dealt(s)[x \ {b}], s, x \ {b})
      BY <1>1, <3>1
    <3>4. DealtOK(Dealt(s)[x], s, x)
      BY <3>1, <3>2, <3>3, DealKeeps
    <3> QED BY <3>4
  <2> QED BY <2>2, <2>3
<1>2. Good = SUBSET R
  <2>1. Good \in SUBSET (SUBSET R) /\ IsFiniteSet(R)
    BY RowsOfSlot
  <2> HIDE DEF Good, R
  <2> QED BY <1>1, <2>1, BySubsets
<1> QED BY <1>2 DEF Positions

LEMMA FirstNumbers ==
  ASSUME NEW n \in Nat
  PROVE  IsFiniteSet(1 .. n) /\ Cardinality(1 .. n) = n
<1>1. IsFiniteSet(1 .. n) /\ Cardinality(1 .. n) = IF 1 > n THEN 0 ELSE n - 1 + 1
  BY FS_Interval
<1>2. (IF 1 > n THEN 0 ELSE n - 1 + 1) = n
  OBVIOUS
<1> QED BY <1>1, <1>2

LEMMA Places ==
  ASSUME NEW s \in Slots
  PROVE  IsFiniteSet(1 .. Slot[s].max) /\ Cardinality(1 .. Slot[s].max) = Slot[s].max
  BY SlotFacts, FirstNumbers

\* The rows planned into a slot that are there at a moment.
Present(s, m) == {b \in Planned : booking[b].slot = s /\ booking[b].start <= m /\ m < booking[b].end}

\* Where the bot finds an interval, a place is free all the time: what the dealing out shows
\* as free is free, also in a slot that was planned beyond its places.
THEOREM IntervalIsPlace ==
  ASSUME RowsOK, NEW row \in BookedRow, row.slot \in Slots, IsWithin(row), HasInterval(row),
         NEW m \in row.start .. row.end - 1
  PROVE  Cardinality(Present(row.slot, m)) < Slot[row.slot].max
<1> DEFINE s == row.slot
           D == 1 .. Slot[s].max
           P == Positions(s)
           C == Present(s, m)
           InPosition(b, j) == \E k \in DOMAIN P[j] : P[j][k] = b
<1>0. /\ s \in Slots /\ row.start \in Nat /\ row.end \in Nat /\ m \in Nat
      /\ row.start <= m /\ m < row.end /\ Slot[s].start <= m /\ m < Slot[s].end
      /\ Slot[s].start \in Nat /\ Slot[s].end \in Nat
      /\ Slot[s].start <= row.start /\ row.end <= Slot[s].end
  <2>1. row.start \in Nat /\ row.end \in Nat
    BY DEF BookedRow, Times, Moments
  <2> QED BY <2>1, SlotFacts DEF IsWithin
<1>1. DealtOK(P, s, RowsOf(s)) /\ P \in [D -> Seq(RowsOf(s))]
  BY AllDealtOK DEF DealtOK
<1>2. \A b \in C : b \in RowsOf(s) /\ At(b, m)
  <2> SUFFICES ASSUME NEW b \in C PROVE b \in RowsOf(s) /\ At(b, m)
    OBVIOUS
  <2>1. /\ b \in Planned /\ booking[b].slot = s /\ booking[b].start <= m /\ m < booking[b].end
        /\ booking[b].start \in Nat /\ booking[b].end \in Nat
    BY RowTimes DEF Present, Planned
  <2>2. b \in RowsOf(s)
    BY <1>0, <2>1 DEF RowsOf, Meets
  <2>3. At(b, m)
    BY <1>0, <2>1 DEF At, Busy, CutTo
  <2> QED BY <2>2, <2>3
<1>3. PICK i \in D : \A k \in DOMAIN P[i] : ~Meets(Busy(P[i][k]), row)
  BY DEF HasInterval
<1>4. \A k \in DOMAIN P[i] : ~At(P[i][k], m)
  <2> SUFFICES ASSUME NEW k \in DOMAIN P[i], At(P[i][k], m) PROVE FALSE
    OBVIOUS
  <2>1. P[i] \in Seq(RowsOf(s))
    BY <1>1
  <2>2. Busy(P[i][k]).start \in Nat /\ Busy(P[i][k]).end \in Nat
    <3>1. P[i][k] \in RowsOf(s)
      BY <2>1
    <3> QED BY <1>0, <3>1, RowsOfSlot
  <2>3. Meets(Busy(P[i][k]), row)
    BY <1>0, <2>2 DEF At, Meets
  <2> QED BY <1>3, <2>3
<1>5. ~Stacked(P, s, m)
  BY <1>0, <1>1, <1>4 DEF DealtOK, Full
<1>6. \A b \in C : \E j \in D : InPosition(b, j)
  BY <1>1, <1>2 DEF DealtOK
<1> DEFINE g == [b \in C |-> CHOOSE j \in D : InPosition(b, j)]
<1>7. \A b \in C : g[b] \in D /\ InPosition(b, g[b])
  <2> HIDE DEF InPosition, D, C
  <2> QED BY <1>6
<1>8. g \in [C -> D \ {i}]
  <2> HIDE DEF D, C
  <2>1. \A b \in C : g[b] # i
    BY <1>2, <1>4, <1>7
  <2> QED BY <1>7, <2>1
<1>9. ASSUME NEW a \in C, NEW b \in C, g[a] = g[b] PROVE a = b
  <2>1. PICK j : j = g[a]
    OBVIOUS
  <2>2. j \in D /\ InPosition(a, j) /\ InPosition(b, j)
    <3> HIDE DEF g, C, D, InPosition
    <3> QED BY <1>7, <1>9, <2>1
  <2>3. PICK k \in DOMAIN P[j], l \in DOMAIN P[j] : P[j][k] = a /\ P[j][l] = b
    BY <2>2
  <2>4. At(a, m) /\ At(b, m) /\ Busy(a).start <= m /\ Busy(b).start <= m
    <3> HIDE DEF C
    <3> QED BY <1>2 DEF At
  <2>5. k \in Nat /\ l \in Nat
    <3>1. P[j] \in Seq(RowsOf(s))
      BY <1>1, <2>2
    <3> HIDE DEF P
    <3> QED BY <3>1
  <2>6. ~(k < l) /\ ~(l < k)
    BY <1>5, <2>2, <2>3, <2>4 DEF Stacked
  <2> QED BY <2>3, <2>5, <2>6
<1>10. IsFiniteSet(C)
  BY BookingsFinite, FS_Subset DEF Present
<1>11. IsFiniteSet(D \ {i}) /\ Cardinality(D \ {i}) = Slot[s].max - 1
  <2>1. IsFiniteSet(D) /\ Cardinality(D) = Slot[s].max
    BY Places
  <2> HIDE DEF D
  <2> QED BY <2>1, FS_RemoveElement
<1>12. Cardinality(C) <= Slot[s].max - 1
  <2> HIDE DEF g, C, D
  <2>1. ~(Cardinality(D \ {i}) < Cardinality(C))
    BY <1>8, <1>9, <1>10, <1>11, FS_PigeonHole
  <2>2. Cardinality(C) \in Nat /\ Slot[s].max \in Nat
    BY <1>0, <1>10, FS_CardinalityType, SlotFacts
  <2> QED BY <1>11, <2>1, <2>2
<1>13. Cardinality(C) < Slot[s].max
  <2> HIDE DEF C
  <2>1. Cardinality(C) \in Nat /\ Slot[s].max \in Nat
    BY <1>0, <1>10, FS_CardinalityType, SlotFacts
  <2> QED BY <1>12, <2>1
<1> QED BY <1>13

-----------------------------------------------------------------------------
(* No more than there are places.                                          *)

\* Those of them that count: the manager's page plans beyond the places.
Seated(s, m) == {b \in Present(s, m) : booking[b].by # "manager"}

\* The row a desk has a plan for lies in its slot, and a place is free for all of its time.
PlansPlaced ==
  \A d \in Desks : plan[d] # NoPlan =>
    /\ IsWithin(plan[d].row) /\ plan[d].row.by = Kind(d)
    /\ d # "manager" =>
         \A m \in plan[d].row.start .. plan[d].row.end - 1 :
           Cardinality(Present(plan[d].row.slot, m) \ {plan[d].at}) < Slot[plan[d].row.slot].max

CapacityInv == TablesOK /\ PlansOK /\ PlansPlaced /\ WithinCapacity

LEMMA TablesRows == TablesOK => RowsOK
  BY DEF TablesOK, RowsOK

LEMMA QuietPlaced == Quiet => PlansOK /\ PlansPlaced
  BY DEF Quiet, PlansOK, PlansPlaced

LEMMA CapacityIsCount ==
  WithinCapacity <=> (SlotsApart => \A s \in Slots : \A m \in Slot[s].start .. Slot[s].end - 1 :
                                      Cardinality(Seated(s, m)) <= Slot[s].max)
<1>1. \A s, m : Seated(s, m) = {b \in Planned : /\ booking[b].slot = s /\ booking[b].by # "manager"
                                                 /\ booking[b].start <= m /\ m < booking[b].end}
  BY DEF Seated, Present
<1> QED BY <1>1 DEF WithinCapacity

LEMMA PresentFinite ==
  ASSUME NEW s, NEW m, NEW at
  PROVE  /\ IsFiniteSet(Present(s, m)) /\ IsFiniteSet(Seated(s, m))
         /\ IsFiniteSet(Present(s, m) \ {at})
         /\ Cardinality(Present(s, m)) \in Nat /\ Cardinality(Seated(s, m)) \in Nat
         /\ Cardinality(Present(s, m) \ {at}) \in Nat
<1>1. /\ Present(s, m) \subseteq Planned /\ Seated(s, m) \subseteq Planned
      /\ Present(s, m) \ {at} \subseteq Planned
  BY DEF Present, Seated
<1> QED BY <1>1, BookingsFinite, FS_Subset, FS_CardinalityType

\* What the counting of a calendar or the dealing out of the bot has found is a place.
LEMMA AllowedIsPlaced ==
  ASSUME RowsOK, NEW d \in Desks \ {"manager"}, NEW row \in BookedRow, row.slot \in Slots,
         IsWithin(row), NEW at, Allows(d, row, at), d = "bot" => at = 0,
         NEW m \in row.start .. row.end - 1
  PROVE  Cardinality(Present(row.slot, m) \ {at}) < Slot[row.slot].max
<1>0. row.start \in Nat /\ row.end \in Nat /\ row.start <= m /\ m < row.end
  <2>1. row.start \in Nat /\ row.end \in Nat
    BY DEF BookedRow, Times, Moments
  <2> QED BY <2>1
<1>1. CASE d = "bot"
  <2>1. HasInterval(row)
    BY <1>1 DEF Allows
  <2>2. Present(row.slot, m) \ {at} = Present(row.slot, m)
    BY <1>1 DEF Present, Planned, Bookings
  <2> QED BY <2>1, <2>2, IntervalIsPlace
<1>2. CASE d # "bot"
  <2> DEFINE others == {b \in Planned \ {at} : booking[b].slot = row.slot /\ Meets(booking[b], row)}
  <2>1. Cardinality(others) < Slot[row.slot].max
    BY <1>2 DEF Allows, Desks, HasPlace
  <2>2. Present(row.slot, m) \ {at} \subseteq others
    <3> SUFFICES ASSUME NEW b \in Present(row.slot, m) \ {at} PROVE b \in others
      OBVIOUS
    <3>1. b \in Planned \ {at} /\ booking[b].slot = row.slot /\ b \in Bookings
          /\ booking[b].start <= m /\ m < booking[b].end
      BY DEF Present, Planned
    <3>2. Meets(booking[b], row)
      BY <1>0, <3>1, RowTimes DEF Meets
    <3> QED BY <3>1, <3>2
  <2>3. IsFiniteSet(others)
    BY BookingsFinite, FS_Subset
  <2> HIDE DEF others
  <2>4. /\ Cardinality(Present(row.slot, m) \ {at}) <= Cardinality(others)
        /\ Cardinality(others) \in Nat /\ Cardinality(Present(row.slot, m) \ {at}) \in Nat
    BY <2>2, <2>3, PresentFinite, FS_Subset, FS_CardinalityType
  <2> QED BY <2>1, <2>4, SlotFacts
<1> QED BY <1>1, <1>2

\* One row more, or one row changed.
LEMMA OneMore ==
  ASSUME NEW s \in Slots, NEW m, NEW b,
         Planned' \subseteq Planned \cup {b},
         \A a \in Planned' \ {b} : booking'[a] = booking[a],
         Cardinality(Seated(s, m)) <= Slot[s].max,
         b \in Seated(s, m)' => Cardinality(Present(s, m) \ {b}) < Slot[s].max
  PROVE  Cardinality(Seated(s, m))' <= Slot[s].max
<1>1. \A a \in Seated(s, m)' : a # b => a \in Seated(s, m) /\ a \in Present(s, m)
  BY DEF Seated, Present
<1>2. Slot[s].max \in Nat /\ IsFiniteSet(Planned)
  BY SlotFacts, BookingsFinite
<1> DEFINE C == Seated(s, m)
           O == Present(s, m) \ {b}
           N == Seated(s, m)'
<1>3. /\ IsFiniteSet(C) /\ Cardinality(C) \in Nat /\ IsFiniteSet(O) /\ Cardinality(O) \in Nat
  BY PresentFinite
<1>4. b \notin N => N \subseteq C
  BY <1>1
<1>5. N \subseteq O \cup {b}
  BY <1>1
<1>6. /\ b \notin O
      /\ Cardinality(C) <= Slot[s].max
      /\ b \in N => Cardinality(O) < Slot[s].max
  OBVIOUS
<1> HIDE DEF C, O, N
<1>7. CASE b \notin N
  <2>1. Cardinality(N) <= Cardinality(C) /\ Cardinality(N) \in Nat
    BY <1>3, <1>4, <1>7, FS_Subset, FS_CardinalityType
  <2>2. Cardinality(N) <= Slot[s].max
    BY <1>2, <1>3, <1>6, <2>1
  <2> QED BY <2>2 DEF N
<1>8. CASE b \in N
  <2>1. IsFiniteSet(O \cup {b}) /\ Cardinality(O \cup {b}) = Cardinality(O) + 1
    BY <1>3, <1>6, FS_AddElement
  <2>2. Cardinality(N) <= Cardinality(O) + 1 /\ Cardinality(N) \in Nat
    BY <1>5, <2>1, FS_Subset, FS_CardinalityType
  <2>3. Cardinality(N) <= Slot[s].max
    BY <1>2, <1>3, <1>6, <1>8, <2>2
  <2> QED BY <2>3 DEF N
<1> QED BY <1>7, <1>8

LEMMA NextCapacityInv == Turns /\ CapacityInv /\ [BookingNext]_vars => CapacityInv'
<1> SUFFICES ASSUME Turns, CapacityInv, [BookingNext]_vars PROVE CapacityInv'
  OBVIOUS
<1> USE DEF CapacityInv
<1>0. RowsOK
  BY TablesRows
<1>1. CASE UNCHANGED vars
  BY <1>1 DEF vars, TablesOK, PlansOK, PlansPlaced, WithinCapacity, Planned, ObjectOf, Present
<1>2. ASSUME NEW d \in Desks, Insert(d) PROVE CapacityInv'
  <2>1. PICK b \in Bookings : /\ booking[b].status = "none"
                             /\ Planned' = Planned \cup {b}
                             /\ booking'[b] = plan[d].row
                             /\ \A a \in Planned : a # b /\ booking'[a] = booking[a]
    BY <1>2, InsertStep
  <2>2. plan[d] # NoPlan /\ plan[d].at = 0 /\ plan[d].row.by = Kind(d) /\ plan[d].row \in BookedRow
    BY <1>2 DEF Insert, PlansPlaced, TablesOK
  <2>3. ASSUME NEW s \in Slots, NEW m \in Slot[s].start .. Slot[s].end - 1,
               Cardinality(Seated(s, m)) <= Slot[s].max
        PROVE  Cardinality(Seated(s, m))' <= Slot[s].max
    <3>1. ASSUME b \in Seated(s, m)' PROVE Cardinality(Present(s, m) \ {b}) < Slot[s].max
      <4>1. /\ plan[d].row.slot = s /\ plan[d].row.by # "manager"
            /\ plan[d].row.start <= m /\ m < plan[d].row.end
        BY <2>1, <3>1 DEF Seated, Present
      <4>2. m \in plan[d].row.start .. plan[d].row.end - 1
        BY <2>2, <2>3, <4>1, SlotFacts DEF BookedRow, Times, Moments
      <4>3. d # "manager"
        BY <2>2, <4>1 DEF Kind
      <4>4. Present(s, m) \ {b} = Present(s, m) \ {0}
        BY <2>1 DEF Present, Planned, Bookings
      <4> QED BY <2>2, <4>1, <4>2, <4>3, <4>4 DEF PlansPlaced
    <3> QED BY <2>1, <2>3, <3>1, OneMore
  <2>4. WithinCapacity'
    <3>1. (SlotsApart => \A s \in Slots : \A m \in Slot[s].start .. Slot[s].end - 1 :
                           Cardinality(Seated(s, m)) <= Slot[s].max)'
      BY <2>3, CapacityIsCount DEF SlotsApart, Meets
    <3> QED BY <3>1, CapacityIsCount, PTL
  <2> QED BY <1>2, <2>4, InsertStep, QuietPlaced, PTL
<1>3. ASSUME Move PROVE CapacityInv'
  <2> DEFINE row == plan["owner"].row
  <2>1. PICK b \in Planned : /\ plan["owner"] # NoPlan /\ b = plan["owner"].at
                            /\ Planned' = Planned
                            /\ booking'[b] = [row EXCEPT !.slot = booking[b].slot]
                            /\ \A a \in Planned \ {b} : booking'[a] = booking[a]
    BY <1>3, MoveStep
  <2>2. "owner" \in Desks /\ "owner" # "manager" /\ b \in Bookings /\ b # 0
    BY <2>1 DEF Desks, Planned, Bookings
  <2>3. /\ row \in BookedRow /\ row.slot \in Slots /\ IsWithin(row)
        /\ ObjectOf(booking[b]) = ObjectOf(row)
    BY <2>1, <2>2 DEF TablesOK, PlansOK, PlansPlaced
  <2>4. /\ booking'[b].start = row.start /\ booking'[b].end = row.end
        /\ booking'[b].slot = booking[b].slot
        /\ row.start \in Nat /\ row.end \in Nat
    BY <2>1, <2>3 DEF BookedRow, Times, Moments
  <2>5. ASSUME SlotsApart, NEW s \in Slots, NEW m \in Slot[s].start .. Slot[s].end - 1,
               Cardinality(Seated(s, m)) <= Slot[s].max
        PROVE  Cardinality(Seated(s, m))' <= Slot[s].max
    <3>1. ASSUME b \in Seated(s, m)' PROVE Cardinality(Present(s, m) \ {b}) < Slot[s].max
      <4>0. PICK t \in Slots : t = row.slot
        BY <2>3
      <4>1. booking[b].slot = s /\ row.start <= m /\ m < row.end
        BY <2>4, <3>1 DEF Seated, Present
      <4>2. /\ Slot[s].start <= m /\ m < Slot[s].end /\ m \in Nat
            /\ Slot[s].start \in Nat /\ Slot[s].end \in Nat
            /\ Slot[t].start \in Nat /\ Slot[t].end \in Nat
        BY <2>5, SlotFacts
      <4>3. Slot[t].start <= row.start /\ row.end <= Slot[t].end
        BY <2>3, <4>0 DEF IsWithin
      <4>4. Meets(Slot[s], Slot[t])
        BY <2>4, <4>1, <4>2, <4>3 DEF Meets
      <4>5. s = t
        BY <2>3, <2>5, <4>0, <4>1, <4>4 DEF SlotsApart, ObjectOf
      <4>6. m \in row.start .. row.end - 1
        BY <2>4, <4>1, <4>2
      <4> HIDE DEF row
      <4>7. Cardinality(Present(row.slot, m) \ {plan["owner"].at}) < Slot[row.slot].max
        BY <2>1, <2>2, <4>6 DEF PlansPlaced, row
      <4> QED BY <2>1, <4>0, <4>5, <4>7
    <3> QED BY <2>1, <2>5, <3>1, OneMore
  <2>6. WithinCapacity'
    <3>1. (SlotsApart => \A s \in Slots : \A m \in Slot[s].start .. Slot[s].end - 1 :
                           Cardinality(Seated(s, m)) <= Slot[s].max)'
      BY <2>5, CapacityIsCount DEF SlotsApart, Meets
    <3> QED BY <3>1, CapacityIsCount, PTL
  <2> QED BY <1>3, <2>6, MoveStep, QuietPlaced, PTL
<1>4. ASSUME Quiet, (\E d \in Desks : Check(d)) \/ (\E b \in Bookings : CheckMove(b)) PROVE CapacityInv'
  <2>1. PICK d \in Desks : /\ Allows(d, plan'[d].row, plan'[d].at)
                          /\ IsWithin(plan'[d].row) /\ plan'[d].row.by = Kind(d)
                          /\ \A q \in Desks \ {d} : plan'[q] = NoPlan
    BY <1>4, CheckStep
  <2>2. TablesOK' /\ PlansOK' /\ booking' = booking
    BY <1>4, CheckStep
  <2>3. PlansPlaced'
    <3> SUFFICES ASSUME NEW q \in Desks, plan'[q] # NoPlan
                 PROVE  /\ IsWithin(plan'[q].row) /\ plan'[q].row.by = Kind(q)
                        /\ q # "manager" =>
                             \A m \in plan'[q].row.start .. plan'[q].row.end - 1 :
                               Cardinality(Present(plan'[q].row.slot, m) \ {plan'[q].at})
                                 < Slot[plan'[q].row.slot].max
      BY <2>2 DEF PlansPlaced, Present, Planned, IsWithin
    <3>1. q = d
      BY <2>1
    <3>2. /\ plan'[q].row \in BookedRow /\ plan'[q].row.slot \in Slots
          /\ q = "bot" => plan'[q].at = 0
      BY <2>2 DEF TablesOK, PlansOK
    <3> QED BY <1>0, <2>1, <3>1, <3>2, AllowedIsPlaced
  <2>4. WithinCapacity'
    BY <2>2 DEF WithinCapacity, Planned
  <2> QED BY <2>2, <2>3, <2>4
<1>5. ASSUME Quiet, NEW gone \in SUBSET Bookings, Removes(gone) PROVE CapacityInv'
  <2>1. Planned' \subseteq Planned /\ \A a \in Planned' : booking'[a] = booking[a]
    BY <1>5, RemoveStep
  <2>2. ASSUME NEW s \in Slots, NEW m, Cardinality(Seated(s, m)) <= Slot[s].max
        PROVE  Cardinality(Seated(s, m))' <= Slot[s].max
    <3>1. 0 \notin Seated(s, m)'
      BY <2>1 DEF Seated, Present, Planned, Bookings
    <3> QED BY <2>1, <2>2, <3>1, OneMore
  <2>3. WithinCapacity'
    <3>1. (SlotsApart => \A s \in Slots : \A m \in Slot[s].start .. Slot[s].end - 1 :
                           Cardinality(Seated(s, m)) <= Slot[s].max)'
      BY <2>2, CapacityIsCount DEF SlotsApart, Meets
    <3> QED BY <3>1, CapacityIsCount, PTL
  <2> QED BY <1>5, <2>3, RemoveStep, QuietPlaced, PTL
<1> QED BY <1>1, <1>2, <1>3, <1>4, <1>5, Steps

LEMMA InitCapacityInv == BookingInit => CapacityInv
<1> SUFFICES ASSUME BookingInit PROVE CapacityInv
  OBVIOUS
<1>1. TablesOK /\ PlansOK /\ Planned = {}
  BY InitTables
<1>2. PlansPlaced
  <2>1. Quiet
    BY DEF BookingInit, Quiet
  <2> QED BY <2>1, QuietPlaced
<1>3. \A s, m : Seated(s, m) = {}
  BY <1>1 DEF Seated, Present
<1>4. WithinCapacity
  <2>1. ASSUME NEW s \in Slots, NEW m PROVE Cardinality(Seated(s, m)) <= Slot[s].max
    <3>1. Cardinality(Seated(s, m)) = 0
      BY <1>3, FS_EmptySet
    <3> QED BY <3>1, SlotFacts
  <2> QED BY <2>1, CapacityIsCount
<1> QED BY <1>1, <1>2, <1>4 DEF CapacityInv

\* Where a desk's check and its insertion are not interrupted and the slots of an object keep
\* apart, no slot has at any moment more people planned into it than places, those of the
\* manager's page aside: the counting of the two calendars and the dealing out of the bot
\* keep each other's promise, whoever moves, cancels or terminates in between.
THEOREM CapacityKept == Turns => (BookingSpec => []WithinCapacity)
<1> SUFFICES ASSUME Turns PROVE BookingSpec => []WithinCapacity
  OBVIOUS
<1>1. BookingInit => CapacityInv
  BY InitCapacityInv
<1>2. CapacityInv /\ [BookingNext]_vars => CapacityInv'
  BY NextCapacityInv
<1>3. CapacityInv => WithinCapacity
  BY DEF CapacityInv
<1> QED BY <1>1, <1>2, <1>3, PTL DEF BookingSpec

-----------------------------------------------------------------------------
(* The contracts, with the planning beside them.                           *)

\* Every step of the planning is, for the contracts, a step of theirs or none.
LEMMA ContractSteps == [BookingNext]_vars => [Next]_cvars
<1> SUFFICES ASSUME [BookingNext]_vars PROVE [Next]_cvars
  OBVIOUS
<1>1. CASE UNCHANGED vars
  BY <1>1 DEF vars
<1>2. CASE PlanStep
  BY <1>2 DEF PlanStep, Insert, Move
<1>3. CASE FreeStep
  <2>1. CASE \/ \E d \in Desks : Check(d)
             \/ \E b \in Bookings : CheckMove(b) \/ CancelBooking(b)
    BY <2>1 DEF Check, CheckMove, CancelBooking
  <2>2. CASE \/ \E p \in Owners : TerminateAndCancel(p)
             \/ \E p \in Managers, c \in Contracts : ManagerTerminatesAndCancels(p, c)
    BY <2>2 DEF TerminateAndCancel, ManagerTerminatesAndCancels, Next, TerminationStep
  <2>3. CASE OtherStep
    BY <2>3 DEF Next
  <2> QED BY <1>3, <2>1, <2>2, <2>3 DEF FreeStep
<1> QED BY <1>1, <1>2, <1>3 DEF BookingNext

LEMMA InitBookingRoles == BookingInit => HInv
<1> SUFFICES ASSUME BookingInit PROVE HInv
  OBVIOUS
<1>1. TypeOK
  BY InitContracts DEF ContractsOK
<1>2. ASSUME NEW c \in Contracts
      PROVE  /\ contract[c].status = "active" /\ contract[c].signed /\ ~contract[c].reset
             /\ contract[c].isActive /\ contract[c].employee \in Employees
  <2>1. contract[c].employee \in Employees
    BY <1>1 DEF TypeOK, Row
  <2> QED BY <2>1 DEF BookingInit, NoRow
<1>3. \A e \in Employees : "employee" \in user[e].roles
  BY DEF BookingInit
<1>4. \A p \in People : request[p].op = "idle"
  BY DEF BookingInit, Idle
<1>5. SInv
  BY <1>1, <1>2, <1>4 DEF SInv, SigOK, WillWrite, Commits
<1>6. \A c \in Contracts : RowOK(contract[c]) /\ RoleOK(c)
  BY <1>2, <1>3 DEF RowOK, RoleOK
<1>7. \A p \in People : RequestOK(p)
  BY <1>4 DEF RequestOK, Commits
<1> QED BY <1>5, <1>6, <1>7 DEF HInv

\* With the desks planning beside them, checks and insertions overlapping or not, the contracts
\* keep what they keep alone: one in force is signed, or was put in force by a manager's page.
THEOREM SignedWhilePlanning == BookingSpec => []ActiveIsSigned
<1>1. BookingInit => SInv
  BY InitBookingRoles DEF HInv
<1>2. SInv /\ [BookingNext]_vars => SInv'
  BY ContractSteps, NextSInv
<1>3. SInv => ActiveIsSigned
  BY DEF SInv, SigOK, ActiveIsSigned
<1> QED BY <1>1, <1>2, <1>3, PTL DEF BookingSpec

\* While desks plan, in any overlap, a contract out of use stays out of use under the requests
\* of owner, manager and task, but for offers whose template has been changed.
THEOREM OutOfUseWhilePlanning == BookingSpec => InactiveStays
<1>1. BookingInit => SInv
  BY InitBookingRoles DEF HInv
<1>2. SInv /\ [BookingNext]_vars => SInv' /\ [StaysOut]_cvars
  BY ContractSteps, NextSInv
<1>3. BookingSpec => [][StaysOut]_cvars
  BY <1>1, <1>2, PTL DEF BookingSpec
<1> QED BY <1>3 DEF InactiveStays, StaysOut

\* With one owner, and desks that plan in any overlap, an employee whose contract is in force
\* has the role, the deferred check of the role after a termination included.
THEOREM RolesWhilePlanning == OneOwner => (BookingSpec => []HiredHasRole)
<1> SUFFICES ASSUME OneOwner PROVE BookingSpec => []HiredHasRole
  OBVIOUS
<1>1. HInv /\ [BookingNext]_vars => HInv'
  BY ContractSteps, NextHInv
<1>2. HInv => HiredHasRole
  BY DEF HInv, HiredHasRole, Works, Counts, RoleOK
<1> QED BY <1>1, <1>2, InitBookingRoles, PTL DEF BookingSpec

\* The planned rows and the roles: who is planned on a page has the role that lets him into the
\* pages of his shift, unless the contract behind the row is a manager's doing, has been
\* taken out of use by a change of its template, or still awaits the role.
PlannedHasRole ==
  \A b \in Planned :
    booking[b].by # "bot" =>
      \/ "employee" \in user[booking[b].employee].roles
      \/ \E c \in Of(booking[b].employee) :
           /\ ObjectOf(booking[b]) \in contract[c].objects
           /\ \/ c \in handled \/ contract[c].reset
              \/ \E p \in People : request[p].op = "assign_employee" /\ request[p].of = c

\* What the desks check about a contract and what the requests of the owner do to the role
\* afterwards fit together: planning, terminations and the checks of the role overlap, and
\* nobody loses the role whose plans remain.
THEOREM PlannedPeopleHaveRole ==
  Turns /\ ObjectsStay /\ OneOwner => (BookingSpec => []PlannedHasRole)
<1> SUFFICES ASSUME Turns, ObjectsStay, OneOwner PROVE BookingSpec => []PlannedHasRole
  OBVIOUS
<1>1. BookingSpec => []PlannedHasAccess /\ []HiredHasRole
  BY PlansHaveContracts, RolesWhilePlanning
<1>2. PlannedHasAccess /\ HiredHasRole => PlannedHasRole
  BY DEF PlannedHasAccess, HiredHasRole, PlannedHasRole, Of
<1> QED BY <1>1, <1>2, PTL

-----------------------------------------------------------------------------
(* What holds however checks and insertions overlap.                       *)

\* A planned row lies in a slot of the object it is planned for.
InSomeSlot(row) ==
  \E t \in Slots : /\ Slot[t].object = ObjectOf(row)
                   /\ Slot[t].start <= row.start /\ row.start < row.end /\ row.end <= Slot[t].end

PlannedInSlots == \A b \in Planned : booking[b].slot \in Slots /\ InSomeSlot(booking[b])

PlanInSlot(d) ==
  LET row == plan[d].row  at == plan[d].at IN
  plan[d] # NoPlan =>
    /\ row.status = "planned" /\ row.slot \in Slots /\ IsWithin(row)
    /\ at # 0 => /\ at \in Bookings
                 /\ at \in Planned => ObjectOf(booking[at]) = ObjectOf(row)
                 /\ booking[at].status # "none"

InSlotsInv == TablesOK /\ (\A d \in Desks : PlanInSlot(d)) /\ PlannedInSlots

LEMMA NextInSlots == InSlotsInv /\ [BookingNext]_vars => InSlotsInv'
<1> SUFFICES ASSUME InSlotsInv, [BookingNext]_vars PROVE InSlotsInv'
  OBVIOUS
<1> USE DEF InSlotsInv
<1>0. /\ booking \in [Bookings -> BookedRow] /\ 0 \notin Bookings
      /\ plan \in [Desks -> [at : 0 .. MaxBookings, row : BookedRow]]
      /\ Bookings \subseteq 0 .. MaxBookings /\ 0 \in 0 .. MaxBookings
      /\ NoPlan \in [at : 0 .. MaxBookings, row : BookedRow]
  BY EmptyRows, BookingAssumption DEF TablesOK, Bookings
<1>1. CASE UNCHANGED vars
  BY <1>1 DEF vars, TablesOK, PlanInSlot, PlannedInSlots, Planned, ObjectOf, InSomeSlot, IsWithin
<1>2. ASSUME NEW d \in Desks, Insert(d) PROVE InSlotsInv'
  <2>1. PICK b \in FreeRow : booking' = [booking EXCEPT ![b] = plan[d].row]
    BY <1>2 DEF Insert
  <2>2. /\ b \in Bookings /\ booking[b].status = "none" /\ plan[d].row \in BookedRow
        /\ plan[d].row.slot \in Slots /\ IsWithin(plan[d].row)
    BY <1>0, <1>2, <2>1 DEF FreeRow, Insert, PlanInSlot
  <2>3. /\ booking' \in [Bookings -> BookedRow] /\ booking'[b] = plan[d].row
        /\ \A a \in Bookings \ {b} : booking'[a] = booking[a]
    BY <1>0, <2>1, <2>2
  <2>4. plan' = [plan EXCEPT ![d] = NoPlan]
    BY <1>2 DEF Insert
  <2>5. plan'[d] = NoPlan /\ \A q \in Desks \ {d} : plan'[q] = plan[q]
    BY <1>0, <2>4
  <2>6. TablesOK'
    BY <1>0, <2>3, <2>4 DEF TablesOK
  <2>7. InSomeSlot(plan[d].row)
    BY <2>2 DEF InSomeSlot, IsWithin, ObjectOf
  <2>8. PlannedInSlots'
    <3> SUFFICES ASSUME NEW a \in Planned'
                 PROVE  booking'[a].slot \in Slots /\ InSomeSlot(booking'[a])
      BY DEF PlannedInSlots, InSomeSlot, ObjectOf
    <3> QED BY <2>2, <2>3, <2>7 DEF PlannedInSlots, Planned
  <2>9. ASSUME NEW q \in Desks PROVE PlanInSlot(q)'
    <3>1. CASE q = d
      BY <2>5, <3>1 DEF PlanInSlot
    <3>2. CASE q # d
      BY <2>2, <2>3, <2>5, <3>2 DEF PlanInSlot, Planned, ObjectOf, IsWithin
    <3> QED BY <3>1, <3>2
  <2> QED BY <2>6, <2>8, <2>9
<1>3. ASSUME Move PROVE InSlotsInv'
  <2> DEFINE b == plan["owner"].at
             row == plan["owner"].row
  <2>1. "owner" \in Desks /\ b # 0 /\ plan["owner"] # NoPlan
    BY <1>3, EmptyRows DEF Move, Desks
  <2>2. /\ row \in BookedRow /\ row.slot \in Slots /\ IsWithin(row) /\ b \in Bookings
        /\ row.status = "planned" /\ booking[b] \in BookedRow
        /\ b \in Planned => ObjectOf(booking[b]) = ObjectOf(row)
    BY <1>0, <2>1 DEF PlanInSlot
  <2>3. plan' = [plan EXCEPT !["owner"] = NoPlan]
    BY <1>3 DEF Move
  <2>4. plan'["owner"] = NoPlan /\ \A q \in Desks \ {"owner"} : plan'[q] = plan[q]
    BY <1>0, <2>1, <2>3
  <2>5. CASE b \in Planned
    <3>1. booking' = [booking EXCEPT ![b] = [row EXCEPT !.slot = booking[b].slot]]
      BY <1>3, <2>5 DEF Move
    <3>2. /\ [row EXCEPT !.slot = booking[b].slot] \in BookedRow
          /\ [row EXCEPT !.slot = booking[b].slot].slot = booking[b].slot
          /\ [row EXCEPT !.slot = booking[b].slot].start = row.start
          /\ [row EXCEPT !.slot = booking[b].slot].end = row.end
          /\ [row EXCEPT !.slot = booking[b].slot].status = "planned"
      BY <2>2 DEF BookedRow
    <3> HIDE DEF b, row
    <3>3. /\ booking' \in [Bookings -> BookedRow]
          /\ booking'[b].slot = booking[b].slot /\ booking'[b].status = "planned"
          /\ booking'[b].start = row.start /\ booking'[b].end = row.end
          /\ \A a \in Bookings \ {b} : booking'[a] = booking[a]
      BY <1>0, <2>2, <3>1, <3>2
    <3>4. TablesOK'
      BY <1>0, <2>3, <3>3 DEF TablesOK
    <3>5. InSomeSlot(booking'[b])
      BY <2>2, <2>5, <3>3 DEF InSomeSlot, IsWithin, ObjectOf
    <3>6. PlannedInSlots'
      <4> SUFFICES ASSUME NEW a \in Planned'
                   PROVE  booking'[a].slot \in Slots /\ InSomeSlot(booking'[a])
        BY DEF PlannedInSlots, InSomeSlot, ObjectOf
      <4> QED BY <2>5, <3>3, <3>5 DEF PlannedInSlots, Planned
    <3>7. ASSUME NEW q \in Desks PROVE PlanInSlot(q)'
      <4>1. CASE q = "owner"
        BY <2>4, <4>1 DEF PlanInSlot
      <4>2. CASE q # "owner"
        <5>1. PlanInSlot(q) /\ plan'[q] = plan[q]
          BY <2>4, <4>2
        <5>2. \A a \in Bookings : /\ booking'[a].slot = booking[a].slot
                                  /\ booking'[a].status = booking[a].status
          BY <2>5, <3>3 DEF Planned
        <5> QED BY <5>1, <5>2 DEF PlanInSlot, Planned, ObjectOf, IsWithin
      <4> QED BY <4>1, <4>2
    <3> QED BY <3>4, <3>6, <3>7
  <2>6. CASE b \notin Planned
    <3>1. booking' = booking
      BY <1>3, <2>6 DEF Move
    <3>2. TablesOK' /\ PlannedInSlots'
      BY <1>0, <2>3, <3>1 DEF TablesOK, PlannedInSlots, Planned, InSomeSlot, ObjectOf
    <3>3. ASSUME NEW q \in Desks PROVE PlanInSlot(q)'
      BY <2>4, <3>1 DEF PlanInSlot, Planned, ObjectOf, IsWithin
    <3> QED BY <3>2, <3>3
  <2> QED BY <2>5, <2>6
<1>4. ASSUME booking' = booking, NEW d \in Desks, NEW e \in Employees, NEW s \in Slots,
             NEW start \in Moments, NEW end \in Moments, NEW at \in Bookings \cup {0},
             IsWithin(Wanted(d, e, s, start, end)),
             at # 0 => at \in Planned /\ Slot[s].object = ObjectOf(booking[at]),
             plan' = [plan EXCEPT ![d] = [at |-> at, row |-> Wanted(d, e, s, start, end)]]
      PROVE  InSlotsInv'
  <2> DEFINE row == Wanted(d, e, s, start, end)
  <2>1. row \in BookedRow /\ row.status = "planned" /\ row.slot = s
    BY WantedRow
  <2> HIDE DEF row
  <2>2. /\ plan' \in [Desks -> [at : 0 .. MaxBookings, row : BookedRow]]
        /\ plan'[d] = [at |-> at, row |-> row] /\ \A q \in Desks \ {d} : plan'[q] = plan[q]
    BY <1>0, <1>4, <2>1 DEF row
  <2>3. TablesOK' /\ PlannedInSlots'
    BY <1>0, <1>4, <2>2 DEF TablesOK, PlannedInSlots, Planned, InSomeSlot, ObjectOf
  <2>4. PlanInSlot(d)'
    <3>1. at # 0 => /\ at \in Bookings /\ ObjectOf(booking[at]) = ObjectOf(row)
                    /\ booking[at].status # "none"
      BY <1>4, <2>1 DEF Planned, ObjectOf
    <3>2. IsWithin(row)
      BY <1>4 DEF row
    <3> QED BY <1>4, <2>1, <2>2, <3>1, <3>2 DEF PlanInSlot, ObjectOf, IsWithin, Planned
  <2>5. ASSUME NEW q \in Desks \ {d} PROVE PlanInSlot(q)'
    BY <1>4, <2>2 DEF PlanInSlot, Planned, ObjectOf, IsWithin
  <2> QED BY <2>3, <2>4, <2>5
<1>5. ASSUME NEW d \in Desks, Check(d) PROVE InSlotsInv'
  <2>1. PICK e \in Employees, s \in Slots, start \in Moments, end \in Moments :
          /\ IsWithin(Wanted(d, e, s, start, end))
          /\ plan' = [plan EXCEPT ![d] = [at |-> 0, row |-> Wanted(d, e, s, start, end)]]
    BY <1>5 DEF Check
  <2> QED BY <1>4, <1>5, <2>1 DEF Check
<1>6. ASSUME NEW b \in Bookings, CheckMove(b) PROVE InSlotsInv'
  <2>1. PICK e \in Employees, s \in Slots, start \in Moments, end \in Moments :
          /\ Slot[s].object = ObjectOf(booking[b])
          /\ IsWithin(Wanted("owner", e, s, start, end))
          /\ plan' = [plan EXCEPT !["owner"] = [at |-> b, row |-> Wanted("owner", e, s, start, end)]]
    BY <1>6 DEF CheckMove
  <2>2. "owner" \in Desks /\ b \in Planned /\ booking' = booking
    BY <1>6 DEF Desks, CheckMove
  <2> QED BY <1>4, <2>1, <2>2
<1>7. ASSUME NEW gone \in SUBSET Bookings, Removes(gone) PROVE InSlotsInv'
  <2>1. /\ booking' = [b \in Bookings |-> IF b \in gone THEN CancelledRow ELSE booking[b]]
        /\ plan' = plan
    BY <1>7 DEF Removes, Cancelled
  <2>2. CancelledRow \in BookedRow /\ CancelledRow.status = "cancelled"
    BY EmptyRows
  <2>3. TablesOK'
    BY <1>0, <2>1, <2>2 DEF TablesOK
  <2>4. /\ Planned' \subseteq Planned /\ \A a \in Planned' : booking'[a] = booking[a]
        /\ \A a \in Bookings : booking'[a] = booking[a] \/ booking'[a].status = "cancelled"
    BY <2>1, <2>2 DEF Planned
  <2>5. PlannedInSlots'
    BY <2>4 DEF PlannedInSlots, InSomeSlot, ObjectOf
  <2>6. ASSUME NEW q \in Desks PROVE PlanInSlot(q)'
    BY <2>1, <2>4 DEF PlanInSlot, ObjectOf, IsWithin
  <2> QED BY <2>3, <2>5, <2>6
<1> QED BY <1>1, <1>2, <1>3, <1>5, <1>6, <1>7, AnySteps

\* However checks and insertions overlap, a planned row lies in a slot of its object, and its
\* times are in order: also after an owner's move that was checked against a row somebody has
\* moved, cancelled or lost since.
THEOREM PlannedLiesInSlots == BookingSpec => [](TablesOK /\ PlannedInSlots)
<1>1. BookingInit => InSlotsInv
  <2> SUFFICES ASSUME BookingInit PROVE InSlotsInv
    OBVIOUS
  <2>1. TablesOK /\ Planned = {}
    BY InitTables
  <2>2. \A d \in Desks : plan[d] = NoPlan
    BY DEF BookingInit
  <2> QED BY <2>1, <2>2 DEF InSlotsInv, PlanInSlot, PlannedInSlots
<1>2. InSlotsInv /\ [BookingNext]_vars => InSlotsInv'
  BY NextInSlots
<1>3. InSlotsInv => TablesOK /\ PlannedInSlots
  BY DEF InSlotsInv
<1> QED BY <1>1, <1>2, <1>3, PTL DEF BookingSpec
===============================================================================
