------------------------------ MODULE SlotBooking ------------------------------
(***************************************************************************)
(* The planning of shifts into the time slots of objects, together with    *)
(* the contracts that give access to the objects.  Four desks plan: the    *)
(* employee's calendar, the owner's, the manager's and the bot; each makes *)
(* checks of its own, reads, and later inserts.  The end of a contract     *)
(* cancels what was planned under it.                                      *)
(*                                                                         *)
(* All slots are of one day to come, in the time of the object.            *)
(***************************************************************************)
EXTENDS Contracts, FiniteSets, Sequences

CONSTANTS
  Slots,        \* rows of time_slots
  Slot,         \* [Slots -> [object, start, end, max]]
  Hired,        \* [Contracts -> [employee, objects]], the contracts there are
  MaxBookings,  \* bound: rows of shift_schedules
  Overlap       \* whether a check and the insertion it allows may have others between them

ASSUME BookingAssumption ==
  /\ Slot \in [Slots -> [object : Objects, start : Nat, end : Nat, max : Nat \ {0}]]
  /\ \A s \in Slots : Slot[s].start < Slot[s].end
  /\ Hired \in [1 .. MaxContracts -> [employee : Employees, objects : SUBSET Objects]]
  /\ MaxBookings \in Nat
  /\ Overlap \in BOOLEAN

VARIABLES
  booking,      \* [Bookings -> row of shift_schedules]
  plan          \* [Desks -> the row that passed the checks and is not inserted yet]

vars == <<cvars, booking, plan>>

Bookings == 1 .. MaxBookings
Desks == {"employee", "owner", "manager", "bot"}
\* The two calendars make the same checks.
Kind(d) == IF d \in {"employee", "owner"} THEN "calendar" ELSE d
Moments == 0 .. (CHOOSE m \in {Slot[s].end : s \in Slots} : \A s \in Slots : Slot[s].end <= m)

BookingRow == [status : {"none", "planned", "cancelled"}, employee : Employees, slot : Slots,
               start : Moments, end : Moments, by : {"calendar", "manager", "bot"}]
NoBooking == [status |-> "none", employee |-> CHOOSE e \in Employees : TRUE,
              slot |-> CHOOSE s \in Slots : TRUE, start |-> 0, end |-> 0, by |-> "bot"]
\* Nothing reads the rest of a cancelled row.
CancelledRow == [NoBooking EXCEPT !.status = "cancelled"]
NoPlan == [at |-> 0, row |-> NoBooking]

Planned == {b \in Bookings : booking[b].status = "planned"}
FreeRow == {b \in Bookings : booking[b].status = "none" /\ \A a \in 1 .. b - 1 : booking[a].status # "none"}
Meets(a, b) == a.start < b.end /\ b.start < a.end
ObjectOf(row) == Slot[row.slot].object

\* The contracts are signed.
BookingInit ==
  /\ contract = [c \in Contracts |->
       [NoRow EXCEPT !.status = "active", !.isActive = TRUE, !.signed = TRUE,
                     !.objects = Hired[c].objects, !.employee = Hired[c].employee]]
  /\ versions = [c \in Contracts |-> 1]
  /\ user = [e \in Employees |->
               [role |-> "employee", roles |-> {"applicant", "employee"}, isActive |-> TRUE]]
  /\ otp = {} /\ lapsed = {} /\ handled = {} /\ begun = 0
  /\ request = [p \in People |-> Idle]
  /\ booking = [b \in Bookings |-> NoBooking]
  /\ plan = [d \in Desks |-> NoPlan]

-----------------------------------------------------------------------------
(* The checks.                                                             *)

HasAccess(e, o) == \E c \in Of(e) : Works(c) /\ o \in contract[c].objects

\* Mutant of IsBusy: other slots are not looked at.
IsBusyThere(row, at) ==
  \E b \in Planned \ {at} : /\ booking[b].employee = row.employee /\ booking[b].slot = row.slot
                           /\ Meets(booking[b], row)

\* But for row at, which is being edited.
IsBusy(row, at) == \E b \in Planned \ {at} : booking[b].employee = row.employee /\ Meets(booking[b], row)

\* Mutant of HasPlace: one too many.
HasPlaceForMore(row, at) ==
  Cardinality({b \in Planned \ {at} : booking[b].slot = row.slot /\ Meets(booking[b], row)})
    <= Slot[row.slot].max

HasPlace(row, at) ==
  Cardinality({b \in Planned \ {at} : booking[b].slot = row.slot /\ Meets(booking[b], row)})
    < Slot[row.slot].max

\* _build_slot_availability: the rows of the slot, cut to it and in the order of their starts,
\* are dealt out to as many positions as there are places: to the first that is free by then,
\* or else to the one that will be free first.
RowsOf(s) == {b \in Planned : booking[b].slot = s /\ Meets(booking[b], Slot[s])}

CutTo(s, row) == [start |-> IF row.start < Slot[s].start THEN Slot[s].start ELSE row.start,
                  end |-> IF row.end > Slot[s].end THEN Slot[s].end ELSE row.end]

Busy(b) == CutTo(booking[b].slot, booking[b])

ComesLast(b, rows) ==
  \A a \in rows \ {b} : \/ Busy(a).start < Busy(b).start
                        \/ Busy(a).start = Busy(b).start /\ a < b

EndOf(position) == Busy(position[Len(position)]).end
IsFreeBy(position, start) == position = <<>> \/ EndOf(position) <= start

Target(positions, start) ==
  LET free == {i \in DOMAIN positions : IsFreeBy(positions[i], start)}
      SoonerThan(i, j) == \/ EndOf(positions[i]) < EndOf(positions[j])
                          \/ EndOf(positions[i]) = EndOf(positions[j]) /\ i <= j
  IN IF free # {} THEN CHOOSE i \in free : \A j \in free : i <= j
     ELSE CHOOSE i \in DOMAIN positions : \A j \in DOMAIN positions : SoonerThan(i, j)

Deal(positions, b) == [positions EXCEPT ![Target(positions, Busy(b).start)] = Append(@, b)]

\* What some of the rows of a slot make of its positions.
Dealt(s) ==
  LET dealt[rows \in SUBSET RowsOf(s)] ==
        IF rows = {} THEN [i \in 1 .. Slot[s].max |-> <<>>]
        ELSE LET b == CHOOSE b \in rows : ComesLast(b, rows) IN Deal(dealt[rows \ {b}], b)
  IN dealt

Positions(s) == Dealt(s)[RowsOf(s)]

\* One free interval of one position holds the time asked for.
HasInterval(row) ==
  \E i \in 1 .. Slot[row.slot].max :
    LET position == Positions(row.slot)[i] IN
    \A k \in DOMAIN position : ~Meets(Busy(position[k]), row)

\* What each desk looks at before it plans.  Only the owner's asks for the role; the
\* manager's does not count places; the bot's takes the object from an earlier step of the
\* dialogue and the person as he comes.
Allows(d, row, at) ==
  CASE d = "employee" ->
         HasAccess(row.employee, ObjectOf(row)) /\ ~IsBusy(row, at) /\ HasPlace(row, at)
    [] d = "owner" ->
         /\ "employee" \in user[row.employee].roles
         /\ HasAccess(row.employee, ObjectOf(row)) /\ ~IsBusy(row, at) /\ HasPlace(row, at)
    [] d = "manager" -> HasAccess(row.employee, ObjectOf(row)) /\ ~IsBusy(row, at)
    [] d = "bot" -> HasInterval(row)

-----------------------------------------------------------------------------
(* Planning.                                                               *)

Quiet == \A d \in Desks : plan[d] = NoPlan

Wanted(d, e, s, start, end) ==
  [status |-> "planned", employee |-> e, slot |-> s, start |-> start, end |-> end, by |-> Kind(d)]

\* All four cut the time asked for to the slot.
IsWithin(row) == row.start < row.end /\ Slot[row.slot].start <= row.start /\ row.end <= Slot[row.slot].end

Check(d) ==
  /\ plan[d] = NoPlan /\ FreeRow # {}
  /\ \E e \in Employees, s \in Slots, start, end \in Moments :
       LET row == Wanted(d, e, s, start, end) IN
       /\ IsWithin(row) /\ Allows(d, row, 0)
       /\ plan' = [plan EXCEPT ![d] = [at |-> 0, row |-> row]]
  /\ UNCHANGED <<cvars, booking>>

Insert(d) ==
  /\ plan[d] # NoPlan /\ plan[d].at = 0
  /\ \E b \in FreeRow : booking' = [booking EXCEPT ![b] = plan[d].row]
  /\ plan' = [plan EXCEPT ![d] = NoPlan]
  /\ UNCHANGED cvars

\* The owner moves a planned shift to another employee, time or slot of the object.
CheckMove(b) ==
  /\ plan["owner"] = NoPlan
  /\ b \in Planned
  /\ \E e \in Employees, s \in Slots, start, end \in Moments :
       LET row == Wanted("owner", e, s, start, end) IN
       /\ Slot[s].object = ObjectOf(booking[b])
       /\ IsWithin(row) /\ Allows("owner", row, b)
       /\ plan' = [plan EXCEPT !["owner"] = [at |-> b, row |-> row]]
  /\ UNCHANGED <<cvars, booking>>

\* The slot the row names, and its status, stay what they are.
Move ==
  /\ plan["owner"].at # 0
  /\ LET b == plan["owner"].at  row == plan["owner"].row IN
       booking' = IF b \in Planned
                    THEN [booking EXCEPT ![b] = [row EXCEPT !.slot = booking[b].slot]]
                    ELSE booking
  /\ plan' = [plan EXCEPT !["owner"] = NoPlan]
  /\ UNCHANGED cvars

\* The owner deletes a planned row, or somebody cancels it.
CancelBooking(b) ==
  /\ b \in Planned
  /\ booking' = [booking EXCEPT ![b] = CancelledRow]
  /\ UNCHANGED <<cvars, plan>>

-----------------------------------------------------------------------------
(* The end of a contract.                                                  *)

Cancelled(gone) ==
  [b \in Bookings |-> IF b \in gone THEN CancelledRow ELSE booking[b]]

\* Mutant of LostObjects: the contract itself is among the others.
LostObjectsOfAll(c) ==
  contract[c].objects \ UNION {contract[d].objects : d \in {d \in Of(contract[c].employee) : Works(d)}}

\* The objects that no other contract of the employee gives.
LostObjects(c) ==
  contract[c].objects \ UNION {contract[d].objects : d \in {d \in Of(contract[c].employee) \ {c} : Works(d)}}

PlannedOf(e) == {b \in Planned : booking[b].employee = e}

\* With a date of dismissal, all that is planned after it goes, for whatever owner.
TerminateAndCancel(p) ==
  /\ CommitTerminate(p)
  /\ LET c == request[p].of  e == contract[c].employee IN
     \E dated \in BOOLEAN :
       booking' = Cancelled({b \in PlannedOf(e) : dated \/ ObjectOf(booking[b]) \in LostObjects(c)})
  /\ UNCHANGED plan

\* Without a date the manager's page cancels nothing.
ManagerTerminatesAndCancels(p, c) ==
  /\ ManagerTerminates(p, c)
  /\ \E dated \in BOOLEAN :
       booking' = IF dated THEN Cancelled(PlannedOf(contract[c].employee)) ELSE booking
  /\ UNCHANGED plan

-----------------------------------------------------------------------------
PlanStep ==
  \/ \E d \in Desks : Insert(d)
  \/ Move

FreeStep ==
  \/ \E d \in Desks : Check(d)
  \/ \E b \in Bookings : CheckMove(b) \/ CancelBooking(b)
  \/ \E p \in Owners : TerminateAndCancel(p)
  \/ \E p \in Managers, c \in Contracts : ManagerTerminatesAndCancels(p, c)
  \/ OtherStep /\ UNCHANGED <<booking, plan>>

BookingNext == PlanStep \/ ((~Overlap => Quiet) /\ FreeStep)

BookingSpec == BookingInit /\ [][BookingNext]_vars

-----------------------------------------------------------------------------
\* The slots of an object keep apart.  The code refuses nothing but an exact copy of a slot;
\* where slots meet, the owner's move breaks the limit of the slot its row goes on naming.
SlotsApart ==
  \A s, t \in Slots : s # t /\ Slot[s].object = Slot[t].object => ~Meets(Slot[s], Slot[t])

\* At no moment of a slot are more people planned into it than it has places for, those of the
\* manager's page aside: the counting of the calendars and the dealing out of the bot, which
\* differ, keep each other's promise, also when the owner moves rows to another slot of the
\* object and the rows go on naming the one they came from.
WithinCapacity ==
  SlotsApart =>
    \A s \in Slots : \A m \in Slot[s].start .. Slot[s].end - 1 :
      Cardinality({b \in Planned : /\ booking[b].slot = s /\ booking[b].by # "manager"
                                   /\ booking[b].start <= m /\ m < booking[b].end})
        <= Slot[s].max

\* Nobody is planned into two places at once, but for what he plans in the bot, which does
\* not look.
NotInTwoPlaces ==
  \A a, b \in Planned :
    (a # b /\ booking[a].employee = booking[b].employee /\ Meets(booking[a], booking[b]))
      => "bot" \in {booking[a].by, booking[b].by}

\* A shift planned on a page has a contract in force behind it, for the object where it will
\* be worked, unless the contract was ended on the manager's page: an owner who terminates one
\* of two contracts cancels what the other one does not give.
PlannedHasAccess ==
  \A b \in Planned :
    booking[b].by # "bot" =>
      \E c \in Of(booking[b].employee) :
        ObjectOf(booking[b]) \in contract[c].objects /\ (Works(c) \/ c \in handled)
===============================================================================
