------------------------------- MODULE Contracts -------------------------------
(***************************************************************************)
(* The contracts of employees: made by the owner as offers the employee    *)
(* signs with a one-time code or refuses, edited, terminated, expired by   *)
(* an hourly task; and the role a user has because of them.                *)
(*                                                                         *)
(* A request loads a contract, waits for other sessions, the storage of    *)
(* documents or the messenger, and commits later.  The session writes the  *)
(* columns that differ from what it loaded and no other (WrittenBack), and *)
(* what follows the commit is a transaction of its own.  Histories, texts  *)
(* and messages are left out.                                              *)
(***************************************************************************)
EXTENDS Naturals

CONSTANTS
  MaxContracts, \* bound: rows of contracts
  People,       \* users who send requests; each waits for the answer to the last one
  Employees,    \* those of them who may be hired
  Objects,
  Grants,       \* the sets of objects a form may name in allowed_objects
  Edits,        \* what the owner's form changes: "content", "expires", "template", "objects"
  Managers,     \* the owner and the manager: who uses the pages of the manager
  MaxRequests   \* bound: requests that are begun

ASSUME ContractsAssumption ==
  /\ Employees \subseteq People /\ Employees # {}
  /\ Managers \subseteq People \ Employees
  /\ Grants \subseteq SUBSET Objects
  /\ Edits \subseteq {"content", "expires", "template", "objects"}
  /\ MaxContracts \in Nat \ {0} /\ MaxRequests \in Nat

VARIABLES
  contract,     \* [Contracts -> row]
  versions,     \* rows of contract_versions of each contract; 2 stands for more than one
  otp,          \* contracts with a one-time code in Redis
  user,         \* [Employees -> row of users]
  request,      \* [People -> the request in progress]
  lapsed,       \* offers the hourly task has loaded and found past their term
  handled,      \* contracts a manager has put in force, or out of it
  begun         \* requests begun so far

cvars == <<contract, versions, otp, user, request, lapsed, handled, begun>>

Contracts == 1 .. MaxContracts
ManyVersions == 2

Status == {"none", "pending_acceptance", "active", "rejected", "expired", "terminated"}
Role == {"applicant", "employee", "manager"}
Op == {"idle", "assign_employee", "assign_manager", "accept", "reject", "terminate",
       "edit", "check", "settle_role", "promote", "retire"}

\* late: expires_at has passed.  reset: a changed template has taken its signature (not a
\* column; the properties ask for it).
Row == [status : Status, isActive : BOOLEAN, signed : BOOLEAN, late : BOOLEAN, reset : BOOLEAN,
        manager : BOOLEAN, objects : SUBSET Objects, employee : Employees]
NoRow == [status |-> "none", isActive |-> FALSE, signed |-> FALSE, late |-> FALSE, reset |-> FALSE,
          manager |-> FALSE, objects |-> {}, employee |-> CHOOSE e \in Employees : TRUE]
Idle == [op |-> "idle", of |-> 1, read |-> NoRow, new |-> NoRow, found |-> {}]

Exists(c) == contract[c].status # "none"
IsNext(c) == ~Exists(c) /\ \A d \in 1 .. c - 1 : Exists(d)
Pending(c) == contract[c].status = "pending_acceptance"
\* What every page and bot asks of a contract before it lets the employee work.
Works(c) == contract[c].status = "active" /\ contract[c].isActive
Of(e) == {c \in Contracts : Exists(c) /\ contract[c].employee = e}

Owners == People \ (Employees \cup Managers)

Init ==
  /\ contract = [c \in Contracts |-> NoRow]
  /\ versions = [c \in Contracts |-> 0]
  /\ otp = {}
  /\ user = [e \in Employees |-> [role |-> "applicant", roles |-> {"applicant"}, isActive |-> TRUE]]
  /\ request = [p \in People |-> Idle]
  /\ lapsed = {}
  /\ handled = {}
  /\ begun = 0

\* Mutant of WrittenBack: the session writes every column.
WrittenWhole(c, old, new) == [contract EXCEPT ![c] = new]

\* The row after the commit of a session that loaded old and changed it to new.
WrittenBack(c, old, new) ==
  [contract EXCEPT ![c] =
     [f \in DOMAIN NoRow |-> IF new[f] # old[f] THEN new[f] ELSE contract[c][f]]]

IsIdle(p) == request[p].op = "idle"
Begins(p) == IsIdle(p) /\ begun < MaxRequests /\ begun' = begun + 1
Doing(p, op) == request[p].op = op
Becomes(p, op) == request' = [request EXCEPT ![p] = [Idle EXCEPT !.op = op, !.of = request[p].of]]
Done(p) == request' = [request EXCEPT ![p] = Idle]
Loads(p, op, c, new) ==
  request' = [request EXCEPT ![p] =
                [op |-> op, of |-> c, read |-> contract[c], new |-> new, found |-> {}]]
OneMoreVersion(c) ==
  versions' = [versions EXCEPT ![c] = IF @ < ManyVersions THEN @ + 1 ELSE ManyVersions]

-----------------------------------------------------------------------------
(* The owner makes an offer.                                               *)

Create(p, c, e) ==
  /\ Begins(p) /\ IsNext(c)
  /\ \E objects \in Grants, manager \in BOOLEAN :
       contract' = [contract EXCEPT ![c] =
         [NoRow EXCEPT !.status = "pending_acceptance", !.isActive = TRUE,
                       !.manager = manager, !.objects = objects, !.employee = e]]
  /\ request' = [request EXCEPT ![p] = [Idle EXCEPT !.op = "assign_employee", !.of = c]]
  /\ UNCHANGED <<versions, otp, user, lapsed, handled>>

\* RoleService.add_role: the list of roles only; role and is_active stay.
AddRole(e, role) == user' = [user EXCEPT ![e].roles = @ \cup {role}]

AssignEmployeeRole(p) ==
  /\ Doing(p, "assign_employee")
  /\ AddRole(contract[request[p].of].employee, "employee")
  /\ IF contract[request[p].of].manager THEN Becomes(p, "assign_manager") ELSE Done(p)
  /\ UNCHANGED <<contract, versions, otp, lapsed, handled, begun>>

AssignManagerRole(p) ==
  /\ Doing(p, "assign_manager")
  /\ AddRole(contract[request[p].of].employee, "manager")
  /\ Done(p)
  /\ UNCHANGED <<contract, versions, otp, lapsed, handled, begun>>

-----------------------------------------------------------------------------
(* The employee signs the offer with a code, or refuses it.                *)

RequestOtp(c) ==
  /\ Pending(c)
  /\ otp' = otp \cup {c}
  /\ UNCHANGED <<contract, versions, user, request, lapsed, handled, begun>>

\* Five minutes after it was sent or last tried, or with the third failed attempt.
CodeIsGone(c) ==
  /\ c \in otp
  /\ otp' = otp \ {c}
  /\ UNCHANGED <<contract, versions, user, request, lapsed, handled, begun>>

\* Mutant of Signed: signed_at is forgotten.
SignedUndated(row) == [row EXCEPT !.status = "active", !.isActive = TRUE]

Signed(row) == [row EXCEPT !.status = "active", !.isActive = TRUE, !.signed = TRUE]

\* The code is used up, whether or not the offer is still there to be signed.
BeginAccept(p, c) ==
  /\ Begins(p) /\ contract[c].employee = p
  /\ c \in otp
  /\ otp' = otp \ {c}
  /\ IF Pending(c) THEN Loads(p, "accept", c, Signed(contract[c])) ELSE UNCHANGED request
  /\ UNCHANGED <<contract, versions, user, lapsed, handled>>

\* After the document is rendered and stored.  The role is not touched.
CommitAccept(p) ==
  /\ Doing(p, "accept")
  /\ LET c == request[p].of IN
       /\ contract' = WrittenBack(c, request[p].read, request[p].new)
       /\ OneMoreVersion(c)
  /\ Done(p)
  /\ UNCHANGED <<otp, user, lapsed, handled, begun>>

BeginReject(p, c) ==
  /\ Begins(p) /\ contract[c].employee = p
  /\ Pending(c)
  /\ Loads(p, "reject", c, [contract[c] EXCEPT !.status = "rejected"])
  /\ UNCHANGED <<contract, versions, otp, user, lapsed, handled>>

CommitReject(p) ==
  /\ Doing(p, "reject")
  /\ contract' = WrittenBack(request[p].of, request[p].read, request[p].new)
  /\ Done(p)
  /\ UNCHANGED <<versions, otp, user, lapsed, handled, begun>>

-----------------------------------------------------------------------------
(* The owner terminates a contract.                                        *)

\* The version is committed by a session of its own; the look for the last one raises when
\* there are several, and then nothing is terminated.
CanBeVersioned(c) == versions[c] < ManyVersions

\* Mutant of Terminated: a status the model of the row does not have.
TerminatedAsClosed(row) == [row EXCEPT !.status = "closed", !.isActive = FALSE]

Terminated(row) == [row EXCEPT !.status = "terminated", !.isActive = FALSE]

BeginTerminate(p, c) ==
  /\ Begins(p) /\ Exists(c)
  /\ CanBeVersioned(c)
  /\ OneMoreVersion(c)
  /\ Loads(p, "terminate", c, Terminated(contract[c]))
  /\ UNCHANGED <<contract, otp, user, lapsed, handled>>

CommitTerminate(p) ==
  /\ Doing(p, "terminate")
  /\ contract' = WrittenBack(request[p].of, request[p].read, request[p].new)
  /\ Becomes(p, "check")
  /\ UNCHANGED <<versions, otp, user, lapsed, handled, begun>>

\* Mutant of Counted: offers are not counted.
CountedInForce(e) == {c \in Of(e) : Works(c)}

\* _check_and_update_employee_role: the contracts that count ...
Counted(e) ==
  {c \in Of(e) : contract[c].isActive /\ contract[c].status \in {"active", "pending_acceptance"}}

CheckContracts(p) ==
  /\ Doing(p, "check")
  /\ request' = [request EXCEPT ![p] = [Idle EXCEPT
                   !.op = "settle_role", !.of = request[p].of,
                   !.found = Counted(contract[request[p].of].employee)]]
  /\ UNCHANGED <<contract, versions, otp, user, lapsed, handled, begun>>

\* ... and the user's row, committed when something but is_active has changed.
Demoted(u) ==
  [role |-> "applicant",
   roles |-> IF u.roles \ {"employee", "manager"} = {} THEN {"applicant"}
             ELSE u.roles \ {"employee", "manager"},
   isActive |-> FALSE]

Kept(u, manages) ==
  LET base == IF u.role = "applicant" THEN "employee" ELSE u.role
      role == IF base = "manager" /\ ~manages THEN "employee" ELSE base
      roles == IF "manager" \in u.roles /\ ~manages
                 THEN (u.roles \ {"manager"}) \cup {"employee"} ELSE u.roles
  IN IF role = u.role /\ roles = u.roles THEN u
     ELSE [role |-> role, roles |-> roles, isActive |-> TRUE]

SettleRole(p) ==
  /\ Doing(p, "settle_role")
  /\ LET e == contract[request[p].of].employee
         manages == \E c \in request[p].found : contract[c].manager
     IN user' = [user EXCEPT ![e] = IF request[p].found = {} THEN Demoted(@) ELSE Kept(@, manages)]
  /\ Done(p)
  /\ UNCHANGED <<contract, versions, otp, lapsed, handled, begun>>

-----------------------------------------------------------------------------
(* The owner edits a contract.                                             *)

Changed(row, kinds, objects) ==
  LET saved == [row EXCEPT !.late = IF "expires" \in kinds THEN FALSE ELSE @,
                           !.objects = IF "objects" \in kinds THEN objects ELSE @]
  IN IF "template" \in kinds /\ row.status = "active"
       THEN [saved EXCEPT !.status = "pending_acceptance", !.signed = FALSE, !.isActive = FALSE,
                          !.reset = TRUE]
       ELSE saved

BeginEdit(p, c) ==
  /\ Begins(p) /\ Exists(c)
  /\ \E kinds \in SUBSET Edits \ {{}}, objects \in Grants :
       /\ IF "content" \in kinds THEN CanBeVersioned(c) /\ OneMoreVersion(c)
          ELSE UNCHANGED versions
       /\ Loads(p, "edit", c, Changed(contract[c], kinds, objects))
  /\ UNCHANGED <<contract, otp, user, lapsed, handled>>

CommitEdit(p) ==
  /\ Doing(p, "edit")
  /\ LET read == request[p].read  new == request[p].new IN
       /\ contract' = WrittenBack(request[p].of, read, new)
       /\ IF <<new.status, new.isActive>> # <<read.status, read.isActive>>
            THEN Becomes(p, "check") ELSE Done(p)
  /\ UNCHANGED <<versions, otp, user, lapsed, handled, begun>>

-----------------------------------------------------------------------------
(* The pages of the manager.                                               *)

\* A contract made there is in force at once.
ManagerHires(p, c, e) ==
  /\ Begins(p) /\ IsNext(c)
  /\ \E objects \in Grants :
       contract' = [contract EXCEPT ![c] =
         [NoRow EXCEPT !.status = "active", !.isActive = TRUE, !.objects = objects, !.employee = e]]
  /\ request' = [request EXCEPT ![p] = [Idle EXCEPT !.op = "promote", !.of = c]]
  /\ handled' = handled \cup {c}
  /\ UNCHANGED <<versions, otp, user, lapsed>>

\* _update_employee_role: the append to the list of roles is not seen by the session.
Promote(p) ==
  /\ Doing(p, "promote")
  /\ user' = [user EXCEPT ![contract[request[p].of].employee].role = "employee"]
  /\ Done(p)
  /\ UNCHANGED <<contract, versions, otp, lapsed, handled, begun>>

\* The form has no status, and the handler takes "active" for one that is missing.
ManagerEdits(p, c) ==
  /\ Begins(p) /\ Exists(c)
  /\ contract' = [contract EXCEPT ![c].status = "active"]
  /\ handled' = IF contract[c].status # "active" THEN handled \cup {c} ELSE handled
  /\ UNCHANGED <<versions, otp, user, request, lapsed>>

ManagerTerminates(p, c) ==
  /\ Begins(p) /\ Exists(c)
  /\ contract' = [contract EXCEPT ![c] = Terminated(@)]
  /\ request' = [request EXCEPT ![p] = [Idle EXCEPT !.op = "retire", !.of = c]]
  /\ handled' = handled \cup {c}
  /\ UNCHANGED <<versions, otp, user, lapsed>>

\* The role stays; the user is made inactive when no contract works.
Retire(p) ==
  /\ Doing(p, "retire")
  /\ LET e == contract[request[p].of].employee IN
       user' = [user EXCEPT ![e].isActive = @ /\ \E c \in Of(e) : Works(c)]
  /\ Done(p)
  /\ UNCHANGED <<contract, versions, otp, lapsed, handled, begun>>

-----------------------------------------------------------------------------
(* Time and the hourly task.                                               *)

TermEnds(c) ==
  /\ Pending(c) /\ ~contract[c].late
  /\ contract' = [contract EXCEPT ![c].late = TRUE]
  /\ UNCHANGED <<versions, otp, user, request, lapsed, handled, begun>>

Expirable == {c \in Contracts : Pending(c) /\ contract[c].isActive /\ contract[c].late}

LoadOffers ==
  /\ lapsed = {} /\ Expirable # {}
  /\ lapsed' = Expirable
  /\ UNCHANGED <<contract, versions, otp, user, request, handled, begun>>

\* Mutant of CommitOffers: the session is closed without a commit.
CommitOffersLost ==
  /\ lapsed # {}
  /\ lapsed' = {}
  /\ UNCHANGED <<contract, versions, otp, user, request, handled, begun>>

\* One commit after all the messages.
CommitOffers ==
  /\ lapsed # {}
  /\ contract' = [c \in Contracts |->
       IF c \in lapsed THEN [contract[c] EXCEPT !.status = "expired", !.isActive = FALSE]
       ELSE contract[c]]
  /\ lapsed' = {}
  /\ UNCHANGED <<versions, otp, user, request, handled, begun>>

OffersTaskDies ==
  /\ lapsed # {}
  /\ lapsed' = {}
  /\ UNCHANGED <<contract, versions, otp, user, request, handled, begun>>

-----------------------------------------------------------------------------
OwnerStep(p) ==
  \/ \E c \in Contracts, e \in Employees : Create(p, c, e)
  \/ AssignEmployeeRole(p) \/ AssignManagerRole(p)
  \/ \E c \in Contracts : BeginTerminate(p, c) \/ BeginEdit(p, c)
  \/ CheckContracts(p) \/ SettleRole(p) \/ CommitEdit(p)

EmployeeStep(p) ==
  \/ \E c \in Contracts : BeginAccept(p, c) \/ BeginReject(p, c)
  \/ CommitAccept(p) \/ CommitReject(p)

ManagerStep(p) ==
  \/ \E c \in Contracts, e \in Employees : ManagerHires(p, c, e)
  \/ Promote(p) \/ Retire(p)
  \/ \E c \in Contracts : ManagerEdits(p, c)

\* What cancels planned shifts as well is apart, for the module that plans them.
TerminationStep ==
  \/ \E p \in Owners : CommitTerminate(p)
  \/ \E p \in Managers, c \in Contracts : ManagerTerminates(p, c)

OtherStep ==
  \/ \E p \in Owners : OwnerStep(p)
  \/ \E p \in Employees : EmployeeStep(p)
  \/ \E p \in Managers : ManagerStep(p)
  \/ \E c \in Contracts : RequestOtp(c) \/ CodeIsGone(c) \/ TermEnds(c)
  \/ LoadOffers \/ CommitOffers \/ OffersTaskDies

Next == TerminationStep \/ OtherStep

\* Celery beat runs the task every hour, and not every run of it is killed.
Fairness == WF_cvars(LoadOffers) /\ SF_cvars(CommitOffers)

Spec == Init /\ [][Next]_cvars /\ Fairness

-----------------------------------------------------------------------------
TypeOK ==
  /\ contract \in [Contracts -> Row]
  /\ versions \in [Contracts -> 0 .. ManyVersions]
  /\ otp \subseteq Contracts
  /\ user \in [Employees -> [role : Role, roles : SUBSET Role, isActive : BOOLEAN]]
  /\ request \in [People -> [op : Op, of : Contracts, read : Row, new : Row, found : SUBSET Contracts]]
  /\ lapsed \subseteq Contracts
  /\ handled \subseteq Contracts
  /\ begun \in 0 .. MaxRequests

\* A contract in force has been signed, unless a manager put it in force: the status and the
\* signature are written and taken back together, whatever the order in which the employee's
\* acceptance, the owner's reset of a changed template, a termination and the task commit.
ActiveIsSigned ==
  \A c \in Contracts : contract[c].status = "active" => contract[c].signed \/ c \in handled

\* An employee whose contract is in force has the role that lets him into his pages, except for
\* the moment between the commit of the contract and the commit of the role.  The check that
\* takes the role away when another contract ends counts offers that are not yet signed, so
\* an acceptance may come before, during or after it.  It does not count what a changed
\* template has put out of use, which is why such contracts are left out here.
HiredHasRole ==
  \A c \in Contracts \ handled :
    Works(c) /\ ~contract[c].reset =>
      \/ "employee" \in user[contract[c].employee].roles
      \/ \E p \in People : request[p].op = "assign_employee" /\ request[p].of = c

\* A contract once out of use (terminated, expired) is never in use again, though an acceptance
\* that began before may still commit its status over it: the session does not write the
\* is_active it found TRUE.  Only the acceptance of an offer whose template the owner has
\* changed, which found it out of use, puts it back in use.
InactiveStays ==
  [][\A c \in Contracts :
       Exists(c) /\ ~contract[c].isActive =>
         \/ ~contract[c].isActive'
         \/ \E p \in Employees : /\ request[p].op = "accept" /\ request[p].of = c
                               /\ ~request[p].read.isActive]_cvars

\* An offer past its term does not wait for ever: it is answered, ended, or given a new term.
\* The task does not see the offers a changed template has put out of use.
LateOfferEnds ==
  \A c \in Contracts :
    LET Waits == Pending(c) /\ contract[c].late /\ contract[c].isActive IN Waits ~> ~Waits
===============================================================================
