--------------------------- MODULE Contracts_proofs ---------------------------
(***************************************************************************)
(* Theorems of Contracts, for any number of contracts, people, objects and *)
(* requests, and for every kind of edit.                                   *)
(***************************************************************************)
EXTENDS Contracts, TLAPS

\* What WrittenBack makes of the row, column by column.
Column(old, new, now) == IF new # old THEN new ELSE now

LEMMA WrittenBackRow ==
  ASSUME NEW c \in Contracts, contract \in [Contracts -> Row], NEW old \in Row, NEW new \in Row
  PROVE  LET w == WrittenBack(c, old, new) IN
         /\ w \in [Contracts -> Row]
         /\ \A d \in Contracts : d # c => w[d] = contract[d]
         /\ w[c].status = Column(old.status, new.status, contract[c].status)
         /\ w[c].isActive = Column(old.isActive, new.isActive, contract[c].isActive)
         /\ w[c].signed = Column(old.signed, new.signed, contract[c].signed)
         /\ w[c].reset = Column(old.reset, new.reset, contract[c].reset)
         /\ w[c].manager = Column(old.manager, new.manager, contract[c].manager)
         /\ w[c].employee = Column(old.employee, new.employee, contract[c].employee)
         /\ w[c].objects = Column(old.objects, new.objects, contract[c].objects)
<1> DEFINE row == [f \in DOMAIN NoRow |-> IF new[f] # old[f] THEN new[f] ELSE contract[c][f]]
<1>1. DOMAIN NoRow = {"status", "isActive", "signed", "late", "reset", "manager", "objects", "employee"}
  BY DEF NoRow
<1>2. row = [status |-> row["status"], isActive |-> row["isActive"], signed |-> row["signed"],
             late |-> row["late"], reset |-> row["reset"], manager |-> row["manager"],
             objects |-> row["objects"], employee |-> row["employee"]]
  BY <1>1
<1>3. row \in Row
  BY <1>1, <1>2 DEF Row
<1> QED BY <1>1, <1>3 DEF WrittenBack, Column

-----------------------------------------------------------------------------
(* Types.                                                                  *)

LEMMA NewRows ==
  ASSUME NEW row \in Row
  PROVE  /\ Signed(row) \in Row
         /\ Terminated(row) \in Row
         /\ [row EXCEPT !.status = "rejected"] \in Row
         /\ \A kinds \in SUBSET Edits, objects \in Grants : Changed(row, kinds, objects) \in Row
<1>1. /\ Signed(row) \in Row
      /\ Terminated(row) \in Row
      /\ [row EXCEPT !.status = "rejected"] \in Row
  BY DEF Signed, Terminated, Row, Status
<1>2. ASSUME NEW kinds \in SUBSET Edits, NEW objects \in Grants PROVE Changed(row, kinds, objects) \in Row
  <2> DEFINE saved == [row EXCEPT !.late = IF "expires" \in kinds THEN FALSE ELSE @,
                                  !.objects = IF "objects" \in kinds THEN objects ELSE @]
  <2>1. saved \in Row
    BY ContractsAssumption DEF Row
  <2>2. ASSUME NEW r \in Row
        PROVE  [r EXCEPT !.status = "pending_acceptance", !.signed = FALSE, !.isActive = FALSE,
                         !.reset = TRUE] \in Row
    BY DEF Row, Status
  <2> HIDE DEF saved
  <2>3. [saved EXCEPT !.status = "pending_acceptance", !.signed = FALSE, !.isActive = FALSE,
                      !.reset = TRUE] \in Row
    BY <2>1, <2>2
  <2> QED BY <2>1, <2>3 DEF Changed, saved
<1> QED BY <1>1, <1>2

LEMMA FirstRows ==
  /\ NoRow \in Row
  /\ Idle \in [op : Op, of : Contracts, read : Row, new : Row, found : SUBSET Contracts]
<1>1. NoRow \in Row
  BY ContractsAssumption DEF NoRow, Row, Status
<1> QED BY <1>1, ContractsAssumption DEF Idle, Op, Contracts

LEMMA InitTypeOK == Init => TypeOK
  BY FirstRows, ContractsAssumption DEF Init, TypeOK, ManyVersions, Role

Request == [op : Op, of : Contracts, read : Row, new : Row, found : SUBSET Contracts]

\* The requests a step leaves, whichever helper has written them.
LEMMA RequestTypes ==
  ASSUME TypeOK, NEW p \in People
  PROVE  /\ Done(p) => request' \in [People -> Request]
         /\ \A op \in Op : Becomes(p, op) => request' \in [People -> Request]
         /\ \A op \in Op, c \in Contracts :
              request' = [request EXCEPT ![p] = [Idle EXCEPT !.op = op, !.of = c]] =>
                request' \in [People -> Request]
         /\ \A op \in Op, c \in Contracts, new \in Row :
              Loads(p, op, c, new) => request' \in [People -> Request]
<1>1. request \in [People -> Request] /\ contract \in [Contracts -> Row]
  BY DEF TypeOK, Request
<1>2. ASSUME NEW op \in Op, NEW c \in Contracts PROVE [Idle EXCEPT !.op = op, !.of = c] \in Request
  BY FirstRows DEF Request
<1>3. request[p].of \in Contracts
  BY <1>1 DEF Request
<1>4. ASSUME NEW op \in Op, NEW c \in Contracts, NEW new \in Row
      PROVE  [op |-> op, of |-> c, read |-> contract[c], new |-> new, found |-> {}] \in Request
  BY <1>1 DEF Request
<1>5. ASSUME NEW r \in Request, request' = [request EXCEPT ![p] = r]
      PROVE  request' \in [People -> Request]
  BY <1>1, <1>5
<1>6. Idle \in Request
  BY FirstRows DEF Request
<1> HIDE DEF Request
<1>7. Done(p) => request' \in [People -> Request]
  BY <1>5, <1>6 DEF Done
<1>8. ASSUME NEW op \in Op, Becomes(p, op) PROVE request' \in [People -> Request]
  BY <1>2, <1>3, <1>5, <1>8 DEF Becomes
<1>9. ASSUME NEW op \in Op, NEW c \in Contracts, NEW new \in Row, Loads(p, op, c, new)
      PROVE  request' \in [People -> Request]
  BY <1>4, <1>5, <1>9 DEF Loads
<1> QED BY <1>2, <1>5, <1>7, <1>8, <1>9

LEMMA Counters ==
  ASSUME TypeOK
  PROVE  /\ \A c \in Contracts : OneMoreVersion(c) => versions' \in [Contracts -> 0 .. ManyVersions]
         /\ \A p \in People : Begins(p) => begun' \in 0 .. MaxRequests
  BY ContractsAssumption DEF TypeOK, OneMoreVersion, Begins, ManyVersions

Users == [Employees -> [role : Role, roles : SUBSET Role, isActive : BOOLEAN]]

LEMMA AddRoleTypes ==
  ASSUME user \in Users, NEW e \in Employees, NEW role \in Role, AddRole(e, role)
  PROVE  /\ user' \in Users
         /\ user'[e].roles = user[e].roles \cup {role}
         /\ \A d \in Employees : d # e => user'[d] = user[d]
<1>1. user' = [user EXCEPT ![e] = [user[e] EXCEPT !.roles = user[e].roles \cup {role}]]
  BY DEF AddRole
<1>2. [user[e] EXCEPT !.roles = user[e].roles \cup {role}]
        \in [role : Role, roles : SUBSET Role, isActive : BOOLEAN]
  BY DEF Users
<1> QED BY <1>1, <1>2 DEF Users

LEMMA RoleTypes ==
  ASSUME NEW u \in [role : Role, roles : SUBSET Role, isActive : BOOLEAN], NEW manages \in BOOLEAN
  PROVE  /\ Demoted(u) \in [role : Role, roles : SUBSET Role, isActive : BOOLEAN]
         /\ Kept(u, manages) \in [role : Role, roles : SUBSET Role, isActive : BOOLEAN]
  BY DEF Demoted, Kept, Role

\* The commits of requests that have loaded a row.
LEMMA CommitTypes ==
  ASSUME TypeOK, NEW p \in People,
         contract' = WrittenBack(request[p].of, request[p].read, request[p].new)
  PROVE  contract' \in [Contracts -> Row]
<1>1. /\ contract \in [Contracts -> Row] /\ request[p].of \in Contracts
      /\ request[p].read \in Row /\ request[p].new \in Row
  BY DEF TypeOK
<1> QED BY <1>1, WrittenBackRow

LEMMA OwnerTypes ==
  ASSUME TypeOK, NEW p \in Owners, OwnerStep(p)
  PROVE  TypeOK'
<1> USE ContractsAssumption
<1>0. p \in People
  BY DEF Owners
<1>1. /\ contract \in [Contracts -> Row] /\ request \in [People -> Request] /\ user \in Users
      /\ request[p] \in Request /\ request[p].of \in Contracts
      /\ contract[request[p].of].employee \in Employees
  BY <1>0 DEF TypeOK, Request, Users, Row
<1>2. ASSUME NEW c \in Contracts, NEW e \in Employees, Create(p, c, e) PROVE TypeOK'
  <2>0. PICK objects \in Grants, manager \in BOOLEAN :
          contract' = [contract EXCEPT ![c] =
            [NoRow EXCEPT !.status = "pending_acceptance", !.isActive = TRUE,
                          !.manager = manager, !.objects = objects, !.employee = e]]
    BY <1>2 DEF Create
  <2>1. contract' \in [Contracts -> Row]
    <3>1. [NoRow EXCEPT !.status = "pending_acceptance", !.isActive = TRUE, !.manager = manager,
                        !.objects = objects, !.employee = e] \in Row
      BY FirstRows DEF Row, Status
    <3> QED BY <1>1, <2>0, <3>1
  <2>2. request' \in [People -> Request]
    BY <1>0, <1>2, RequestTypes DEF Create, Op
  <2> QED BY <1>0, <1>2, <2>1, <2>2, Counters DEF TypeOK, Create, Request
<1>3. ASSUME AssignEmployeeRole(p) PROVE TypeOK'
  <2>1. request' \in [People -> Request]
    BY <1>0, <1>3, RequestTypes DEF AssignEmployeeRole, Op
  <2>2. user' \in Users
    BY <1>1, <1>3, AddRoleTypes DEF AssignEmployeeRole, Role
  <2> QED BY <1>3, <2>1, <2>2 DEF TypeOK, AssignEmployeeRole, Request, Users
<1>4. ASSUME AssignManagerRole(p) PROVE TypeOK'
  <2>1. request' \in [People -> Request]
    BY <1>0, <1>4, RequestTypes DEF AssignManagerRole, Op
  <2>2. user' \in Users
    BY <1>1, <1>4, AddRoleTypes DEF AssignManagerRole, Role
  <2> QED BY <1>4, <2>1, <2>2 DEF TypeOK, AssignManagerRole, Request, Users
<1>5. ASSUME NEW c \in Contracts, BeginTerminate(p, c) PROVE TypeOK'
  <2>1. request' \in [People -> Request]
    BY <1>0, <1>1, <1>5, RequestTypes, NewRows DEF BeginTerminate, Op
  <2> QED BY <1>0, <1>5, <2>1, Counters DEF TypeOK, BeginTerminate, Request
<1>6. ASSUME NEW c \in Contracts, BeginEdit(p, c) PROVE TypeOK'
  <2>1. PICK kinds \in SUBSET Edits, objects \in Grants :
          /\ Loads(p, "edit", c, Changed(contract[c], kinds, objects))
          /\ OneMoreVersion(c) \/ UNCHANGED versions
    BY <1>6 DEF BeginEdit
  <2>2. request' \in [People -> Request]
    BY <1>0, <1>1, <2>1, RequestTypes, NewRows DEF Op
  <2> QED BY <1>0, <1>6, <2>1, <2>2, Counters DEF TypeOK, BeginEdit, Request
<1>7. ASSUME CheckContracts(p) PROVE TypeOK'
  <2>1. Counted(contract[request[p].of].employee) \in SUBSET Contracts
    BY DEF Counted, Of
  <2>2. request' \in [People -> Request]
    BY <1>1, <1>7, <2>1, FirstRows DEF CheckContracts, Request, Op
  <2> QED BY <1>7, <2>2 DEF TypeOK, CheckContracts, Request
<1>8. ASSUME SettleRole(p) PROVE TypeOK'
  <2>1. request' \in [People -> Request]
    BY <1>0, <1>8, RequestTypes DEF SettleRole
  <2>2. user' \in Users
    BY <1>1, <1>8, RoleTypes DEF SettleRole, Users
  <2> QED BY <1>8, <2>1, <2>2 DEF TypeOK, SettleRole, Request, Users
<1>9. ASSUME CommitEdit(p) PROVE TypeOK'
  <2>1. contract' \in [Contracts -> Row]
    BY <1>0, <1>9, CommitTypes DEF CommitEdit
  <2>2. request' \in [People -> Request]
    BY <1>0, <1>9, RequestTypes DEF CommitEdit, Op
  <2> QED BY <1>9, <2>1, <2>2 DEF TypeOK, CommitEdit, Request
<1> QED BY <1>2, <1>3, <1>4, <1>5, <1>6, <1>7, <1>8, <1>9 DEF OwnerStep

LEMMA EmployeeTypes ==
  ASSUME TypeOK, NEW p \in Employees, EmployeeStep(p)
  PROVE  TypeOK'
<1> USE ContractsAssumption
<1>0. p \in People
  OBVIOUS
<1>1. contract \in [Contracts -> Row] /\ request \in [People -> Request]
  BY DEF TypeOK, Request
<1>2. ASSUME NEW c \in Contracts, BeginAccept(p, c) PROVE TypeOK'
  <2>1. request' \in [People -> Request]
    BY <1>0, <1>1, <1>2, RequestTypes, NewRows DEF BeginAccept, Op
  <2> QED BY <1>0, <1>2, <2>1, Counters DEF TypeOK, BeginAccept, Request
<1>3. ASSUME NEW c \in Contracts, BeginReject(p, c) PROVE TypeOK'
  <2>1. request' \in [People -> Request]
    BY <1>0, <1>1, <1>3, RequestTypes, NewRows DEF BeginReject, Op
  <2> QED BY <1>0, <1>3, <2>1, Counters DEF TypeOK, BeginReject, Request
<1>4. ASSUME CommitAccept(p) PROVE TypeOK'
  <2>1. contract' \in [Contracts -> Row] /\ request' \in [People -> Request]
    BY <1>0, <1>4, CommitTypes, RequestTypes DEF CommitAccept
  <2>2. request[p].of \in Contracts
    BY <1>0 DEF TypeOK
  <2> QED BY <1>4, <2>1, <2>2, Counters DEF TypeOK, CommitAccept, Request
<1>5. ASSUME CommitReject(p) PROVE TypeOK'
  <2>1. contract' \in [Contracts -> Row] /\ request' \in [People -> Request]
    BY <1>0, <1>5, CommitTypes, RequestTypes DEF CommitReject
  <2> QED BY <1>5, <2>1 DEF TypeOK, CommitReject, Request
<1> QED BY <1>2, <1>3, <1>4, <1>5 DEF EmployeeStep

LEMMA ManagerTypes ==
  ASSUME TypeOK, NEW p \in Managers, ManagerStep(p)
  PROVE  TypeOK'
<1> USE ContractsAssumption
<1>0. p \in People
  OBVIOUS
<1>1. /\ contract \in [Contracts -> Row] /\ request \in [People -> Request] /\ user \in Users
      /\ request[p].of \in Contracts /\ contract[request[p].of].employee \in Employees
  BY <1>0 DEF TypeOK, Request, Users, Row
<1>2. ASSUME NEW c \in Contracts, NEW e \in Employees, ManagerHires(p, c, e) PROVE TypeOK'
  <2>0. PICK objects \in Grants :
          contract' = [contract EXCEPT ![c] =
            [NoRow EXCEPT !.status = "active", !.isActive = TRUE, !.objects = objects, !.employee = e]]
    BY <1>2 DEF ManagerHires
  <2>1. contract' \in [Contracts -> Row]
    <3>1. [NoRow EXCEPT !.status = "active", !.isActive = TRUE, !.objects = objects,
                        !.employee = e] \in Row
      BY FirstRows DEF Row, Status
    <3> QED BY <1>1, <2>0, <3>1
  <2>2. request' \in [People -> Request]
    BY <1>0, <1>2, RequestTypes DEF ManagerHires, Op
  <2> QED BY <1>0, <1>2, <2>1, <2>2, Counters DEF TypeOK, ManagerHires, Request
<1>3. ASSUME Promote(p) PROVE TypeOK'
  <2>1. request' \in [People -> Request]
    BY <1>0, <1>3, RequestTypes DEF Promote
  <2>2. user' \in Users
    BY <1>1, <1>3 DEF Promote, Users, Role
  <2> QED BY <1>3, <2>1, <2>2 DEF TypeOK, Promote, Request, Users
<1>4. ASSUME Retire(p) PROVE TypeOK'
  <2>1. request' \in [People -> Request]
    BY <1>0, <1>4, RequestTypes DEF Retire
  <2>2. user' \in Users
    <3> DEFINE e == contract[request[p].of].employee
               working == user[e].isActive /\ \E c \in Of(e) : Works(c)
    <3>1. user' = [user EXCEPT ![e] = [user[e] EXCEPT !.isActive = working]]
      BY <1>4 DEF Retire
    <3>2. working \in BOOLEAN
      BY <1>1 DEF Users
    <3> HIDE DEF working
    <3>3. [user[e] EXCEPT !.isActive = working] \in [role : Role, roles : SUBSET Role, isActive : BOOLEAN]
      BY <1>1, <3>2 DEF Users
    <3> QED BY <1>1, <3>1, <3>3 DEF Users
  <2> QED BY <1>4, <2>1, <2>2 DEF TypeOK, Retire, Request, Users
<1>5. ASSUME NEW c \in Contracts, ManagerEdits(p, c) PROVE TypeOK'
  <2>1. contract' \in [Contracts -> Row]
    BY <1>1, <1>5 DEF ManagerEdits, Row, Status
  <2> QED BY <1>0, <1>5, <2>1, Counters DEF TypeOK, ManagerEdits
<1> QED BY <1>2, <1>3, <1>4, <1>5 DEF ManagerStep

LEMMA TerminationTypes == TypeOK /\ TerminationStep => TypeOK'
<1> USE ContractsAssumption
<1> SUFFICES ASSUME TypeOK, TerminationStep PROVE TypeOK' OBVIOUS
<1>1. ASSUME NEW p \in Owners, CommitTerminate(p) PROVE TypeOK'
  <2>1. contract' \in [Contracts -> Row] /\ request' \in [People -> Request]
    BY <1>1, CommitTypes, RequestTypes DEF CommitTerminate, Owners, Op
  <2> QED BY <1>1, <2>1 DEF TypeOK, CommitTerminate, Request
<1>2. ASSUME NEW p \in Managers, NEW c \in Contracts, ManagerTerminates(p, c) PROVE TypeOK'
  <2>1. contract' \in [Contracts -> Row]
    <3>1. contract' = [contract EXCEPT ![c] = Terminated(contract[c])]
      BY <1>2 DEF ManagerTerminates
    <3> QED BY <3>1, NewRows DEF TypeOK
  <2>2. request' \in [People -> Request]
    BY <1>2, RequestTypes DEF ManagerTerminates, Op
  <2> QED BY <1>2, <2>1, <2>2, Counters DEF TypeOK, ManagerTerminates, Request
<1> QED BY <1>1, <1>2 DEF TerminationStep

LEMMA OfferTypes ==
  ASSUME TypeOK,
         \/ \E c \in Contracts : RequestOtp(c) \/ CodeIsGone(c) \/ TermEnds(c)
         \/ LoadOffers \/ CommitOffers \/ OffersTaskDies
  PROVE  TypeOK'
<1>0. contract \in [Contracts -> Row]
  BY DEF TypeOK
<1>1. ASSUME NEW c \in Contracts, RequestOtp(c) PROVE TypeOK'
  BY <1>1 DEF TypeOK, RequestOtp
<1>2. ASSUME NEW c \in Contracts, CodeIsGone(c) PROVE TypeOK'
  BY <1>2 DEF TypeOK, CodeIsGone
<1>3. ASSUME NEW c \in Contracts, TermEnds(c) PROVE TypeOK'
  <2>1. contract' \in [Contracts -> Row]
    BY <1>0, <1>3 DEF TermEnds, Row
  <2> QED BY <1>3, <2>1 DEF TypeOK, TermEnds
<1>4. ASSUME LoadOffers PROVE TypeOK'
  BY <1>4 DEF TypeOK, LoadOffers, Expirable
<1>5. ASSUME CommitOffers PROVE TypeOK'
  <2>1. contract' \in [Contracts -> Row]
    BY <1>0, <1>5 DEF CommitOffers, Row, Status
  <2> QED BY <1>5, <2>1 DEF TypeOK, CommitOffers
<1>6. ASSUME OffersTaskDies PROVE TypeOK'
  BY <1>6 DEF TypeOK, OffersTaskDies
<1> QED BY <1>1, <1>2, <1>3, <1>4, <1>5, <1>6

LEMMA NextTypeOK == TypeOK /\ [Next]_cvars => TypeOK'
<1> SUFFICES ASSUME TypeOK, [Next]_cvars PROVE TypeOK' OBVIOUS
<1>1. CASE UNCHANGED cvars
  BY <1>1 DEF cvars, TypeOK
<1> QED BY <1>1, OwnerTypes, EmployeeTypes, ManagerTypes, TerminationTypes, OfferTypes
        DEF Next, OtherStep

\* The rows, the requests and the users keep their types.
THEOREM TypeCorrect == Spec => []TypeOK
  BY InitTypeOK, NextTypeOK, PTL DEF Spec

-----------------------------------------------------------------------------
(* The status and the signature of a row are written together.  What a      *)
(* session has loaded may be stale by its commit, and then the columns it   *)
(* does not write are those of another session: the invariant says of each  *)
(* session which of the two columns it will write.                          *)

Commits == {"accept", "reject", "terminate", "edit"}

SigOK(row) ==
  /\ row.status = "active" => row.signed
  /\ row.status = "pending_acceptance" => ~row.signed

\* What a commit does to the two columns: nothing, an end, a signature, or its loss.
Paired(old, new) ==
  \/ new.status = old.status /\ new.signed = old.signed
  \/ new.status \in {"rejected", "terminated"} /\ new.signed = old.signed
  \/ new.status = "active" /\ old.status # "active" /\ new.signed /\ ~old.signed
  \/ new.status = "pending_acceptance" /\ old.status # "pending_acceptance" /\ ~new.signed /\ old.signed

\* And only an acceptance puts a row in use.
WillWrite(p) ==
  request[p].op \in Commits =>
    /\ request[p].of \notin handled => Paired(request[p].read, request[p].new)
    /\ request[p].op # "accept" => (request[p].new.isActive => request[p].read.isActive)

SInv ==
  /\ TypeOK
  /\ \A c \in Contracts \ handled : SigOK(contract[c])
  /\ \A p \in People : WillWrite(p)

StaysOut ==
  \A c \in Contracts :
    Exists(c) /\ ~contract[c].isActive =>
      \/ ~contract[c].isActive'
      \/ \E p \in Employees : /\ request[p].op = "accept" /\ request[p].of = c
                            /\ ~request[p].read.isActive

LEMMA InitSInv == Init => SInv
  BY InitTypeOK DEF SInv, Init, SigOK, WillWrite, Idle, NoRow, Commits

\* A step that leaves alone, or in order, each row and each request.
LEMMA SInvStep ==
  ASSUME SInv, TypeOK', handled \subseteq handled',
         \A c \in Contracts \ handled' : contract'[c] = contract[c] \/ SigOK(contract'[c]),
         \A p \in People : request'[p] = request[p] \/ WillWrite(p)'
  PROVE  SInv'
<1>1. ASSUME NEW p \in People PROVE WillWrite(p)'
  BY DEF SInv, WillWrite
<1>2. ASSUME NEW c \in Contracts, c \notin handled' PROVE SigOK(contract'[c])
  BY <1>2 DEF SInv
<1> QED BY <1>1, <1>2 DEF SInv

\* Requests that commit nothing more.
LEMMA NoMoreCommits ==
  ASSUME SInv, NEW p \in People,
         \/ Done(p)
         \/ \E op \in Op \ Commits : Becomes(p, op)
         \/ \E op \in Op \ Commits, c \in Contracts :
              request' = [request EXCEPT ![p] = [Idle EXCEPT !.op = op, !.of = c]]
         \/ \E found \in SUBSET Contracts :
              request' = [request EXCEPT ![p] = [Idle EXCEPT
                            !.op = "settle_role", !.of = request[p].of, !.found = found]]
  PROVE  \A q \in People : request'[q] = request[q] \/ WillWrite(q)'
<1>1. request \in [People -> Request]
  BY DEF SInv, TypeOK, Request
<1>2. PICK r : request' = [request EXCEPT ![p] = r] /\ r.op \notin Commits
  <2>1. CASE Done(p)
    <3>1. Idle.op \notin Commits
      BY DEF Idle, Commits
    <3> QED BY <2>1, <3>1 DEF Done
  <2>2. ASSUME NEW op \in Op \ Commits, Becomes(p, op)
        PROVE  \E r : request' = [request EXCEPT ![p] = r] /\ r.op \notin Commits
    <3>1. [Idle EXCEPT !.op = op, !.of = request[p].of].op = op
      BY DEF Idle
    <3> QED BY <2>2, <3>1 DEF Becomes
  <2>3. ASSUME NEW op \in Op \ Commits, NEW c \in Contracts,
               request' = [request EXCEPT ![p] = [Idle EXCEPT !.op = op, !.of = c]]
        PROVE  \E r : request' = [request EXCEPT ![p] = r] /\ r.op \notin Commits
    <3>1. [Idle EXCEPT !.op = op, !.of = c].op = op
      BY DEF Idle
    <3> QED BY <2>3, <3>1
  <2>4. ASSUME NEW found \in SUBSET Contracts,
               request' = [request EXCEPT ![p] = [Idle EXCEPT
                             !.op = "settle_role", !.of = request[p].of, !.found = found]]
        PROVE  \E r : request' = [request EXCEPT ![p] = r] /\ r.op \notin Commits
    <3>1. [Idle EXCEPT !.op = "settle_role", !.of = request[p].of, !.found = found].op = "settle_role"
      BY DEF Idle
    <3> QED BY <2>4, <3>1 DEF Commits
  <2> QED BY <2>1, <2>2, <2>3, <2>4
<1>3. request'[p].op \notin Commits /\ \A q \in People : q # p => request'[q] = request[q]
  BY <1>1, <1>2
<1> QED BY <1>3 DEF WillWrite

LEMMA Loading ==
  ASSUME SInv, NEW p \in People, NEW c \in Contracts, NEW op \in Commits, NEW new \in Row,
         Loads(p, op, c, new), handled' = handled,
         c \notin handled => Paired(contract[c], new),
         op # "accept" => (new.isActive => contract[c].isActive)
  PROVE  \A q \in People : request'[q] = request[q] \/ WillWrite(q)'
<1>1. request \in [People -> Request]
  BY DEF SInv, TypeOK, Request
<1>2. /\ request'[p] = [op |-> op, of |-> c, read |-> contract[c], new |-> new, found |-> {}]
      /\ \A q \in People : q # p => request'[q] = request[q]
  BY <1>1 DEF Loads
<1>3. WillWrite(p)'
  BY <1>2 DEF WillWrite
<1> QED BY <1>2, <1>3

\* The commit of a session, whatever has been committed since it loaded the row.
LEMMA Committing ==
  ASSUME SInv, NEW p \in People, request[p].op \in Commits,
         contract' = WrittenBack(request[p].of, request[p].read, request[p].new)
  PROVE  /\ \A c \in Contracts \ handled : SigOK(contract'[c])
         /\ request[p].op # "accept" \/ p \in Employees => StaysOut
<1> DEFINE c == request[p].of
           old == request[p].read
           new == request[p].new
<1>1. /\ contract \in [Contracts -> Row] /\ c \in Contracts /\ old \in Row /\ new \in Row
      /\ WillWrite(p)
  BY DEF SInv, TypeOK
<1>2. /\ \A d \in Contracts : d # c => contract'[d] = contract[d]
      /\ contract'[c].status = Column(old.status, new.status, contract[c].status)
      /\ contract'[c].isActive = Column(old.isActive, new.isActive, contract[c].isActive)
      /\ contract'[c].signed = Column(old.signed, new.signed, contract[c].signed)
  BY <1>1, WrittenBackRow
<1>3. c \notin handled => Paired(old, new) /\ SigOK(contract[c])
  BY <1>1 DEF WillWrite, SInv
<1>4. /\ old.signed \in BOOLEAN /\ new.signed \in BOOLEAN /\ contract[c].signed \in BOOLEAN
      /\ old.isActive \in BOOLEAN /\ new.isActive \in BOOLEAN /\ contract[c].isActive \in BOOLEAN
  BY <1>1 DEF Row
<1> HIDE DEF c, old, new
<1>5. ASSUME c \notin handled PROVE SigOK(contract'[c])
  BY <1>2, <1>3, <1>4, <1>5 DEF Column, Paired, SigOK
<1>6. \A d \in Contracts \ handled : SigOK(contract'[d])
  BY <1>2, <1>5 DEF SInv
<1>7. ASSUME request[p].op # "accept" \/ p \in Employees, NEW d \in Contracts,
             ~contract[d].isActive, contract'[d].isActive
      PROVE  \E q \in Employees : /\ request[q].op = "accept" /\ request[q].of = d
                                  /\ ~request[q].read.isActive
  <2>1. d = c
    BY <1>2, <1>7
  <2>2. new.isActive /\ ~old.isActive
    BY <1>2, <1>4, <1>7, <2>1 DEF Column
  <2>3. request[p].op = "accept"
    BY <1>1, <2>2 DEF WillWrite, old, new
  <2> QED BY <1>7, <2>1, <2>2, <2>3 DEF c, old
<1> QED BY <1>6, <1>7 DEF StaysOut

\* Steps that write no row, and those that write one, in order.
LEMMA RowsKept ==
  ASSUME contract' = contract
  PROVE  StaysOut /\ \A c \in Contracts \ handled' : contract'[c] = contract[c]
  BY DEF StaysOut

LEMMA OneRow ==
  ASSUME SInv, NEW c \in Contracts, NEW row \in Row,
         contract' = [contract EXCEPT ![c] = row],
         c \in handled' \/ SigOK(row),
         row.isActive => ~Exists(c) \/ contract[c].isActive
  PROVE  /\ StaysOut
         /\ \A d \in Contracts \ handled' : contract'[d] = contract[d] \/ SigOK(contract'[d])
<1>1. contract'[c] = row /\ \A d \in Contracts : d # c => contract'[d] = contract[d]
  BY DEF SInv, TypeOK
<1> QED BY <1>1 DEF StaysOut

LEMMA SOwner ==
  ASSUME SInv, TypeOK', NEW p \in Owners, OwnerStep(p)
  PROVE  SInv' /\ StaysOut
<1>0. p \in People /\ contract \in [Contracts -> Row] /\ request[p].of \in Contracts
  BY DEF Owners, SInv, TypeOK
<1>1. ASSUME NEW c \in Contracts, NEW e \in Employees, Create(p, c, e) PROVE SInv' /\ StaysOut
  <2>1. PICK objects \in Grants, manager \in BOOLEAN :
          contract' = [contract EXCEPT ![c] =
            [NoRow EXCEPT !.status = "pending_acceptance", !.isActive = TRUE,
                          !.manager = manager, !.objects = objects, !.employee = e]]
    BY <1>1 DEF Create
  <2> DEFINE row == [NoRow EXCEPT !.status = "pending_acceptance", !.isActive = TRUE,
                                  !.manager = manager, !.objects = objects, !.employee = e]
  <2>2. row \in Row /\ SigOK(row)
    BY ContractsAssumption, FirstRows DEF Row, Status, SigOK, NoRow
  <2>3. ~Exists(c)
    BY <1>1 DEF Create, IsNext
  <2> HIDE DEF row
  <2>4. contract' = [contract EXCEPT ![c] = row]
    BY <2>1 DEF row
  <2>5. /\ StaysOut
        /\ \A d \in Contracts \ handled' : contract'[d] = contract[d] \/ SigOK(contract'[d])
    BY <2>2, <2>3, <2>4, OneRow
  <2>6. \A q \in People : request'[q] = request[q] \/ WillWrite(q)'
    BY <1>0, <1>1, NoMoreCommits DEF Create, Op, Commits
  <2> QED BY <1>1, <2>5, <2>6, SInvStep DEF Create
<1>2. ASSUME AssignEmployeeRole(p) \/ AssignManagerRole(p) PROVE SInv' /\ StaysOut
  <2>1. \A q \in People : request'[q] = request[q] \/ WillWrite(q)'
    BY <1>0, <1>2, NoMoreCommits DEF AssignEmployeeRole, AssignManagerRole, Op, Commits
  <2>2. contract' = contract /\ handled' = handled
    BY <1>2 DEF AssignEmployeeRole, AssignManagerRole
  <2> QED BY <2>1, <2>2, SInvStep, RowsKept
<1>3. ASSUME NEW c \in Contracts, BeginTerminate(p, c) PROVE SInv' /\ StaysOut
  <2>1. /\ Terminated(contract[c]) \in Row
        /\ Paired(contract[c], Terminated(contract[c]))
        /\ ~Terminated(contract[c]).isActive
    BY <1>0, NewRows DEF Terminated, Paired, Row
  <2>2. \A q \in People : request'[q] = request[q] \/ WillWrite(q)'
    BY <1>0, <1>3, <2>1, Loading DEF BeginTerminate, Commits
  <2> QED BY <1>3, <2>2, SInvStep, RowsKept DEF BeginTerminate
<1>4. ASSUME NEW c \in Contracts, BeginEdit(p, c) PROVE SInv' /\ StaysOut
  <2>1. PICK kinds \in SUBSET Edits, objects \in Grants :
          Loads(p, "edit", c, Changed(contract[c], kinds, objects))
    BY <1>4 DEF BeginEdit
  <2> DEFINE new == Changed(contract[c], kinds, objects)
  <2>2. /\ new \in Row
        /\ c \notin handled => Paired(contract[c], new)
        /\ new.isActive => contract[c].isActive
    <3>1. contract[c] \in Row /\ new \in Row
      BY <1>0, NewRows
    <3>2. \/ /\ contract[c].status = "active"
             /\ new.status = "pending_acceptance" /\ ~new.signed /\ ~new.isActive
          \/ /\ new.status = contract[c].status /\ new.signed = contract[c].signed
             /\ new.isActive = contract[c].isActive
      BY <3>1 DEF Changed, Row
    <3>3. c \notin handled => SigOK(contract[c])
      BY DEF SInv
    <3> HIDE DEF new
    <3> QED BY <3>1, <3>2, <3>3 DEF Paired, SigOK
  <2>3. \A q \in People : request'[q] = request[q] \/ WillWrite(q)'
    BY <1>0, <1>4, <2>1, <2>2, Loading DEF BeginEdit, Commits
  <2> QED BY <1>4, <2>3, SInvStep, RowsKept DEF BeginEdit
<1>5. ASSUME CheckContracts(p) PROVE SInv' /\ StaysOut
  <2>1. Counted(contract[request[p].of].employee) \in SUBSET Contracts
    BY DEF Counted, Of
  <2>2. \A q \in People : request'[q] = request[q] \/ WillWrite(q)'
    BY <1>0, <1>5, <2>1, NoMoreCommits DEF CheckContracts
  <2> QED BY <1>5, <2>2, SInvStep, RowsKept DEF CheckContracts
<1>6. ASSUME SettleRole(p) PROVE SInv' /\ StaysOut
  <2>1. \A q \in People : request'[q] = request[q] \/ WillWrite(q)'
    BY <1>0, <1>6, NoMoreCommits DEF SettleRole
  <2> QED BY <1>6, <2>1, SInvStep, RowsKept DEF SettleRole
<1>7. ASSUME CommitEdit(p) PROVE SInv' /\ StaysOut
  <2>1. request[p].op = "edit"
    BY <1>7 DEF CommitEdit, Doing
  <2>2. /\ StaysOut
        /\ \A c \in Contracts \ handled : SigOK(contract'[c])
    BY <1>0, <1>7, <2>1, Committing DEF CommitEdit, Commits
  <2>3. \A q \in People : request'[q] = request[q] \/ WillWrite(q)'
    BY <1>0, <1>7, NoMoreCommits DEF CommitEdit, Op, Commits
  <2> QED BY <1>7, <2>2, <2>3, SInvStep DEF CommitEdit
<1> QED BY <1>1, <1>2, <1>3, <1>4, <1>5, <1>6, <1>7 DEF OwnerStep

LEMMA SEmployee ==
  ASSUME SInv, TypeOK', NEW p \in Employees, EmployeeStep(p)
  PROVE  SInv' /\ StaysOut
<1>0. p \in People /\ contract \in [Contracts -> Row]
  BY ContractsAssumption DEF SInv, TypeOK
<1>1. ASSUME NEW c \in Contracts, BeginAccept(p, c) PROVE SInv' /\ StaysOut
  <2>1. ASSUME Pending(c)
        PROVE  /\ Signed(contract[c]) \in Row
               /\ c \notin handled => Paired(contract[c], Signed(contract[c]))
    <3>1. contract[c] \in Row /\ Signed(contract[c]) \in Row
      BY <1>0, NewRows
    <3>2. Signed(contract[c]).status = "active" /\ Signed(contract[c]).signed
      BY <3>1 DEF Signed, Row
    <3>3. c \notin handled => ~contract[c].signed
      BY <2>1 DEF Pending, SInv, SigOK
    <3> QED BY <2>1, <3>1, <3>2, <3>3 DEF Pending, Paired
  <2>2. \A q \in People : request'[q] = request[q] \/ WillWrite(q)'
    BY <1>0, <1>1, <2>1, Loading DEF BeginAccept, Commits
  <2> QED BY <1>1, <2>2, SInvStep, RowsKept DEF BeginAccept
<1>2. ASSUME NEW c \in Contracts, BeginReject(p, c) PROVE SInv' /\ StaysOut
  <2> DEFINE new == [contract[c] EXCEPT !.status = "rejected"]
  <2>1. new \in Row /\ Paired(contract[c], new) /\ new.isActive = contract[c].isActive
    BY <1>0, NewRows DEF Paired, Row
  <2> HIDE DEF new
  <2>2. \A q \in People : request'[q] = request[q] \/ WillWrite(q)'
    <3>1. Loads(p, "reject", c, new) /\ handled' = handled
      BY <1>2 DEF BeginReject, new
    <3> QED BY <1>0, <2>1, <3>1, Loading DEF Commits
  <2> QED BY <1>2, <2>2, SInvStep, RowsKept DEF BeginReject
<1>3. ASSUME CommitAccept(p) \/ CommitReject(p) PROVE SInv' /\ StaysOut
  <2>1. /\ request[p].op \in Commits /\ handled' = handled /\ Done(p)
        /\ contract' = WrittenBack(request[p].of, request[p].read, request[p].new)
    BY <1>3 DEF CommitAccept, CommitReject, Doing, Commits
  <2>2. StaysOut /\ \A c \in Contracts \ handled : SigOK(contract'[c])
    BY <1>0, <2>1, Committing
  <2>3. \A q \in People : request'[q] = request[q] \/ WillWrite(q)'
    BY <1>0, <2>1, NoMoreCommits
  <2> QED BY <2>1, <2>2, <2>3, SInvStep
<1> QED BY <1>1, <1>2, <1>3 DEF EmployeeStep

LEMMA SManager ==
  ASSUME SInv, TypeOK', NEW p \in Managers, ManagerStep(p)
  PROVE  SInv' /\ StaysOut
<1>0. p \in People /\ contract \in [Contracts -> Row]
  BY ContractsAssumption DEF SInv, TypeOK
<1>1. ASSUME NEW c \in Contracts, NEW e \in Employees, ManagerHires(p, c, e) PROVE SInv' /\ StaysOut
  <2>1. PICK objects \in Grants :
          contract' = [contract EXCEPT ![c] =
            [NoRow EXCEPT !.status = "active", !.isActive = TRUE, !.objects = objects, !.employee = e]]
    BY <1>1 DEF ManagerHires
  <2> DEFINE row == [NoRow EXCEPT !.status = "active", !.isActive = TRUE, !.objects = objects,
                                  !.employee = e]
  <2>2. row \in Row
    BY ContractsAssumption, FirstRows DEF Row, Status
  <2>3. ~Exists(c) /\ c \in handled' /\ handled \subseteq handled'
    BY <1>1 DEF ManagerHires, IsNext
  <2> HIDE DEF row
  <2>4. contract' = [contract EXCEPT ![c] = row]
    BY <2>1 DEF row
  <2>5. /\ StaysOut
        /\ \A d \in Contracts \ handled' : contract'[d] = contract[d] \/ SigOK(contract'[d])
    BY <2>2, <2>3, <2>4, OneRow
  <2>6. \A q \in People : request'[q] = request[q] \/ WillWrite(q)'
    BY <1>0, <1>1, NoMoreCommits DEF ManagerHires, Op, Commits
  <2> QED BY <2>3, <2>5, <2>6, SInvStep
<1>2. ASSUME Promote(p) \/ Retire(p) PROVE SInv' /\ StaysOut
  <2>1. Done(p) /\ contract' = contract /\ handled' = handled
    BY <1>2 DEF Promote, Retire
  <2>2. \A q \in People : request'[q] = request[q] \/ WillWrite(q)'
    BY <1>0, <2>1, NoMoreCommits
  <2> QED BY <2>1, <2>2, SInvStep, RowsKept
<1>3. ASSUME NEW c \in Contracts, ManagerEdits(p, c) PROVE SInv' /\ StaysOut
  <2> DEFINE row == [contract[c] EXCEPT !.status = "active"]
  <2>1. /\ row \in Row /\ row.isActive = contract[c].isActive /\ row.status = "active"
        /\ row.signed = contract[c].signed
    BY <1>0 DEF Row, Status
  <2> HIDE DEF row
  <2>2. contract' = [contract EXCEPT ![c] = row] /\ handled \subseteq handled' /\ request' = request
    BY <1>3 DEF ManagerEdits, row
  <2>3. c \in handled' \/ SigOK(row)
    BY <1>3, <2>1 DEF ManagerEdits, SInv, SigOK
  <2>4. /\ StaysOut
        /\ \A d \in Contracts \ handled' : contract'[d] = contract[d] \/ SigOK(contract'[d])
    BY <2>1, <2>2, <2>3, OneRow
  <2> QED BY <2>2, <2>4, SInvStep
<1> QED BY <1>1, <1>2, <1>3 DEF ManagerStep

LEMMA STermination ==
  ASSUME SInv, TypeOK', TerminationStep
  PROVE  SInv' /\ StaysOut
<1>0. contract \in [Contracts -> Row] /\ Owners \subseteq People /\ Managers \subseteq People
  BY ContractsAssumption DEF SInv, TypeOK, Owners
<1>1. ASSUME NEW p \in Owners, CommitTerminate(p) PROVE SInv' /\ StaysOut
  <2>1. /\ request[p].op = "terminate" /\ handled' = handled
        /\ contract' = WrittenBack(request[p].of, request[p].read, request[p].new)
    BY <1>1 DEF CommitTerminate, Doing
  <2>2. StaysOut /\ \A c \in Contracts \ handled : SigOK(contract'[c])
    BY <1>0, <2>1, Committing DEF Commits
  <2>3. \A q \in People : request'[q] = request[q] \/ WillWrite(q)'
    BY <1>0, <1>1, NoMoreCommits DEF CommitTerminate, Op, Commits
  <2> QED BY <2>1, <2>2, <2>3, SInvStep
<1>2. ASSUME NEW p \in Managers, NEW c \in Contracts, ManagerTerminates(p, c) PROVE SInv' /\ StaysOut
  <2>1. /\ contract' = [contract EXCEPT ![c] = Terminated(contract[c])]
        /\ handled' = handled \cup {c}
    BY <1>2 DEF ManagerTerminates
  <2>2. Terminated(contract[c]) \in Row /\ ~Terminated(contract[c]).isActive
    BY <1>0, NewRows DEF Terminated, Row
  <2>3. /\ StaysOut
        /\ \A d \in Contracts \ handled' : contract'[d] = contract[d] \/ SigOK(contract'[d])
    BY <2>1, <2>2, OneRow
  <2>4. \A q \in People : request'[q] = request[q] \/ WillWrite(q)'
    BY <1>0, <1>2, NoMoreCommits DEF ManagerTerminates, Op, Commits
  <2> QED BY <2>1, <2>3, <2>4, SInvStep
<1> QED BY <1>1, <1>2 DEF TerminationStep

LEMMA SOffers ==
  ASSUME SInv, TypeOK',
         \/ \E c \in Contracts : RequestOtp(c) \/ CodeIsGone(c) \/ TermEnds(c)
         \/ LoadOffers \/ CommitOffers \/ OffersTaskDies
  PROVE  SInv' /\ StaysOut
<1>0. contract \in [Contracts -> Row]
  BY DEF SInv, TypeOK
<1>1. request' = request /\ handled' = handled
  BY DEF RequestOtp, CodeIsGone, TermEnds, LoadOffers, CommitOffers, OffersTaskDies
<1>2. StaysOut /\ \A d \in Contracts \ handled : contract'[d] = contract[d] \/ SigOK(contract'[d])
  <2>1. CASE contract' = contract
    BY <2>1, RowsKept, <1>1
  <2>2. ASSUME NEW c \in Contracts, TermEnds(c)
        PROVE  StaysOut /\ \A d \in Contracts \ handled : contract'[d] = contract[d] \/ SigOK(contract'[d])
    <3>1. contract' = [contract EXCEPT ![c] = [contract[c] EXCEPT !.late = TRUE]]
      BY <2>2 DEF TermEnds
    <3>2. /\ [contract[c] EXCEPT !.late = TRUE] \in Row
          /\ [contract[c] EXCEPT !.late = TRUE].isActive = contract[c].isActive
          /\ SigOK(contract[c]) => SigOK([contract[c] EXCEPT !.late = TRUE])
      BY <1>0 DEF Row, SigOK
    <3> QED BY <1>1, <3>1, <3>2, OneRow DEF SInv
  <2>3. ASSUME CommitOffers
        PROVE  StaysOut /\ \A d \in Contracts \ handled : contract'[d] = contract[d] \/ SigOK(contract'[d])
    <3>1. \A d \in Contracts :
            \/ contract'[d] = contract[d]
            \/ contract'[d].status = "expired" /\ ~contract'[d].isActive
      <4>1. ASSUME NEW row \in Row
            PROVE  /\ [row EXCEPT !.status = "expired", !.isActive = FALSE].status = "expired"
                   /\ ~[row EXCEPT !.status = "expired", !.isActive = FALSE].isActive
        BY DEF Row
      <4>2. \A d \in Contracts :
              contract'[d] = IF d \in lapsed
                THEN [contract[d] EXCEPT !.status = "expired", !.isActive = FALSE] ELSE contract[d]
        BY <2>3 DEF CommitOffers
      <4>3. ASSUME NEW d \in Contracts, d \in lapsed
            PROVE  contract'[d].status = "expired" /\ ~contract'[d].isActive
        <5>1. contract[d] \in Row
          BY <1>0
        <5>2. contract'[d] = [contract[d] EXCEPT !.status = "expired", !.isActive = FALSE]
          BY <4>2, <4>3
        <5> QED BY <4>1, <5>1, <5>2
      <4> QED BY <4>2, <4>3
    <3> QED BY <3>1 DEF StaysOut, SigOK
  <2> QED BY <2>1, <2>2, <2>3 DEF RequestOtp, CodeIsGone, LoadOffers, OffersTaskDies
<1> QED BY <1>1, <1>2, SInvStep

LEMMA NextSInv == SInv /\ [Next]_cvars => SInv' /\ (StaysOut \/ UNCHANGED cvars)
<1> SUFFICES ASSUME SInv, [Next]_cvars PROVE SInv' /\ (StaysOut \/ UNCHANGED cvars) OBVIOUS
<1>1. TypeOK'
  BY NextTypeOK DEF SInv
<1>2. CASE UNCHANGED cvars
  BY <1>1, <1>2, SInvStep DEF cvars
<1> QED BY <1>1, <1>2, SOwner, SEmployee, SManager, STermination, SOffers DEF Next, OtherStep

\* Nothing unsigned is in force but by a manager's doing.
THEOREM ActiveContractsAreSigned == Spec => []ActiveIsSigned
<1>1. SInv => ActiveIsSigned
  BY DEF SInv, SigOK, ActiveIsSigned
<1> QED BY <1>1, InitSInv, NextSInv, PTL DEF Spec

\* What is out of use stays so, but for offers whose template has been changed.
THEOREM OutOfUseStays == Spec => InactiveStays
<1>1. SInv /\ [Next]_cvars => [StaysOut]_cvars
  BY NextSInv
<1>2. Spec => [][StaysOut]_cvars
  BY <1>1, InitSInv, NextSInv, PTL DEF Spec
<1> QED BY <1>2 DEF InactiveStays, StaysOut

-----------------------------------------------------------------------------
(* The role.  A check that finds no contract is followed by the loss of the *)
(* role; in between no contract may come to be counted.  The owner who asks *)
(* for the check makes no offer meanwhile, and an acceptance counts nothing *)
(* that was not counted as an offer.  This is so for one owner.             *)

OneOwner == \A p, q \in Owners : p = q

\* What the check counts, of the contracts the property is about.
Counts(c) ==
  /\ c \notin handled /\ ~contract[c].reset
  /\ contract[c].isActive /\ contract[c].status \in {"active", "pending_acceptance"}

RoleOK(c) ==
  \/ "employee" \in user[contract[c].employee].roles
  \/ \E p \in People : request[p].op = "assign_employee" /\ request[p].of = c

RowOK(row) ==
  ~row.reset => /\ row.status = "pending_acceptance" => row.isActive
                /\ row.status = "terminated" => ~row.isActive

\* What the session of each kind of request has changed of the row it loaded.
Shape(op, old, new) ==
  \/ /\ op = "accept" /\ old.status = "pending_acceptance"
     /\ new.status = "active" /\ new.isActive /\ new.reset = old.reset
  \/ /\ op = "reject" /\ old.status = "pending_acceptance"
     /\ new.status = "rejected" /\ new.isActive = old.isActive /\ new.reset = old.reset
  \/ /\ op = "terminate"
     /\ new.status = "terminated" /\ ~new.isActive /\ new.reset = old.reset
  \/ /\ op = "edit" /\ new.status # "none"
     /\ \/ new.status = old.status /\ new.isActive = old.isActive /\ new.reset = old.reset
        \/ ~new.isActive /\ new.reset

\* What a session knows of its row by the time of its commit.
SessionOK(p) ==
  LET r == request[p]  c == request[p].of IN
  /\ r.read.employee = contract[c].employee /\ r.new.employee = r.read.employee
  /\ r.op \in {"accept", "reject"} => p = contract[c].employee
  /\ Shape(r.op, r.read, r.new)
  /\ c \notin handled =>
       /\ RowOK(r.read)
       /\ r.read.reset => contract[c].reset
       /\ contract[c].isActive /\ ~contract[c].reset => r.read.isActive
       /\ r.op = "accept" /\ contract[c].isActive /\ ~contract[c].reset => Pending(c)

RequestOK(p) ==
  LET r == request[p] IN
  /\ r.op \in Commits \cup {"check", "settle_role", "assign_employee"} => Exists(r.of)
  /\ r.op \in Commits => SessionOK(p)
  /\ r.op = "settle_role" =>
       /\ p \in Owners
       /\ r.found = {} => \A c \in Contracts : Counts(c) => contract[c].employee # contract[r.of].employee

HInv ==
  /\ SInv
  /\ \A c \in Contracts \ handled : RowOK(contract[c])
  /\ \A c \in Contracts : Counts(c) => RoleOK(c)
  /\ \A p \in People : RequestOK(p)

LEMMA InitHInv == Init => HInv
  BY InitSInv DEF HInv, Init, RowOK, Counts, RequestOK, Idle, NoRow, Commits

-----------------------------------------------------------------------------
\* What no step does to a contract there is, and what only managers do.
Keeps(c) ==
  /\ Exists(c)' /\ contract'[c].employee = contract[c].employee
  /\ c \notin handled' =>
       /\ RowOK(contract'[c])
       /\ contract[c].reset => contract'[c].reset
       /\ contract'[c].isActive /\ ~contract'[c].reset => contract[c].isActive
       /\ Counts(c)' => Counts(c)
       /\ Pending(c) /\ contract'[c].isActive /\ ~contract'[c].reset =>
            Pending(c)' \/ request'[contract[c].employee].op # "accept"

\* A request that is in progress before and after such a step is as well off.
LEMMA OtherRequests ==
  ASSUME HInv, TypeOK', handled \subseteq handled', NEW p \in People, request'[p] = request[p],
         \A c \in Contracts : Exists(c) => Keeps(c),
         \/ \A c \in Contracts : Counts(c)' => Exists(c)
         \/ request[p].op # "settle_role"
  PROVE  RequestOK(p)'
<1> DEFINE r == request[p]
           c == request[p].of
<1>0. /\ request[p] \in Request /\ c \in Contracts /\ RequestOK(p)
      /\ contract \in [Contracts -> Row] /\ contract' \in [Contracts -> Row]
  BY DEF HInv, SInv, TypeOK, Request
<1>1. ASSUME r.op \in Commits PROVE Exists(c)' /\ SessionOK(p)'
  <2>1. Exists(c) /\ Keeps(c) /\ SessionOK(p)
    BY <1>0, <1>1 DEF RequestOK
  <2>2. ASSUME c \notin handled'
        PROVE  /\ RowOK(r.read)
               /\ r.read.reset => contract'[c].reset
               /\ contract'[c].isActive /\ ~contract'[c].reset => r.read.isActive
               /\ r.op = "accept" /\ contract'[c].isActive /\ ~contract'[c].reset => Pending(c)'
    <3>1. c \notin handled
      BY <2>2
    <3>2. ASSUME r.op = "accept", contract'[c].isActive, ~contract'[c].reset PROVE Pending(c)'
      <4>1. contract[c].isActive /\ ~contract[c].reset /\ Pending(c)
        BY <2>1, <2>2, <3>1, <3>2 DEF Keeps, SessionOK
      <4>2. request'[contract[c].employee].op = "accept"
        BY <2>1, <3>2 DEF SessionOK
      <4> QED BY <2>1, <2>2, <3>2, <4>1, <4>2 DEF Keeps
    <3> QED BY <2>1, <2>2, <3>1, <3>2 DEF Keeps, SessionOK
  <2> QED BY <2>1, <2>2 DEF Keeps, SessionOK
<1>2. ASSUME r.op \in {"check", "settle_role", "assign_employee"} PROVE Exists(c)'
  BY <1>0, <1>2 DEF RequestOK, Keeps
<1>3. ASSUME r.op = "settle_role", r.found = {}, NEW d \in Contracts, Counts(d)'
      PROVE  contract'[d].employee # contract'[c].employee
  <2>1. Exists(c) /\ Exists(d)
    BY <1>0, <1>3 DEF RequestOK
  <2>2. d \notin handled'
    BY <1>3 DEF Counts
  <2> QED BY <1>0, <1>3, <2>1, <2>2 DEF RequestOK, Keeps
<1>4. r.op = "settle_role" => p \in Owners
  BY <1>0 DEF RequestOK
<1> QED BY <1>1, <1>2, <1>3, <1>4 DEF RequestOK

\* Rows, and the role of those who have counted contracts, kept by a step.
LEMMA HInvStep ==
  ASSUME HInv, SInv', handled \subseteq handled',
         \A c \in Contracts : Exists(c) => Keeps(c),
         \A c \in Contracts : ~Exists(c) /\ Exists(c)' /\ c \notin handled' =>
                                RowOK(contract'[c]) /\ (Counts(c)' => RoleOK(c)'),
         \A c \in Contracts : Counts(c) /\ RoleOK(c) /\ Keeps(c) => RoleOK(c)',
         \A p \in People : RequestOK(p)'
  PROVE  HInv'
<1>1. ASSUME NEW c \in Contracts, c \notin handled' PROVE RowOK(contract'[c])
  <2>1. CASE Exists(c)
    BY <1>1, <2>1 DEF Keeps
  <2>2. CASE ~Exists(c)'
    BY <2>2 DEF RowOK, Exists
  <2> QED BY <1>1, <2>1, <2>2
<1>2. ASSUME NEW c \in Contracts, Counts(c)' PROVE RoleOK(c)'
  <2>1. Exists(c)' /\ c \notin handled'
    BY <1>2 DEF Counts, Exists
  <2>2. CASE Exists(c)
    <3>1. Counts(c)
      BY <1>2, <2>1, <2>2 DEF Keeps
    <3> QED BY <2>2, <3>1 DEF HInv
  <2> QED BY <1>2, <2>1, <2>2
<1> QED BY <1>1, <1>2 DEF HInv

LEMMA SameRows ==
  ASSUME HInv, NEW c \in Contracts, Exists(c), handled \subseteq handled', contract'[c] = contract[c]
  PROVE  Keeps(c)
  BY DEF HInv, Keeps, Exists, Counts, Pending

LEMMA RolesKept ==
  ASSUME HInv, \A e \in Employees : "employee" \in user[e].roles => "employee" \in user'[e].roles,
         \A p \in People : request[p].op = "assign_employee" => request'[p] = request[p]
  PROVE  \A c \in Contracts : Counts(c) /\ RoleOK(c) /\ Keeps(c) => RoleOK(c)'
<1> SUFFICES ASSUME NEW c \in Contracts, RoleOK(c), Keeps(c) PROVE RoleOK(c)' OBVIOUS
<1>1. contract[c].employee \in Employees /\ contract'[c].employee = contract[c].employee
  BY DEF HInv, SInv, TypeOK, Row, Keeps
<1> QED BY <1>1 DEF RoleOK

LEMMA RowWritten ==
  ASSUME contract \in [Contracts -> Row], NEW c \in Contracts, NEW old \in Row, NEW new \in Row,
         contract' = WrittenBack(c, old, new)
  PROVE  /\ \A d \in Contracts : d # c => contract'[d] = contract[d]
         /\ contract'[c].status = Column(old.status, new.status, contract[c].status)
         /\ contract'[c].isActive = Column(old.isActive, new.isActive, contract[c].isActive)
         /\ contract'[c].reset = Column(old.reset, new.reset, contract[c].reset)
         /\ contract'[c].employee = Column(old.employee, new.employee, contract[c].employee)
<1>1. \A d \in Contracts : d # c => contract'[d] = contract[d]
  BY WrittenBackRow
<1>2. /\ contract'[c].status = Column(old.status, new.status, contract[c].status)
      /\ contract'[c].isActive = Column(old.isActive, new.isActive, contract[c].isActive)
  BY WrittenBackRow
<1>3. contract'[c].reset = Column(old.reset, new.reset, contract[c].reset)
  BY WrittenBackRow
<1>4. contract'[c].employee = Column(old.employee, new.employee, contract[c].employee)
  BY WrittenBackRow
<1> QED BY <1>1, <1>2, <1>3, <1>4

\* What a commit leaves of every row.
LEMMA HCommit ==
  ASSUME HInv, NEW p \in People, request[p].op \in Commits, handled' = handled,
         request'[p].op # "accept",
         contract' = WrittenBack(request[p].of, request[p].read, request[p].new)
  PROVE  \A c \in Contracts : /\ Exists(c) => Keeps(c)
                              /\ Exists(c)' => Exists(c)
<1> DEFINE old == request[p].read
           new == request[p].new
<1>0. PICK c \in Contracts : c = request[p].of
  BY DEF HInv, SInv, TypeOK
<1> DEFINE now == contract[c]
           next == contract'[c]
<1>1. /\ contract \in [Contracts -> Row] /\ old \in Row /\ new \in Row /\ now \in Row
      /\ RequestOK(p)
  BY DEF HInv, SInv, TypeOK
<1>2. Exists(c) /\ SessionOK(p)
  BY <1>0, <1>1 DEF RequestOK
<1>3. /\ \A d \in Contracts : d # c => contract'[d] = contract[d]
      /\ next.status = Column(old.status, new.status, now.status)
      /\ next.isActive = Column(old.isActive, new.isActive, now.isActive)
      /\ next.reset = Column(old.reset, new.reset, now.reset)
      /\ next.employee = Column(old.employee, new.employee, now.employee)
  BY <1>0, <1>1, RowWritten
<1>4. /\ old.isActive \in BOOLEAN /\ new.isActive \in BOOLEAN /\ now.isActive \in BOOLEAN
      /\ old.reset \in BOOLEAN /\ new.reset \in BOOLEAN /\ now.reset \in BOOLEAN
  BY <1>1 DEF Row
<1>5. /\ new.employee = old.employee
      /\ Shape(request[p].op, old, new)
      /\ request[p].op \in {"accept", "reject"} => p = now.employee
      /\ c \notin handled =>
           /\ RowOK(old) /\ RowOK(now)
           /\ old.reset => now.reset
           /\ now.isActive /\ ~now.reset => old.isActive
           /\ request[p].op = "accept" /\ now.isActive /\ ~now.reset => now.status = "pending_acceptance"
  BY <1>0, <1>1, <1>2 DEF SessionOK, HInv, Pending
<1>6. now.status # "none"
  BY <1>2 DEF Exists
<1> HIDE DEF old, new, now, next
<1>7. next.status # "none" /\ next.employee = now.employee
  BY <1>3, <1>5, <1>6 DEF Column, Shape
<1>8. ASSUME c \notin handled
      PROVE  /\ RowOK(next)
             /\ now.reset => next.reset
             /\ next.isActive /\ ~next.reset => now.isActive
  BY <1>3, <1>4, <1>5, <1>8 DEF Column, Shape, RowOK
<1>9. ASSUME c \notin handled, ~next.reset, next.isActive,
             next.status \in {"active", "pending_acceptance"}
      PROVE  ~now.reset /\ now.isActive /\ now.status \in {"active", "pending_acceptance"}
  BY <1>3, <1>4, <1>5, <1>9 DEF Column, Shape, RowOK
<1>10. ASSUME c \notin handled, now.status = "pending_acceptance", next.isActive, ~next.reset
       PROVE  next.status = "pending_acceptance" \/ p = now.employee
  BY <1>3, <1>4, <1>5, <1>10 DEF Column, Shape, RowOK
<1>11. Keeps(c)
  <2>1. Exists(c)' /\ contract'[c].employee = contract[c].employee
    BY <1>7 DEF Exists, now, next
  <2>2. ASSUME c \notin handled
        PROVE  /\ RowOK(contract'[c])
               /\ contract[c].reset => contract'[c].reset
               /\ contract'[c].isActive /\ ~contract'[c].reset => contract[c].isActive
    BY <1>8, <2>2 DEF now, next
  <2>3. ASSUME c \notin handled, Counts(c)' PROVE Counts(c)
    BY <1>9, <2>3 DEF Counts, now, next
  <2>4. ASSUME c \notin handled, Pending(c), contract'[c].isActive, ~contract'[c].reset
        PROVE  Pending(c)' \/ request'[contract[c].employee].op # "accept"
    BY <1>10, <2>4 DEF Pending, now, next
  <2> QED BY <2>1, <2>2, <2>3, <2>4 DEF Keeps
<1>12. ASSUME NEW d \in Contracts, d # c PROVE (Exists(d) => Keeps(d)) /\ (Exists(d)' => Exists(d))
  <2>1. contract'[d] = contract[d]
    BY <1>3, <1>12
  <2> QED BY <2>1, SameRows DEF Exists
<1> QED BY <1>2, <1>11, <1>12

\* Requests that have no more to commit or to decide.
LEMMA Finished ==
  ASSUME NEW p \in People, request'[p].op \notin Commits \cup {"check", "settle_role", "assign_employee"}
  PROVE  RequestOK(p)'
  BY DEF RequestOK, Commits

\* A step of one request that writes no row, and takes no role from anybody.
LEMMA QuietStep ==
  ASSUME HInv, SInv', NEW p \in People, contract' = contract, handled' = handled,
         \A q \in People : q # p => request'[q] = request[q],
         request[p].op # "assign_employee",
         RequestOK(p)',
         \A e \in Employees : "employee" \in user[e].roles => "employee" \in user'[e].roles
  PROVE  HInv'
<1>1. \A c \in Contracts : Exists(c) => Keeps(c)
  BY SameRows
<1>2. \A c \in Contracts : Exists(c)' => Exists(c)
  BY DEF Exists
<1>3. \A c \in Contracts : Counts(c)' => Exists(c)
  BY DEF Exists, Counts
<1>4. \A q \in People : RequestOK(q)'
  BY <1>1, <1>3, OtherRequests DEF SInv
<1>5. \A c \in Contracts : Counts(c) /\ RoleOK(c) /\ Keeps(c) => RoleOK(c)'
  BY RolesKept
<1> QED BY <1>1, <1>2, <1>4, <1>5, HInvStep

\* The commit of a request.
LEMMA CommitStep ==
  ASSUME HInv, SInv', NEW p \in People, request[p].op \in Commits,
         contract' = WrittenBack(request[p].of, request[p].read, request[p].new),
         handled' = handled, user' = user,
         Done(p) \/ Becomes(p, "check")
  PROVE  HInv'
<1>1. request \in [People -> Request] /\ request[p].of \in Contracts
  BY DEF HInv, SInv, TypeOK, Request
<1>2. /\ \A q \in People : q # p => request'[q] = request[q]
      /\ \/ request'[p] = Idle
         \/ request'[p] = [Idle EXCEPT !.op = "check", !.of = request[p].of]
  BY <1>1 DEF Done, Becomes
<1>3. \/ request'[p].op = "idle"
      \/ request'[p].op = "check" /\ request'[p].of = request[p].of
  <2>1. /\ Idle.op = "idle"
        /\ [Idle EXCEPT !.op = "check", !.of = request[p].of].op = "check"
        /\ [Idle EXCEPT !.op = "check", !.of = request[p].of].of = request[p].of
    BY DEF Idle
  <2> QED BY <1>2, <2>1
<1>4. \A c \in Contracts : (Exists(c) => Keeps(c)) /\ (Exists(c)' => Exists(c))
  BY <1>3, HCommit
<1>5. \A c \in Contracts : Counts(c)' => Exists(c)
  BY <1>4 DEF Exists, Counts
<1>6. RequestOK(p)'
  <2>1. RequestOK(p)
    BY DEF HInv
  <2>2. contract'[request[p].of].status # "none"
    BY <1>1, <1>4, <2>1 DEF RequestOK, Keeps, Exists
  <2> QED BY <1>3, <2>2 DEF RequestOK, Commits, Exists
<1>7. \A q \in People : RequestOK(q)'
  BY <1>2, <1>4, <1>5, <1>6, OtherRequests DEF SInv
<1>8. \A c \in Contracts : Counts(c) /\ RoleOK(c) /\ Keeps(c) => RoleOK(c)'
  BY <1>2, RolesKept DEF Commits
<1> QED BY <1>4, <1>7, <1>8, HInvStep

\* The session a request has just begun.
LEMMA Begun ==
  ASSUME HInv, NEW p \in People, NEW c \in Contracts, NEW op \in Commits, NEW new \in Row,
         Exists(c), Loads(p, op, c, new), contract' = contract, handled' = handled,
         Shape(op, contract[c], new), new.employee = contract[c].employee,
         op \in {"accept", "reject"} => p = contract[c].employee
  PROVE  RequestOK(p)' /\ \A q \in People : q # p => request'[q] = request[q]
<1>1. request \in [People -> Request]
  BY DEF HInv, SInv, TypeOK, Request
<1>2. /\ request'[p] = [op |-> op, of |-> c, read |-> contract[c], new |-> new, found |-> {}]
      /\ \A q \in People : q # p => request'[q] = request[q]
  BY <1>1 DEF Loads
<1>3. c \notin handled => RowOK(contract[c])
  BY DEF HInv
<1>4. op = "accept" => contract[c].status = "pending_acceptance"
  BY DEF Shape
<1>5. SessionOK(p)'
  BY <1>2, <1>3, <1>4 DEF SessionOK, Pending
<1>6. op # "settle_role"
  BY DEF Commits
<1> QED BY <1>2, <1>5, <1>6 DEF RequestOK, Exists

LEMMA HOwner ==
  ASSUME OneOwner, HInv, SInv', NEW p \in Owners, OwnerStep(p)
  PROVE  HInv'
<1>0. /\ p \in People /\ contract \in [Contracts -> Row] /\ request \in [People -> Request]
      /\ request[p].of \in Contracts /\ user \in Users /\ RequestOK(p)
      /\ \A c \in Contracts : contract[c].employee \in Employees
  BY DEF Owners, HInv, SInv, TypeOK, Request, Users, Row
<1>1. ASSUME NEW c \in Contracts, NEW e \in Employees, Create(p, c, e) PROVE HInv'
  <2>1. PICK objects \in Grants, manager \in BOOLEAN :
          contract' = [contract EXCEPT ![c] =
            [NoRow EXCEPT !.status = "pending_acceptance", !.isActive = TRUE,
                          !.manager = manager, !.objects = objects, !.employee = e]]
    BY <1>1 DEF Create
  <2>2. /\ contract'[c].status = "pending_acceptance" /\ contract'[c].isActive
        /\ \A d \in Contracts : d # c => contract'[d] = contract[d]
    <3> DEFINE row == [NoRow EXCEPT !.status = "pending_acceptance", !.isActive = TRUE,
                                    !.manager = manager, !.objects = objects, !.employee = e]
    <3>1. row.status = "pending_acceptance" /\ row.isActive
      BY DEF NoRow
    <3> HIDE DEF row
    <3>2. contract' = [contract EXCEPT ![c] = row]
      BY <2>1 DEF row
    <3> QED BY <1>0, <3>1, <3>2
  <2>3. /\ ~Exists(c) /\ handled' = handled /\ user' = user /\ request[p].op = "idle"
        /\ request'[p].op = "assign_employee" /\ request'[p].of = c
        /\ \A q \in People : q # p => request'[q] = request[q]
    <3>1. /\ [Idle EXCEPT !.op = "assign_employee", !.of = c].op = "assign_employee"
          /\ [Idle EXCEPT !.op = "assign_employee", !.of = c].of = c
      BY DEF Idle
    <3> QED BY <1>0, <1>1, <3>1 DEF Create, IsNext, Begins, IsIdle
  <2>4. \A d \in Contracts : Exists(d) => Keeps(d)
    BY <2>2, <2>3, SameRows
  <2>5. ASSUME NEW q \in People PROVE RequestOK(q)'
    <3>1. CASE q = p
      BY <2>2, <2>3, <3>1 DEF RequestOK, Exists, Commits
    <3>2. CASE q # p
      <4>1. request[q].op # "settle_role"
        BY <3>2 DEF HInv, RequestOK, OneOwner
      <4> QED BY <2>3, <2>4, <3>2, <4>1, OtherRequests DEF SInv
    <3> QED BY <3>1, <3>2
  <2>6. ASSUME NEW d \in Contracts, ~Exists(d), Exists(d)' PROVE RowOK(contract'[d]) /\ RoleOK(d)'
    <3>1. d = c
      BY <2>2, <2>6 DEF Exists
    <3> QED BY <1>0, <2>2, <2>3, <3>1 DEF RowOK, RoleOK
  <2>7. \A d \in Contracts : Counts(d) /\ RoleOK(d) /\ Keeps(d) => RoleOK(d)'
    BY <2>3, RolesKept
  <2> QED BY <2>3, <2>4, <2>5, <2>6, <2>7, HInvStep
<1>2. ASSUME AssignEmployeeRole(p) PROVE HInv'
  <2>1. PICK c \in Contracts : c = request[p].of
    BY <1>0
  <2>2. /\ contract' = contract /\ handled' = handled
        /\ AddRole(contract[c].employee, "employee")
        /\ Done(p) \/ Becomes(p, "assign_manager")
    BY <1>2, <2>1 DEF AssignEmployeeRole
  <2>3. /\ "employee" \in user'[contract[c].employee].roles
        /\ \A e \in Employees : "employee" \in user[e].roles => "employee" \in user'[e].roles
    BY <1>0, <2>2, AddRoleTypes DEF Role
  <2>4. /\ request'[p].op \in {"idle", "assign_manager"}
        /\ \A q \in People : q # p => request'[q] = request[q]
    <3>1. Idle.op = "idle" /\ [Idle EXCEPT !.op = "assign_manager", !.of = request[p].of].op = "assign_manager"
      BY DEF Idle
    <3> QED BY <1>0, <2>2, <3>1 DEF Done, Becomes
  <2>5. /\ \A d \in Contracts : Exists(d) => Keeps(d)
        /\ \A d \in Contracts : (Counts(d)' => Exists(d)) /\ (Exists(d)' => Exists(d))
    BY <2>2, SameRows DEF Exists, Counts
  <2>6. RequestOK(p)'
    BY <1>0, <2>4, Finished DEF Commits
  <2>7. \A q \in People : RequestOK(q)'
    BY <2>2, <2>4, <2>5, <2>6, OtherRequests DEF SInv
  <2>8. ASSUME NEW d \in Contracts, RoleOK(d) PROVE RoleOK(d)'
    <3>1. CASE \E q \in People : q # p /\ request[q].op = "assign_employee" /\ request[q].of = d
      BY <2>4, <3>1 DEF RoleOK
    <3>2. CASE request[p].of = d
      BY <2>1, <2>2, <2>3, <3>2 DEF RoleOK
    <3>3. CASE "employee" \in user[contract[d].employee].roles
      BY <1>0, <2>2, <2>3, <3>3 DEF RoleOK
    <3> QED BY <2>8, <3>1, <3>2, <3>3 DEF RoleOK
  <2> QED BY <2>2, <2>5, <2>7, <2>8, HInvStep
<1>3. ASSUME AssignManagerRole(p) PROVE HInv'
  <2>1. /\ contract' = contract /\ handled' = handled /\ request[p].op = "assign_manager"
        /\ AddRole(contract[request[p].of].employee, "manager") /\ Done(p)
    BY <1>3 DEF AssignManagerRole, Doing
  <2>2. \A e \in Employees : "employee" \in user[e].roles => "employee" \in user'[e].roles
    BY <1>0, <2>1, AddRoleTypes DEF Role
  <2>3. request'[p].op = "idle" /\ \A q \in People : q # p => request'[q] = request[q]
    BY <1>0, <2>1 DEF Done, Idle
  <2> QED BY <1>0, <2>1, <2>2, <2>3, Finished, QuietStep DEF Commits
<1>4. ASSUME NEW c \in Contracts, BeginTerminate(p, c) PROVE HInv'
  <2>1. /\ Terminated(contract[c]) \in Row
        /\ Shape("terminate", contract[c], Terminated(contract[c]))
        /\ Terminated(contract[c]).employee = contract[c].employee
    BY <1>0, NewRows DEF Terminated, Shape, Row
  <2>2. RequestOK(p)' /\ \A q \in People : q # p => request'[q] = request[q]
    BY <1>0, <1>4, <2>1, Begun DEF BeginTerminate, Commits
  <2>3. request[p].op # "assign_employee"
    BY <1>4 DEF BeginTerminate, Begins, IsIdle
  <2> QED BY <1>0, <1>4, <2>2, <2>3, QuietStep DEF BeginTerminate
<1>5. ASSUME NEW c \in Contracts, BeginEdit(p, c) PROVE HInv'
  <2>1. PICK kinds \in SUBSET Edits, objects \in Grants :
          Loads(p, "edit", c, Changed(contract[c], kinds, objects))
    BY <1>5 DEF BeginEdit
  <2> DEFINE new == Changed(contract[c], kinds, objects)
  <2>2. contract[c] \in Row /\ new \in Row /\ contract[c].status # "none"
    BY <1>0, <1>5, NewRows DEF BeginEdit, Exists
  <2>3. /\ new.employee = contract[c].employee
        /\ \/ ~new.isActive /\ new.reset /\ new.status # "none"
           \/ /\ new.status = contract[c].status /\ new.isActive = contract[c].isActive
              /\ new.reset = contract[c].reset
    BY <2>2 DEF Changed, Row
  <2> HIDE DEF new
  <2>4. Shape("edit", contract[c], new)
    BY <2>2, <2>3 DEF Shape
  <2>5. RequestOK(p)' /\ \A q \in People : q # p => request'[q] = request[q]
    <3>1. Loads(p, "edit", c, new) /\ contract' = contract /\ handled' = handled /\ Exists(c)
      BY <1>5, <2>1 DEF BeginEdit, new
    <3> QED BY <1>0, <2>2, <2>3, <2>4, <3>1, Begun DEF Commits
  <2>6. request[p].op # "assign_employee"
    BY <1>5 DEF BeginEdit, Begins, IsIdle
  <2> QED BY <1>0, <1>5, <2>5, <2>6, QuietStep DEF BeginEdit
<1>6. ASSUME CheckContracts(p) PROVE HInv'
  <2> DEFINE e == contract[request[p].of].employee
  <2>1. /\ request'[p].op = "settle_role" /\ request'[p].of = request[p].of
        /\ request'[p].found = Counted(e)
        /\ \A q \in People : q # p => request'[q] = request[q]
        /\ request[p].op = "check" /\ contract' = contract /\ handled' = handled /\ user' = user
    <3> DEFINE r == [Idle EXCEPT !.op = "settle_role", !.of = request[p].of, !.found = Counted(e)]
    <3>1. r.op = "settle_role" /\ r.of = request[p].of /\ r.found = Counted(e)
      BY DEF Idle
    <3>2. request' = [request EXCEPT ![p] = r]
      BY <1>6 DEF CheckContracts
    <3> HIDE DEF r, e
    <3> QED BY <1>0, <1>6, <3>1, <3>2 DEF CheckContracts, Doing
  <2>2. ASSUME Counted(e) = {}, NEW d \in Contracts, Counts(d) PROVE contract[d].employee # e
    BY <2>2 DEF Counts, Counted, Of, Exists
  <2>3. RequestOK(p)'
    <3>1. contract[request[p].of].status # "none"
      BY <1>0, <2>1 DEF RequestOK, Exists
    <3>2. \A d \in Contracts : Counts(d)' => Counts(d)
      BY <2>1 DEF Counts
    <3> QED BY <2>1, <2>2, <3>1, <3>2 DEF RequestOK, Exists, Commits
  <2> QED BY <1>0, <2>1, <2>3, QuietStep
<1>7. ASSUME SettleRole(p) PROVE HInv'
  <2> DEFINE e == contract[request[p].of].employee
             manages == \E c \in request[p].found : contract[c].manager
             new == IF request[p].found = {} THEN Demoted(user[e]) ELSE Kept(user[e], manages)
  <2>1. /\ user' = [user EXCEPT ![e] = new] /\ Done(p) /\ request[p].op = "settle_role"
        /\ contract' = contract /\ handled' = handled
    BY <1>7 DEF SettleRole, Doing
  <2>2. request[p].found # {} /\ "employee" \in user[e].roles => "employee" \in new.roles
    BY DEF Kept
  <2>3. request[p].found = {} => \A c \in Contracts : Counts(c) => contract[c].employee # e
    BY <1>0, <2>1 DEF RequestOK
  <2> HIDE DEF new, e
  <2>4. request'[p].op = "idle" /\ \A q \in People : q # p => request'[q] = request[q]
    BY <1>0, <2>1 DEF Done, Idle
  <2>5. /\ \A d \in Contracts : Exists(d) => Keeps(d)
        /\ \A d \in Contracts : (Counts(d)' => Exists(d)) /\ (Exists(d)' => Exists(d))
    BY <2>1, SameRows DEF Exists, Counts
  <2>6. RequestOK(p)'
    BY <1>0, <2>4, Finished DEF Commits
  <2>7. \A q \in People : RequestOK(q)'
    BY <2>1, <2>4, <2>5, <2>6, OtherRequests DEF SInv
  <2>8. ASSUME NEW c \in Contracts, Counts(c), RoleOK(c) PROVE RoleOK(c)'
    <3>1. CASE \E q \in People : request[q].op = "assign_employee" /\ request[q].of = c
      BY <2>1, <2>4, <3>1 DEF RoleOK
    <3>2. CASE "employee" \in user[contract[c].employee].roles
      BY <1>0, <2>1, <2>2, <2>3, <2>8, <3>2 DEF RoleOK, Users
    <3> QED BY <2>8, <3>1, <3>2 DEF RoleOK
  <2> QED BY <2>1, <2>5, <2>7, <2>8, HInvStep
<1>8. ASSUME CommitEdit(p) PROVE HInv'
  BY <1>0, <1>8, CommitStep DEF CommitEdit, Doing, Commits
<1> QED BY <1>1, <1>2, <1>3, <1>4, <1>5, <1>6, <1>7, <1>8 DEF OwnerStep

LEMMA HEmployee ==
  ASSUME HInv, SInv', NEW p \in Employees, EmployeeStep(p)
  PROVE  HInv'
<1>0. p \in People /\ contract \in [Contracts -> Row]
  BY ContractsAssumption DEF HInv, SInv, TypeOK
<1>1. ASSUME NEW c \in Contracts, BeginAccept(p, c) PROVE HInv'
  <2>0. request[p].op = "idle"
    BY <1>1 DEF BeginAccept, Begins, IsIdle
  <2>1. CASE Pending(c)
    <3>1. Signed(contract[c]) \in Row /\ contract[c] \in Row
      BY <1>0, NewRows
    <3>2. /\ Shape("accept", contract[c], Signed(contract[c]))
          /\ Signed(contract[c]).employee = contract[c].employee /\ Exists(c)
      BY <2>1, <3>1 DEF Signed, Shape, Row, Pending, Exists
    <3>3. RequestOK(p)' /\ \A q \in People : q # p => request'[q] = request[q]
      BY <1>0, <1>1, <2>1, <3>1, <3>2, Begun DEF BeginAccept, Commits
    <3> QED BY <1>0, <1>1, <2>0, <3>3, QuietStep DEF BeginAccept
  <2>2. CASE ~Pending(c)
    <3>1. request' = request
      BY <1>1, <2>2 DEF BeginAccept
    <3>2. RequestOK(p)'
      BY <1>0, <2>0, <3>1, Finished DEF Commits
    <3> QED BY <1>0, <1>1, <2>0, <3>1, <3>2, QuietStep DEF BeginAccept
  <2> QED BY <2>1, <2>2
<1>2. ASSUME NEW c \in Contracts, BeginReject(p, c) PROVE HInv'
  <2> DEFINE new == [contract[c] EXCEPT !.status = "rejected"]
  <2>1. new \in Row /\ contract[c] \in Row
    BY <1>0, NewRows
  <2>2. /\ Shape("reject", contract[c], new) /\ new.employee = contract[c].employee
        /\ Exists(c)
    BY <1>2, <2>1 DEF BeginReject, Shape, Row, Pending, Exists
  <2> HIDE DEF new
  <2>3. RequestOK(p)' /\ \A q \in People : q # p => request'[q] = request[q]
    <3>1. /\ Loads(p, "reject", c, new) /\ contract' = contract /\ handled' = handled
          /\ contract[c].employee = p
      BY <1>2 DEF BeginReject, new
    <3> QED BY <1>0, <2>1, <2>2, <3>1, Begun DEF Commits
  <2>4. request[p].op # "assign_employee"
    BY <1>2 DEF BeginReject, Begins, IsIdle
  <2> QED BY <1>0, <1>2, <2>3, <2>4, QuietStep DEF BeginReject
<1>3. ASSUME CommitAccept(p) PROVE HInv'
  BY <1>0, <1>3, CommitStep DEF CommitAccept, Doing, Commits
<1>4. ASSUME CommitReject(p) PROVE HInv'
  BY <1>0, <1>4, CommitStep DEF CommitReject, Doing, Commits
<1> QED BY <1>1, <1>2, <1>3, <1>4 DEF EmployeeStep

\* A step after which the rows it has written are those of a manager.
LEMMA HandledStep ==
  ASSUME HInv, SInv', NEW p \in People, NEW c \in Contracts, NEW row \in Row,
         contract' = [contract EXCEPT ![c] = row], row.status # "none",
         handled \subseteq handled', c \in handled', user' = user,
         Exists(c) => row.employee = contract[c].employee,
         request[p].op = "idle",
         request'[p].op \notin Commits \cup {"check", "settle_role", "assign_employee"},
         \A q \in People : q # p => request'[q] = request[q]
  PROVE  HInv'
<1>1. contract'[c] = row /\ \A d \in Contracts : d # c => contract'[d] = contract[d]
  BY DEF HInv, SInv, TypeOK
<1>2. ASSUME NEW d \in Contracts, Exists(d) PROVE Keeps(d)
  <2>1. CASE d = c
    BY <1>1, <1>2, <2>1 DEF Keeps, Exists
  <2>2. CASE d # c
    BY <1>1, <1>2, <2>2, SameRows
  <2> QED BY <2>1, <2>2
<1>3. \A d \in Contracts : Counts(d)' => Exists(d)
  BY <1>1 DEF Counts, Exists
<1>4. \A d \in Contracts : ~Exists(d) /\ Exists(d)' => d \in handled'
  BY <1>1 DEF Exists
<1>5. \A q \in People : RequestOK(q)'
  BY <1>2, <1>3, OtherRequests, Finished DEF SInv
<1>6. \A d \in Contracts : Counts(d) /\ RoleOK(d) /\ Keeps(d) => RoleOK(d)'
  BY RolesKept
<1> QED BY <1>2, <1>4, <1>5, <1>6, HInvStep

LEMMA HManager ==
  ASSUME HInv, SInv', NEW p \in Managers, ManagerStep(p)
  PROVE  HInv'
<1>0. /\ p \in People /\ contract \in [Contracts -> Row] /\ request \in [People -> Request]
      /\ user \in Users /\ request[p].of \in Contracts
  BY ContractsAssumption DEF HInv, SInv, TypeOK, Request, Users
<1>1. ASSUME NEW c \in Contracts, NEW e \in Employees, ManagerHires(p, c, e) PROVE HInv'
  <2>1. PICK objects \in Grants :
          contract' = [contract EXCEPT ![c] =
            [NoRow EXCEPT !.status = "active", !.isActive = TRUE, !.objects = objects, !.employee = e]]
    BY <1>1 DEF ManagerHires
  <2> DEFINE row == [NoRow EXCEPT !.status = "active", !.isActive = TRUE, !.objects = objects,
                                  !.employee = e]
  <2>2. row \in Row /\ row.status = "active"
    BY ContractsAssumption, FirstRows DEF Row, Status
  <2> HIDE DEF row
  <2>3. contract' = [contract EXCEPT ![c] = row]
    BY <2>1 DEF row
  <2>4. request'[p].op = "promote" /\ \A q \in People : q # p => request'[q] = request[q]
    <3>1. [Idle EXCEPT !.op = "promote", !.of = c].op = "promote"
      BY DEF Idle
    <3> QED BY <1>0, <1>1, <3>1 DEF ManagerHires
  <2>5. /\ request[p].op = "idle" /\ ~Exists(c) /\ user' = user
        /\ c \in handled' /\ handled \subseteq handled'
    BY <1>1 DEF ManagerHires, Begins, IsIdle, IsNext
  <2> QED BY <1>0, <2>2, <2>3, <2>4, <2>5, HandledStep DEF Commits
<1>2. ASSUME Promote(p) PROVE HInv'
  <2>1. request'[p].op = "idle" /\ \A q \in People : q # p => request'[q] = request[q]
    BY <1>0, <1>2 DEF Promote, Done, Idle
  <2>2. \A e \in Employees : "employee" \in user[e].roles => "employee" \in user'[e].roles
    BY <1>0, <1>2 DEF Promote, Users
  <2>3. RequestOK(p)'
    BY <1>0, <2>1, Finished DEF Commits
  <2> QED BY <1>0, <1>2, <2>1, <2>2, <2>3, QuietStep DEF Promote, Doing
<1>3. ASSUME Retire(p) PROVE HInv'
  <2>1. request'[p].op = "idle" /\ \A q \in People : q # p => request'[q] = request[q]
    BY <1>0, <1>3 DEF Retire, Done, Idle
  <2>2. \A e \in Employees : "employee" \in user[e].roles => "employee" \in user'[e].roles
    <3> DEFINE e == contract[request[p].of].employee
               working == user[e].isActive /\ \E c \in Of(e) : Works(c)
    <3>1. user' = [user EXCEPT ![e] = [user[e] EXCEPT !.isActive = working]]
      BY <1>3 DEF Retire
    <3>2. [user[e] EXCEPT !.isActive = working].roles = user[e].roles \/ e \notin Employees
      BY <1>0 DEF Users
    <3> HIDE DEF working, e
    <3> QED BY <1>0, <3>1, <3>2 DEF Users
  <2>3. RequestOK(p)'
    BY <1>0, <2>1, Finished DEF Commits
  <2> QED BY <1>0, <1>3, <2>1, <2>2, <2>3, QuietStep DEF Retire, Doing
<1>4. ASSUME NEW c \in Contracts, ManagerEdits(p, c) PROVE HInv'
  <2> DEFINE row == [contract[c] EXCEPT !.status = "active"]
  <2>1. /\ contract[c] \in Row
        /\ row \in Row /\ row.status = "active" /\ row.employee = contract[c].employee
        /\ contract[c].status = "active" => row = contract[c]
    BY <1>0 DEF Row, Status
  <2> HIDE DEF row
  <2>2. /\ contract' = [contract EXCEPT ![c] = row] /\ request' = request /\ user' = user
        /\ handled' = IF contract[c].status # "active" THEN handled \cup {c} ELSE handled
        /\ request[p].op = "idle"
    BY <1>4 DEF ManagerEdits, Begins, IsIdle, row
  <2>3. CASE contract[c].status = "active"
    <3>1. contract' = contract
      BY <1>0, <2>1, <2>2, <2>3
    <3>2. RequestOK(p)'
      BY <1>0, <2>2, Finished DEF Commits
    <3> QED BY <1>0, <2>2, <2>3, <3>1, <3>2, QuietStep
  <2>4. CASE contract[c].status # "active"
    BY <1>0, <2>1, <2>2, <2>4, HandledStep DEF Commits
  <2> QED BY <2>3, <2>4
<1> QED BY <1>1, <1>2, <1>3, <1>4 DEF ManagerStep

LEMMA HTermination ==
  ASSUME HInv, SInv', TerminationStep
  PROVE  HInv'
<1>0. /\ contract \in [Contracts -> Row] /\ request \in [People -> Request]
      /\ Owners \subseteq People /\ Managers \subseteq People
  BY ContractsAssumption DEF HInv, SInv, TypeOK, Owners, Request
<1>1. ASSUME NEW p \in Owners, CommitTerminate(p) PROVE HInv'
  BY <1>0, <1>1, CommitStep DEF CommitTerminate, Doing, Commits
<1>2. ASSUME NEW p \in Managers, NEW c \in Contracts, ManagerTerminates(p, c) PROVE HInv'
  <2> DEFINE row == Terminated(contract[c])
  <2>1. row \in Row /\ row.status = "terminated" /\ row.employee = contract[c].employee
    BY <1>0, NewRows DEF Terminated, Row
  <2> HIDE DEF row
  <2>2. contract' = [contract EXCEPT ![c] = row]
    BY <1>2 DEF ManagerTerminates, row
  <2>3. request'[p].op = "retire" /\ \A q \in People : q # p => request'[q] = request[q]
    <3>1. [Idle EXCEPT !.op = "retire", !.of = c].op = "retire"
      BY DEF Idle
    <3> QED BY <1>0, <1>2, <3>1 DEF ManagerTerminates
  <2>4. /\ request[p].op = "idle" /\ user' = user
        /\ c \in handled' /\ handled \subseteq handled'
    BY <1>2 DEF ManagerTerminates, Begins, IsIdle
  <2> QED BY <1>0, <2>1, <2>2, <2>3, <2>4, HandledStep DEF Commits
<1> QED BY <1>1, <1>2 DEF TerminationStep

LEMMA HOffers ==
  ASSUME HInv, SInv',
         \/ \E c \in Contracts : RequestOtp(c) \/ CodeIsGone(c) \/ TermEnds(c)
         \/ LoadOffers \/ CommitOffers \/ OffersTaskDies
  PROVE  HInv'
<1>0. contract \in [Contracts -> Row]
  BY DEF HInv, SInv, TypeOK
<1>1. request' = request /\ handled' = handled /\ user' = user
  BY DEF RequestOtp, CodeIsGone, TermEnds, LoadOffers, CommitOffers, OffersTaskDies
<1>2. ASSUME NEW d \in Contracts
      PROVE  \/ /\ contract'[d].status = contract[d].status /\ contract'[d].reset = contract[d].reset
                /\ contract'[d].isActive = contract[d].isActive
                /\ contract'[d].employee = contract[d].employee
             \/ /\ contract'[d].status = "expired" /\ ~contract'[d].isActive
                /\ contract'[d].reset = contract[d].reset
                /\ contract'[d].employee = contract[d].employee /\ d \in lapsed
  <2>0. contract[d] \in Row
    BY <1>0
  <2>1. CASE contract' = contract
    BY <2>1
  <2>2. ASSUME NEW c \in Contracts, TermEnds(c)
        PROVE  /\ contract'[d].status = contract[d].status /\ contract'[d].reset = contract[d].reset
               /\ contract'[d].isActive = contract[d].isActive
               /\ contract'[d].employee = contract[d].employee
    <3>1. contract' = [contract EXCEPT ![c] = [contract[c] EXCEPT !.late = TRUE]]
      BY <2>2 DEF TermEnds
    <3> QED BY <1>0, <2>0, <3>1 DEF Row
  <2>3. ASSUME CommitOffers, d \in lapsed
        PROVE  /\ contract'[d].status = "expired" /\ ~contract'[d].isActive
               /\ contract'[d].reset = contract[d].reset /\ contract'[d].employee = contract[d].employee
    <3>1. contract'[d] = [contract[d] EXCEPT !.status = "expired", !.isActive = FALSE]
      BY <2>3 DEF CommitOffers
    <3> QED BY <2>0, <3>1 DEF Row
  <2>4. ASSUME CommitOffers, d \notin lapsed PROVE contract'[d] = contract[d]
    BY <2>4 DEF CommitOffers
  <2> QED BY <2>1, <2>2, <2>3, <2>4 DEF RequestOtp, CodeIsGone, LoadOffers, OffersTaskDies
<1>3. ASSUME NEW d \in Contracts, Exists(d) PROVE Keeps(d)
  <2>1. d \notin handled => RowOK(contract[d])
    BY DEF HInv
  <2> QED BY <1>1, <1>2, <1>3, <2>1 DEF Keeps, Exists, RowOK, Counts, Pending
<1>4. ASSUME NEW d \in Contracts, ~Exists(d) PROVE ~Counts(d)' /\ RowOK(contract'[d])
  BY <1>1, <1>2, <1>4 DEF Counts, Exists, RowOK
<1>5. \A q \in People : RequestOK(q)'
  BY <1>1, <1>3, <1>4, OtherRequests DEF SInv
<1>6. \A d \in Contracts : Counts(d) /\ RoleOK(d) /\ Keeps(d) => RoleOK(d)'
  BY <1>1, RolesKept
<1> QED BY <1>1, <1>3, <1>4, <1>5, <1>6, HInvStep

LEMMA NextHInv == OneOwner /\ HInv /\ [Next]_cvars => HInv'
<1> SUFFICES ASSUME OneOwner, HInv, [Next]_cvars PROVE HInv' OBVIOUS
<1>1. SInv'
  BY NextSInv DEF HInv
<1>2. CASE UNCHANGED cvars
  <2>1. \A p \in People : RequestOK(p)'
    BY <1>2 DEF cvars, HInv, RequestOK, SessionOK, Exists, Counts, Pending
  <2>2. \A c \in Contracts : Counts(c)' => RoleOK(c)'
    BY <1>2 DEF cvars, HInv, Counts, RoleOK
  <2> QED BY <1>1, <1>2, <2>1, <2>2 DEF cvars, HInv
<1> QED BY <1>1, <1>2, HOwner, HEmployee, HManager, HTermination, HOffers DEF Next, OtherStep

\* Where one owner sends the requests, an employee whose contract is in force has the role.
THEOREM HiredEmployeesHaveRole == OneOwner => (Spec => []HiredHasRole)
<1> SUFFICES ASSUME OneOwner PROVE Spec => []HiredHasRole OBVIOUS
<1>1. HInv => HiredHasRole
  BY DEF HInv, HiredHasRole, Works, Counts, RoleOK
<1>2. HInv /\ [Next]_cvars => HInv'
  BY NextHInv
<1> QED BY <1>1, <1>2, InitHInv, PTL DEF Spec
===============================================================================
