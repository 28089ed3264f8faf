-------------------------- MODULE Subscription_proofs --------------------------
(***************************************************************************)
(* Theorems of Subscription, for any number of rows, days and requests.    *)
(***************************************************************************)
EXTENDS Subscription, TLAPS

-----------------------------------------------------------------------------
(* The invariant.  A row that may be made active, by the task, by a session *)
(* that has read it or because it has been active before, has reached its   *)
(* start; and whoever waits for the gateway waits for a payment of his own. *)

SubRow == [st : SubStatus, start : Days, end : Days, priced : BOOLEAN]
TxRow == [st : TxStatus, sub : Subs, ext : BOOLEAN]
HandlerRow == [tx : 0 .. MaxTxs, seen : SubStatus \cup {"early"}, done : BOOLEAN]
OwnerRow == [pc : {"idle", "deactivate", "insert", "pay", "ask"}, sub : 0 .. MaxSubs,
             tx : 0 .. MaxTxs, start : Days, priced : BOOLEAN]
TaskRow == [expire : SUBSET Subs, activate : SUBSET Subs, renew : 0 .. MaxTxs]

Begun(s) == subs[s].st # "none" /\ subs[s].start <= now

SubsOK ==
  \A s \in Subs : /\ subs[s].start <= Horizon + Period
                  /\ subs[s].end = NoEnd \/ subs[s].end = subs[s].start + Period
                  /\ subs[s].st \in {"active", "expired"} => Begun(s)

TxsOK ==
  \A t \in Txs : /\ txs[t].st # "none" => subs[txs[t].sub].st # "none"
                 /\ gateway[t] # "none" => txs[t].st # "none"
                 /\ txs[t].st = "completed" => gateway[t] = "paid" \/ t \in marked

\* A request holds a payment the gateway has.
HandlerOK(h) ==
  handler[h] # IdleHandler =>
    /\ handler[h].tx \in Txs /\ gateway[handler[h].tx] = "paid"
    /\ handler[h].seen \in {"suspended", "expired"} => Begun(txs[handler[h].tx].sub)

Unasked(t) == t \in Txs /\ txs[t].st # "none" /\ gateway[t] = "none"

OwnerOK ==
  /\ owner.start <= Horizon + Period
  /\ owner.pc \in {"pay", "ask"} => owner.sub \in Subs /\ subs[owner.sub].st # "none"
  /\ owner.pc = "ask" => Unasked(owner.tx)

TaskOK ==
  /\ \A s \in task.expire \cup task.activate : Begun(s)
  /\ task.renew # 0 => Unasked(task.renew)
  /\ task.renew # 0 /\ owner.pc = "ask" => task.renew # owner.tx

IInv ==
  /\ TypeOK /\ SubsOK /\ TxsOK
  /\ \A h \in Handlers : HandlerOK(h)
  /\ OwnerOK /\ TaskOK

-----------------------------------------------------------------------------
(* What every step keeps.                                                  *)

\* Rows keep their columns, time goes on, and money the gateway has stays there.
Grows ==
  /\ now' >= now
  /\ \A s \in Subs : subs[s].st # "none" => /\ subs'[s].st # "none"
                                            /\ subs'[s].start = subs[s].start
  /\ \A t \in Txs : /\ txs[t].st # "none" => txs'[t].st # "none" /\ txs'[t].sub = txs[t].sub
                    /\ gateway[t] = "paid" => gateway'[t] = "paid"

LEMMA BegunStays ==
  ASSUME TypeOK, TypeOK', Grows, NEW s \in Subs, Begun(s)
  PROVE  Begun(s)'
<1>1. now \in Nat /\ now' \in Nat /\ subs[s].start \in Nat
  BY SubscriptionAssumption DEF TypeOK, Days
<1> QED BY <1>1 DEF Begun, Grows

LEMMA HandlerStays ==
  ASSUME IInv, TypeOK', Grows, NEW h \in Handlers, handler'[h] = handler[h]
  PROVE  HandlerOK(h)'
<1> SUFFICES ASSUME handler[h] # IdleHandler PROVE HandlerOK(h)'
  BY DEF HandlerOK
<1>1. PICK t \in Txs : t = handler[h].tx
  BY DEF IInv, HandlerOK
<1>2. gateway[t] = "paid" /\ txs[t].st # "none" /\ txs[t].sub \in Subs
  BY <1>1 DEF IInv, HandlerOK, TxsOK, TypeOK
<1>3. gateway'[t] = "paid" /\ txs'[t].sub = txs[t].sub
  BY <1>2 DEF Grows
<1>4. PICK s \in Subs : s = txs[t].sub
  BY <1>2
<1>5. Begun(s) => Begun(s)'
  BY BegunStays DEF IInv
<1>6. handler[h].seen \in {"suspended", "expired"} => Begun(s)'
  BY <1>1, <1>4, <1>5 DEF IInv, HandlerOK
<1> QED BY <1>1, <1>3, <1>4, <1>6 DEF HandlerOK, Begun

\* A transaction made by the step.
Fresh(t) == t \in Txs /\ txs[t].st = "none" /\ txs'[t].st # "none"

Waits == owner.pc = "ask" /\ owner'.tx = owner.tx

\* A step that does not ask the gateway; it may begin to wait for it with a new transaction.
LEMMA OrdinaryStep ==
  ASSUME IInv, TypeOK', SubsOK', TxsOK', Grows,
         \A t \in Txs : gateway[t] = "none" => gateway'[t] = "none",
         \A h \in Handlers : handler'[h] = handler[h] \/ HandlerOK(h)',
         owner'.start <= Horizon + Period,
         owner'.pc \in {"pay", "ask"} => owner'.sub \in Subs /\ subs'[owner'.sub].st # "none",
         owner'.pc = "ask" => Waits \/ Fresh(owner'.tx),
         \A s \in task'.expire \cup task'.activate :
            s \in Subs /\ (Begun(s) \/ Begun(s)'),
         task'.renew # 0 => task'.renew = task.renew \/ Fresh(task'.renew),
         owner'.pc = "ask" /\ task'.renew # 0 => Waits \/ task'.renew = task.renew
  PROVE  IInv'
<1>1. \A h \in Handlers : HandlerOK(h)'
  BY HandlerStays
<1>2. ASSUME NEW t \in Txs, Unasked(t) PROVE Unasked(t)'
  BY <1>2 DEF Unasked, Grows
<1>3. OwnerOK'
  <2>1. owner'.pc = "ask" =>
         owner'.tx \in Txs /\ txs'[owner'.tx].st # "none" /\ gateway'[owner'.tx] = "none"
    <3> SUFFICES ASSUME owner'.pc = "ask" 
                 PROVE  owner'.tx \in Txs /\ txs'[owner'.tx].st # "none" /\ gateway'[owner'.tx] = "none"
      OBVIOUS
    <3>1. CASE Waits
      <4>1. PICK t \in Txs : t = owner.tx /\ Unasked(t)
        BY <3>1 DEF IInv, OwnerOK, Unasked, Waits
      <4>2. Unasked(t)'
        BY <1>2, <4>1
      <4> QED BY <3>1, <4>1, <4>2 DEF Unasked, Waits
    <3>2. CASE Fresh(owner'.tx)
      BY <3>2 DEF Fresh, IInv, TxsOK
    <3> QED BY <3>1, <3>2
  <2> QED BY <2>1 DEF OwnerOK, Unasked
<1>4. TaskOK'
  <2>1. ASSUME NEW s \in task'.expire \cup task'.activate PROVE Begun(s)'
    <3>1. s \in Subs
      OBVIOUS
    <3>2. Begun(s) => Begun(s)'
      BY <3>1, BegunStays DEF IInv
    <3> QED BY <3>2
  <2>2. task'.renew # 0 =>
         task'.renew \in Txs /\ txs'[task'.renew].st # "none" /\ gateway'[task'.renew] = "none"
    <3> SUFFICES ASSUME task'.renew # 0 
                 PROVE  task'.renew \in Txs /\ txs'[task'.renew].st # "none" /\ gateway'[task'.renew] = "none"
      OBVIOUS
    <3>1. CASE task'.renew = task.renew
      <4>1. PICK t \in Txs : t = task.renew /\ Unasked(t)
        BY <3>1 DEF IInv, TaskOK, Unasked
      <4>2. Unasked(t)'
        BY <1>2, <4>1
      <4> QED BY <3>1, <4>1, <4>2 DEF Unasked
    <3>2. CASE Fresh(task'.renew)
      BY <3>2 DEF Fresh, IInv, TxsOK
    <3> QED BY <3>1, <3>2
  <2>3. task'.renew # 0 /\ owner'.pc = "ask" => task'.renew # owner'.tx
    <3> SUFFICES ASSUME task'.renew # 0, owner'.pc = "ask" PROVE task'.renew # owner'.tx
      OBVIOUS
    <3>1. CASE Waits /\ task'.renew = task.renew
      BY <3>1 DEF IInv, TaskOK, Waits
    <3>2. CASE Waits /\ Fresh(task'.renew)
      BY <3>2 DEF IInv, OwnerOK, Waits, Unasked, Fresh
    <3>3. CASE Fresh(owner'.tx) /\ task'.renew = task.renew
      BY <3>3 DEF IInv, TaskOK, Unasked, Fresh
    <3> QED BY <3>1, <3>2, <3>3
  <2> QED BY <2>1, <2>2, <2>3 DEF TaskOK, Unasked, Begun
<1> QED BY <1>1, <1>3, <1>4 DEF IInv

-----------------------------------------------------------------------------
(* Steps that change rows.                                                 *)

SubsMove ==
  /\ subs' \in [Subs -> SubRow] /\ SubsOK'
  /\ \A s \in Subs : subs[s].st # "none" => subs'[s].st # "none" /\ subs'[s].start = subs[s].start

TxsMove ==
  /\ txs' \in [Txs -> TxRow] /\ marked' \in SUBSET Txs /\ marked \subseteq marked'
  /\ \A t \in Txs :
       /\ txs[t].st # "none" => txs'[t].st # "none" /\ txs'[t].sub = txs[t].sub
       /\ txs'[t].st # "none" => txs[t].st # "none" \/ subs'[txs'[t].sub].st # "none"
       /\ txs'[t].st = "completed" => txs[t].st = "completed" \/ gateway[t] = "paid" \/ t \in marked'

Counts == told' \in SUBSET Subs /\ fails' \in 0 .. MaxFails /\ acts' \in 0 .. MaxActs

LEMMA RowStep ==
  ASSUME IInv, SubsMove, TxsMove, UNCHANGED <<now, gateway>>, Counts,
         handler' \in [Handlers -> HandlerRow],
         \A h \in Handlers : handler'[h] = handler[h] \/ HandlerOK(h)',
         owner' \in OwnerRow, owner'.start <= Horizon + Period,
         owner'.pc \in {"pay", "ask"} => owner'.sub \in Subs /\ subs'[owner'.sub].st # "none",
         owner'.pc = "ask" => Waits \/ Fresh(owner'.tx),
         task' \in TaskRow,
         \A s \in task'.expire \cup task'.activate : Begun(s) \/ Begun(s)',
         task'.renew # 0 => task'.renew = task.renew \/ Fresh(task'.renew),
         owner'.pc = "ask" /\ task'.renew # 0 => Waits \/ task'.renew = task.renew
  PROVE  IInv'
<1>1. TypeOK'
  <2>1. \A h \in Handlers : handler'[h].tx \in Txs \/ handler'[h] = IdleHandler
    BY DEF HandlerOK, IInv, TypeOK
  <2> QED BY <2>1 DEF IInv, TypeOK, SubsMove, TxsMove, Counts, SubRow, TxRow, HandlerRow, OwnerRow, TaskRow
<1>2. TxsOK'
  <2>1. ASSUME NEW t \in Txs
        PROVE  /\ txs'[t].st # "none" => subs'[txs'[t].sub].st # "none"
               /\ gateway'[t] # "none" => txs'[t].st # "none"
               /\ txs'[t].st = "completed" => gateway'[t] = "paid" \/ t \in marked'
    <3>1. txs[t].sub \in Subs
      BY DEF IInv, TypeOK
    <3> QED BY <3>1 DEF IInv, TxsOK, TxsMove, SubsMove
  <2> QED BY <2>1 DEF TxsOK
<1>3. Grows
  BY SubscriptionAssumption DEF Grows, SubsMove, TxsMove, IInv, TypeOK
<1>4. \A s \in task'.expire \cup task'.activate : s \in Subs
  BY DEF TaskRow
<1> QED BY <1>1, <1>2, <1>3, <1>4, OrdinaryStep DEF SubsMove

\* The rows of one table stay as they are.
LEMMA SubsStill == ASSUME IInv, UNCHANGED <<now, subs>> PROVE SubsMove
BY DEF SubsMove, IInv, TypeOK, SubsOK, Begun, SubRow

LEMMA TxsStill == ASSUME IInv, UNCHANGED <<txs, marked>> PROVE TxsMove
BY DEF TxsMove, IInv, TypeOK, TxRow

LEMMA CountsStill == ASSUME IInv, UNCHANGED <<told, fails, acts>> PROVE Counts
BY DEF Counts, IInv, TypeOK

LEMMA Spent ==
  ASSUME IInv
  PROVE  /\ Fail => fails' \in 0 .. MaxFails
         /\ Act => acts' \in 0 .. MaxActs
         /\ told \in SUBSET Subs /\ fails \in 0 .. MaxFails /\ acts \in 0 .. MaxActs
BY SubscriptionAssumption DEF Fail, Act, IInv, TypeOK

\* Requests, the change of tariff and the tasks stay as they are.
LEMMA HandlersStill ==
  ASSUME IInv, handler' = handler
  PROVE  handler' \in [Handlers -> HandlerRow] /\ \A h \in Handlers : handler'[h] = handler[h]
BY DEF IInv, TypeOK, HandlerRow

LEMMA OwnerStill ==
  ASSUME IInv, SubsMove, owner' = owner
  PROVE  /\ owner' \in OwnerRow /\ owner'.start <= Horizon + Period
         /\ owner'.pc \in {"pay", "ask"} => owner'.sub \in Subs /\ subs'[owner'.sub].st # "none"
         /\ owner'.pc = "ask" => Waits
BY DEF IInv, TypeOK, OwnerOK, OwnerRow, SubsMove, Waits

LEMMA OwnerIdles ==
  ASSUME owner' = IdleOwner
  PROVE  /\ owner' \in OwnerRow /\ owner'.start <= Horizon + Period
         /\ owner'.pc \in {"pay", "ask"} => owner'.sub \in Subs /\ subs'[owner'.sub].st # "none"
         /\ owner'.pc # "ask"
BY SubscriptionAssumption DEF IdleOwner, OwnerRow, Days

LEMMA TaskStill ==
  ASSUME IInv, task' = task
  PROVE  /\ task' \in TaskRow
         /\ \A s \in task'.expire \cup task'.activate : Begun(s)
         /\ task'.renew = task.renew
BY DEF IInv, TypeOK, TaskOK, TaskRow

\* Some rows get a status; those that become active or expired have begun.
Marked(T, st) == subs' = [s \in Subs |-> IF s \in T THEN [subs[s] EXCEPT !.st = st] ELSE subs[s]]

LEMMA StatusMove ==
  ASSUME IInv, now' = now, NEW T \in SUBSET Subs, NEW st \in SubStatus \ {"none"}, Marked(T, st),
         \A s \in T : /\ subs[s].st # "none"
                      /\ st \in {"active", "expired"} => Begun(s)
  PROVE  SubsMove
<1>1. subs \in [Subs -> SubRow]
  BY DEF IInv, TypeOK, SubRow
<1>2. \A s \in Subs : /\ subs'[s] \in SubRow /\ subs'[s].start = subs[s].start /\ subs'[s].end = subs[s].end
                      /\ subs'[s].st = IF s \in T THEN st ELSE subs[s].st
  BY <1>1 DEF SubRow, Marked
<1>3. subs' \in [Subs -> SubRow]
  BY <1>2 DEF Marked
<1>4. SubsOK'
  BY <1>2 DEF IInv, SubsOK, Begun
<1> QED BY <1>2, <1>3, <1>4 DEF SubsMove

LEMMA DaysFacts ==
  /\ now \in 1 .. Horizon => now \in Nat /\ now \in Days /\ now + Period \in Days /\ now <= Horizon + Period
  /\ \A d \in Days : d <= Horizon + Period => d + Period \in Days
  /\ NoEnd \in Days
BY SubscriptionAssumption DEF Days, NoEnd

\* A new row takes a place that is free.
Placed(n, row) == subs' = [subs EXCEPT ![n] = row] \/ subs' = [Deactivated EXCEPT ![n] = row]

LEMMA InsertMove ==
  ASSUME IInv, now' = now, NEW n \in NextSub, NEW row \in SubRow,
         row.start <= Horizon + Period, row.end = NoEnd \/ row.end = row.start + Period,
         row.st # "none", row.st \in {"active", "expired"} => row.start <= now, Placed(n, row)
  PROVE  SubsMove /\ subs'[n].st # "none"
<1>1. subs \in [Subs -> SubRow] /\ n \in Subs /\ subs[n].st = "none"
  BY DEF IInv, TypeOK, SubRow, NextSub, WithStatus
<1>2. ASSUME NEW s \in Subs, s # n
      PROVE  /\ subs'[s] \in SubRow /\ subs'[s].start = subs[s].start /\ subs'[s].end = subs[s].end
             /\ subs'[s].st # subs[s].st => subs[s].st = "active" /\ subs'[s].st = "cancelled"
  <2>1. CASE subs' = [subs EXCEPT ![n] = row]
    BY <1>1, <1>2, <2>1
  <2>2. CASE subs' = [Deactivated EXCEPT ![n] = row]
    <3>1. subs'[s] = IF s \in Active THEN [subs[s] EXCEPT !.st = "cancelled"] ELSE subs[s]
      BY <1>2, <2>2 DEF Deactivated
    <3> QED BY <1>1, <3>1 DEF SubRow, SubStatus, Active, WithStatus
  <2> QED BY <2>1, <2>2 DEF Placed
<1>3. subs'[n] = row
  BY <1>1 DEF Deactivated, Placed
<1>4. subs' = [s \in Subs |-> subs'[s]]
  BY <1>1 DEF Deactivated, Placed
<1>5. subs' \in [Subs -> SubRow]
  <2>1. \A s \in Subs : subs'[s] \in SubRow
    BY <1>2, <1>3
  <2> QED BY <1>4, <2>1
<1>6. SubsOK'
  <2>1. ASSUME NEW s \in Subs
        PROVE  /\ subs'[s].start <= Horizon + Period
               /\ subs'[s].end = NoEnd \/ subs'[s].end = subs'[s].start + Period
               /\ subs'[s].st \in {"active", "expired"} => subs'[s].st # "none" /\ subs'[s].start <= now
    BY <1>2, <1>3 DEF IInv, SubsOK, Begun
  <2> QED BY <2>1 DEF SubsOK, Begun
<1> QED BY <1>1, <1>2, <1>3, <1>5, <1>6 DEF SubsMove

-----------------------------------------------------------------------------
(* The owner.                                                              *)

LEMMA ActiveBegun ==
  ASSUME IInv, NEW s \in Active
  PROVE  /\ s \in Subs /\ Begun(s) /\ subs[s].st = "active"
         /\ subs[s].end \in Days /\ subs[s].end <= Horizon + Period
<1>1. s \in Subs /\ subs[s].st = "active" /\ Begun(s)
  BY DEF Active, WithStatus, IInv, SubsOK
<1>2. subs[s].start <= now /\ now <= Horizon /\ now \in Nat /\ Period \in Nat /\ Horizon \in Nat
  BY <1>1, SubscriptionAssumption DEF Begun, IInv, TypeOK
<1>3. subs[s].start \in Nat /\ subs[s].end \in Days
  BY <1>1, SubscriptionAssumption DEF IInv, TypeOK, Days
<1>4. subs[s].end = NoEnd \/ subs[s].end = subs[s].start + Period
  BY <1>1 DEF IInv, SubsOK
<1> QED BY <1>1, <1>2, <1>3, <1>4 DEF NoEnd

LEMMA LoginIInv == ASSUME IInv, Login PROVE IInv'
<1>0. UNCHANGED <<now, gateway, marked, told, fails, acts, txs, handler, owner, task>>
  BY DEF Login, Unmoved
<1>1. now \in Days /\ now + Period \in Days /\ now <= Horizon + Period /\ now \in Nat
  BY DaysFacts DEF IInv, TypeOK
<1>2. PICK s \in NextSub, priced \in BOOLEAN :
        subs' = [subs EXCEPT ![s] = [st |-> "active", start |-> now, priced |-> priced,
                                     end |-> IF priced THEN now + Period ELSE NoEnd]]
  BY DEF Login
<1> DEFINE end == IF priced THEN now + Period ELSE NoEnd
           row == [st |-> "active", start |-> now, priced |-> priced, end |-> end]
<1>5. row \in SubRow /\ row.st = "active" /\ row.start = now /\ row.end = end
  BY <1>1, DaysFacts DEF SubRow, SubStatus
<1>6. Placed(s, row) /\ (end = NoEnd \/ end = now + Period)
  BY <1>2 DEF Placed
<1> HIDE DEF row, end
<1>7. SubsMove
  BY <1>0, <1>1, <1>5, <1>6, InsertMove
<1> QED BY <1>0, <1>7, TxsStill, CountsStill, HandlersStill, OwnerStill, TaskStill, RowStep

LEMMA ChangeTariffIInv == ASSUME IInv, ChangeTariff PROVE IInv'
<1>0. UNCHANGED <<now, gateway, marked, told, fails, acts, txs, handler, task>>
  BY DEF ChangeTariff, Unmoved
<1> DEFINE current == {s \in Active : ~Overdue(s)}
           start == IF \E s \in current : subs[s].end > now
                      THEN subs[CHOOSE s \in current : TRUE].end ELSE now
<1>1. PICK priced \in BOOLEAN :
        /\ subs' = [s \in Subs |-> IF s \in Active \ current
                      THEN [subs[s] EXCEPT !.st = "expired"] ELSE subs[s]]
        /\ owner' = [IdleOwner EXCEPT
                       !.pc = IF current = {} THEN "insert" ELSE "deactivate", !.priced = priced,
                       !.start = start]
  BY DEF ChangeTariff
<1>2. SubsMove
  <2>1. Active \ current \in SUBSET Subs /\ \A s \in Active \ current : subs[s].st # "none" /\ Begun(s)
    BY ActiveBegun
  <2>2. "expired" \in SubStatus \ {"none"}
    BY DEF SubStatus
  <2>3. Marked(Active \ current, "expired")
    BY <1>1 DEF Marked
  <2> HIDE DEF current
  <2> QED BY <1>0, <2>1, <2>2, <2>3, StatusMove
<1>3. start \in Days /\ start <= Horizon + Period
  <2>1. CASE \E s \in current : subs[s].end > now
    <3>1. (CHOOSE s \in current : TRUE) \in Active
      BY <2>1
    <3> QED BY <2>1, <3>1, ActiveBegun
  <2>2. CASE ~\E s \in current : subs[s].end > now
    BY <2>2, DaysFacts DEF IInv, TypeOK
  <2> QED BY <2>1, <2>2
<1> HIDE DEF current, start
<1>4. owner' \in OwnerRow /\ owner'.start <= Horizon + Period /\ owner'.pc \notin {"pay", "ask"}
  <2>1. PICK pc \in {"insert", "deactivate"} :
          owner' = [pc |-> pc, sub |-> 0, tx |-> 0, start |-> start, priced |-> priced]
    BY <1>1 DEF IdleOwner
  <2> QED BY <1>3, <2>1, SubscriptionAssumption DEF OwnerRow
<1> QED BY <1>0, <1>2, <1>4, TxsStill, CountsStill, HandlersStill, TaskStill, RowStep

LEMMA LimitsExpireIInv == ASSUME IInv, LimitsExpire PROVE IInv'
<1>0. UNCHANGED <<now, gateway, marked, told, fails, acts, txs, handler, owner, task>>
  BY DEF LimitsExpire, Unmoved
<1>1. PICK x \in Active : subs' = [subs EXCEPT ![x].st = "expired"]
  BY DEF LimitsExpire
<1>2. x \in Subs /\ Begun(x) /\ subs[x].st # "none"
  BY ActiveBegun
<1>3. Marked({x}, "expired")
  BY <1>1, <1>2 DEF IInv, TypeOK, Marked
<1>4. SubsMove
  <2>1. {x} \in SUBSET Subs /\ "expired" \in SubStatus \ {"none"}
    BY <1>2 DEF SubStatus
  <2>2. \A s \in {x} : subs[s].st # "none" /\ Begun(s)
    BY <1>2
  <2> QED BY <1>0, <1>3, <2>1, <2>2, StatusMove
<1> QED BY <1>0, <1>4, TxsStill, CountsStill, HandlersStill, OwnerStill, TaskStill, RowStep

LEMMA DeactivateIInv == ASSUME IInv, Deactivate PROVE IInv'
<1>0. UNCHANGED <<now, gateway, marked, told, fails, acts, txs, handler, task>>
  BY DEF Deactivate, Unmoved
<1>1. SubsMove
  <2>1. Active \in SUBSET Subs /\ \A s \in Active : subs[s].st # "none"
    BY ActiveBegun
  <2>2. Marked(Active, "cancelled")
    BY DEF Deactivate, Deactivated, Marked
  <2>3. "cancelled" \in SubStatus \ {"none"}
    BY DEF SubStatus
  <2> QED BY <1>0, <2>1, <2>2, <2>3, StatusMove
<1>2. owner' \in OwnerRow /\ owner'.start <= Horizon + Period /\ owner'.pc \notin {"pay", "ask"}
  BY DEF Deactivate, IInv, TypeOK, OwnerOK, OwnerRow
<1> QED BY <1>0, <1>1, <1>2, TxsStill, CountsStill, HandlersStill, TaskStill, RowStep

LEMMA InsertNewIInv == ASSUME IInv, InsertNew PROVE IInv'
<1>0. UNCHANGED <<now, gateway, marked, told, fails, acts, txs, handler, task>>
  BY DEF InsertNew, Unmoved
<1> DEFINE st == IF owner.priced \/ owner.start > now THEN "suspended" ELSE "active"
           row == [st |-> st, start |-> owner.start, end |-> owner.start + Period, priced |-> owner.priced]
<1>1. PICK s \in NextSub :
        /\ subs' = InsertSub(s, st, owner.start, owner.priced)
        /\ owner' = IF owner.priced THEN [owner EXCEPT !.pc = "pay", !.sub = s] ELSE IdleOwner
  BY DEF InsertNew
<1>2. owner \in OwnerRow /\ owner.start \in Days /\ owner.start <= Horizon + Period /\ s \in Subs
  BY DEF IInv, TypeOK, OwnerOK, OwnerRow, NextSub, WithStatus
<1>3. row \in SubRow
  BY <1>2, DaysFacts DEF SubRow, SubStatus, OwnerRow
<1>4. SubsMove /\ subs'[s].st # "none"
  <2>1. Placed(s, row)
    BY <1>1 DEF InsertSub, Placed
  <2>2. row.st \in {"active", "expired"} => row.start <= now
    BY <1>2, SubscriptionAssumption DEF Days, IInv, TypeOK
  <2>3. row.st # "none" /\ row.start <= Horizon + Period /\ row.end = row.start + Period
    BY <1>2
  <2> HIDE DEF row
  <2> QED BY <1>0, <1>3, <2>1, <2>2, <2>3, InsertMove
<1>5. CASE owner.priced
  <2>1. /\ owner' \in OwnerRow /\ owner'.start <= Horizon + Period /\ owner'.pc = "pay" /\ owner'.sub = s
    <3>1. owner' = [pc |-> "pay", sub |-> s, tx |-> owner.tx, start |-> owner.start, priced |-> owner.priced]
      BY <1>1, <1>2, <1>5 DEF OwnerRow
    <3>2. s \in 0 .. MaxSubs
      BY <1>2, SubscriptionAssumption DEF Subs
    <3> QED BY <1>2, <3>1, <3>2 DEF OwnerRow
  <2> QED BY <1>0, <1>2, <1>4, <2>1, TxsStill, CountsStill, HandlersStill, TaskStill, RowStep
<1>6. CASE ~owner.priced
  BY <1>0, <1>1, <1>4, <1>6, OwnerIdles, TxsStill, CountsStill, HandlersStill, TaskStill, RowStep
<1> QED BY <1>5, <1>6

-----------------------------------------------------------------------------
(* Transactions.                                                           *)

\* A new transaction for a row that is there.
Entered(t, row) == txs' = [txs EXCEPT ![t] = row]

LEMMA EnterMove ==
  ASSUME IInv, gateway' = gateway, NEW t \in NextTx, NEW row \in TxRow, Entered(t, row),
         row.st # "none", subs'[row.sub].st # "none",
         marked' \in SUBSET Txs, marked \subseteq marked',
         row.st = "completed" => t \in marked'
  PROVE  TxsMove /\ Fresh(t)
<1>1. txs \in [Txs -> TxRow] /\ t \in Txs /\ txs[t].st = "none"
  BY DEF IInv, TypeOK, TxRow, NextTx
<1>2. txs' \in [Txs -> TxRow] /\ txs'[t] = row /\ \A u \in Txs : u # t => txs'[u] = txs[u]
  BY <1>1 DEF Entered
<1> QED BY <1>1, <1>2 DEF TxsMove, Fresh

\* A transaction gets another status.
Set(t, st) == txs' = [txs EXCEPT ![t].st = st]

LEMMA SetMove ==
  ASSUME IInv, NEW t \in Txs, NEW st \in TxStatus \ {"none"}, Set(t, st), txs[t].st # "none",
         marked' \in SUBSET Txs, marked \subseteq marked',
         st = "completed" => gateway[t] = "paid" \/ t \in marked'
  PROVE  TxsMove
<1>1. txs \in [Txs -> TxRow]
  BY DEF IInv, TypeOK, TxRow
<1>2. txs' \in [Txs -> TxRow] /\ txs'[t].st = st /\ txs'[t].sub = txs[t].sub
      /\ \A u \in Txs : u # t => txs'[u] = txs[u]
  BY <1>1 DEF Set, TxRow
<1> QED BY <1>1, <1>2 DEF TxsMove

LEMMA CreateMove ==
  ASSUME IInv, UNCHANGED <<now, subs, gateway, marked>>, NEW t \in NextTx, NEW s \in Subs,
         subs[s].st # "none", CreatePayment(t, s)
  PROVE  SubsMove /\ TxsMove /\ Fresh(t) /\ t \in Txs
<1> DEFINE row == [st |-> "pending", sub |-> s, ext |-> FALSE]
<1>1. row \in TxRow /\ row.st = "pending" /\ row.sub = s
  BY DEF TxRow, TxStatus
<1>2. Entered(t, row)
  BY DEF Entered, CreatePayment
<1>3. marked' \in SUBSET Txs
  BY DEF IInv, TypeOK
<1> HIDE DEF row
<1> QED BY <1>1, <1>2, <1>3, EnterMove, SubsStill DEF NextTx

LEMMA OwnerCreatesIInv == ASSUME IInv, OwnerCreatesPayment PROVE IInv'
<1>0. UNCHANGED <<now, gateway, marked, told, fails, acts, subs, handler, task>>
  BY DEF OwnerCreatesPayment, Unmoved
<1>1. PICK t \in NextTx : CreatePayment(t, owner.sub) /\ owner' = [owner EXCEPT !.pc = "ask", !.tx = t]
  BY DEF OwnerCreatesPayment
<1>2. owner \in OwnerRow /\ owner.start <= Horizon + Period
      /\ owner.sub \in Subs /\ subs[owner.sub].st # "none"
  BY DEF OwnerCreatesPayment, IInv, TypeOK, OwnerOK, OwnerRow
<1>3. SubsMove /\ TxsMove /\ Fresh(t) /\ t \in Txs
  BY <1>0, <1>1, <1>2, CreateMove
<1>4. owner' = [pc |-> "ask", sub |-> owner.sub, tx |-> t, start |-> owner.start, priced |-> owner.priced]
  BY <1>1, <1>2 DEF OwnerRow
<1>5. t \in 0 .. MaxTxs
  BY <1>3, SubscriptionAssumption DEF Txs
<1>6. owner' \in OwnerRow /\ owner'.start <= Horizon + Period /\ owner'.sub \in Subs /\ owner'.tx = t
      /\ subs'[owner'.sub].st # "none"
  BY <1>0, <1>2, <1>4, <1>5 DEF OwnerRow
<1> QED BY <1>0, <1>3, <1>6, CountsStill, HandlersStill, TaskStill, RowStep

LEMMA OwnerDiesIInv == ASSUME IInv, OwnerDies PROVE IInv'
<1>0. UNCHANGED <<now, subs, txs, gateway, marked, handler, task, told, acts>> /\ owner' = IdleOwner
  BY DEF OwnerDies
<1>1. Counts
  BY <1>0, Spent DEF OwnerDies, Counts
<1> QED BY <1>0, <1>1, SubsStill, TxsStill, HandlersStill, OwnerIdles, TaskStill, RowStep

LEMMA AdminAssignsIInv == ASSUME IInv, AdminAssigns PROVE IInv'
<1>0. UNCHANGED <<now, gateway, handler, owner, task, told, fails>> /\ acts' \in 0 .. MaxActs
  BY Spent DEF AdminAssigns
<1>1. PICK s \in NextSub, priced \in BOOLEAN, paid \in BOOLEAN :
        /\ subs' = [Deactivated EXCEPT ![s] =
                      [st |-> "active", start |-> now, end |-> now + Period, priced |-> priced]]
        /\ IF priced
             THEN \E t \in NextTx :
                    /\ txs' = [txs EXCEPT ![t] = [st |-> IF paid THEN "completed" ELSE "pending",
                                                  sub |-> s, ext |-> paid]]
                    /\ marked' = IF paid THEN marked \cup {t} ELSE marked
             ELSE ~paid /\ UNCHANGED <<txs, marked>>
  BY DEF AdminAssigns
<1>2. now \in Days /\ now + Period \in Days /\ now <= Horizon + Period /\ now \in Nat
  BY DaysFacts DEF IInv, TypeOK
<1> DEFINE row == [st |-> "active", start |-> now, end |-> now + Period, priced |-> priced]
<1>3. row \in SubRow /\ row.st = "active" /\ row.start = now /\ row.end = now + Period
  BY <1>2 DEF SubRow, SubStatus
<1>4. Placed(s, row)
  BY <1>1 DEF Placed
<1> HIDE DEF row
<1>5. SubsMove /\ subs'[s].st # "none" /\ s \in Subs
  BY <1>0, <1>2, <1>3, <1>4, InsertMove DEF NextSub, WithStatus
<1>6. TxsMove
  <2>1. CASE priced
    <3>1. PICK t \in NextTx :
            /\ txs' = [txs EXCEPT ![t] = [st |-> IF paid THEN "completed" ELSE "pending",
                                          sub |-> s, ext |-> paid]]
            /\ marked' = IF paid THEN marked \cup {t} ELSE marked
      BY <1>1, <2>1
    <3> DEFINE tx == [st |-> IF paid THEN "completed" ELSE "pending", sub |-> s, ext |-> paid]
    <3>2. tx \in TxRow /\ tx.sub = s /\ tx.st # "none" /\ (tx.st = "completed" => paid)
      BY <1>5 DEF TxRow, TxStatus
    <3>3. Entered(t, tx)
      BY <3>1 DEF Entered
    <3>4. marked' \in SUBSET Txs /\ marked \subseteq marked' /\ (paid => t \in marked')
      BY <3>1 DEF IInv, TypeOK, NextTx
    <3> HIDE DEF tx
    <3> QED BY <1>0, <1>5, <3>2, <3>3, <3>4, EnterMove
  <2>2. CASE ~priced
    BY <1>1, <2>2, TxsStill
  <2> QED BY <2>1, <2>2
<1>7. Counts
  BY <1>0, Spent DEF Counts
<1> QED BY <1>0, <1>5, <1>6, <1>7, HandlersStill, OwnerStill, TaskStill, RowStep

LEMMA AdminRenewsIInv == ASSUME IInv, AdminRenews PROVE IInv'
<1>0. UNCHANGED <<now, subs, gateway, marked, handler, owner, task, told, fails>> /\ acts' \in 0 .. MaxActs
  BY Spent DEF AdminRenews
<1>1. PICK s \in Active, t \in NextTx : CreatePayment(t, s)
  BY DEF AdminRenews, CreatePayment
<1>2. s \in Subs /\ subs[s].st # "none"
  BY ActiveBegun
<1>3. SubsMove /\ TxsMove
  BY <1>0, <1>1, <1>2, CreateMove
<1>4. Counts
  BY <1>0, Spent DEF Counts
<1> QED BY <1>0, <1>3, <1>4, HandlersStill, OwnerStill, TaskStill, RowStep

LEMMA AdminCancelsIInv == ASSUME IInv, NEW x \in Subs, AdminCancels(x) PROVE IInv'
<1>0. UNCHANGED <<now, txs, gateway, marked, handler, owner, task, told, fails>> /\ acts' \in 0 .. MaxActs
  BY Spent DEF AdminCancels
<1>1. Marked({x}, "cancelled") /\ {x} \in SUBSET Subs
  BY DEF AdminCancels, Marked, IInv, TypeOK
<1>2. \A s \in {x} : subs[s].st # "none"
  BY DEF AdminCancels
<1>3. "cancelled" \in SubStatus \ {"none"}
  BY DEF SubStatus
<1>4. SubsMove
  BY <1>0, <1>1, <1>2, <1>3, StatusMove
<1>5. Counts
  BY <1>0, Spent DEF Counts
<1> QED BY <1>0, <1>4, <1>5, TxsStill, HandlersStill, OwnerStill, TaskStill, RowStep

LEMMA AdminSetsIInv == ASSUME IInv, NEW t \in Txs, NEW st \in Settable, AdminSets(t, st) PROVE IInv'
<1>0. UNCHANGED <<now, subs, gateway, handler, owner, task, told, fails>> /\ acts' \in 0 .. MaxActs
  BY Spent DEF AdminSets
<1>1. st \in TxStatus \ {"none"}
  BY SubscriptionAssumption DEF TxStatus
<1>2. Set(t, st) /\ txs[t].st # "none" /\ marked' \in SUBSET Txs /\ marked \subseteq marked'
      /\ (st = "completed" => t \in marked')
  BY DEF AdminSets, Set, IInv, TypeOK
<1>3. TxsMove
  BY <1>1, <1>2, SetMove
<1>4. Counts
  BY <1>0, Spent DEF Counts
<1> QED BY <1>0, <1>3, <1>4, SubsStill, HandlersStill, OwnerStill, TaskStill, RowStep

LEMMA PaymentCanceledIInv == ASSUME IInv, NEW t \in Txs, PaymentCanceled(t) PROVE IInv'
<1>0. UNCHANGED <<now, gateway, marked, told, fails, acts, subs, handler, owner, task>>
  BY DEF PaymentCanceled, Unmoved
<1>1. Set(t, "cancelled") /\ txs[t].st # "none" /\ marked' \in SUBSET Txs
  BY <1>0 DEF PaymentCanceled, Set, IInv, TypeOK, TxsOK
<1>2. TxsMove
  BY <1>0, <1>1, SetMove DEF TxStatus
<1> QED BY <1>0, <1>2, SubsStill, CountsStill, HandlersStill, OwnerStill, TaskStill, RowStep

-----------------------------------------------------------------------------
(* Payments.                                                               *)

\* Every way to a payment goes through the gateway's word that it has the money.
LEMMA LoadIInv ==
  ASSUME IInv, NEW h \in Handlers, NEW t \in Txs, gateway[t] = "paid", LoadPayment(h, t)
  PROVE  IInv'
<1>0. UNCHANGED <<now, gateway, marked, told, fails, acts, subs, txs, owner, task>>
  BY DEF LoadPayment, Unmoved
<1>1. PICK s \in Subs : s = txs[t].sub
  BY DEF IInv, TypeOK
<1> DEFINE seen == IF subs[s].st = "suspended" /\ subs[s].start > now THEN "early" ELSE subs[s].st
           row == [tx |-> t, done |-> txs[t].st = "completed", seen |-> seen]
<1>2. handler' = [handler EXCEPT ![h] = row]
  BY <1>1 DEF LoadPayment
<1>3. seen \in SubStatus \cup {"early"}
  BY DEF IInv, TypeOK
<1>4. seen \in {"suspended", "expired"} => Begun(s)
  <2>1. subs[s].start \in Nat /\ now \in Nat
    BY SubscriptionAssumption DEF IInv, TypeOK, Days
  <2> QED BY <2>1 DEF IInv, SubsOK, Begun
<1> HIDE DEF seen
<1>5. row \in HandlerRow /\ row.tx = t /\ row.seen = seen
  BY <1>3, SubscriptionAssumption DEF HandlerRow, Txs
<1> HIDE DEF row
<1>6. handler \in [Handlers -> HandlerRow]
  BY DEF IInv, TypeOK, HandlerRow
<1>7. handler' \in [Handlers -> HandlerRow] /\ handler'[h] = row /\ \A q \in Handlers : q # h => handler'[q] = handler[q]
  BY <1>2, <1>5, <1>6
<1>8. HandlerOK(h)'
  BY <1>0, <1>1, <1>4, <1>5, <1>7 DEF HandlerOK, Begun
<1>9. \A q \in Handlers : handler'[q] = handler[q] \/ HandlerOK(q)'
  BY <1>7, <1>8
<1> QED BY <1>0, <1>7, <1>9, SubsStill, TxsStill, CountsStill, OwnerStill, TaskStill, RowStep

\* A request that is over.
LEMMA HandlerIdles ==
  ASSUME IInv, NEW h \in Handlers, handler' = [handler EXCEPT ![h] = IdleHandler]
  PROVE  /\ handler' \in [Handlers -> HandlerRow]
         /\ \A q \in Handlers : handler'[q] = handler[q] \/ HandlerOK(q)'
<1>1. IdleHandler \in HandlerRow
  BY SubscriptionAssumption DEF IdleHandler, HandlerRow, SubStatus
<1>2. handler' \in [Handlers -> HandlerRow]
  BY <1>1 DEF IInv, TypeOK, HandlerRow
<1>3. \A q \in Handlers : q # h => handler'[q] = handler[q]
  OBVIOUS
<1>4. handler'[h] = IdleHandler
  BY DEF IInv, TypeOK
<1> QED BY <1>2, <1>3, <1>4 DEF HandlerOK

LEMMA CommitPaymentIInv == ASSUME IInv, NEW h \in Handlers, CommitPayment(h) PROVE IInv'
<1>0. UNCHANGED <<now, gateway, marked, told, fails, acts, owner, task>>
      /\ handler' = [handler EXCEPT ![h] = IdleHandler]
  BY DEF CommitPayment, Unmoved
<1>1. PICK t \in Txs : t = handler[h].tx /\ gateway[t] = "paid" /\ txs[t].st # "none"
  BY DEF CommitPayment, IInv, HandlerOK, TxsOK
<1>2. PICK s \in Subs : s = txs[t].sub /\ subs[s].st # "none"
  BY <1>1 DEF IInv, TypeOK, TxsOK
<1>3. TxsMove
  <2>1. CASE handler[h].done
    BY <1>0, <2>1, TxsStill DEF CommitPayment
  <2>2. CASE ~handler[h].done
    <3>1. Set(t, "completed") /\ marked' \in SUBSET Txs
      BY <1>0, <1>1, <2>2 DEF CommitPayment, Set, IInv, TypeOK
    <3> QED BY <1>0, <1>1, <3>1, SetMove DEF TxStatus
  <2> QED BY <2>1, <2>2
<1>4. SubsMove
  <2>1. CASE handler[h].seen \in {"suspended", "expired"}
    <3>1. Begun(s)
      BY <1>1, <1>2, <2>1 DEF CommitPayment, IInv, HandlerOK
    <3>2. Marked({s}, "active") /\ {s} \in SUBSET Subs
      BY <1>1, <1>2, <2>1 DEF CommitPayment, Marked, IInv, TypeOK
    <3>3. "active" \in SubStatus \ {"none"}
      BY DEF SubStatus
    <3>4. \A x \in {s} : subs[x].st # "none" /\ Begun(x)
      BY <1>2, <3>1
    <3> QED BY <1>0, <3>2, <3>3, <3>4, StatusMove
  <2>2. CASE handler[h].seen \notin {"suspended", "expired"}
    BY <1>0, <2>2, SubsStill DEF CommitPayment
  <2> QED BY <2>1, <2>2
<1> QED BY <1>0, <1>3, <1>4, HandlerIdles, CountsStill, OwnerStill, TaskStill, RowStep

LEMMA HandlerDiesIInv == ASSUME IInv, NEW h \in Handlers, HandlerDies(h) PROVE IInv'
<1>0. UNCHANGED <<now, subs, txs, gateway, marked, owner, task, told, acts>>
      /\ handler' = [handler EXCEPT ![h] = IdleHandler]
  BY DEF HandlerDies
<1>1. Counts
  BY <1>0, Spent DEF HandlerDies, Counts
<1> QED BY <1>0, <1>1, SubsStill, TxsStill, HandlerIdles, OwnerStill, TaskStill, RowStep

\* Nobody waits for the gateway with a payment that it has.
LEMMA GatewayPaysIInv == ASSUME IInv, NEW t \in Txs, GatewayPays(t) PROVE IInv'
<1>0. UNCHANGED <<now, subs, txs, marked, handler, owner, task, told, fails, acts>>
  BY DEF GatewayPays
<1>1. PICK end \in {"paid", "canceled"} : gateway' = [gateway EXCEPT ![t] = end]
  BY DEF GatewayPays
<1>2. gateway[t] = "open" /\ gateway \in [Txs -> {"none", "open", "paid", "canceled"}]
  BY DEF GatewayPays, IInv, TypeOK
<1>3. TypeOK'
  BY <1>0, <1>1, <1>2 DEF IInv, TypeOK
<1>4. SubsOK'
  BY <1>0 DEF IInv, SubsOK, Begun
<1>5. TxsOK'
  BY <1>0, <1>1, <1>2 DEF IInv, TxsOK
<1>6. Grows
  BY <1>0, <1>1, <1>2 DEF Grows, IInv, TypeOK
<1>7. \A u \in Txs : gateway[u] = "none" => gateway'[u] = "none"
  BY <1>1, <1>2
<1>8. SubsMove
  BY <1>0, SubsStill
<1>9. \A x \in task'.expire \cup task'.activate : x \in Subs
  BY <1>0 DEF IInv, TypeOK
<1> QED BY <1>0, <1>3, <1>4, <1>5, <1>6, <1>7, <1>8, <1>9, OwnerStill, TaskStill, OrdinaryStep

\* Who asks the gateway has not asked for this payment before, and then waits no more.
LEMMA AnswerIInv ==
  ASSUME IInv, NEW t \in Txs, Unasked(t), GatewayAnswers(t),
         UNCHANGED <<now, subs, marked, handler, told, acts>>,
         \/ /\ owner.pc = "ask" /\ owner.tx = t
            /\ owner' = IdleOwner /\ task' = task
         \/ /\ task.renew = t
            /\ task' = [task EXCEPT !.renew = 0] /\ owner' = owner
  PROVE  IInv'
<1>1. txs \in [Txs -> TxRow] /\ gateway \in [Txs -> {"none", "open", "paid", "canceled"}]
  BY DEF IInv, TypeOK, TxRow
<1>2. PICK row \in TxRow :
        /\ row.st \in {"processing", "failed"} /\ row.sub = txs[t].sub
        /\ txs' = [txs EXCEPT ![t] = row]
        /\ gateway' = [gateway EXCEPT ![t] = IF row.st = "processing" THEN "open" ELSE "none"]
        /\ fails' \in 0 .. MaxFails
  <2>1. CASE gateway' = [gateway EXCEPT ![t] = "open"] /\ UNCHANGED fails
             /\ txs' = [txs EXCEPT ![t] = [st |-> "processing", sub |-> txs[t].sub, ext |-> TRUE]]
    <3> DEFINE row == [st |-> "processing", sub |-> txs[t].sub, ext |-> TRUE]
    <3>1. row \in TxRow /\ row.st = "processing" /\ row.sub = txs[t].sub
      BY <1>1 DEF TxRow, TxStatus
    <3> QED BY <2>1, <3>1, Spent
  <2>2. CASE Fail /\ txs' = [txs EXCEPT ![t].st = "failed"] /\ UNCHANGED gateway
    <3> DEFINE row == [txs[t] EXCEPT !.st = "failed"]
    <3>1. row \in TxRow /\ row.st = "failed" /\ row.sub = txs[t].sub
      BY <1>1 DEF TxRow, TxStatus
    <3>2. txs' = [txs EXCEPT ![t] = row]
      BY <2>2
    <3>3. gateway' = [gateway EXCEPT ![t] = "none"]
      BY <1>1, <2>2 DEF Unasked
    <3> QED BY <2>2, <3>1, <3>2, <3>3, Spent
  <2> QED BY <2>1, <2>2 DEF GatewayAnswers
<1>3. /\ txs' \in [Txs -> TxRow] /\ txs'[t] = row /\ \A u \in Txs : u # t => txs'[u] = txs[u]
      /\ gateway' \in [Txs -> {"none", "open", "paid", "canceled"}]
      /\ gateway'[t] # "paid" /\ \A u \in Txs : u # t => gateway'[u] = gateway[u]
  BY <1>1, <1>2
<1>4. /\ owner' \in OwnerRow /\ owner'.start <= Horizon + Period
      /\ owner'.pc \in {"pay", "ask"} => owner'.sub \in Subs /\ subs'[owner'.sub].st # "none"
      /\ owner'.pc = "ask" => Waits /\ task'.renew = 0 /\ task.renew = t
  <2>1. CASE owner.pc = "ask" /\ owner.tx = t /\ owner' = IdleOwner /\ task' = task
    BY <2>1, OwnerIdles DEF IdleOwner
  <2>2. CASE task.renew = t /\ task' = [task EXCEPT !.renew = 0] /\ owner' = owner
    BY <2>2, SubsStill, OwnerStill DEF IInv, TypeOK
  <2> QED BY <2>1, <2>2
<1>5. /\ task' \in TaskRow /\ task'.expire = task.expire /\ task'.activate = task.activate
      /\ task'.renew # 0 => task'.renew = task.renew /\ owner.pc = "ask" /\ owner.tx = t /\ owner'.pc # "ask"
  <2>1. task \in TaskRow
    BY DEF IInv, TypeOK, TaskRow
  <2>2. CASE owner.pc = "ask" /\ owner.tx = t /\ owner' = IdleOwner /\ task' = task
    BY <2>1, <2>2 DEF IdleOwner
  <2>3. CASE task.renew = t /\ task' = [task EXCEPT !.renew = 0] /\ owner' = owner
    <3>1. task' = [expire |-> task.expire, activate |-> task.activate, renew |-> 0]
      BY <2>1, <2>3 DEF TaskRow
    <3> QED BY <2>1, <3>1, SubscriptionAssumption DEF TaskRow
  <2> QED BY <2>2, <2>3
<1>6. TypeOK'
  BY <1>2, <1>3, <1>4, <1>5 DEF IInv, TypeOK, SubRow, TxRow, OwnerRow, TaskRow
<1>7. SubsOK'
  BY DEF IInv, SubsOK, Begun
<1>8. TxsOK'
  BY <1>2, <1>3 DEF IInv, TxsOK, Unasked
<1>9. Grows
  BY <1>2, <1>3 DEF Grows, IInv, TypeOK, Unasked
<1>10. \A h \in Handlers : HandlerOK(h)'
  BY <1>6, <1>9, HandlerStays
<1>11. ASSUME NEW u \in Txs, u # t, Unasked(u) PROVE Unasked(u)'
  BY <1>3, <1>11 DEF Unasked
<1>12. OwnerOK'
  <2>1. ASSUME owner'.pc = "ask" PROVE Unasked(owner.tx)' /\ owner'.tx = owner.tx
    <3>1. PICK u \in Txs : u = owner.tx /\ Unasked(u) /\ u # t /\ owner' = owner
      BY <1>4, <2>1, SubscriptionAssumption DEF IInv, OwnerOK, TaskOK, Unasked, Waits, IdleOwner, Txs
    <3>2. Unasked(u)'
      BY <1>11, <3>1
    <3> QED BY <3>1, <3>2 DEF Unasked
  <2> QED BY <1>4, <2>1 DEF OwnerOK, Unasked
<1>13. TaskOK'
  <2>1. ASSUME NEW s \in task'.expire \cup task'.activate PROVE Begun(s)'
    BY <1>5 DEF IInv, TaskOK, Begun
  <2>2. ASSUME task'.renew # 0 PROVE Unasked(task.renew)' /\ task'.renew = task.renew
    <3>1. PICK u \in Txs : u = task.renew /\ Unasked(u) /\ u # t /\ task' = task
      BY <1>5, <2>2 DEF IInv, TaskOK, Unasked
    <3>2. Unasked(u)'
      BY <1>11, <3>1
    <3> QED BY <3>1, <3>2 DEF Unasked
  <2> QED BY <1>4, <1>5, <2>1, <2>2 DEF TaskOK, Unasked, Begun
<1> QED BY <1>6, <1>7, <1>8, <1>10, <1>12, <1>13 DEF IInv

LEMMA OwnerAsksIInv == ASSUME IInv, OwnerAsksGateway PROVE IInv'
<1>1. PICK t \in Txs : t = owner.tx /\ Unasked(t)
  BY DEF OwnerAsksGateway, IInv, OwnerOK, Unasked
<1> QED BY <1>1, AnswerIInv DEF OwnerAsksGateway

LEMMA RenewalAsksIInv == ASSUME IInv, RenewalAsksGateway PROVE IInv'
<1>1. PICK t \in Txs : t = task.renew /\ Unasked(t)
  BY DEF RenewalAsksGateway, IInv, TaskOK, Unasked
<1> QED BY <1>1, AnswerIInv DEF RenewalAsksGateway

-----------------------------------------------------------------------------
(* The tasks and the clock.                                                *)

LEMMA LoadOverdueIInv == ASSUME IInv, LoadOverdue PROVE IInv'
<1>0. UNCHANGED <<now, gateway, marked, told, fails, acts, subs, txs, handler, owner>>
  BY DEF LoadOverdue, Unmoved
<1> DEFINE late == {s \in Active : Overdue(s)}
<1>1. task' = [expire |-> late, activate |-> task.activate, renew |-> task.renew]
  BY DEF LoadOverdue, IInv, TypeOK
<1>2. late \in SUBSET Subs /\ \A s \in late : Begun(s)
  BY ActiveBegun
<1> HIDE DEF late
<1>3. /\ task' \in TaskRow /\ task'.renew = task.renew
      /\ \A s \in task'.expire \cup task'.activate : Begun(s)
  BY <1>1, <1>2 DEF TaskRow, IInv, TypeOK, TaskOK
<1> QED BY <1>0, <1>3, SubsStill, TxsStill, CountsStill, HandlersStill, OwnerStill, RowStep

LEMMA LoadStartingIInv == ASSUME IInv, LoadStarting PROVE IInv'
<1>0. UNCHANGED <<now, gateway, marked, told, fails, acts, subs, txs, handler, owner>>
  BY DEF LoadStarting, Unmoved
<1> DEFINE due == {s \in WithStatus("suspended") : subs[s].start <= now}
<1>1. task' = [expire |-> task.expire, activate |-> due, renew |-> task.renew]
  BY DEF LoadStarting, IInv, TypeOK
<1>2. due \in SUBSET Subs /\ \A s \in due : Begun(s)
  BY DEF WithStatus, Begun
<1> HIDE DEF due
<1>3. /\ task' \in TaskRow /\ task'.renew = task.renew
      /\ \A s \in task'.expire \cup task'.activate : Begun(s)
  BY <1>1, <1>2 DEF TaskRow, IInv, TypeOK, TaskOK
<1> QED BY <1>0, <1>3, SubsStill, TxsStill, CountsStill, HandlersStill, OwnerStill, RowStep

\* A task forgets rows it has loaded.
LEMMA Forgets ==
  ASSUME IInv, NEW k \in {"expire", "activate"}, NEW S \in SUBSET task[k], task' = [task EXCEPT ![k] = S]
  PROVE  /\ task' \in TaskRow /\ task'.renew = task.renew
         /\ \A s \in task'.expire \cup task'.activate : Begun(s)
<1>1. task \in TaskRow
  BY DEF IInv, TypeOK, TaskRow
<1>2. CASE k = "expire"
  <2>1. task' = [expire |-> S, activate |-> task.activate, renew |-> task.renew]
    BY <1>1, <1>2 DEF TaskRow
  <2> QED BY <1>1, <1>2, <2>1 DEF TaskRow, IInv, TaskOK
<1>3. CASE k = "activate"
  <2>1. task' = [expire |-> task.expire, activate |-> S, renew |-> task.renew]
    BY <1>1, <1>3 DEF TaskRow
  <2> QED BY <1>1, <1>3, <2>1 DEF TaskRow, IInv, TaskOK
<1> QED BY <1>2, <1>3

LEMMA ExpireIInv == ASSUME IInv, Expire PROVE IInv'
<1>0. UNCHANGED <<now, gateway, marked, told, fails, acts, txs, handler, owner>>
  BY DEF Expire, Unmoved
<1>1. task' = [task EXCEPT !["expire"] = {}]
  BY DEF Expire
<1>2. Marked(task.expire, "expired") /\ task.expire \in SUBSET Subs
  BY DEF Expire, Marked, IInv, TypeOK
<1>3. \A s \in task.expire : subs[s].st # "none" /\ Begun(s)
  BY DEF IInv, TaskOK, Begun
<1>4. "expired" \in SubStatus \ {"none"}
  BY DEF SubStatus
<1>5. SubsMove
  BY <1>0, <1>2, <1>3, <1>4, StatusMove
<1>6. /\ task' \in TaskRow /\ task'.renew = task.renew
      /\ \A s \in task'.expire \cup task'.activate : Begun(s)
  BY <1>1, Forgets
<1> QED BY <1>0, <1>5, <1>6, TxsStill, CountsStill, HandlersStill, OwnerStill, RowStep

LEMMA ActivateIInv == ASSUME IInv, Activate PROVE IInv'
<1>0. UNCHANGED <<now, gateway, marked, told, fails, acts, txs, handler, owner>>
  BY DEF Activate, Unmoved
<1>1. PICK x \in task.activate :
        /\ subs' = [subs EXCEPT ![x].st = "active"]
        /\ task' = [task EXCEPT !["activate"] = task.activate \ {x}]
  BY DEF Activate
<1>2. x \in Subs /\ Begun(x)
  BY DEF IInv, TypeOK, TaskOK
<1>3. Marked({x}, "active") /\ {x} \in SUBSET Subs
  BY <1>1, <1>2 DEF Marked, IInv, TypeOK
<1>4. "active" \in SubStatus \ {"none"} /\ \A s \in {x} : subs[s].st # "none" /\ Begun(s)
  BY <1>2 DEF SubStatus, Begun
<1>5. SubsMove
  BY <1>0, <1>3, <1>4, StatusMove
<1>6. task.activate \ {x} \in SUBSET task["activate"]
  OBVIOUS
<1>7. /\ task' \in TaskRow /\ task'.renew = task.renew
      /\ \A s \in task'.expire \cup task'.activate : Begun(s)
  BY <1>1, <1>6, Forgets
<1> QED BY <1>0, <1>5, <1>7, TxsStill, CountsStill, HandlersStill, OwnerStill, RowStep

LEMMA RemindIInv == ASSUME IInv, NEW s \in Subs, Remind(s) PROVE IInv'
<1>0. UNCHANGED <<now, subs, gateway, marked, handler, owner, fails, acts>> /\ s \in Active
  BY DEF Remind
<1>1. Counts
  BY <1>0 DEF Remind, Counts, IInv, TypeOK
<1>2. CASE \E t \in NextTx : CreatePayment(t, s) /\ task' = [task EXCEPT !.renew = t]
  <2>1. PICK t \in NextTx : CreatePayment(t, s) /\ task' = [task EXCEPT !.renew = t]
    BY <1>2
  <2>2. subs[s].st # "none"
    BY <1>0, ActiveBegun
  <2>3. SubsMove /\ TxsMove /\ Fresh(t) /\ t \in Txs
    BY <1>0, <2>1, <2>2, CreateMove
  <2>4. task' = [expire |-> task.expire, activate |-> task.activate, renew |-> t]
    BY <2>1 DEF IInv, TypeOK
  <2>5. t \in 0 .. MaxTxs
    BY <2>3, SubscriptionAssumption DEF Txs
  <2>6. task' \in TaskRow /\ \A x \in task'.expire \cup task'.activate : Begun(x)
    BY <2>4, <2>5 DEF TaskRow, IInv, TypeOK, TaskOK
  <2> QED BY <1>0, <1>1, <2>3, <2>4, <2>6, HandlersStill, OwnerStill, RowStep
<1>3. CASE UNCHANGED <<txs, task>>
  BY <1>0, <1>1, <1>3, SubsStill, TxsStill, HandlersStill, OwnerStill, TaskStill, RowStep
<1> QED BY <1>2, <1>3 DEF Remind

LEMMA TaskDiesIInv ==
  ASSUME IInv, NEW k \in {"expire", "activate", "renew"}, TaskDies(k) PROVE IInv'
<1>0. UNCHANGED <<now, subs, txs, gateway, marked, handler, owner, told, acts>>
  BY DEF TaskDies
<1>1. Counts
  BY <1>0, Spent DEF TaskDies, Counts
<1>2. CASE k = "renew"
  <2>1. task' = [expire |-> task.expire, activate |-> task.activate, renew |-> 0]
    BY <1>2 DEF TaskDies, IInv, TypeOK
  <2>2. 0 \in 0 .. MaxTxs
    BY SubscriptionAssumption
  <2>3. task' \in TaskRow /\ task'.renew = 0 /\ \A s \in task'.expire \cup task'.activate : Begun(s)
    BY <2>1, <2>2 DEF TaskRow, IInv, TypeOK, TaskOK
  <2> QED BY <1>0, <1>1, <2>3, SubsStill, TxsStill, HandlersStill, OwnerStill, RowStep
<1>3. CASE k # "renew"
  <2>1. task' = [task EXCEPT ![k] = {}]
    BY <1>3 DEF TaskDies
  <2>2. /\ task' \in TaskRow /\ task'.renew = task.renew
        /\ \A s \in task'.expire \cup task'.activate : Begun(s)
    BY <1>3, <2>1, Forgets
  <2> QED BY <1>0, <1>1, <2>2, SubsStill, TxsStill, HandlersStill, OwnerStill, RowStep
<1> QED BY <1>2, <1>3

LEMMA NextDayIInv == ASSUME IInv, NextDay PROVE IInv'
<1>0. UNCHANGED <<subs, txs, gateway, marked, handler, owner, task, told, fails, acts>>
      /\ now < Horizon /\ now' = now + 1
  BY DEF NextDay
<1>1. now' \in 1 .. Horizon /\ now' >= now /\ now \in Nat
  BY <1>0, SubscriptionAssumption DEF IInv, TypeOK
<1>2. TypeOK'
  BY <1>0, <1>1 DEF IInv, TypeOK
<1>3. Grows
  BY <1>0, <1>1 DEF Grows
<1>4. ASSUME NEW s \in Subs, Begun(s) PROVE Begun(s)'
  BY <1>2, <1>3, <1>4, BegunStays DEF IInv
<1>5. SubsOK'
  BY <1>0, <1>4 DEF IInv, SubsOK
<1>6. TxsOK'
  BY <1>0 DEF IInv, TxsOK
<1>7. OwnerOK' /\ TaskOK'
  <2>1. \A s \in task'.expire \cup task'.activate : Begun(s)'
    BY <1>0, <1>4 DEF IInv, TypeOK, TaskOK
  <2> QED BY <1>0, <2>1 DEF IInv, OwnerOK, TaskOK, Unasked, Begun
<1>8. \A h \in Handlers : HandlerOK(h)'
  BY <1>0, <1>2, <1>3, HandlerStays
<1> QED BY <1>2, <1>5, <1>6, <1>7, <1>8 DEF IInv

LEMMA StutterIInv == ASSUME IInv, UNCHANGED vars PROVE IInv'
BY SubsStill, TxsStill, CountsStill, HandlersStill, OwnerStill, TaskStill, RowStep DEF vars

-----------------------------------------------------------------------------
(* The theorems.                                                           *)

LEMMA InitIInv == Init => IInv
<1> SUFFICES ASSUME Init PROVE IInv OBVIOUS
<1>1. PICK priced \in BOOLEAN, end \in {NoEnd, 1 + Period} :
        subs = [s \in Subs |-> IF s = 1
                  THEN [st |-> "active", start |-> 1, end |-> end, priced |-> priced] ELSE NoSub]
  BY DEF Init
<1>2. now = 1 /\ 1 \in 1 .. Horizon /\ 1 \in Days /\ 1 + Period \in Days /\ NoEnd \in Days /\ 0 \in Days
      /\ 1 <= Horizon + Period /\ 0 <= Horizon + Period
  BY SubscriptionAssumption DEF Init, Days, NoEnd
<1>3. /\ [st |-> "active", start |-> 1, end |-> end, priced |-> priced] \in SubRow /\ NoSub \in SubRow
      /\ NoSub.st = "none" /\ NoSub.end = NoEnd /\ NoSub.start = 0
  BY <1>2 DEF SubRow, SubStatus, NoSub, NoEnd
<1>4. TypeOK
  <2>1. 1 \in Subs /\ 0 \in 0 .. MaxTxs /\ 0 \in 0 .. MaxSubs /\ 0 \in 0 .. MaxFails /\ 0 \in 0 .. MaxActs
    BY SubscriptionAssumption DEF Subs
  <2>2. subs \in [Subs -> SubRow]
    BY <1>1, <1>3
  <2>3. txs \in [Txs -> [st : TxStatus, sub : Subs, ext : BOOLEAN]]
    BY <2>1 DEF Init, NoTx, TxStatus
  <2>4. handler \in [Handlers -> [tx : 0 .. MaxTxs, seen : SubStatus \cup {"early"}, done : BOOLEAN]]
        /\ \A h \in Handlers : handler[h] = IdleHandler
    BY <2>1 DEF Init, IdleHandler, SubStatus
  <2>5. owner \in [pc : {"idle", "deactivate", "insert", "pay", "ask"}, sub : 0 .. MaxSubs,
                   tx : 0 .. MaxTxs, start : Days, priced : BOOLEAN]
    BY <1>2, <2>1 DEF Init, IdleOwner
  <2>6. task \in [expire : SUBSET Subs, activate : SUBSET Subs, renew : 0 .. MaxTxs]
    BY <2>1 DEF Init
  <2> QED BY <1>2, <2>1, <2>2, <2>3, <2>4, <2>5, <2>6 DEF Init, TypeOK, SubRow
<1>5. SubsOK
  BY <1>1, <1>2, <1>3 DEF SubsOK, Begun
<1>6. TxsOK
  BY DEF Init, TxsOK, NoTx
<1>7. OwnerOK /\ TaskOK /\ \A h \in Handlers : HandlerOK(h)
  BY <1>2 DEF Init, OwnerOK, TaskOK, HandlerOK, IdleOwner
<1> QED BY <1>4, <1>5, <1>6, <1>7 DEF IInv

LEMMA NextIInv == IInv /\ [Next]_vars => IInv'
<1> SUFFICES ASSUME IInv, [Next]_vars PROVE IInv' OBVIOUS
<1>1. CASE OwnerNext
  BY <1>1, LoginIInv, LimitsExpireIInv, ChangeTariffIInv, DeactivateIInv, InsertNewIInv,
     OwnerCreatesIInv, OwnerAsksIInv, OwnerDiesIInv DEF OwnerNext
<1>2. CASE AdminNext
  BY <1>2, AdminAssignsIInv, AdminRenewsIInv, AdminCancelsIInv, AdminSetsIInv DEF AdminNext
<1>3. CASE PaymentNext
  <2>1. ASSUME NEW h \in Handlers, PagePaid(h) PROVE IInv'
    BY <2>1, LoadIInv DEF PagePaid
  <2>2. ASSUME NEW h \in Handlers, NEW t \in Txs, WebhookPaid(h, t) \/ CheckPaid(h, t) PROVE IInv'
    BY <2>2, LoadIInv DEF WebhookPaid, CheckPaid
  <2> QED BY <1>3, <2>1, <2>2, GatewayPaysIInv, PaymentCanceledIInv, CommitPaymentIInv, HandlerDiesIInv
         DEF PaymentNext
<1>4. CASE TaskNext
  BY <1>4, LoadOverdueIInv, ExpireIInv, LoadStartingIInv, ActivateIInv, RenewalAsksIInv, RemindIInv,
     TaskDiesIInv DEF TaskNext
<1> QED BY <1>1, <1>2, <1>3, <1>4, NextDayIInv, StutterIInv DEF Next

\* The inductive invariant, for any subscriptions, transactions, days and requests.
THEOREM SpecIInv == Spec => []IInv
BY InitIInv, NextIInv, PTL DEF Spec

\* The rows keep the shape of the tables, and every request in progress holds rows that exist.
THEOREM TypeCorrect == Spec => []TypeOK
<1>1. IInv => TypeOK
  BY DEF IInv
<1> QED BY <1>1, SpecIInv, PTL

\* However the tasks, the webhooks, the page, the administrator and the owner overlap, no
\* subscription is active before its start.
THEOREM StartsInTime == Spec => []NotBeforeStart
<1>1. IInv => NotBeforeStart
  BY ActiveBegun DEF NotBeforeStart, Begun
<1> QED BY <1>1, SpecIInv, PTL

\* A transaction is completed only if the gateway has the money or the administrator said so.
THEOREM CompletedIsPaid == Spec => []BookedIsPaid
<1>1. IInv => BookedIsPaid
  BY DEF IInv, TxsOK, BookedIsPaid
<1> QED BY <1>1, SpecIInv, PTL

LEMMA ComesBack ==
  ASSUME IInv, [Next]_vars, NEW s \in Subs, subs[s].st = "cancelled", subs'[s].st # "cancelled"
  PROVE  ReadBefore(s)
<1>0. subs \in [Subs -> SubRow] /\ s \notin Active /\ s \notin NextSub
  BY DEF IInv, TypeOK, SubRow, Active, WithStatus, NextSub
<1>1. UNCHANGED subs => FALSE
  OBVIOUS
<1>2. Deactivated[s] = subs[s] /\ Deactivated \in [Subs -> {Deactivated[x] : x \in Subs}]
  BY <1>0 DEF Deactivated
<1>3. CASE OwnerNext
  <2>1. ~Login /\ ~InsertNew
    BY <1>0 DEF Login, InsertNew, InsertSub
  <2>2. ~LimitsExpire /\ ~Deactivate
    BY <1>0, <1>2 DEF LimitsExpire, Deactivate
  <2>3. ~ChangeTariff
    BY <1>0 DEF ChangeTariff
  <2> QED BY <1>1, <1>3, <2>1, <2>2, <2>3 DEF OwnerNext, OwnerCreatesPayment, OwnerAsksGateway, OwnerDies, Unmoved
<1>4. CASE AdminNext
  <2>1. ~AdminAssigns
    BY <1>0, <1>2 DEF AdminAssigns
  <2>2. \A x \in Subs : ~AdminCancels(x)
    <3>1. ASSUME NEW x \in Subs, AdminCancels(x), x # s PROVE subs'[s] = subs[s]
      BY <1>0, <3>1 DEF AdminCancels
    <3>2. ASSUME AdminCancels(s) PROVE subs'[s].st = "cancelled"
      BY <1>0, <3>2 DEF AdminCancels, SubRow
    <3> QED BY <3>1, <3>2
  <2> QED BY <1>1, <1>4, <2>1, <2>2 DEF AdminNext, AdminRenews, AdminSets
<1>5. CASE PaymentNext
  <2>1. ASSUME NEW h \in Handlers, CommitPayment(h) PROVE ReadBefore(s)
    <3>1. handler[h] # IdleHandler /\ handler[h].seen \in {"suspended", "expired"}
          /\ subs' = [subs EXCEPT ![txs[handler[h].tx].sub].st = "active"]
      BY <1>1, <2>1 DEF CommitPayment
    <3>2. txs[handler[h].tx].sub = s
      BY <1>0, <3>1
    <3> QED BY <3>1, <3>2 DEF ReadBefore
  <2> QED BY <1>1, <1>5, <2>1 DEF PaymentNext, GatewayPays, PaymentCanceled, PagePaid, WebhookPaid,
            CheckPaid, LoadPayment, HandlerDies, Unmoved
<1>6. CASE TaskNext
  <2>1. ASSUME Expire PROVE ReadBefore(s)
    BY <1>0, <1>1, <2>1 DEF Expire, ReadBefore
  <2>2. ASSUME Activate PROVE ReadBefore(s)
    BY <1>0, <1>1, <2>2 DEF Activate, ReadBefore
  <2> QED BY <1>1, <1>6, <2>1, <2>2 DEF TaskNext, LoadOverdue, LoadStarting, Remind, RenewalAsksGateway,
            TaskDies, Unmoved
<1> QED BY <1>1, <1>3, <1>4, <1>5, <1>6 DEF Next, NextDay, vars

\* A cancelled subscription comes back only through a session that had read it before it was
\* cancelled.
THEOREM CancelledStaysCancelled == Spec => CancelledStays
<1> DEFINE Stays == \A s \in Subs : subs[s].st = "cancelled" /\ subs'[s].st # "cancelled" => ReadBefore(s)
<1>1. IInv /\ [Next]_vars => [Stays]_vars
  BY ComesBack
<1> QED BY <1>1, SpecIInv, PTL DEF Spec, CancelledStays
===============================================================================
