----------------------------- MODULE Subscription -----------------------------
(***************************************************************************)
(* The subscriptions of one owner to a tariff and the transactions that    *)
(* pay for them.  Rows of user_subscriptions are made by registration,     *)
(* login, the administrator and the owner's change of tariff; three daily  *)
(* or five-minute tasks move them along; payments go through YooKassa,     *)
(* which answers by webhook, in any order and more than once, and when the *)
(* owner's page or the administrator asks.                                 *)
(*                                                                         *)
(* Time is counted in days.  No row is ever removed.  Sessions keep what   *)
(* they have loaded (expire_on_commit=False) and write only the columns    *)
(* they change, so a request is a read and, later, a write.                *)
(***************************************************************************)
EXTENDS Naturals, FiniteSets

CONSTANTS
  MaxSubs,      \* bound: rows of user_subscriptions
  MaxTxs,       \* bound: rows of billing_transactions
  Horizon,      \* bound: the last day
  Period,       \* days of a tariff's billing period
  Windows,      \* the days before the end at which the owner is reminded
  Handlers,     \* requests that may process a payment at the same time
  MaxFails,     \* bound: requests that die, gateway errors
  Settable,     \* the statuses the administrator gives a transaction; the page offers all
  MaxActs       \* bound: the administrator's interventions

ASSUME SubscriptionAssumption ==
  /\ MaxSubs \in Nat \ {0} /\ MaxTxs \in Nat /\ Horizon \in Nat \ {0} /\ MaxFails \in Nat
  /\ MaxActs \in Nat
  /\ Settable \subseteq {"pending", "processing", "completed", "failed", "cancelled", "refunded"}
  /\ Period \in Nat \ {0} /\ Windows \subseteq Nat

VARIABLES
  now,
  subs,         \* [Subs -> row of user_subscriptions]
  txs,          \* [Txs -> row of billing_transactions]
  gateway,      \* [Txs -> the payment at YooKassa]
  marked,       \* transactions the administrator has declared completed
  handler,      \* [Handlers -> a payment loaded and not yet committed]
  owner,        \* the change of tariff in progress
  task,         \* the rows each task has loaded and not yet written
  told,         \* subscriptions whose owner has been reminded
  fails,        \* requests died, gateway errors, so far
  acts          \* interventions of the administrator so far

vars == <<now, subs, txs, gateway, marked, handler, owner, task, told, fails, acts>>

Subs == 1 .. MaxSubs
Txs == 1 .. MaxTxs
Days == 0 .. Horizon + 2 * Period
NoEnd == 0      \* expires_at is NULL

SubStatus == {"none", "active", "expired", "cancelled", "suspended"}
TxStatus == {"none", "pending", "processing", "completed", "failed", "cancelled", "refunded"}

NoSub == [st |-> "none", start |-> 0, end |-> NoEnd, priced |-> FALSE]
NoTx == [st |-> "none", sub |-> 1, ext |-> FALSE]
IdleHandler == [tx |-> 0, seen |-> "none", done |-> FALSE]
IdleOwner == [pc |-> "idle", sub |-> 0, tx |-> 0, start |-> 0, priced |-> FALSE]

WithStatus(st) == {s \in Subs : subs[s].st = st}
Active == WithStatus("active")
Overdue(s) == subs[s].end # NoEnd /\ subs[s].end < now
NextSub == {s \in WithStatus("none") : \A u \in WithStatus("none") : s <= u}
NextTx == {t \in Txs : txs[t].st = "none" /\ \A u \in Txs : txs[u].st = "none" => t <= u}

Unmoved == UNCHANGED <<now, gateway, marked, told, fails, acts>>
Fail == fails < MaxFails /\ fails' = fails + 1
Act == acts < MaxActs /\ acts' = acts + 1

\* Registration: the popular tariff, with a grace period, without an end when the tariff is
\* priced and has none, for a period when it is free.
Init ==
  /\ now = 1
  /\ \E priced \in BOOLEAN : \E end \in {NoEnd, 1 + Period} :
       /\ ~priced => end # NoEnd
       /\ subs = [s \in Subs |-> IF s = 1
                    THEN [st |-> "active", start |-> 1, end |-> end, priced |-> priced]
                    ELSE NoSub]
  /\ txs = [t \in Txs |-> NoTx]
  /\ gateway = [t \in Txs |-> "none"]
  /\ marked = {}
  /\ handler = [h \in Handlers |-> IdleHandler]
  /\ owner = IdleOwner
  /\ task = [expire |-> {}, activate |-> {}, renew |-> 0]
  /\ told = {}
  /\ fails = 0
  /\ acts = 0

-----------------------------------------------------------------------------
(* New rows.                                                               *)

InsertSub(s, st, start, priced) ==
  [subs EXCEPT ![s] = [st |-> st, start |-> start, end |-> start + Period, priced |-> priced]]

\* Cancels what is active and nothing that is waiting for its start.
Deactivated == [s \in Subs |-> IF s \in Active THEN [subs[s] EXCEPT !.st = "cancelled"] ELSE subs[s]]

\* Every login of a user without an active subscription makes one on the popular tariff,
\* for a period when it is priced.
Login ==
  /\ Active = {}
  /\ \E s \in NextSub, priced \in BOOLEAN :
       subs' = [subs EXCEPT ![s] = [st |-> "active", start |-> now, priced |-> priced,
                                    end |-> IF priced THEN now + Period ELSE NoEnd]]
  /\ Unmoved /\ UNCHANGED <<txs, handler, owner, task>>

\* The administrator assigns a tariff: paid already, to be paid, or free (or with a grace
\* period).  Two active rows make the look for one raise.
AdminAssigns ==
  /\ Act
  /\ Cardinality(Active) <= 1
  /\ \E s \in NextSub, priced \in BOOLEAN, paid \in BOOLEAN :
       /\ subs' = [Deactivated EXCEPT ![s] =
                     [st |-> "active", start |-> now, end |-> now + Period, priced |-> priced]]
       /\ IF priced
            THEN \E t \in NextTx :
                   /\ txs' = [txs EXCEPT ![t] = [st |-> IF paid THEN "completed" ELSE "pending",
                                                 sub |-> s, ext |-> paid]]
                   /\ marked' = IF paid THEN marked \cup {t} ELSE marked
            ELSE ~paid /\ UNCHANGED <<txs, marked>>
  /\ UNCHANGED <<now, gateway, handler, owner, task, told, fails>>

\* The administrator asks for a renewal: a transaction to be settled by hand.
AdminRenews ==
  /\ Act
  /\ Cardinality(Active) = 1
  /\ \E s \in Active, t \in NextTx :
       /\ subs[s].priced
       /\ txs' = [txs EXCEPT ![t] = [st |-> "pending", sub |-> s, ext |-> FALSE]]
  /\ UNCHANGED <<now, subs, gateway, marked, handler, owner, task, told, fails>>

AdminCancels(s) ==
  /\ subs[s].st # "none" /\ Act
  /\ subs' = [subs EXCEPT ![s].st = "cancelled"]
  /\ UNCHANGED <<now, txs, gateway, marked, handler, owner, task, told, fails>>

-----------------------------------------------------------------------------
(* The owner changes the tariff: one request, up to four commits.          *)

\* The active row as the limits see it: one that is overdue is expired first.
ChangeTariff ==
  /\ owner.pc = "idle"
  /\ Cardinality(Active) <= 1 /\ NextSub # {}
  /\ \E priced \in BOOLEAN :
       LET current == {s \in Active : ~Overdue(s)} IN
       /\ subs' = [s \in Subs |-> IF s \in Active \ current
                     THEN [subs[s] EXCEPT !.st = "expired"] ELSE subs[s]]
       /\ owner' = [IdleOwner EXCEPT
                      !.pc = IF current = {} THEN "insert" ELSE "deactivate", !.priced = priced,
                      !.start = IF \E s \in current : subs[s].end > now
                                  THEN subs[CHOOSE s \in current : TRUE].end ELSE now]
  /\ Unmoved /\ UNCHANGED <<txs, handler, task>>

\* Any page that asks for the limits does the same.
LimitsExpire ==
  /\ \E s \in Active :
       /\ Active = {s} /\ Overdue(s)
       /\ subs' = [subs EXCEPT ![s].st = "expired"]
  /\ Unmoved /\ UNCHANGED <<txs, handler, owner, task>>

Deactivate ==
  /\ owner.pc = "deactivate"
  /\ subs' = Deactivated
  /\ owner' = [owner EXCEPT !.pc = "insert"]
  /\ Unmoved /\ UNCHANGED <<txs, handler, task>>

\* A priced tariff waits suspended, a free one only until its start.
InsertNew ==
  /\ owner.pc = "insert"
  /\ \E s \in NextSub :
       /\ subs' = InsertSub(s, IF owner.priced \/ owner.start > now THEN "suspended" ELSE "active",
                            owner.start, owner.priced)
       /\ owner' = IF owner.priced THEN [owner EXCEPT !.pc = "pay", !.sub = s] ELSE IdleOwner
  /\ Unmoved /\ UNCHANGED <<txs, handler, task>>

\* create_payment_transaction: the row is pending until the gateway has answered.
CreatePayment(t, s) == txs' = [txs EXCEPT ![t] = [st |-> "pending", sub |-> s, ext |-> FALSE]]

OwnerCreatesPayment ==
  /\ owner.pc = "pay"
  /\ \E t \in NextTx : CreatePayment(t, owner.sub) /\ owner' = [owner EXCEPT !.pc = "ask", !.tx = t]
  /\ Unmoved /\ UNCHANGED <<subs, handler, task>>

\* The gateway makes a payment, or the transaction has failed.
GatewayAnswers(t) ==
  \/ /\ gateway' = [gateway EXCEPT ![t] = "open"]
     /\ txs' = [txs EXCEPT ![t] = [st |-> "processing", sub |-> txs[t].sub, ext |-> TRUE]]
     /\ UNCHANGED fails
  \/ Fail /\ txs' = [txs EXCEPT ![t].st = "failed"] /\ UNCHANGED gateway

OwnerAsksGateway ==
  /\ owner.pc = "ask"
  /\ GatewayAnswers(owner.tx)
  /\ owner' = IdleOwner
  /\ UNCHANGED <<now, subs, marked, handler, task, told, acts>>

\* The request ends between two of its commits.
OwnerDies ==
  /\ owner.pc # "idle" /\ Fail
  /\ owner' = IdleOwner
  /\ UNCHANGED <<now, subs, txs, gateway, marked, handler, task, told, acts>>

-----------------------------------------------------------------------------
(* The payment at the gateway and what is heard of it.                     *)

GatewayPays(t) ==
  /\ gateway[t] = "open"
  /\ \E end \in {"paid", "canceled"} : gateway' = [gateway EXCEPT ![t] = end]
  /\ UNCHANGED <<now, subs, txs, marked, handler, owner, task, told, fails, acts>>

\* Mutant of LoadPayment: without the test for the start.
LoadPaymentAtOnce(h, t) ==
  /\ handler[h] = IdleHandler
  /\ handler' = [handler EXCEPT ![h] = [tx |-> t, done |-> txs[t].st = "completed",
                                        seen |-> subs[txs[t].sub].st]]
  /\ Unmoved /\ UNCHANGED <<subs, txs, owner, task>>

\* process_payment_success up to its commit: what it has read of both rows.
LoadPayment(h, t) ==
  /\ handler[h] = IdleHandler
  /\ handler' = [handler EXCEPT ![h] = [tx |-> t, done |-> txs[t].st = "completed",
                   seen |-> IF subs[txs[t].sub].st = "suspended" /\ subs[txs[t].sub].start > now
                              THEN "early" ELSE subs[txs[t].sub].st]]
  /\ Unmoved /\ UNCHANGED <<subs, txs, owner, task>>

\* Mutant of WebhookPaid: only for a transaction that is still being processed.
WebhookPaidWhileOpen(h, t) == gateway[t] = "paid" /\ txs[t].st = "processing" /\ LoadPayment(h, t)

\* A webhook may come at any time after the event, and again; a completed one is left alone.
WebhookPaid(h, t) == gateway[t] = "paid" /\ txs[t].st # "completed" /\ LoadPayment(h, t)

\* The page the owner returns to looks at the last transaction that is not finished.
PagePaid(h) ==
  /\ \E t \in Txs :
       /\ txs[t].st \in {"pending", "processing"} /\ txs[t].ext /\ gateway[t] = "paid"
       /\ \A u \in Txs : u > t => txs[u].st \notin {"pending", "processing"}
       /\ LoadPayment(h, t)

\* Mutant of CheckPaid: whatever the gateway says.
CheckPaidUnasked(h, t) == txs[t].ext /\ LoadPayment(h, t)

\* The administrator's check does not ask whether the transaction is completed already.
CheckPaid(h, t) == txs[t].ext /\ gateway[t] = "paid" /\ LoadPayment(h, t)

\* Mutant of CommitPayment: a cancelled subscription is made active like an expired one.
CommitPaymentToAny(h) ==
  LET p == handler[h] IN
  /\ p # IdleHandler
  /\ txs' = IF p.done THEN txs ELSE [txs EXCEPT ![p.tx].st = "completed"]
  /\ subs' = IF p.seen # "early" THEN [subs EXCEPT ![txs[p.tx].sub].st = "active"] ELSE subs
  /\ handler' = [handler EXCEPT ![h] = IdleHandler]
  /\ Unmoved /\ UNCHANGED <<owner, task>>

CommitPayment(h) ==
  LET p == handler[h] IN
  /\ p # IdleHandler
  /\ txs' = IF p.done THEN txs ELSE [txs EXCEPT ![p.tx].st = "completed"]
  /\ subs' = IF p.seen \in {"suspended", "expired"}
               THEN [subs EXCEPT ![txs[p.tx].sub].st = "active"] ELSE subs
  /\ handler' = [handler EXCEPT ![h] = IdleHandler]
  /\ Unmoved /\ UNCHANGED <<owner, task>>

HandlerDies(h) ==
  /\ handler[h] # IdleHandler /\ Fail
  /\ handler' = [handler EXCEPT ![h] = IdleHandler]
  /\ UNCHANGED <<now, subs, txs, gateway, marked, owner, task, told, acts>>

\* Mutant of PaymentCanceled: the gateway's word for it.
PaymentCanceledAsTold(t) ==
  /\ gateway[t] = "canceled"
  /\ txs' = [txs EXCEPT ![t].st = gateway[t]]
  /\ Unmoved /\ UNCHANGED <<subs, handler, owner, task>>

\* Heard of by webhook or by the administrator's check, whatever the status was.
PaymentCanceled(t) ==
  /\ gateway[t] = "canceled"
  /\ txs' = [txs EXCEPT ![t].st = "cancelled"]
  /\ Unmoved /\ UNCHANGED <<subs, handler, owner, task>>

\* The administrator sets any status; no subscription follows it.
AdminSets(t, st) ==
  /\ txs[t].st # "none" /\ Act
  /\ txs' = [txs EXCEPT ![t].st = st]
  /\ marked' = IF st = "completed" THEN marked \cup {t} ELSE marked
  /\ UNCHANGED <<now, subs, gateway, handler, owner, task, told, fails>>

-----------------------------------------------------------------------------
(* The tasks: check-expired-subscriptions, activate-scheduled-subscriptions *)
(* and check-expiring-subscriptions.                                       *)

LoadOverdue ==
  /\ task.expire = {}
  /\ task' = [task EXCEPT !.expire = {s \in Active : Overdue(s)}]
  /\ Unmoved /\ UNCHANGED <<subs, txs, handler, owner>>

\* All of them in one commit.
Expire ==
  /\ task.expire # {}
  /\ subs' = [s \in Subs |-> IF s \in task.expire THEN [subs[s] EXCEPT !.st = "expired"] ELSE subs[s]]
  /\ task' = [task EXCEPT !.expire = {}]
  /\ Unmoved /\ UNCHANGED <<txs, handler, owner>>

\* Mutant of LoadStarting: only rows that are paid for.
LoadStartingPaid ==
  /\ task.activate = {}
  /\ task' = [task EXCEPT !.activate = {s \in WithStatus("suspended") : subs[s].start <= now /\
                \E t \in Txs : txs[t].sub = s /\ txs[t].st = "completed"}]
  /\ Unmoved /\ UNCHANGED <<subs, txs, handler, owner>>

\* Suspended rows whose start has come, whether or not they are paid.
LoadStarting ==
  /\ task.activate = {}
  /\ task' = [task EXCEPT !.activate = {s \in WithStatus("suspended") : subs[s].start <= now}]
  /\ Unmoved /\ UNCHANGED <<subs, txs, handler, owner>>

\* One commit for each; what else is active stays so.
Activate ==
  /\ \E s \in task.activate :
       /\ subs' = [subs EXCEPT ![s].st = "active"]
       /\ task' = [task EXCEPT !.activate = @ \ {s}]
  /\ Unmoved /\ UNCHANGED <<txs, handler, owner>>

\* Reminded once, then a payment for the same row.  With two active rows the renewal raises
\* and the reminder stays.
Remind(s) ==
  /\ task.renew = 0
  /\ s \in Active /\ subs[s].end # NoEnd /\ subs[s].end > now /\ subs[s].end - now \in Windows
  /\ s \notin told
  /\ told' = told \cup {s}
  /\ IF Cardinality(Active) = 1 /\ subs[s].priced
       THEN \E t \in NextTx : CreatePayment(t, s) /\ task' = [task EXCEPT !.renew = t]
       ELSE UNCHANGED <<txs, task>>
  /\ UNCHANGED <<now, subs, gateway, marked, handler, owner, fails, acts>>

RenewalAsksGateway ==
  /\ task.renew # 0
  /\ GatewayAnswers(task.renew)
  /\ task' = [task EXCEPT !.renew = 0]
  /\ UNCHANGED <<now, subs, marked, handler, owner, told, acts>>

\* A worker is killed: what the task had loaded is forgotten.
TaskDies(k) ==
  /\ Fail
  /\ task' = IF k = "renew" THEN [task EXCEPT !.renew = 0] ELSE [task EXCEPT ![k] = {}]
  /\ task' # task
  /\ UNCHANGED <<now, subs, txs, gateway, marked, handler, owner, told, acts>>

NextDay ==
  /\ now < Horizon
  /\ now' = now + 1
  /\ UNCHANGED <<subs, txs, gateway, marked, handler, owner, task, told, fails, acts>>

-----------------------------------------------------------------------------
OwnerNext ==
  \/ Login \/ LimitsExpire \/ ChangeTariff \/ Deactivate \/ InsertNew \/ OwnerCreatesPayment \/ OwnerAsksGateway
  \/ OwnerDies

AdminNext ==
  \/ AdminAssigns \/ AdminRenews
  \/ \E s \in Subs : AdminCancels(s)
  \/ \E t \in Txs, st \in Settable : AdminSets(t, st)

PaymentNext ==
  \/ \E t \in Txs : GatewayPays(t) \/ PaymentCanceled(t)
  \/ \E h \in Handlers :
       \/ PagePaid(h) \/ CommitPayment(h) \/ HandlerDies(h)
       \/ \E t \in Txs : WebhookPaid(h, t) \/ CheckPaid(h, t)

TaskNext ==
  \/ LoadOverdue \/ Expire \/ LoadStarting \/ Activate \/ RenewalAsksGateway
  \/ \E s \in Subs : Remind(s)
  \/ \E k \in {"expire", "activate", "renew"} : TaskDies(k)

Next == OwnerNext \/ AdminNext \/ PaymentNext \/ TaskNext \/ NextDay

\* The beat runs the tasks again and again; YooKassa repeats a webhook until it is answered,
\* and a request that is not killed ends.
Fairness ==
  /\ WF_vars(LoadOverdue) /\ WF_vars(Expire) /\ WF_vars(LoadStarting) /\ WF_vars(Activate)
  /\ \A h \in Handlers : WF_vars(CommitPayment(h))
  /\ \A t \in Txs : SF_vars(\E h \in Handlers : WebhookPaid(h, t))

Spec == Init /\ [][Next]_vars /\ Fairness

-----------------------------------------------------------------------------
\* The rows have the shape the tables give them, and requests hold rows that exist.
TypeOK ==
  /\ now \in 1 .. Horizon
  /\ subs \in [Subs -> [st : SubStatus, start : Days, end : Days, priced : BOOLEAN]]
  /\ txs \in [Txs -> [st : TxStatus, sub : Subs, ext : BOOLEAN]]
  /\ gateway \in [Txs -> {"none", "open", "paid", "canceled"}]
  /\ marked \subseteq Txs
  /\ handler \in [Handlers -> [tx : 0 .. MaxTxs, seen : SubStatus \cup {"early"}, done : BOOLEAN]]
  /\ \A h \in Handlers : handler[h].tx \in Txs \/ handler[h] = IdleHandler
  /\ owner \in [pc : {"idle", "deactivate", "insert", "pay", "ask"}, sub : 0 .. MaxSubs,
                 tx : 0 .. MaxTxs, start : Days, priced : BOOLEAN]
  /\ task \in [expire : SUBSET Subs, activate : SUBSET Subs, renew : 0 .. MaxTxs]
  /\ told \subseteq Subs
  /\ fails \in 0 .. MaxFails /\ acts \in 0 .. MaxActs

\* A subscription to a tariff that follows another one is never active before its start,
\* whichever of the task, the webhook, the page and the administrator's check comes first.
NotBeforeStart == \A s \in Active : subs[s].start <= now

\* A transaction is completed only if the gateway has the money or the administrator said so.
BookedIsPaid == \A t \in Txs : txs[t].st = "completed" => gateway[t] = "paid" \/ t \in marked

\* A session that may write over a cancellation it has not seen.
ReadBefore(s) ==
  \/ s \in task.expire \cup task.activate
  \/ \E h \in Handlers :
       handler[h] # IdleHandler /\ txs[handler[h].tx].sub = s /\ handler[h].seen # "cancelled"

\* A cancelled subscription comes back only through a session that had read it before it was
\* cancelled: no payment and no task brings back one that is seen cancelled.
CancelledStays ==
  [][\A s \in Subs : subs[s].st = "cancelled" /\ subs'[s].st # "cancelled" => ReadBefore(s)]_vars

\* Money the gateway has taken is booked, though webhooks are lost, late or repeated and
\* requests die.
PaidIsBooked == \A t \in Txs : gateway[t] = "paid" ~> txs[t].st = "completed"

\* A suspended subscription whose start has come does not wait for ever.
WaitingStarts ==
  \A s \in Subs : (subs[s].st = "suspended" /\ subs[s].start <= now) ~> subs[s].st # "suspended"

\* Against owner.py:8057: a subscription made by a change of tariff is active only once paid.
PaidFirst ==
  [][\A s \in Subs : subs[s].st = "suspended" /\ subs'[s].st = "active" /\ subs[s].priced =>
       \E t \in Txs : txs[t].sub = s /\ gateway[t] = "paid"]_vars

\* Against owner.py:8163: the new tariff begins when the current one ends, which until then
\* is in force.
NoGap ==
  \A s \in WithStatus("suspended") : subs[s].start > now => Active # {}
===============================================================================
