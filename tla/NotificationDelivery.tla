------------------------ MODULE NotificationDelivery ------------------------
(***************************************************************************)
(* Notifications from the task that creates them to the messenger and the  *)
(* web centre: check_shifts_did_not_start looks for planned shifts nobody  *)
(* has begun and inserts a notification on each channel of the owner;      *)
(* send_notification_now sends one of them by its id; process_reminders    *)
(* sweeps up, every minute, all that are still pending; the owner reads    *)
(* and deletes those of the web centre meanwhile.                          *)
(*                                                                         *)
(* The senders load a row, talk to the messenger, and then write their     *)
(* verdict by id, whatever the row holds by then; no row is locked.        *)
(***************************************************************************)
EXTENDS Naturals, FiniteSets

CONSTANTS
  Events,       \* the planned shifts that an hour after their start nobody has begun
  Messengers,   \* the channels outside that the owner has linked and not switched off
  InApp,        \* the channel of the web centre
  Checkers,     \* processes that may run check_shifts_did_not_start at once
  Sweepers,     \* processes that may run process_reminders at once
  Singles,      \* processes that may run send_notification_now at once
  Attempts,     \* [Messengers -> Nat], how often the sender of a messenger tries
  NoEvent,
  MaxNotes,     \* bound: rows of the table
  MaxGone       \* bound: rows the owner deletes

ASSUME DeliveryAssumption ==
  /\ InApp \notin Messengers
  /\ NoEvent \notin Events
  /\ Sweepers \cap Singles = {}
  /\ Attempts \in [Messengers -> Nat \ {0}]
  /\ MaxNotes \in Nat
  /\ MaxGone \in Nat

VARIABLES
  missed,       \* the events the query of the task returns
  note,         \* the rows of notifications: status, event, channel
  delivered,    \* what the messengers have shown
  queue,        \* the jobs send_notification_now, by the id they carry
  chk,          \* the run of check_shifts_did_not_start of each checker
  snd           \* what each sender has loaded and is sending

vars == <<missed, note, delivered, queue, chk, snd>>

NoteIds == 1 .. MaxNotes
Channels == Messengers \cup {InApp}
Senders == Sweepers \cup Singles

NoNote == [status |-> "none", event |-> NoEvent, channel |-> InApp]

\* The rows that are in the table.
Present == {n \in NoteIds : note[n].status \notin {"none", "gone"}}
NotesOf(e) == {n \in Present : note[n].event = e}

NextNote(n) ==
  /\ n \in NoteIds
  /\ note[n].status = "none"
  /\ \A m \in NoteIds : m < n => note[m].status # "none"

IdleChecker == [pc |-> "idle", todo |-> {}, event |-> NoEvent, left |-> {}, made |-> {}]
IdleSender == [pc |-> "idle", batch |-> {}, note |-> 0, tries |-> 0, ok |-> FALSE]

Init ==
  /\ missed = Events
  /\ note = [n \in NoteIds |-> NoNote]
  /\ delivered = [n \in NoteIds |-> FALSE]
  /\ queue = {}
  /\ chk = [p \in Checkers |-> IdleChecker]
  /\ snd = [s \in Senders |-> IdleSender]

-----------------------------------------------------------------------------
(* check_shifts_did_not_start.                                             *)

\* The shift is begun after all, cancelled or closed, or a day has passed.
Resolve(e) ==
  /\ e \in missed
  /\ missed' = missed \ {e}
  /\ UNCHANGED <<note, delivered, queue, chk, snd>>

StartCheck(p) ==
  /\ chk[p].pc = "idle"
  /\ missed # {}
  /\ chk' = [chk EXCEPT ![p] = [IdleChecker EXCEPT !.pc = "events", !.todo = missed]]
  /\ UNCHANGED <<missed, note, delivered, queue, snd>>

\* Mutant of LookAtEvent: no look for an earlier notification.
LookAtEventBlind(p, e) ==
  /\ chk[p].pc = "events"
  /\ e \in chk[p].todo
  /\ chk' = [chk EXCEPT ![p] = [pc |-> "create", todo |-> chk[p].todo \ {e}, event |-> e,
                                left |-> Messengers, made |-> {}]]
  /\ UNCHANGED <<missed, note, delivered, queue, snd>>

\* _check_notification_exists counts the rows of the event on any channel.
LookAtEvent(p, e) ==
  /\ chk[p].pc = "events"
  /\ e \in chk[p].todo
  /\ \/ /\ NotesOf(e) = {}
        /\ chk' = [chk EXCEPT ![p] = [pc |-> "create", todo |-> chk[p].todo \ {e}, event |-> e,
                                      left |-> Messengers, made |-> {}]]
     \/ /\ NotesOf(e) # {}
        /\ chk' = [chk EXCEPT ![p].todo = @ \ {e}]
  /\ UNCHANGED <<missed, note, delivered, queue, snd>>

InsertNote(n, e, c) ==
  /\ NextNote(n)
  /\ note' = [note EXCEPT ![n] = [status |-> "pending", event |-> e, channel |-> c]]

\* create_notification commits each row by itself.
CreateForMessenger(p, c, n) ==
  /\ chk[p].pc = "create"
  /\ c \in chk[p].left
  /\ InsertNote(n, chk[p].event, c)
  /\ chk' = [chk EXCEPT ![p] = [chk[p] EXCEPT !.left = @ \ {c}, !.made = @ \cup {n}]]
  /\ UNCHANGED <<missed, delivered, queue, snd>>

\* It swallows its exceptions: the task goes on without the row.
CreateFails(p, c) ==
  /\ chk[p].pc = "create"
  /\ c \in chk[p].left
  /\ chk' = [chk EXCEPT ![p].left = @ \ {c}]
  /\ UNCHANGED <<missed, note, delivered, queue, snd>>

\* The jobs are queued after the rows, those the broker takes.
Enqueue(p) ==
  /\ chk[p].pc = "create"
  /\ chk[p].left = {}
  /\ \E taken \in SUBSET chk[p].made : queue' = queue \cup taken
  /\ chk' = [chk EXCEPT ![p] = [chk[p] EXCEPT !.pc = "inApp", !.made = {}]]
  /\ UNCHANGED <<missed, note, delivered, snd>>

\* The row of the web centre comes last, and no job is queued for it.
CreateInApp(p) ==
  /\ chk[p].pc = "inApp"
  /\ \/ \E n \in NoteIds : InsertNote(n, chk[p].event, InApp)
     \/ UNCHANGED note
  /\ chk' = [chk EXCEPT ![p] = [chk[p] EXCEPT !.pc = "events", !.event = NoEvent]]
  /\ UNCHANGED <<missed, delivered, queue, snd>>

\* The run ends, or is killed wherever it is.
EndCheck(p) ==
  /\ chk[p].pc # "idle"
  /\ chk' = [chk EXCEPT ![p] = IdleChecker]
  /\ UNCHANGED <<missed, note, delivered, queue, snd>>

-----------------------------------------------------------------------------
(* The senders.                                                            *)

\* The rows of the sweep are loaded at once.
Pending == {n \in NoteIds : note[n].status = "pending"}

\* Mutant of StartSweep: rows without scheduled_at are not selected, and a
\* row that has it is none of those modelled here.
StartSweepScheduled(s) ==
  /\ snd[s].pc = "idle"
  /\ snd' = [snd EXCEPT ![s] = [IdleSender EXCEPT !.pc = "batch"]]
  /\ UNCHANGED <<missed, note, delivered, queue, chk>>

StartSweep(s) ==
  /\ snd[s].pc = "idle"
  /\ Pending # {}
  /\ snd' = [snd EXCEPT ![s] = [IdleSender EXCEPT !.pc = "batch", !.batch = Pending]]
  /\ UNCHANGED <<missed, note, delivered, queue, chk>>

\* Sender s turns to row n: the web centre needs no sending; a user who has
\* unlinked the messenger cannot be reached.
TurnTo(s, n, rest) ==
  \E pc \in IF note[n].channel = InApp THEN {"mark"} ELSE {"attempt", "mark"} :
    snd' = [snd EXCEPT ![s] = [pc |-> pc, batch |-> rest, note |-> n, tries |-> 0,
                               ok |-> note[n].channel = InApp]]

\* The loaded row is sent without another look at its status.
TakeNext(s, n) ==
  /\ snd[s].pc = "batch"
  /\ n \in snd[s].batch
  /\ TurnTo(s, n, snd[s].batch \ {n})
  /\ UNCHANGED <<missed, note, delivered, queue, chk>>

\* send_notification_now sends only what is pending.
TakeJob(s, n) ==
  /\ snd[s].pc = "idle"
  /\ n \in queue
  /\ queue' = queue \ {n}
  /\ IF note[n].status = "pending" THEN TurnTo(s, n, {}) ELSE UNCHANGED snd
  /\ UNCHANGED <<missed, note, delivered, chk>>

\* Where a sender goes after a row, if it lives.
Done(s) ==
  IF s \in Sweepers
  THEN [IdleSender EXCEPT !.pc = "batch", !.batch = snd[s].batch]
  ELSE IdleSender

Tried(s) == [snd[s] EXCEPT !.tries = @ + 1]
Verdict(s, ok) == [snd[s] EXCEPT !.pc = "mark", !.ok = ok]
LastTry(s) == snd[s].tries + 1 >= Attempts[note[snd[s].note].channel]

\* Mutant of Attempt: an attempt too many.
AttemptOnceMore(s) ==
  LET n == snd[s].note
  IN /\ snd[s].pc = "attempt"
     /\ \E shown \in BOOLEAN, answer \in {"ok", "given_up", "error"} :
          /\ answer = "ok" => shown
          /\ delivered' = [delivered EXCEPT ![n] = @ \/ shown]
          /\ snd' = [snd EXCEPT ![s] =
               CASE answer = "ok" -> Verdict(s, TRUE)
                 [] answer = "given_up" -> Verdict(s, FALSE)
                 [] answer = "error" -> IF snd[s].tries >= Attempts[note[n].channel]
                                        THEN Verdict(s, FALSE) ELSE Tried(s)]
     /\ UNCHANGED <<missed, note, queue, chk>>

\* Mutant of Attempt: after the last attempt the loop falls through to success.
AttemptOptimistic(s) ==
  LET n == snd[s].note
  IN /\ snd[s].pc = "attempt"
     /\ \E shown \in BOOLEAN, answer \in {"ok", "given_up", "error"} :
          /\ answer = "ok" => shown
          /\ delivered' = [delivered EXCEPT ![n] = @ \/ shown]
          /\ snd' = [snd EXCEPT ![s] =
               CASE answer = "ok" -> Verdict(s, TRUE)
                 [] answer = "given_up" -> Verdict(s, FALSE)
                 [] answer = "error" -> IF LastTry(s) THEN Verdict(s, TRUE) ELSE Tried(s)]
     /\ UNCHANGED <<missed, note, queue, chk>>

\* One call of the messenger: answered, given up (refused for good, or an
\* unexpected exception), or an error worth another try.  Whatever the answer,
\* the message may have been shown.
Attempt(s) ==
  LET n == snd[s].note
  IN /\ snd[s].pc = "attempt"
     /\ \E shown \in BOOLEAN, answer \in {"ok", "given_up", "error"} :
          /\ answer = "ok" => shown
          /\ delivered' = [delivered EXCEPT ![n] = @ \/ shown]
          /\ snd' = [snd EXCEPT ![s] =
               CASE answer = "ok" -> Verdict(s, TRUE)
                 [] answer = "given_up" -> Verdict(s, FALSE)
                 [] answer = "error" -> IF LastTry(s) THEN Verdict(s, FALSE) ELSE Tried(s)]
     /\ UNCHANGED <<missed, note, queue, chk>>

\* Mutant of Mark: only a success is written.
MarkSentOnly(s) ==
  LET n == snd[s].note
  IN /\ snd[s].pc = "mark"
     /\ note' = IF n \in Present /\ snd[s].ok THEN [note EXCEPT ![n].status = "sent"] ELSE note
     /\ snd' = [snd EXCEPT ![s] = Done(s)]
     /\ UNCHANGED <<missed, delivered, queue, chk>>

\* _mark updates by id, and a deleted row not at all.
Mark(s) ==
  LET n == snd[s].note
  IN /\ snd[s].pc = "mark"
     /\ note' = IF n \in Present
                THEN [note EXCEPT ![n].status = IF snd[s].ok THEN "sent" ELSE "failed"]
                ELSE note
     /\ snd' = [snd EXCEPT ![s] = Done(s)]
     /\ UNCHANGED <<missed, delivered, queue, chk>>

\* An exception in the sweep: the row is marked as failed, or, when that raises
\* as well, left as it is.
SweepRaises(s) ==
  /\ s \in Sweepers
  /\ snd[s].pc \in {"attempt", "mark"}
  /\ snd' = [snd EXCEPT ![s] = IF snd[s].ok \/ snd[s].pc = "attempt" THEN Verdict(s, FALSE)
                               ELSE Done(s)]
  /\ UNCHANGED <<missed, note, delivered, queue, chk>>

\* The sweep is over, the task is killed, or an exception ends it: the job is
\* lost, the rows stay as they are.
EndSending(s) ==
  /\ snd[s].pc # "idle"
  /\ snd' = [snd EXCEPT ![s] = IdleSender]
  /\ UNCHANGED <<missed, note, delivered, queue, chk>>

-----------------------------------------------------------------------------
(* The owner, in the web centre, which lists the rows of its channel in     *)
(* every status.                                                           *)

Shown == {n \in Present : note[n].channel = InApp}

MarkAsRead(n) ==
  /\ n \in Shown
  /\ note' = [note EXCEPT ![n].status = "read"]
  /\ UNCHANGED <<missed, delivered, queue, chk, snd>>

MarkAllAsRead ==
  /\ \E n \in Shown : note[n].status # "read"
  /\ note' = [n \in NoteIds |->
       IF n \in Shown THEN [note[n] EXCEPT !.status = "read"] ELSE note[n]]
  /\ UNCHANGED <<missed, delivered, queue, chk, snd>>

DeleteNotification(n) ==
  /\ n \in Shown
  /\ Cardinality({m \in NoteIds : note[m].status = "gone"}) < MaxGone
  /\ note' = [note EXCEPT ![n].status = "gone"]
  /\ UNCHANGED <<missed, delivered, queue, chk, snd>>

-----------------------------------------------------------------------------
CheckerStep(p) ==
  \/ StartCheck(p)
  \/ \E e \in Events : LookAtEvent(p, e)
  \/ \E c \in Messengers : CreateFails(p, c) \/ \E n \in NoteIds : CreateForMessenger(p, c, n)
  \/ Enqueue(p)
  \/ CreateInApp(p)
  \/ EndCheck(p)

SenderStep(s) ==
  \/ s \in Sweepers /\ StartSweep(s)
  \/ s \in Singles /\ \E n \in NoteIds : TakeJob(s, n)
  \/ \E n \in NoteIds : TakeNext(s, n)
  \/ Attempt(s)
  \/ Mark(s)
  \/ SweepRaises(s)
  \/ EndSending(s)

OwnerStep ==
  \/ \E n \in NoteIds : MarkAsRead(n) \/ DeleteNotification(n)
  \/ MarkAllAsRead

Next ==
  \/ \E e \in Events : Resolve(e)
  \/ \E p \in Checkers : CheckerStep(p)
  \/ \E s \in Senders : SenderStep(s)
  \/ OwnerStep

Spec == Init /\ [][Next]_vars

\* Both tasks are scheduled for ever (every ten minutes, every minute).  A run
\* may be killed or fail for ever, but not each time at the same row and at the
\* same attempt.
Fairness ==
  /\ \A p \in Checkers :
       /\ WF_vars(StartCheck(p))
       /\ WF_vars(EndCheck(p))
       /\ \A e \in Events : SF_vars(LookAtEvent(p, e))
       /\ SF_vars(\E c \in Messengers, n \in NoteIds : CreateForMessenger(p, c, n))
       /\ SF_vars(Enqueue(p))
       /\ SF_vars(CreateInApp(p) /\ note' # note)
  /\ \A s \in Sweepers :
       /\ WF_vars(StartSweep(s))
       /\ WF_vars(EndSending(s))
       /\ \A n \in NoteIds :
            /\ SF_vars(TakeNext(s, n))
            /\ \A m \in Messengers : \A t \in 0 .. Attempts[m] - 1 :
                 SF_vars(Attempt(s) /\ snd[s].note = n /\ snd[s].tries = t)
            /\ SF_vars(Mark(s) /\ snd[s].note = n)

FairSpec == Spec /\ Fairness

-----------------------------------------------------------------------------
(* Properties.                                                             *)

NoteRow == [status : {"none", "pending", "sent", "failed", "read", "gone"},
            event : Events \cup {NoEvent}, channel : Channels]

Checker == [pc : {"idle", "events", "create", "inApp"}, todo : SUBSET Events,
            event : Events \cup {NoEvent}, left : SUBSET Messengers, made : SUBSET NoteIds]

Sender == [pc : {"idle", "batch", "attempt", "mark"}, batch : SUBSET NoteIds,
           note : NoteIds \cup {0}, tries : Nat, ok : BOOLEAN]

\* The variables have their types, and a sender tries a messenger at most as
\* often as max_retries allows.
TypeOK ==
  /\ missed \subseteq Events
  /\ note \in [NoteIds -> NoteRow]
  /\ delivered \in [NoteIds -> BOOLEAN]
  /\ queue \subseteq NoteIds
  /\ chk \in [Checkers -> Checker]
  /\ snd \in [Senders -> Sender]
  /\ \A s \in Senders :
       snd[s].pc = "attempt" => snd[s].tries < Attempts[note[snd[s].note].channel]

\* The notifications keep the promise of the outbox: in particular one that is
\* shown as sent has been shown by its messenger.
Outbox == INSTANCE NotificationOutbox WITH Ids <- NoteIds
KeepsOutbox == Outbox!Spec

\* One event has at most one notification on a channel.
OneNotice ==
  \A m, n \in Present :
    note[m].event = note[n].event /\ note[m].channel = note[n].channel => m = n

\* What the owner has read stays read until it is deleted.
ReadStaysRead ==
  [][\A n \in NoteIds : note[n].status = "read" => note'[n].status \in {"read", "gone"}]_vars

\* Whatever fails or is killed, no notification stays pending for ever.
PendingSettles == \A n \in NoteIds : note[n].status = "pending" ~> note[n].status # "pending"

\* Whatever fails or is killed, a shift that stays not started comes to a
\* verdict: one of its notifications has been sent, has failed or was handled
\* by the owner.
MissedIsReported ==
  \A e \in Events :
    e \in missed ~> \/ e \notin missed
                    \/ \E n \in NoteIds : /\ note[n].event = e
                                          /\ note[n].status \notin {"none", "pending"}

=============================================================================
