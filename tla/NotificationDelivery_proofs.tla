-------------------- MODULE NotificationDelivery_proofs --------------------
(***************************************************************************)
(* Theorems of NotificationDelivery, for any number of events, messengers, *)
(* checkers, senders and rows.                                             *)
(***************************************************************************)
EXTENDS NotificationDelivery, TLAPS

Inserted == {n \in NoteIds : note[n].status # "none"}

\* A checker that creates has an event, and remembers rows it has inserted.
CheckerOK(p) ==
  /\ chk[p].pc \in {"create", "inApp"} => chk[p].event \in Events
  /\ chk[p].made \subseteq Inserted

\* A sender works on rows that have been inserted, tries messengers only, no
\* oftener than they allow, and knows of a success because there was one.
SenderOK(s) ==
  /\ snd[s].batch \subseteq Inserted
  /\ snd[s].pc \in {"attempt", "mark"} => snd[s].note \in Inserted
  /\ snd[s].pc = "attempt" =>
       /\ note[snd[s].note].channel \in Messengers
       /\ snd[s].tries < Attempts[note[snd[s].note].channel]
       /\ ~snd[s].ok
  /\ snd[s].pc = "mark" /\ snd[s].ok =>
       note[snd[s].note].channel = InApp \/ delivered[snd[s].note]

IInv ==
  /\ TypeOK
  /\ queue \subseteq Inserted
  /\ \A p \in Checkers : CheckerOK(p)
  /\ \A s \in Senders : SenderOK(s)

LEMMA InitIInv == Init => IInv
<1> USE DeliveryAssumption
<1> SUFFICES ASSUME Init PROVE IInv OBVIOUS
<1>1. /\ note \in [NoteIds -> NoteRow]
      /\ chk \in [Checkers -> Checker]
      /\ snd \in [Senders -> Sender]
  BY DEF Init, NoNote, NoteRow, Channels, IdleChecker, Checker, IdleSender, Sender
<1>2. TypeOK
  BY <1>1 DEF Init, TypeOK, IdleSender
<1>3. \A p \in Checkers : CheckerOK(p)
  BY DEF Init, IdleChecker, CheckerOK
<1>4. \A s \in Senders : SenderOK(s)
  BY DEF Init, IdleSender, SenderOK
<1> QED BY <1>2, <1>3, <1>4 DEF Init, IInv

-----------------------------------------------------------------------------
(* What every step keeps: no row is moved to another event or channel, none *)
(* is taken back, and what a messenger has shown it has shown.             *)

Stable ==
  /\ note' \in [NoteIds -> NoteRow]
  /\ delivered' \in [NoteIds -> BOOLEAN]
  /\ \A n \in Inserted : /\ note'[n].status # "none"
                         /\ note'[n].channel = note[n].channel
                         /\ note'[n].event = note[n].event
                         /\ delivered[n] => delivered'[n]

\* The agents a stable step leaves alone are as well off as before.
LEMMA StableOthers ==
  ASSUME IInv, Stable
  PROVE  /\ Inserted \subseteq Inserted'
         /\ \A p \in Checkers : chk'[p] = chk[p] => CheckerOK(p)'
         /\ \A s \in Senders : snd'[s] = snd[s] => SenderOK(s)'
<1>1. Inserted \subseteq Inserted'
  BY DEF Inserted, Stable
<1>2. ASSUME NEW p \in Checkers, chk'[p] = chk[p] PROVE CheckerOK(p)'
  BY <1>1, <1>2 DEF IInv, CheckerOK
<1>3. ASSUME NEW s \in Senders, snd'[s] = snd[s] PROVE SenderOK(s)'
  BY <1>1, <1>3 DEF IInv, SenderOK, Stable
<1> QED BY <1>1, <1>2, <1>3

\* A step that is stable and leaves its own agent well off keeps the invariant.
LEMMA StableStep ==
  ASSUME IInv, Stable,
         missed' \subseteq Events,
         queue' \subseteq Inserted',
         chk' \in [Checkers -> Checker],
         snd' \in [Senders -> Sender],
         \A p \in Checkers : chk'[p] = chk[p] \/ CheckerOK(p)',
         \A s \in Senders : snd'[s] = snd[s] \/ SenderOK(s)'
  PROVE  IInv'
<1> USE DeliveryAssumption
<1>1. \A p \in Checkers : CheckerOK(p)'
  BY StableOthers
<1>2. \A s \in Senders : SenderOK(s)'
  BY StableOthers
<1>3. queue' \subseteq NoteIds
  BY DEF Inserted
<1>4. TypeOK'
  BY <1>2, <1>3 DEF TypeOK, Stable, SenderOK
<1> QED BY <1>1, <1>2, <1>4 DEF IInv

\* Steps that do not touch the rows.
LEMMA RowsKept ==
  ASSUME IInv, note' = note, delivered' = delivered
  PROVE  Stable /\ Inserted' = Inserted /\ Outbox!Next
  BY DEF IInv, TypeOK, Stable, Inserted, Outbox!Next

-----------------------------------------------------------------------------
(* The checker.                                                            *)

LEMMA InsertNoteLemma ==
  ASSUME IInv, NEW n \in NoteIds, NEW e \in Events, NEW c \in Channels,
         InsertNote(n, e, c), delivered' = delivered
  PROVE  Stable /\ n \in Inserted' /\ Outbox!Next
<1>1. /\ note' = [note EXCEPT ![n] = [status |-> "pending", event |-> e, channel |-> c]]
      /\ note[n].status = "none"
  BY DEF InsertNote, NextNote
<1>2. note \in [NoteIds -> NoteRow] /\ delivered \in [NoteIds -> BOOLEAN]
  BY DEF IInv, TypeOK
<1>3. /\ note' \in [NoteIds -> NoteRow]
      /\ note'[n] = [status |-> "pending", event |-> e, channel |-> c]
      /\ \A m \in NoteIds : m # n => note'[m] = note[m]
  BY <1>1, <1>2 DEF NoteRow
<1>4. Stable /\ n \in Inserted'
  BY <1>1, <1>2, <1>3 DEF Stable, Inserted
<1>5. Outbox!Insert(n)
  BY <1>1, <1>3 DEF Outbox!Insert, Channels
<1> QED BY <1>3, <1>4, <1>5 DEF Outbox!Next

LEMMA CheckerSteps ==
  ASSUME IInv, NEW p \in Checkers, CheckerStep(p)
  PROVE  IInv' /\ Outbox!Next
<1> USE DeliveryAssumption
<1>0. /\ chk \in [Checkers -> Checker] /\ snd \in [Senders -> Sender]
      /\ missed \subseteq Events /\ queue \subseteq Inserted /\ CheckerOK(p)
  BY DEF IInv, TypeOK
<1>1. CASE StartCheck(p)
  <2>1. chk' \in [Checkers -> Checker] /\ \A q \in Checkers : chk'[q] = chk[q] \/ CheckerOK(q)'
    BY <1>0, <1>1 DEF StartCheck, IdleChecker, Checker, CheckerOK
  <2> QED BY <1>0, <1>1, <2>1, RowsKept, StableStep DEF StartCheck
<1>2. ASSUME NEW e \in Events, LookAtEvent(p, e) PROVE IInv' /\ Outbox!Next
  <2>1. chk' \in [Checkers -> Checker]
    BY <1>0, <1>2 DEF LookAtEvent, Checker
  <2>2. \A q \in Checkers : chk'[q] = chk[q] \/ CheckerOK(q)'
    BY <1>0, <1>2, RowsKept DEF LookAtEvent, Checker, CheckerOK
  <2> QED BY <1>0, <1>2, <2>1, <2>2, RowsKept, StableStep DEF LookAtEvent
<1>3. ASSUME NEW c \in Messengers, CreateFails(p, c) PROVE IInv' /\ Outbox!Next
  <2>1. chk' \in [Checkers -> Checker]
    BY <1>0, <1>3 DEF CreateFails, Checker
  <2>2. \A q \in Checkers : chk'[q] = chk[q] \/ CheckerOK(q)'
    BY <1>0, <1>3, RowsKept DEF CreateFails, Checker, CheckerOK
  <2> QED BY <1>0, <1>3, <2>1, <2>2, RowsKept, StableStep DEF CreateFails
<1>4. ASSUME NEW c \in Messengers, NEW n \in NoteIds, CreateForMessenger(p, c, n)
      PROVE  IInv' /\ Outbox!Next
  <2>1. Stable /\ n \in Inserted' /\ Outbox!Next
    BY <1>0, <1>4, InsertNoteLemma DEF CreateForMessenger, Channels, CheckerOK
  <2>2. chk' \in [Checkers -> Checker]
    BY <1>0, <1>4 DEF CreateForMessenger, Checker
  <2>3. Inserted \subseteq Inserted'
    BY <2>1, StableOthers
  <2>4. \A q \in Checkers : chk'[q] = chk[q] \/ CheckerOK(q)'
    BY <1>0, <1>4, <2>1, <2>3 DEF CreateForMessenger, Checker, CheckerOK
  <2> QED BY <1>0, <1>4, <2>1, <2>2, <2>3, <2>4, StableStep DEF CreateForMessenger
<1>5. CASE Enqueue(p)
  <2>1. chk' \in [Checkers -> Checker]
    BY <1>0, <1>5 DEF Enqueue, Checker
  <2>2. \A q \in Checkers : chk'[q] = chk[q] \/ CheckerOK(q)'
    BY <1>0, <1>5, RowsKept DEF Enqueue, Checker, CheckerOK
  <2>3. queue' \subseteq Inserted
    BY <1>0, <1>5 DEF Enqueue, CheckerOK
  <2> QED BY <1>0, <1>5, <2>1, <2>2, <2>3, RowsKept, StableStep DEF Enqueue
<1>6. CASE CreateInApp(p)
  <2>1. Stable /\ Outbox!Next
    BY <1>0, <1>6, RowsKept, InsertNoteLemma DEF CreateInApp, Channels, CheckerOK
  <2>2. chk' \in [Checkers -> Checker]
    BY <1>0, <1>6 DEF CreateInApp, Checker
  <2>3. Inserted \subseteq Inserted'
    BY <2>1, StableOthers
  <2>4. \A q \in Checkers : chk'[q] = chk[q] \/ CheckerOK(q)'
    BY <1>0, <1>6, <2>3 DEF CreateInApp, Checker, CheckerOK
  <2> QED BY <1>0, <1>6, <2>1, <2>2, <2>3, <2>4, StableStep DEF CreateInApp
<1>7. CASE EndCheck(p)
  <2>1. chk' \in [Checkers -> Checker] /\ \A q \in Checkers : chk'[q] = chk[q] \/ CheckerOK(q)'
    BY <1>0, <1>7 DEF EndCheck, IdleChecker, Checker, CheckerOK
  <2> QED BY <1>0, <1>7, <2>1, RowsKept, StableStep DEF EndCheck
<1> QED BY <1>1, <1>2, <1>3, <1>4, <1>5, <1>6, <1>7 DEF CheckerStep
-----------------------------------------------------------------------------
(* The senders.                                                            *)

\* A step that changes nothing but its sender, and leaves it well off.
LEMMA SenderAlone ==
  ASSUME IInv, NEW s \in Senders, UNCHANGED <<missed, note, delivered, chk>>,
         queue' \subseteq queue,
         \/ snd' = snd
         \/ /\ snd' = [snd EXCEPT ![s] = snd'[s]]
            /\ snd'[s] \in Sender
            /\ SenderOK(s)'
  PROVE  IInv' /\ Outbox!Next
<1>1. /\ missed' \subseteq Events /\ chk' \in [Checkers -> Checker]
      /\ snd \in [Senders -> Sender] /\ queue \subseteq Inserted
  BY DEF IInv, TypeOK
<1>2. snd' \in [Senders -> Sender]
  BY <1>1
<1>3. \A r \in Senders : snd'[r] = snd[r] \/ SenderOK(r)'
  BY <1>1
<1>4. queue' \subseteq Inserted'
  BY <1>1, RowsKept
<1> QED BY <1>1, <1>2, <1>3, <1>4, RowsKept, StableStep

LEMMA TurnToLemma ==
  ASSUME IInv, NEW s \in Senders, NEW n \in Inserted, NEW rest \in SUBSET Inserted,
         TurnTo(s, n, rest), note' = note, delivered' = delivered
  PROVE  snd' = [snd EXCEPT ![s] = snd'[s]] /\ snd'[s] \in Sender /\ SenderOK(s)'
<1> USE DeliveryAssumption
<1>1. /\ note[n] \in NoteRow /\ snd \in [Senders -> Sender] /\ rest \subseteq NoteIds
      /\ n \in NoteIds /\ Inserted' = Inserted
  BY RowsKept DEF IInv, TypeOK, Inserted
<1>2. PICK pc \in IF note[n].channel = InApp THEN {"mark"} ELSE {"attempt", "mark"} :
        snd' = [snd EXCEPT ![s] = [pc |-> pc, batch |-> rest, note |-> n, tries |-> 0,
                                   ok |-> note[n].channel = InApp]]
  BY DEF TurnTo
<1>3. snd'[s] = [pc |-> pc, batch |-> rest, note |-> n, tries |-> 0,
                 ok |-> note[n].channel = InApp]
  BY <1>1, <1>2
<1>4. snd'[s] \in Sender
  BY <1>1, <1>2, <1>3 DEF Sender
<1>5. pc = "attempt" => note[n].channel \in Messengers
  BY <1>1, <1>2 DEF NoteRow, Channels
<1>6. pc = "attempt" => 0 < Attempts[note[n].channel]
  BY <1>5
<1>7. pc = "attempt" => note[n].channel # InApp
  BY <1>5
<1>8. SenderOK(s)'
  <2>1. /\ snd'[s].pc = pc /\ snd'[s].batch = rest /\ snd'[s].note = n /\ snd'[s].tries = 0
        /\ snd'[s].ok = (note[n].channel = InApp)
    BY <1>3
  <2>2. note'[n].channel = note[n].channel
    OBVIOUS
  <2> QED BY <1>1, <1>5, <1>6, <1>7, <2>1, <2>2 DEF SenderOK
<1> QED BY <1>1, <1>2, <1>3, <1>4, <1>8

\* What a sender becomes has its type.
LEMMA SenderTypes ==
  ASSUME NEW s \in Senders, snd[s] \in Sender
  PROVE  /\ \A ok \in BOOLEAN : Verdict(s, ok) \in Sender
         /\ Tried(s) \in Sender
         /\ Done(s) \in Sender
<1>1. \A ok \in BOOLEAN : Verdict(s, ok) \in Sender
  BY DEF Verdict, Sender
<1>2. Tried(s) \in Sender
  BY DEF Tried, Sender
<1>3. Done(s) \in Sender
  BY DEF Done, IdleSender, Sender
<1> QED BY <1>1, <1>2, <1>3

LEMMA AttemptStep ==
  ASSUME IInv, NEW s \in Senders, Attempt(s)
  PROVE  IInv' /\ Outbox!Next
<1> DEFINE n == snd[s].note
<1> USE DeliveryAssumption
<1>1. /\ n \in NoteIds /\ n \in Inserted /\ snd \in [Senders -> Sender] /\ snd[s] \in Sender
      /\ note \in [NoteIds -> NoteRow] /\ delivered \in [NoteIds -> BOOLEAN]
      /\ note[n].channel \in Messengers /\ ~snd[s].ok
      /\ Attempts[note[n].channel] \in Nat
      /\ snd[s].batch \subseteq Inserted
      /\ missed \subseteq Events /\ queue \subseteq Inserted /\ chk \in [Checkers -> Checker]
  BY DEF Attempt, IInv, TypeOK, SenderOK, Inserted
<1>2. PICK shown \in BOOLEAN, answer \in {"ok", "given_up", "error"} :
        /\ answer = "ok" => shown
        /\ delivered' = [delivered EXCEPT ![n] = @ \/ shown]
        /\ snd' = [snd EXCEPT ![s] =
             CASE answer = "ok" -> Verdict(s, TRUE)
               [] answer = "given_up" -> Verdict(s, FALSE)
               [] answer = "error" -> IF LastTry(s) THEN Verdict(s, FALSE) ELSE Tried(s)]
  BY DEF Attempt
<1>3. note' = note /\ missed' = missed /\ queue' = queue /\ chk' = chk
  BY DEF Attempt
<1>4. /\ delivered' \in [NoteIds -> BOOLEAN]
      /\ shown => delivered'[n]
      /\ \A m \in NoteIds : delivered[m] => delivered'[m]
      /\ \A m \in NoteIds : m # n => delivered'[m] = delivered[m]
      /\ delivered'[n] = delivered[n] \/ delivered'[n] = TRUE
  <2>1. delivered' \in [NoteIds -> BOOLEAN]
    BY <1>1, <1>2
  <2>2. delivered'[n] = (delivered[n] \/ shown)
    BY <1>1, <1>2
  <2>3. \A m \in NoteIds : m # n => delivered'[m] = delivered[m]
    BY <1>1, <1>2
  <2> QED BY <1>1, <2>1, <2>2, <2>3
<1>5. Stable /\ Inserted' = Inserted
  BY <1>1, <1>3, <1>4 DEF Stable, Inserted
<1>6. Outbox!Next
  BY <1>1, <1>3, <1>4 DEF Outbox!Next, Outbox!Deliver, Inserted
<1>7. \/ snd'[s] = Verdict(s, FALSE)
      \/ snd'[s] = Verdict(s, TRUE) /\ delivered'[n]
      \/ snd'[s] = Tried(s) /\ ~LastTry(s)
  BY <1>1, <1>2, <1>4
<1>8. /\ snd[s].pc = "attempt" /\ snd[s].tries \in Nat /\ n \in NoteIds \cup {0}
  BY <1>1 DEF Attempt, Sender
<1>9. snd'[s] \in Sender
  BY <1>1, <1>7, SenderTypes
<1>10. snd' \in [Senders -> Sender]
  BY <1>1, <1>2, <1>9
<1>11. SenderOK(s)'
  <2>1. CASE snd'[s] = Verdict(s, FALSE)
    BY <1>1, <1>5, <2>1 DEF SenderOK, Verdict, Sender
  <2>2. CASE snd'[s] = Verdict(s, TRUE) /\ delivered'[n]
    BY <1>1, <1>5, <2>2 DEF SenderOK, Verdict, Sender
  <2>3. CASE snd'[s] = Tried(s) /\ ~LastTry(s)
    <3>1. snd[s].tries + 1 < Attempts[note[n].channel]
      BY <1>1, <1>8, <2>3 DEF LastTry
    <3> QED BY <1>1, <1>3, <1>5, <1>8, <2>3, <3>1 DEF SenderOK, Tried, Sender
  <2> QED BY <1>7, <2>1, <2>2, <2>3
<1>12. \A r \in Senders : snd'[r] = snd[r] \/ SenderOK(r)'
  BY <1>1, <1>2, <1>11
<1> QED BY <1>1, <1>3, <1>5, <1>6, <1>10, <1>12, StableStep

LEMMA MarkStep ==
  ASSUME IInv, NEW s \in Senders, Mark(s)
  PROVE  IInv' /\ Outbox!Next
<1> DEFINE n == snd[s].note
<1> USE DeliveryAssumption
<1>1. /\ n \in NoteIds /\ n \in Inserted /\ snd \in [Senders -> Sender] /\ snd[s] \in Sender
      /\ note \in [NoteIds -> NoteRow] /\ delivered \in [NoteIds -> BOOLEAN]
      /\ snd[s].ok => note[n].channel = InApp \/ delivered[n]
      /\ snd[s].batch \subseteq Inserted
      /\ missed \subseteq Events /\ queue \subseteq Inserted /\ chk \in [Checkers -> Checker]
  BY DEF Mark, IInv, TypeOK, SenderOK, Inserted
<1>2. missed' = missed /\ delivered' = delivered /\ queue' = queue /\ chk' = chk
  BY DEF Mark
<1>3. snd' \in [Senders -> Sender] /\ snd'[s] = Done(s)
      /\ \A r \in Senders : r # s => snd'[r] = snd[r]
  BY <1>1 DEF Mark, Done, IdleSender, Sender
<1>4. /\ note' \in [NoteIds -> NoteRow]
      /\ \A m \in NoteIds : m # n => note'[m] = note[m]
      /\ \/ note'[n] = note[n]
         \/ /\ n \in Present
            /\ note'[n] = [note[n] EXCEPT !.status = IF snd[s].ok THEN "sent" ELSE "failed"]
  BY <1>1 DEF Mark, NoteRow
<1>5. Stable
  BY <1>1, <1>2, <1>4 DEF Stable, Inserted, NoteRow
<1>6. note'[n] = note[n] \/ Outbox!Settle(n)
  <2>1. n \in Present => note[n].status \in {"pending", "sent", "failed", "read"}
    BY <1>1 DEF Present, NoteRow
  <2> QED BY <1>1, <1>4, <2>1 DEF Outbox!Settle
<1>7. Outbox!Next
  BY <1>2, <1>4, <1>6 DEF Outbox!Next
<1>8. Inserted \subseteq Inserted'
  BY <1>5, StableOthers
<1>9. SenderOK(s)'
  BY <1>1, <1>3, <1>8 DEF SenderOK, Done, IdleSender
<1> QED BY <1>1, <1>2, <1>3, <1>5, <1>7, <1>8, <1>9, StableStep

LEMMA SenderSteps ==
  ASSUME IInv, NEW s \in Senders, SenderStep(s)
  PROVE  IInv' /\ Outbox!Next
<1> USE DeliveryAssumption
<1>0. /\ snd \in [Senders -> Sender] /\ snd[s] \in Sender /\ SenderOK(s)
      /\ queue \subseteq Inserted
  BY DEF IInv, TypeOK
<1>1. CASE StartSweep(s)
  <2>1. Pending \subseteq Inserted
    BY DEF Pending, Inserted
  <2>2. snd' = [snd EXCEPT ![s] = snd'[s]] /\ snd'[s] \in Sender
    BY <1>0, <1>1, <2>1 DEF StartSweep, Sender, IdleSender, Inserted
  <2>3. SenderOK(s)'
    BY <1>0, <1>1, <2>1, RowsKept DEF StartSweep, SenderOK, IdleSender
  <2> QED BY <1>1, <2>2, <2>3, SenderAlone DEF StartSweep
<1>2. ASSUME NEW n \in NoteIds, TakeNext(s, n) PROVE IInv' /\ Outbox!Next
  <2>1. n \in Inserted /\ snd[s].batch \ {n} \in SUBSET Inserted
    BY <1>0, <1>2 DEF TakeNext, SenderOK
  <2> QED BY <1>2, <2>1, TurnToLemma, SenderAlone DEF TakeNext
<1>3. ASSUME NEW n \in NoteIds, TakeJob(s, n) PROVE IInv' /\ Outbox!Next
  <2>1. n \in Inserted /\ {} \in SUBSET Inserted
    BY <1>0, <1>3 DEF TakeJob
  <2>2. TurnTo(s, n, {}) \/ snd' = snd
    BY <1>3 DEF TakeJob
  <2> QED BY <1>3, <2>1, <2>2, TurnToLemma, SenderAlone DEF TakeJob
<1>4. CASE SweepRaises(s)
  <2>1. snd' = [snd EXCEPT ![s] = snd'[s]]
        /\ (snd'[s] = Verdict(s, FALSE) \/ snd'[s] = Done(s))
    BY <1>0, <1>4 DEF SweepRaises
  <2>2. snd'[s] \in Sender
    BY <1>0, <2>1, SenderTypes
  <2>3. SenderOK(s)'
    BY <1>0, <1>4, <2>1, RowsKept DEF SweepRaises, SenderOK, Verdict, Done, IdleSender, Sender
  <2> QED BY <1>4, <2>1, <2>2, <2>3, SenderAlone DEF SweepRaises
<1>5. CASE EndSending(s)
  <2>1. snd' = [snd EXCEPT ![s] = snd'[s]] /\ snd'[s] \in Sender /\ SenderOK(s)'
    BY <1>0, <1>5 DEF EndSending, IdleSender, Sender, SenderOK
  <2> QED BY <1>5, <2>1, SenderAlone DEF EndSending
<1> QED BY <1>1, <1>2, <1>3, <1>4, <1>5, AttemptStep, MarkStep DEF SenderStep

-----------------------------------------------------------------------------
(* The owner.                                                              *)

\* The owner changes the status of rows of the web centre alone.
LEMMA OwnerLemma ==
  ASSUME IInv, UNCHANGED <<missed, delivered, queue, chk, snd>>,
         note' \in [NoteIds -> NoteRow],
         \A n \in NoteIds :
           \/ note'[n] = note[n]
           \/ /\ n \in Shown
              /\ note'[n] \in {[note[n] EXCEPT !.status = "read"],
                               [note[n] EXCEPT !.status = "gone"]}
  PROVE  IInv' /\ Outbox!Next
<1>1. /\ note \in [NoteIds -> NoteRow] /\ delivered \in [NoteIds -> BOOLEAN]
      /\ missed \subseteq Events /\ queue \subseteq Inserted
      /\ chk \in [Checkers -> Checker] /\ snd \in [Senders -> Sender]
  BY DEF IInv, TypeOK
<1>2. Stable
  BY <1>1 DEF Stable, Inserted, NoteRow
<1>3. ASSUME NEW n \in NoteIds, note'[n] # note[n]
      PROVE  Outbox!Read(n) \/ Outbox!Delete(n)
  <2>1. note[n].channel = InApp /\ note[n].status \in {"pending", "sent", "failed", "read"}
    BY <1>1, <1>3 DEF Shown, Present, NoteRow
  <2> QED BY <1>3, <2>1 DEF Outbox!Read, Outbox!Delete
<1>4. Outbox!Next
  BY <1>3 DEF Outbox!Next
<1>5. Inserted \subseteq Inserted'
  BY <1>2, StableOthers
<1> QED BY <1>1, <1>2, <1>4, <1>5, StableStep

LEMMA OwnerSteps ==
  ASSUME IInv, OwnerStep
  PROVE  IInv' /\ Outbox!Next
<1>0. note \in [NoteIds -> NoteRow]
  BY DEF IInv, TypeOK
<1>1. CASE \E n \in NoteIds : MarkAsRead(n)
  BY <1>0, <1>1, OwnerLemma DEF MarkAsRead, NoteRow
<1>2. CASE \E n \in NoteIds : DeleteNotification(n)
  BY <1>0, <1>2, OwnerLemma DEF DeleteNotification, NoteRow
<1>3. CASE MarkAllAsRead
  BY <1>0, <1>3, OwnerLemma DEF MarkAllAsRead, NoteRow
<1> QED BY <1>1, <1>2, <1>3 DEF OwnerStep

-----------------------------------------------------------------------------
LEMMA NextIInv ==
  ASSUME IInv, [Next]_vars
  PROVE  IInv' /\ [Outbox!Next]_<<note, delivered>>
<1>1. CASE \E e \in Events : Resolve(e)
  <2>1. Stable /\ Inserted' = Inserted /\ Outbox!Next
    BY <1>1, RowsKept DEF Resolve
  <2> QED BY <1>1, <2>1, StableStep DEF Resolve, IInv, TypeOK
<1>2. CASE \E p \in Checkers : CheckerStep(p)
  BY <1>2, CheckerSteps
<1>3. CASE \E s \in Senders : SenderStep(s)
  BY <1>3, SenderSteps
<1>4. CASE OwnerStep
  BY <1>4, OwnerSteps
<1>5. CASE UNCHANGED vars
  <2>1. Stable /\ Inserted' = Inserted
    BY <1>5, RowsKept DEF vars
  <2> QED BY <1>5, <2>1, StableStep DEF vars, IInv, TypeOK
<1> QED BY <1>1, <1>2, <1>3, <1>4, <1>5 DEF Next

LEMMA InductiveInvariant == Spec => []IInv
BY InitIInv, NextIInv, PTL DEF Spec

\* The variables keep their types, and no sender exceeds its attempts.
THEOREM TypeCorrect == Spec => []TypeOK
<1>1. IInv => TypeOK
  BY DEF IInv
<1> QED BY <1>1, InductiveInvariant, PTL

\* The rows implement the outbox: whatever the senders' snapshots are worth by
\* the time they write, nothing is shown as sent that no messenger has shown.
THEOREM ImplementsOutbox == Spec => KeepsOutbox
<1>1. Init => Outbox!Init
  BY DEF Init, Outbox!Init, NoNote
<1>2. IInv /\ [Next]_vars => [Outbox!Next]_<<note, delivered>>
  BY NextIInv
<1> QED BY <1>1, <1>2, InductiveInvariant, PTL DEF Spec, KeepsOutbox, Outbox!Spec
-----------------------------------------------------------------------------
(* One event, one notification on a channel: secured by the look before the *)
(* rows are created as long as the runs of the task do not overlap.  The    *)
(* run overlap shows two of them that do.                                  *)

OneChecker == \A p, q \in Checkers : p = q

\* While a checker creates, the channels it has still to do are free.
Free(p) ==
  \A n \in NotesOf(chk[p].event) :
    /\ chk[p].pc = "create" => note[n].channel \notin chk[p].left \cup {InApp}
    /\ chk[p].pc = "inApp" => note[n].channel # InApp

OneInv ==
  /\ IInv
  /\ OneNotice
  /\ \A p \in Checkers : Free(p)

\* No row appears, and none moves.
NoNewRow ==
  \A n \in Present' : /\ n \in Present
                      /\ note'[n].event = note[n].event
                      /\ note'[n].channel = note[n].channel

LEMMA NoNewRowLemma ==
  ASSUME OneInv, NoNewRow
  PROVE  /\ OneNotice'
         /\ \A p \in Checkers : chk'[p] = chk[p] => Free(p)'
         /\ \A e : NotesOf(e)' \subseteq NotesOf(e)
<1>1. OneNotice'
  BY DEF OneInv, OneNotice, NoNewRow
<1>2. \A e : NotesOf(e)' \subseteq NotesOf(e)
  BY DEF NotesOf, NoNewRow
<1>3. ASSUME NEW p \in Checkers, chk'[p] = chk[p] PROVE Free(p)'
  BY <1>2, <1>3 DEF OneInv, Free, NoNewRow, NotesOf
<1> QED BY <1>1, <1>2, <1>3

\* The row of a free channel comes alone.
LEMMA NewRowLemma ==
  ASSUME OneInv, NEW n \in NoteIds, NEW e \in Events, NEW c \in Channels, InsertNote(n, e, c),
         \A m \in NotesOf(e) : note[m].channel # c
  PROVE  /\ OneNotice'
         /\ NotesOf(e)' = NotesOf(e) \cup {n}
         /\ note'[n].channel = c
         /\ \A m \in NotesOf(e) : note'[m].channel = note[m].channel
<1>1. note \in [NoteIds -> NoteRow] /\ note[n].status = "none"
  BY DEF OneInv, IInv, TypeOK, InsertNote, NextNote
<1>2. /\ note'[n] = [status |-> "pending", event |-> e, channel |-> c]
      /\ \A m \in NoteIds : m # n => note'[m] = note[m]
  BY <1>1 DEF InsertNote
<1>3. n \notin Present /\ Present' = Present \cup {n}
  BY <1>1, <1>2 DEF Present
<1>4. OneNotice'
  BY <1>2, <1>3 DEF OneInv, OneNotice, NotesOf, Present
<1>5. NotesOf(e)' = NotesOf(e) \cup {n} /\ n \notin NotesOf(e)
  BY <1>2, <1>3 DEF NotesOf, Present
<1>6. \A m \in NotesOf(e) : m \in NoteIds
  BY DEF NotesOf, Present
<1> QED BY <1>2, <1>4, <1>5, <1>6

LEMMA CheckerStepOne ==
  ASSUME OneChecker, OneInv, NEW p \in Checkers, CheckerStep(p)
  PROVE  OneNotice' /\ Free(p)'
<1> USE DeliveryAssumption
<1>0. /\ chk \in [Checkers -> Checker] /\ note \in [NoteIds -> NoteRow] /\ Free(p)
      /\ CheckerOK(p)
  BY DEF OneInv, IInv, TypeOK
<1>1. CASE StartCheck(p) \/ EndCheck(p)
  <2>1. NoNewRow
    BY <1>1 DEF StartCheck, EndCheck, NoNewRow, Present
  <2>2. chk'[p].pc \in {"events", "idle"}
    <3>1. CASE StartCheck(p)
      BY <1>0, <3>1 DEF StartCheck, IdleChecker
    <3>2. CASE EndCheck(p)
      BY <1>0, <3>2 DEF EndCheck, IdleChecker
    <3> QED BY <1>1, <3>1, <3>2
  <2> QED BY <2>1, <2>2, NoNewRowLemma DEF Free
<1>2. ASSUME NEW e \in Events, LookAtEvent(p, e) PROVE OneNotice' /\ Free(p)'
  <2>1. NoNewRow
    BY <1>2 DEF LookAtEvent, NoNewRow, Present
  <2>2. CASE NotesOf(e) = {}
    <3>1. chk'[p].event = e
      BY <1>0, <1>2, <2>2 DEF LookAtEvent
    <3>2. NotesOf(e)' = {}
      BY <2>1, <2>2, NoNewRowLemma
    <3> QED BY <2>1, <3>1, <3>2, NoNewRowLemma DEF Free
  <2>3. CASE NotesOf(e) # {}
    <3>1. chk'[p].pc = "events"
      BY <1>0, <1>2, <2>3 DEF LookAtEvent, Checker
    <3> QED BY <2>1, <3>1, NoNewRowLemma DEF Free
  <2> QED BY <2>2, <2>3
<1>3. ASSUME NEW c \in Messengers, CreateFails(p, c) PROVE OneNotice' /\ Free(p)'
  <2>1. NoNewRow
    BY <1>3 DEF CreateFails, NoNewRow, Present
  <2>2. /\ chk'[p].pc = "create" /\ chk[p].pc = "create"
        /\ chk'[p].event = chk[p].event /\ chk'[p].left \subseteq chk[p].left
    BY <1>0, <1>3 DEF CreateFails, Checker
  <2>3. note' = note
    BY <1>3 DEF CreateFails
  <2> QED BY <1>0, <2>1, <2>2, <2>3, NoNewRowLemma DEF Free
<1>4. ASSUME NEW c \in Messengers, NEW n \in NoteIds, CreateForMessenger(p, c, n)
      PROVE  OneNotice' /\ Free(p)'
  <2> PICK e \in Events : e = chk[p].event
    BY <1>0, <1>4 DEF CreateForMessenger, CheckerOK
  <2>1. /\ c \in Channels /\ InsertNote(n, e, c) /\ c # InApp
        /\ \A m \in NotesOf(e) : note[m].channel # c /\ note[m].channel \notin chk[p].left \cup {InApp}
    BY <1>0, <1>4 DEF CreateForMessenger, Free, Channels
  <2>2. chk'[p].pc = "create" /\ chk'[p].event = e /\ chk'[p].left = chk[p].left \ {c}
    BY <1>0, <1>4 DEF CreateForMessenger, Checker
  <2>3. /\ OneNotice' /\ NotesOf(e)' = NotesOf(e) \cup {n} /\ note'[n].channel = c
        /\ \A m \in NotesOf(e) : note'[m].channel = note[m].channel
    BY <2>1, NewRowLemma
  <2> QED BY <2>1, <2>2, <2>3 DEF Free
<1>5. CASE Enqueue(p)
  <2>1. NoNewRow /\ note' = note
    BY <1>5 DEF Enqueue, NoNewRow, Present
  <2>2. chk[p].pc = "create" /\ chk'[p].pc = "inApp" /\ chk'[p].event = chk[p].event
    BY <1>0, <1>5 DEF Enqueue, Checker
  <2> QED BY <1>0, <2>1, <2>2, NoNewRowLemma DEF Free
<1>6. CASE CreateInApp(p)
  <2> PICK e \in Events : e = chk[p].event
    BY <1>0, <1>6 DEF CreateInApp, CheckerOK
  <2>1. InApp \in Channels /\ \A m \in NotesOf(e) : note[m].channel # InApp
    BY <1>0, <1>6 DEF CreateInApp, Free, Channels
  <2>2. chk'[p].pc = "events"
    BY <1>0, <1>6 DEF CreateInApp, Checker
  <2>3. CASE \E n \in NoteIds : InsertNote(n, e, InApp)
    BY <2>1, <2>2, <2>3, NewRowLemma DEF Free
  <2>4. CASE UNCHANGED note
    <3>1. NoNewRow
      BY <2>4 DEF NoNewRow, Present
    <3> QED BY <2>2, <3>1, NoNewRowLemma DEF Free
  <2> QED BY <1>6, <2>3, <2>4 DEF CreateInApp
<1> QED BY <1>1, <1>2, <1>3, <1>4, <1>5, <1>6 DEF CheckerStep

LEMMA OtherStepOne ==
  ASSUME OneInv,
         \/ \E e \in Events : Resolve(e)
         \/ \E s \in Senders : SenderStep(s)
         \/ OwnerStep
         \/ UNCHANGED vars
  PROVE  NoNewRow /\ chk' = chk
<1>0. note \in [NoteIds -> NoteRow]
  BY DEF OneInv, IInv, TypeOK
<1>1. CASE note' = note /\ chk' = chk
  BY <1>1 DEF NoNewRow, Present
<1>2. CASE \E s \in Senders : Mark(s)
  BY <1>0, <1>2 DEF Mark, NoNewRow, Present, NoteRow
<1>3. CASE \E n \in NoteIds : MarkAsRead(n)
  BY <1>0, <1>3 DEF MarkAsRead, Shown, NoNewRow, Present, NoteRow
<1>4. CASE \E n \in NoteIds : DeleteNotification(n)
  BY <1>0, <1>4 DEF DeleteNotification, Shown, NoNewRow, Present, NoteRow
<1>5. CASE MarkAllAsRead
  BY <1>0, <1>5 DEF MarkAllAsRead, Shown, NoNewRow, Present, NoteRow
<1> QED BY <1>1, <1>2, <1>3, <1>4, <1>5
        DEF Resolve, SenderStep, StartSweep, TakeJob, TakeNext, Attempt, SweepRaises, EndSending,
            OwnerStep, vars

\* If the runs of check_shifts_did_not_start do not overlap, no event gets a
\* second notification on a channel, however its rows are sent, read and deleted.
THEOREM OneNoticeEach ==
  ASSUME OneChecker
  PROVE  Spec => []OneNotice
<1>1. Init => OneInv
  <2> SUFFICES ASSUME Init PROVE OneNotice /\ \A p \in Checkers : Free(p)
    BY InitIInv DEF OneInv
  <2>1. Present = {}
    BY DEF Init, Present, NoNote
  <2> QED BY <2>1 DEF OneNotice, Free, NotesOf
<1>2. OneInv /\ [Next]_vars => OneInv'
  <2> SUFFICES ASSUME OneInv, [Next]_vars PROVE OneInv'
    OBVIOUS
  <2>1. IInv'
    BY NextIInv DEF OneInv
  <2>2. CASE \E p \in Checkers : CheckerStep(p)
    BY <2>1, <2>2, CheckerStepOne DEF OneChecker, OneInv
  <2>3. CASE ~\E p \in Checkers : CheckerStep(p)
    <3>1. NoNewRow /\ chk' = chk
      BY <2>3, OtherStepOne DEF Next
    <3> QED BY <2>1, <3>1, NoNewRowLemma DEF OneInv
  <2> QED BY <2>2, <2>3
<1>3. OneInv => OneNotice
  BY DEF OneInv
<1> QED BY <1>1, <1>2, <1>3, PTL DEF Spec
=============================================================================
