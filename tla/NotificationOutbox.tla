------------------------- MODULE NotificationOutbox -------------------------
(***************************************************************************)
(* What the table of notifications promises to those who read it, however  *)
(* many senders work on it: a notification is about one event on one       *)
(* channel; it is pending once, at its birth; it is shown as sent only if  *)
(* the messenger has it; what is shown in the web alone needs no messenger *)
(* and is the only thing a user can read or delete there; what is deleted  *)
(* is gone.  (It does not promise that a message comes once, nor that a    *)
(* notification once failed or read keeps that status.)                    *)
(***************************************************************************)
CONSTANTS
  Ids,          \* the ids notifications may get
  Events,
  Messengers,   \* the channels outside: Telegram, MAX
  InApp         \* the channel of the web centre

VARIABLES
  note,         \* [Ids -> [status, event, channel]], with status "none" before the insert
  delivered     \* [Ids -> BOOLEAN], whether the messenger has shown it at least once

Init ==
  /\ \A n \in Ids : note[n].status = "none"
  /\ delivered = [n \in Ids |-> FALSE]

Insert(n) ==
  /\ note[n].status = "none"
  /\ \E e \in Events, c \in Messengers \cup {InApp} :
       note'[n] = [status |-> "pending", event |-> e, channel |-> c]

\* A sender writes its verdict, whatever the row holds by now.
Settle(n) ==
  /\ note[n].status \in {"pending", "sent", "failed", "read"}
  /\ \/ note'[n] = [note[n] EXCEPT !.status = "failed"]
     \/ /\ note[n].channel = InApp \/ delivered[n]
        /\ note'[n] = [note[n] EXCEPT !.status = "sent"]

Read(n) ==
  /\ note[n].channel = InApp
  /\ note[n].status \in {"pending", "sent", "failed", "read"}
  /\ note'[n] = [note[n] EXCEPT !.status = "read"]

Delete(n) ==
  /\ note[n].channel = InApp
  /\ note[n].status \in {"pending", "sent", "failed", "read"}
  /\ note'[n] = [note[n] EXCEPT !.status = "gone"]

\* A messenger shows what has been inserted, as often as it is asked to.
Deliver(n) ==
  /\ note[n].status # "none"
  /\ note[n].channel \in Messengers
  /\ delivered'[n] = TRUE

Next ==
  \A n \in Ids :
    /\ note'[n] = note[n] \/ Insert(n) \/ Settle(n) \/ Read(n) \/ Delete(n)
    /\ delivered'[n] = delivered[n] \/ Deliver(n)

Spec == Init /\ [][Next]_<<note, delivered>>
=============================================================================
