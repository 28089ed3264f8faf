----------------------- MODULE MCNotificationDelivery -----------------------
(* Instances of NotificationDelivery for TLC.                              *)
EXTENDS NotificationDelivery

CONSTANTS e1, e2, telegram, max, inApp, p1, p2, s1, j1

\* telegram_sender tries again (three times in all; two show every case of the
\* loop), max_sender does not.
SomeAttempts == [m \in Messengers |-> IF m = telegram THEN 2 ELSE 1]
=============================================================================
