---------------------------- MODULE MCSlotBooking ----------------------------
(* Instances of SlotBooking for TLC.                                       *)
EXTENDS SlotBooking, TLC

CONSTANTS e1, e2, w1, m1, o1, o2, s1, s2, s3

\* At one object a slot with two places and a later one; at the other one place for a while.
MCSlot == (s1 :> [object |-> o1, start |-> 0, end |-> 2, max |-> 2])
       @@ (s2 :> [object |-> o2, start |-> 1, end |-> 2, max |-> 1])
       @@ (s3 :> [object |-> o1, start |-> 2, end |-> 3, max |-> 1])

MCGrants == {{o1}, {o1, o2}}

\* The second contract of e1 gives more than the first; e2 has none and can only use the bot.
MCHired == <<[employee |-> e1, objects |-> {o1}], [employee |-> e1, objects |-> {o1, o2}]>>
===============================================================================
