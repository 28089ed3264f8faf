---------------------------- MODULE MCSubscription ----------------------------
(* Instances of Subscription for TLC.                                      *)
EXTENDS Subscription

CONSTANTS h1, h2
===============================================================================
