------------------------------- MODULE MCBus -------------------------------
(* Bus for TLC: two publishers at once, two subscriptions, and channels of *)
(* one element, so that events are dropped.                                *)
EXTENDS Bus, TLC
=============================================================================
