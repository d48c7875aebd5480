-------------------------- MODULE MCOutboxDelivery --------------------------
(* Instances of OutboxDelivery for TLC.                                     *)
EXTENDS OutboxDelivery

CONSTANTS p1, p2, s1, s2
OneChange == {1}
TwoChanges == {1, 2}
OnePass == {p1}
TwoPasses == {p1, p2}
OneSub == {s1}
TwoSubs == {s1, s2}
NoSub == {}
=============================================================================
