------------------------------ MODULE MCEvents ------------------------------
(* Small instances of Events.                                                *)
EXTENDS Events, TLC

CONSTANTS owner, other, third, e1, g1, g2

SubscriberSymmetry == Permutations(Threads \ {Owner})
===============================================================================
