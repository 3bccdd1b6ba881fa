---------------------------- MODULE MCInstances ----------------------------
EXTENDS Instances, TLC
CONSTANTS inst, manager, q1, q2, l1, l2
MCSymmetry == Permutations({q1, q2}) \cup Permutations({l1, l2})
=============================================================================
