---------------------------- MODULE MCEpochCrank ----------------------------
EXTENDS EpochCrank, TLC
Symmetry == Permutations(Crankers) \cup Permutations(Observers)
NoSkew == {0}
OneGateway == [v \in {0} |-> 1]
ThreeGateways == [v \in {0} |-> 3]
LeaveAndReturn == [v \in 0..2 |-> IF v = 1 THEN 0 ELSE 2]
=============================================================================
