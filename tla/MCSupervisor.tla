---------------------------- MODULE MCSupervisor ----------------------------
EXTENDS Supervisor, TLC
CONSTANTS m1, m2, c1, c2, c3
OneModel == {m1}
TwoModels == {m1, m2}
OneCaller == {c1}
TwoCallers == {c1, c2}
ThreeCallers == {c1, c2, c3}
OneEach == (m1 :> {c1}) @@ (m2 :> {c2})
AlsoSecond == (m1 :> {c1, c2}) @@ (m2 :> {c2})
Shared == [m \in Models |-> Callers]
CallerSymmetry == Permutations(Callers)
=============================================================================
