---------------------------- MODULE AbstractGate ----------------------------
(***************************************************************************)
(* What the load gate promises (core/priority.py, class docstring): at     *)
(* most one owner, and the owner hands the gate straight to a waiter of    *)
(* the best tier waiting, so it is never open while somebody waits.        *)
(***************************************************************************)
EXTENDS Naturals

CONSTANT Tasks

VARIABLES
    owners,         \* the task that owns the gate, as a set of at most one
    line            \* <<task, tier>> for every task waiting for it

vars == <<owners, line>>

Tiers == 1..3

Init == owners = {} /\ line = {}

\* An open gate is taken at once.
Enter(t) ==
    /\ owners = {}
    /\ owners' = {t}
    /\ UNCHANGED line

\* Otherwise the task waits at the tier it asked for, in one place only.
Queue(t, p) ==
    /\ owners # {}
    /\ t \notin owners
    /\ \A w \in line : w[1] # t
    /\ line' = line \cup {<<t, p>>}
    /\ UNCHANGED owners

\* A waiting task gives up.
GiveUp(w) ==
    /\ line' = line \ {w}
    /\ UNCHANGED owners

\* The owner leaves; a waiter of the best tier is the owner from then on.
Pass(t) ==
    /\ owners = {t}
    /\ \/ \E w \in line :
             /\ \A v \in line : w[2] <= v[2]
             /\ owners' = {w[1]}
             /\ line' = line \ {w}
       \/ /\ line = {}
          /\ owners' = {}
          /\ UNCHANGED line

Next ==
    \/ \E t \in Tasks : Enter(t) \/ Pass(t) \/ \E p \in Tiers : Queue(t, p)
    \/ \E w \in line : GiveUp(w)

Spec == Init /\ [][Next]_vars

=============================================================================
