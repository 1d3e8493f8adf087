---------------------------- MODULE PriorityLock ----------------------------
(***************************************************************************)
(* The machine-wide load gate of StudioForge: an asyncio lock whose        *)
(* waiters are served best tier first, arrival order within a tier         *)
(* (core/priority.py).  One asyncio loop runs every task, so code between  *)
(* two awaits is one step.                                                 *)
(*                                                                         *)
(* The heap of (priority, arrival, future) entries is kept as one FIFO     *)
(* queue per tier, which pops in the same order.  An entry is live while   *)
(* its future is pending; a cancelled future stays queued and release()    *)
(* skips it.                                                               *)
(***************************************************************************)
EXTENDS Naturals, Sequences

CONSTANTS
    Tasks,          \* the tasks that load models
    MaxQueue        \* bound: entries one tier's queue may hold

ASSUME MaxQueueAssumption == MaxQueue \in Nat

Tiers == 1..3       \* chat, agent, background

VARIABLES
    locked,         \* PriorityLock._locked
    waiters,        \* PriorityLock._waiters, one queue per tier
    pc              \* where each task stands in acquire() / release()

vars == <<locked, waiters, pc>>

(***************************************************************************)
(* "queued"     awaiting a pending future                                  *)
(* "handed"     the future has its result, the task has yet to resume      *)
(* "holding"    acquire() returned                                         *)
(* "cancelled"  the pending future was cancelled                           *)
(* "revoked"    cancelled after the hand-off, before resuming              *)
(***************************************************************************)
PCs == {"idle", "queued", "handed", "holding", "cancelled", "revoked"}

Entry == [task : Tasks, live : BOOLEAN]

\* A task that owns the lock, whether or not it has been scheduled since.
Owner(t) == pc[t] \in {"handed", "holding", "revoked"}

LiveAt(p, i) == i \in DOMAIN waiters[p] /\ waiters[p][i].live

\* An entry once t's pending future, if it is that one, is cancelled.
Withdrawn(e, t) == IF e.task = t THEN [task |-> t, live |-> FALSE] ELSE e

SomeoneWaits == \E p \in Tiers : \E i \in DOMAIN waiters[p] : waiters[p][i].live

\* Entry i of tier p is the one task t is parked on.
Stands(t, p, i) == waiters[p][i].live /\ waiters[p][i].task = t

Waits(t, p) == \E i \in DOMAIN waiters[p] : Stands(t, p, i)

\* Mutant: the tier is left out of the heap's order.
IsNextAnyTier(p, i) ==
    /\ LiveAt(p, i)
    /\ \A j \in 1..(i - 1) : ~waiters[p][j].live

\* Mutant: the youngest of the best tier is served first.
IsNextYoungest(p, i) ==
    /\ LiveAt(p, i)
    /\ \A j \in DOMAIN waiters[p] : waiters[p][j].live => j <= i
    /\ \A q \in 1..(p - 1) : \A j \in DOMAIN waiters[q] : ~waiters[q][j].live

\* Mutant: the heap's order is reversed, worst tier first.
IsNextWorstFirst(p, i) ==
    /\ LiveAt(p, i)
    /\ \A j \in 1..(i - 1) : ~waiters[p][j].live
    /\ \A q \in (p + 1)..3 : \A j \in DOMAIN waiters[q] : ~waiters[q][j].live

\* The entry release() pops last: the first live one in heap order.
IsNext(p, i) ==
    /\ LiveAt(p, i)
    /\ \A j \in 1..(i - 1) : ~waiters[p][j].live
    /\ \A q \in 1..(p - 1) : \A j \in DOMAIN waiters[q] : ~waiters[q][j].live

-----------------------------------------------------------------------------

Init ==
    /\ locked = FALSE
    /\ waiters = [p \in Tiers |-> <<>>]
    /\ pc = [t \in Tasks |-> "idle"]

\* Mutant: a new task does not look at the lock when nobody waits.
AcquireFreeBarging(t, p) ==
    /\ pc[t] = "idle"
    /\ ~locked \/ ~SomeoneWaits
    /\ locked' = TRUE
    /\ pc' = [pc EXCEPT ![t] = "holding"]
    /\ UNCHANGED waiters

\* acquire() on a free lock takes it without awaiting.
AcquireFree(t, p) ==
    /\ pc[t] = "idle"
    /\ ~locked
    /\ locked' = TRUE
    /\ pc' = [pc EXCEPT ![t] = "holding"]
    /\ UNCHANGED waiters

\* acquire() on a held lock pushes a pending future and awaits it.
AcquireQueued(t, p) ==
    /\ pc[t] = "idle"
    /\ locked
    /\ Len(waiters[p]) < MaxQueue
    /\ waiters' = [waiters EXCEPT ![p] = Append(@, [task |-> t, live |-> TRUE])]
    /\ pc' = [pc EXCEPT ![t] = "queued"]
    /\ UNCHANGED locked

\* release() by task t: every entry before the next live one is popped, and
\* ownership passes to it with the lock still locked; with no live entry the
\* queues are emptied and the lock opens.
ReleaseBy(t) ==
    \/ \E p \in Tiers : \E i \in DOMAIN waiters[p] :
          /\ IsNext(p, i)
          /\ waiters' = [q \in Tiers |->
                           IF q < p THEN <<>>
                           ELSE IF q = p THEN SubSeq(waiters[p], i + 1, Len(waiters[p]))
                           ELSE waiters[q]]
          /\ pc' = [pc EXCEPT ![t] = "idle", ![waiters[p][i].task] = "handed"]
          /\ UNCHANGED locked
    \/ /\ ~SomeoneWaits
       /\ waiters' = [q \in Tiers |-> <<>>]
       /\ pc' = [pc EXCEPT ![t] = "idle"]
       /\ locked' = FALSE

\* The holder leaves its critical section.
Release(t) ==
    /\ pc[t] = "holding"
    /\ locked
    /\ ReleaseBy(t)

\* The loop schedules the task the lock was handed to.
Resume(t) ==
    /\ pc[t] = "handed"
    /\ pc' = [pc EXCEPT ![t] = "holding"]
    /\ UNCHANGED <<locked, waiters>>

\* task.cancel() on a queued task cancels its pending future.
CancelQueued(t) ==
    /\ pc[t] = "queued"
    /\ waiters' = [p \in Tiers |-> [i \in DOMAIN waiters[p] |-> Withdrawn(waiters[p][i], t)]]
    /\ pc' = [pc EXCEPT ![t] = "cancelled"]
    /\ UNCHANGED locked

\* task.cancel() after the hand-off: the future is done, so the error is
\* raised when the task resumes.
CancelHanded(t) ==
    /\ pc[t] = "handed"
    /\ pc' = [pc EXCEPT ![t] = "revoked"]
    /\ UNCHANGED <<locked, waiters>>

\* CancelledError surfaces in acquire() with the future cancelled: re-raise.
UnwindCancelled(t) ==
    /\ pc[t] = "cancelled"
    /\ pc' = [pc EXCEPT ![t] = "idle"]
    /\ UNCHANGED <<locked, waiters>>

\* Mutant: the error is re-raised without a release.
UnwindRevokedKeeping(t) ==
    /\ pc[t] = "revoked"
    /\ pc' = [pc EXCEPT ![t] = "idle"]
    /\ UNCHANGED <<locked, waiters>>

\* CancelledError surfaces with the future done: release, then re-raise.
UnwindRevoked(t) ==
    /\ pc[t] = "revoked"
    /\ locked
    /\ ReleaseBy(t)

Acquire(t) == \E p \in Tiers : AcquireFree(t, p) \/ AcquireQueued(t, p)

Cancel(t) == CancelQueued(t) \/ CancelHanded(t)

\* What the loop and the holder owe each task that has called acquire().
Run(t) == Resume(t) \/ UnwindCancelled(t) \/ UnwindRevoked(t) \/ Release(t)

Next == \E t \in Tasks : Acquire(t) \/ Cancel(t) \/ Run(t)

Spec == Init /\ [][Next]_vars

\* The loop schedules every ready task, and a load ends (it is bounded by its
\* own timeouts), so each task is run; nobody is obliged to acquire or cancel.
FairSpec == Spec /\ \A t \in Tasks : WF_vars(Run(t))

\* A release passes the lock to t in this step.
HandedTo(t) == pc[t] = "queued" /\ pc'[t] = "handed"

-----------------------------------------------------------------------------

TypeOK ==
    /\ locked \in BOOLEAN
    /\ waiters \in [Tiers -> Seq(Entry)]
    /\ pc \in [Tasks -> PCs]

\* "One at a time": no two tasks own the lock, the one it was handed to but
\* that has not run yet and the one that is unwinding included.
OneOwner == \A t, u \in Tasks : Owner(t) /\ Owner(u) => t = u

\* "The hand-off is never lost": the lock is locked exactly while some task
\* will still run and release it, so it is never held forever by nobody.
LockHasOwner == locked <=> \E t \in Tasks : Owner(t)

\* An open lock has nobody waiting: release() never leaves a live waiter
\* behind that only a later acquire()/release() pair would wake.
NobodyForgotten == ~locked => ~SomeoneWaits

\* A task is parked in acquire() exactly while one live entry stands for it:
\* a second would hand it the lock after it had left, none would strand it.
QueuedOnce ==
    /\ \A t \in Tasks : pc[t] = "queued" => \E p \in Tiers : Waits(t, p)
    /\ \A p \in Tiers : \A i \in DOMAIN waiters[p] : waiters[p][i].live =>
          /\ pc[waiters[p][i].task] = "queued"
          /\ \A q \in Tiers : \A j \in DOMAIN waiters[q] :
                Stands(waiters[p][i].task, q, j) => q = p /\ j = i

\* The lock and its queue agree, whatever is cancelled and when: one owner, a
\* hand-off that is never lost, and exactly one live entry for whoever waits.
GateInv == OneOwner /\ LockHasOwner /\ NobodyForgotten /\ QueuedOnce

\* Best tier first: whoever receives the lock from a release outranks, or
\* shares the tier of, every task left waiting.
BestTierFirst ==
    [][\A t, u \in Tasks : \A p, q \in Tiers :
          HandedTo(t) /\ Waits(t, p) /\ Waits(u, q) => p <= q]_vars

\* No barging: a task that had to queue is never passed, while it waits, by
\* a task of its own tier that queued after it.
FifoInTier ==
    [][\A t \in Tasks : \A p \in Tiers : \A i, j \in DOMAIN waiters[p] :
          HandedTo(t) /\ Stands(t, p, i) /\ waiters[p][j].live => i <= j]_vars

\* A chat load is never starved: from the queue it reaches the lock or is
\* cancelled, however many other loads keep arriving.
ChatServed == \A t \in Tasks : Waits(t, 1) ~> pc[t] # "queued"

-----------------------------------------------------------------------------

Gate == INSTANCE AbstractGate WITH
            owners <- {t \in Tasks : Owner(t)},
            line <- {w \in Tasks \X Tiers : Waits(w[1], w[2])}

\* The lock keeps what its docstring promises of the gate: every step is one
\* of the abstract gate's, or changes neither its owner nor its line.
ImplementsGate == Gate!Spec

=============================================================================
