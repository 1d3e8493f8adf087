------------------------- MODULE PriorityLockProofs -------------------------
(***************************************************************************)
(* Proofs about the load gate, for any set of tasks and any queue bound.   *)
(* GateInv is inductive: OneOwner alone is not, since a release could hand *)
(* the lock to a task that owns it already if a live entry could outlive   *)
(* its wait; QueuedOnce excludes that.                                     *)
(***************************************************************************)
EXTENDS PriorityLock, TLAPS

\* What a hand-off by a release or an unwinding task leaves behind.
LEMMA ReleaseType ==
    ASSUME TypeOK, NEW t \in Tasks, ReleaseBy(t), locked' \in BOOLEAN
    PROVE  TypeOK'
<1>1. CASE ~SomeoneWaits /\ waiters' = [q \in Tiers |-> <<>>]
           /\ pc' = [pc EXCEPT ![t] = "idle"]
  BY <1>1 DEF TypeOK, PCs
<1>2. ASSUME NEW p \in Tiers, NEW i \in DOMAIN waiters[p],
             waiters' = [q \in Tiers |->
                           IF q < p THEN <<>>
                           ELSE IF q = p THEN SubSeq(waiters[p], i + 1, Len(waiters[p]))
                           ELSE waiters[q]],
             pc' = [pc EXCEPT ![t] = "idle", ![waiters[p][i].task] = "handed"]
      PROVE  TypeOK'
  <2>1. waiters[p] \in Seq(Entry)
    BY DEF TypeOK
  <2>2. SubSeq(waiters[p], i + 1, Len(waiters[p])) \in Seq(Entry)
    BY <2>1
  <2>3. waiters' \in [Tiers -> Seq(Entry)]
    BY <1>2, <2>2 DEF TypeOK
  <2>4. pc' \in [Tasks -> PCs]
    BY <1>2 DEF TypeOK, PCs
  <2> QED BY <2>3, <2>4 DEF TypeOK
<1> QED BY <1>1, <1>2 DEF ReleaseBy

\* Every variable keeps its type: a step pushes, pops and marks entries, nothing else.
THEOREM Typing == Spec => []TypeOK
<1>1. Init => TypeOK
  <2>1. <<>> \in Seq(Entry)
    OBVIOUS
  <2> QED BY <2>1 DEF Init, TypeOK, PCs
<1>2. TypeOK /\ [Next]_vars => TypeOK'
  <2> SUFFICES ASSUME TypeOK, [Next]_vars PROVE TypeOK'
    OBVIOUS
  <2>1. ASSUME NEW t \in Tasks, NEW p \in Tiers, AcquireFree(t, p) PROVE TypeOK'
    BY <2>1 DEF TypeOK, PCs, AcquireFree
  <2>2. ASSUME NEW t \in Tasks, NEW p \in Tiers, AcquireQueued(t, p) PROVE TypeOK'
    <3>1. [task |-> t, live |-> TRUE] \in Entry
      BY DEF Entry
    <3>2. Append(waiters[p], [task |-> t, live |-> TRUE]) \in Seq(Entry)
      BY <3>1 DEF TypeOK
    <3> QED BY <2>2, <3>2 DEF TypeOK, PCs, AcquireQueued
  <2>3. ASSUME NEW t \in Tasks, CancelQueued(t) PROVE TypeOK'
    <3>1. ASSUME NEW p \in Tiers
          PROVE  [i \in DOMAIN waiters[p] |-> Withdrawn(waiters[p][i], t)] \in Seq(Entry)
      <4>1. waiters[p] \in Seq(Entry)
        BY DEF TypeOK
      <4>2. \A i \in 1..Len(waiters[p]) : Withdrawn(waiters[p][i], t) \in Entry
        <5>1. \A i \in 1..Len(waiters[p]) : waiters[p][i] \in Entry
          BY <4>1
        <5>2. \A e \in Entry : Withdrawn(e, t) \in Entry
          BY DEF Entry, Withdrawn
        <5> QED BY <5>1, <5>2
      <4>3. DOMAIN waiters[p] = 1..Len(waiters[p]) /\ Len(waiters[p]) \in Nat
        BY <4>1
      <4> QED BY <4>2, <4>3
    <3> QED BY <2>3, <3>1 DEF TypeOK, PCs, CancelQueued
  <2>4. ASSUME NEW t \in Tasks, CancelHanded(t) PROVE TypeOK'
    BY <2>4 DEF TypeOK, PCs, CancelHanded
  <2>5. ASSUME NEW t \in Tasks, Resume(t) PROVE TypeOK'
    BY <2>5 DEF TypeOK, PCs, Resume
  <2>6. ASSUME NEW t \in Tasks, UnwindCancelled(t) PROVE TypeOK'
    BY <2>6 DEF TypeOK, PCs, UnwindCancelled
  <2>7. ASSUME NEW t \in Tasks, Release(t) \/ UnwindRevoked(t) PROVE TypeOK'
    BY <2>7, ReleaseType DEF Release, UnwindRevoked, ReleaseBy, TypeOK
  <2>8. CASE UNCHANGED vars
    BY <2>8 DEF vars, TypeOK
  <2> QED BY <2>1, <2>2, <2>3, <2>4, <2>5, <2>6, <2>7, <2>8
          DEF Next, Acquire, Cancel, Run
<1> QED BY <1>1, <1>2, PTL DEF Spec

-----------------------------------------------------------------------------

(***************************************************************************)
(* Two facts about a release.  Handing over: the entry of a task that was  *)
(* waiting goes, every other live entry keeps its place from the front     *)
(* moved down.  Opening: no entry was live.                                *)
(***************************************************************************)
HandsOver(t, p, i) ==
    /\ IsNext(p, i)
    /\ waiters' = [q \in Tiers |->
                     IF q < p THEN <<>>
                     ELSE IF q = p THEN SubSeq(waiters[p], i + 1, Len(waiters[p]))
                     ELSE waiters[q]]
    /\ pc' = [pc EXCEPT ![t] = "idle", ![waiters[p][i].task] = "handed"]
    /\ UNCHANGED locked

Opens(t) ==
    /\ ~SomeoneWaits
    /\ waiters' = [q \in Tiers |-> <<>>]
    /\ pc' = [pc EXCEPT ![t] = "idle"]
    /\ locked' = FALSE

LEMMA ReleaseCases ==
    ASSUME NEW t \in Tasks, ReleaseBy(t)
    PROVE  Opens(t) \/ \E p \in Tiers : \E i \in DOMAIN waiters[p] : HandsOver(t, p, i)
BY DEF ReleaseBy, Opens, HandsOver

\* Each live entry after a hand-over was a live entry before it, further back
\* in the same queue or in place, and never the one handed over.
LEMMA HandOverQueues ==
    ASSUME TypeOK, NEW t \in Tasks, NEW p \in Tiers, NEW i \in DOMAIN waiters[p],
           HandsOver(t, p, i), NEW q \in Tiers
    PROVE  /\ q < p => DOMAIN waiters'[q] = {}
           /\ q > p => waiters'[q] = waiters[q]
           /\ q = p => \A j \in DOMAIN waiters'[q] :
                 j + i \in DOMAIN waiters[p] /\ waiters'[q][j] = waiters[p][j + i]
           /\ q = p => \A k \in DOMAIN waiters[p] : k > i =>
                 k - i \in DOMAIN waiters'[q] /\ waiters'[q][k - i] = waiters[p][k]
<1>1. waiters[p] \in Seq(Entry) /\ q \in Nat /\ p \in Nat
  BY DEF TypeOK, Tiers
<1>2. i \in 1..Len(waiters[p]) /\ Len(waiters[p]) \in Nat
  BY <1>1
<1>3. q < p => waiters'[q] = <<>>
  BY DEF HandsOver
<1>4. q > p => waiters'[q] = waiters[q]
  BY <1>1 DEF HandsOver
<1>5. q = p => waiters'[q] = SubSeq(waiters[p], i + 1, Len(waiters[p]))
  BY <1>1 DEF HandsOver
<1>6. DOMAIN SubSeq(waiters[p], i + 1, Len(waiters[p])) = 1..(Len(waiters[p]) - i)
  BY <1>1, <1>2
<1>7. \A j \in 1..(Len(waiters[p]) - i) :
         SubSeq(waiters[p], i + 1, Len(waiters[p]))[j] = waiters[p][j + i]
  BY <1>1, <1>2
<1>8. DOMAIN waiters[p] = 1..Len(waiters[p])
  BY <1>1
<1>9. DOMAIN <<>> = {}
  OBVIOUS
<1>10. ASSUME q = p, NEW j \in DOMAIN waiters'[q]
       PROVE  j + i \in DOMAIN waiters[p] /\ waiters'[q][j] = waiters[p][j + i]
  <2>1. j \in 1..(Len(waiters[p]) - i)
    BY <1>5, <1>6, <1>10
  <2>2. j + i \in 1..Len(waiters[p])
    BY <2>1, <1>2
  <2>3. SubSeq(waiters[p], i + 1, Len(waiters[p]))[j] = waiters[p][j + i]
    BY <2>1, <1>7
  <2> QED BY <2>2, <2>3, <1>5, <1>8, <1>10
<1>11. ASSUME q = p, NEW k \in DOMAIN waiters[p], k > i
       PROVE  k - i \in DOMAIN waiters'[q] /\ waiters'[q][k - i] = waiters[p][k]
  <2>1. k - i \in 1..(Len(waiters[p]) - i) /\ (k - i) + i = k
    BY <1>2, <1>8, <1>11
  <2> QED BY <2>1, <1>5, <1>6, <1>7, <1>11
<1> QED BY <1>3, <1>4, <1>9, <1>10, <1>11

LEMMA HandOverIndices ==
    ASSUME TypeOK, NEW t \in Tasks, NEW p \in Tiers, NEW i \in DOMAIN waiters[p],
           HandsOver(t, p, i)
    PROVE  \A q \in Tiers : \A j \in DOMAIN waiters'[q] : j \in Nat \ {0}
<1>1. TypeOK'
  BY ReleaseType DEF ReleaseBy, HandsOver, TypeOK
<1>2. \A q \in Tiers : waiters'[q] \in Seq(Entry)
  BY <1>1 DEF TypeOK
<1> QED BY <1>2

\* A live entry that remains stood before, and is not the one handed over.
LEMMA HandOverBack ==
    ASSUME TypeOK, NEW t \in Tasks, NEW p \in Tiers, NEW i \in DOMAIN waiters[p],
           HandsOver(t, p, i),
           NEW q \in Tiers, NEW j \in DOMAIN waiters'[q], waiters'[q][j].live
    PROVE  \E k \in DOMAIN waiters[q] :
              /\ waiters[q][k] = waiters'[q][j]
              /\ <<q, k>> # <<p, i>>
              /\ q = p => k = j + i
              /\ q # p => k = j
<1>1. q >= p /\ q \in Nat /\ p \in Nat
  BY HandOverQueues DEF Tiers
<1>2. i \in Nat
  <2>1. waiters[p] \in Seq(Entry)
    BY DEF TypeOK
  <2> QED BY <2>1
<1>3. CASE q = p
  <2>1. j + i \in DOMAIN waiters[p] /\ waiters'[q][j] = waiters[p][j + i]
    BY HandOverQueues, <1>3
  <2>2. j \in Nat \ {0}
    BY HandOverIndices
  <2> QED BY <2>1, <2>2, <1>2, <1>3
<1>4. CASE q > p
  BY HandOverQueues, <1>1, <1>4
<1> QED BY <1>1, <1>3, <1>4

\* A live entry other than the one handed over remains.
LEMMA HandOverForth ==
    ASSUME TypeOK, NEW t \in Tasks, NEW p \in Tiers, NEW i \in DOMAIN waiters[p],
           HandsOver(t, p, i),
           NEW q \in Tiers, NEW j \in DOMAIN waiters[q], waiters[q][j].live,
           <<q, j>> # <<p, i>>
    PROVE  \E k \in DOMAIN waiters'[q] : waiters'[q][k] = waiters[q][j]
<1>1. q \in Nat /\ p \in Nat
  BY DEF Tiers
<1>2. i \in Nat /\ DOMAIN waiters[p] = 1..Len(waiters[p]) /\ Len(waiters[p]) \in Nat
  <2>1. waiters[p] \in Seq(Entry)
    BY DEF TypeOK
  <2> QED BY <2>1
<1>3. ~(q < p)
  BY <1>1 DEF HandsOver, IsNext, Tiers
<1>4. CASE q = p
  <2>1. j > i
    <3>1. ~(j \in 1..(i - 1)) /\ j # i
      BY <1>4 DEF HandsOver, IsNext
    <3> QED BY <3>1, <1>2, <1>4
  <2> QED BY <2>1, <1>4, HandOverQueues
<1>5. CASE q > p
  BY <1>5, HandOverQueues
<1> QED BY <1>1, <1>3, <1>4, <1>5

LEMMA HandOverKeeps ==
    ASSUME TypeOK, GateInv, NEW t \in Tasks, Owner(t),
           NEW p \in Tiers, NEW i \in DOMAIN waiters[p], HandsOver(t, p, i)
    PROVE  GateInv'
<1> DEFINE u == waiters[p][i].task
<1>1. waiters[p] \in Seq(Entry) /\ DOMAIN waiters[p] = 1..Len(waiters[p])
  BY DEF TypeOK
<1>2. u \in Tasks /\ waiters[p][i].live /\ i \in Nat
  <2>1. waiters[p][i] \in Entry /\ i \in Nat
    BY <1>1
  <2> QED BY <2>1 DEF HandsOver, IsNext, LiveAt, Entry
<1>3. pc[u] = "queued" /\ u # t
  BY <1>2 DEF GateInv, QueuedOnce, Owner
<1>4. /\ pc'[t] = "idle" /\ pc'[u] = "handed"
      /\ \A v \in Tasks : v # t /\ v # u => pc'[v] = pc[v]
  BY <1>2, <1>3 DEF HandsOver, TypeOK
<1>5. \A v \in Tasks : Owner(v) => v = t
  BY DEF GateInv, OneOwner
<1>6. locked' /\ locked
  BY DEF GateInv, LockHasOwner, HandsOver
<1>7. OneOwner'
  BY <1>4, <1>5 DEF OneOwner, Owner
<1>8. LockHasOwner' /\ NobodyForgotten'
  BY <1>2, <1>4, <1>6 DEF LockHasOwner, NobodyForgotten, Owner
<1>10. ASSUME NEW v \in Tasks, pc'[v] = "queued"
       PROVE  \E q \in Tiers : (Waits(v, q))'
  <2>1. v # t /\ v # u /\ pc[v] = "queued"
    BY <1>4, <1>10
  <2>2. PICK q \in Tiers : \E j \in DOMAIN waiters[q] : Stands(v, q, j)
    BY <2>1 DEF GateInv, QueuedOnce, Waits
  <2>3. PICK j \in DOMAIN waiters[q] : Stands(v, q, j)
    BY <2>2
  <2>4. <<q, j>> # <<p, i>>
    BY <2>1, <2>3 DEF Stands
  <2>5. PICK k \in DOMAIN waiters'[q] : waiters'[q][k] = waiters[q][j]
    BY <2>3, <2>4, HandOverForth DEF Stands
  <2> QED BY <2>3, <2>5 DEF Waits, Stands
<1>11. ASSUME NEW q \in Tiers, NEW j \in DOMAIN waiters'[q], waiters'[q][j].live
       PROVE  /\ pc'[waiters'[q][j].task] = "queued"
              /\ \A r \in Tiers : \A k \in DOMAIN waiters'[r] :
                    (Stands(waiters[q][j].task, r, k))' => r = q /\ k = j
  <2>1. PICK m \in DOMAIN waiters[q] :
                /\ waiters[q][m] = waiters'[q][j] /\ <<q, m>> # <<p, i>>
                /\ q = p => m = j + i
                /\ q # p => m = j
    BY HandOverBack, <1>11
  <2>2. LET w == waiters[q][m].task
        IN  pc[w] = "queued" /\ w # u /\ w # t /\ w \in Tasks
    <3>1. waiters[q][m] \in Entry
      BY DEF TypeOK
    <3> QED BY <3>1, <2>1, <1>2, <1>11 DEF GateInv, QueuedOnce, Stands, Owner, Entry
  <2>3. ASSUME NEW r \in Tiers, NEW k \in DOMAIN waiters'[r],
               (Stands(waiters[q][j].task, r, k))'
        PROVE  r = q /\ k = j
    <3>1. PICK n \in DOMAIN waiters[r] :
                  /\ waiters[r][n] = waiters'[r][k]
                  /\ r = p => n = k + i
                  /\ r # p => n = k
      BY HandOverBack, <2>3 DEF Stands
    <3>2. r = q /\ n = m
      BY <2>1, <2>3, <3>1, <1>11 DEF GateInv, QueuedOnce, Stands
    <3>3. CASE q # p
      BY <3>1, <3>2, <3>3, <2>1
    <3>4. CASE q = p
      <4>1. j \in Nat /\ k \in Nat
        BY HandOverIndices, <1>11, <2>3, <3>2
      <4> QED BY <4>1, <3>1, <3>2, <3>4, <2>1, <1>2
    <3> QED BY <3>3, <3>4
  <2> QED BY <2>1, <2>2, <2>3, <1>4
<1>12. QueuedOnce'
  BY <1>10, <1>11 DEF QueuedOnce
<1> QED BY <1>7, <1>8, <1>12 DEF GateInv

LEMMA OpenKeeps ==
    ASSUME TypeOK, GateInv, NEW t \in Tasks, Owner(t), Opens(t)
    PROVE  GateInv'
<1>1. \A v \in Tasks : pc'[v] # "queued" /\ ~Owner(v)'
  <2>1. \A v \in Tasks : pc[v] # "queued"
    BY DEF GateInv, QueuedOnce, Waits, Stands, Opens, SomeoneWaits
  <2>2. \A v \in Tasks : pc'[v] = IF v = t THEN "idle" ELSE pc[v]
    BY DEF TypeOK, Opens
  <2> QED BY <2>1, <2>2 DEF GateInv, OneOwner, Owner
<1>2. \A q \in Tiers : DOMAIN waiters'[q] = {}
  BY DEF Opens
<1>3. locked' = FALSE
  BY DEF Opens
<1> QED BY <1>1, <1>2, <1>3
        DEF GateInv, OneOwner, LockHasOwner, NobodyForgotten, SomeoneWaits, QueuedOnce

LEMMA ReleaseKeeps ==
    ASSUME TypeOK, GateInv, NEW t \in Tasks, Owner(t), ReleaseBy(t)
    PROVE  GateInv'
BY ReleaseCases, HandOverKeeps, OpenKeeps

\* A push keeps every entry in its place and adds one live one, the task's.
LEMMA QueueKeeps ==
    ASSUME TypeOK, GateInv, NEW t \in Tasks, NEW p \in Tiers, AcquireQueued(t, p)
    PROVE  GateInv'
<1> DEFINE n == Len(waiters[p]) + 1
<1>1. waiters[p] \in Seq(Entry) /\ DOMAIN waiters[p] = 1..Len(waiters[p]) /\ Len(waiters[p]) \in Nat
  BY DEF TypeOK
<1>2. waiters'[p] = Append(waiters[p], [task |-> t, live |-> TRUE])
  BY DEF AcquireQueued, TypeOK
<1>3. /\ DOMAIN waiters'[p] = 1..n
      /\ waiters'[p][n] = [task |-> t, live |-> TRUE]
      /\ \A i \in DOMAIN waiters[p] : i # n /\ i \in 1..n /\ waiters'[p][i] = waiters[p][i]
      /\ \A i \in 1..n : i # n => i \in DOMAIN waiters[p]
  BY <1>1, <1>2
<1>4. \A q \in Tiers : q # p => waiters'[q] = waiters[q]
  BY DEF AcquireQueued, TypeOK
<1>5. /\ pc[t] = "idle" /\ pc'[t] = "queued" /\ locked' /\ locked
      /\ \A v \in Tasks : v # t => pc'[v] = pc[v]
  BY DEF AcquireQueued, TypeOK
<1>6. OneOwner' /\ LockHasOwner' /\ NobodyForgotten'
  BY <1>5 DEF GateInv, OneOwner, LockHasOwner, NobodyForgotten, Owner
<1>7. \A q \in Tiers : \A i \in DOMAIN waiters[q] :
         waiters[q][i].live => waiters[q][i].task # t /\ waiters[q][i].task \in Tasks
  <2>1. \A q \in Tiers : \A i \in DOMAIN waiters[q] : waiters[q][i] \in Entry
    BY DEF TypeOK
  <2> QED BY <2>1, <1>5 DEF GateInv, QueuedOnce, Entry
<1>8. \A q \in Tiers : \A j \in DOMAIN waiters'[q] :
         \/ q = p /\ j = n
         \/ <<q, j>> # <<p, n>> /\ j \in DOMAIN waiters[q] /\ waiters'[q][j] = waiters[q][j]
  BY <1>3, <1>4
<1>9. ASSUME NEW v \in Tasks, pc'[v] = "queued" PROVE \E q \in Tiers : (Waits(v, q))'
  <2>1. CASE v = t
    BY <2>1, <1>3 DEF Waits, Stands
  <2>2. CASE v # t
    <3>1. PICK q \in Tiers : \E i \in DOMAIN waiters[q] : Stands(v, q, i)
      BY <2>2, <1>5, <1>9 DEF GateInv, QueuedOnce, Waits
    <3>2. PICK i \in DOMAIN waiters[q] : Stands(v, q, i)
      BY <3>1
    <3>3. i \in DOMAIN waiters'[q] /\ waiters'[q][i] = waiters[q][i]
      BY <1>3, <1>4
    <3> QED BY <3>2, <3>3 DEF Waits, Stands
  <2> QED BY <2>1, <2>2
<1>10. ASSUME NEW q \in Tiers, NEW j \in DOMAIN waiters'[q], waiters'[q][j].live
       PROVE  /\ pc'[waiters'[q][j].task] = "queued"
              /\ \A r \in Tiers : \A k \in DOMAIN waiters'[r] :
                    (Stands(waiters[q][j].task, r, k))' => r = q /\ k = j
  <2>1. CASE q = p /\ j = n
    BY <2>1, <1>3, <1>5, <1>7, <1>8 DEF Stands
  <2>2. CASE /\ <<q, j>> # <<p, n>> /\ j \in DOMAIN waiters[q]
             /\ waiters'[q][j] = waiters[q][j]
    <3>1. waiters[q][j].task # t /\ pc'[waiters[q][j].task] = "queued"
      BY <2>2, <1>5, <1>7, <1>10 DEF GateInv, QueuedOnce
    <3>2. ASSUME NEW r \in Tiers, NEW k \in DOMAIN waiters'[r],
                 (Stands(waiters[q][j].task, r, k))'
          PROVE  r = q /\ k = j
      <4>1. k \in DOMAIN waiters[r] /\ waiters'[r][k] = waiters[r][k]
        BY <3>1, <3>2, <2>2, <1>3, <1>8 DEF Stands
      <4> QED BY <4>1, <3>2, <2>2, <1>10 DEF GateInv, QueuedOnce, Stands
    <3> QED BY <3>1, <3>2, <2>2
  <2> QED BY <2>1, <2>2, <1>8
<1>11. QueuedOnce'
  BY <1>9, <1>10 DEF QueuedOnce
<1> QED BY <1>6, <1>11 DEF GateInv

\* Cancelling a queued task withdraws its one live entry and no other.
LEMMA CancelKeeps ==
    ASSUME TypeOK, GateInv, NEW t \in Tasks, CancelQueued(t)
    PROVE  GateInv'
<1>1. \A q \in Tiers : /\ DOMAIN waiters'[q] = DOMAIN waiters[q]
                       /\ \A i \in DOMAIN waiters[q] :
                             waiters'[q][i] = Withdrawn(waiters[q][i], t)
  BY DEF CancelQueued
<1>2. /\ pc[t] = "queued" /\ pc'[t] = "cancelled" /\ locked' = locked
      /\ \A v \in Tasks : v # t => pc'[v] = pc[v]
  BY DEF CancelQueued, TypeOK
<1>3. \A q \in Tiers : \A i \in DOMAIN waiters[q] :
         /\ waiters'[q][i].live =>
               waiters[q][i].task # t /\ waiters'[q][i] = waiters[q][i]
         /\ waiters[q][i].task # t => waiters'[q][i] = waiters[q][i]
  BY <1>1 DEF Withdrawn
<1>4. \A q \in Tiers : \A i \in DOMAIN waiters[q] : waiters[q][i].task \in Tasks
  <2>1. \A q \in Tiers : \A i \in DOMAIN waiters[q] : waiters[q][i] \in Entry
    BY DEF TypeOK
  <2> QED BY <2>1 DEF Entry
<1>5. OneOwner' /\ LockHasOwner'
  BY <1>2 DEF GateInv, OneOwner, LockHasOwner, Owner
<1>6. NobodyForgotten'
  BY <1>1, <1>2, <1>3 DEF GateInv, NobodyForgotten, SomeoneWaits
<1>7. QueuedOnce'
  <2>1. ASSUME NEW v \in Tasks, pc'[v] = "queued" PROVE \E q \in Tiers : (Waits(v, q))'
    <3>1. v # t /\ pc[v] = "queued"
      BY <1>2, <2>1
    <3>2. PICK q \in Tiers : Waits(v, q)
      BY <3>1 DEF GateInv, QueuedOnce
    <3> QED BY <3>1, <3>2, <1>1, <1>3 DEF Waits, Stands
  <2>2. ASSUME NEW q \in Tiers, NEW j \in DOMAIN waiters'[q], waiters'[q][j].live
        PROVE  /\ pc'[waiters'[q][j].task] = "queued"
               /\ \A r \in Tiers : \A k \in DOMAIN waiters'[r] :
                     (Stands(waiters[q][j].task, r, k))' => r = q /\ k = j
    BY <2>2, <1>1, <1>2, <1>3, <1>4 DEF GateInv, QueuedOnce, Stands
  <2> QED BY <2>1, <2>2 DEF QueuedOnce
<1> QED BY <1>5, <1>6, <1>7 DEF GateInv

LEMMA GateStep ==
    ASSUME TypeOK, GateInv, [Next]_vars
    PROVE  GateInv'
<1>1. ASSUME NEW t \in Tasks, NEW p \in Tiers, AcquireFree(t, p) PROVE GateInv'
  <2>1. \A v \in Tasks : ~Owner(v) /\ pc[v] # "queued"
    BY <1>1 DEF GateInv, LockHasOwner, NobodyForgotten, SomeoneWaits, QueuedOnce,
                Waits, Stands, AcquireFree
  <2>2. pc'[t] = "holding" /\ \A v \in Tasks : v # t => pc'[v] = pc[v]
    BY <1>1 DEF AcquireFree, TypeOK
  <2>3. \A q \in Tiers : \A i \in DOMAIN waiters'[q] : ~waiters'[q][i].live
    BY <1>1 DEF AcquireFree, GateInv, NobodyForgotten, SomeoneWaits
  <2>4. locked'
    BY <1>1 DEF AcquireFree
  <2> QED BY <2>1, <2>2, <2>3, <2>4
          DEF GateInv, OneOwner, LockHasOwner, NobodyForgotten, QueuedOnce, Owner
<1>2. ASSUME NEW t \in Tasks, NEW p \in Tiers, AcquireQueued(t, p) PROVE GateInv'
  BY <1>2, QueueKeeps
<1>3. ASSUME NEW t \in Tasks, CancelQueued(t) PROVE GateInv'
  BY <1>3, CancelKeeps
<1>4. ASSUME NEW t \in Tasks, CancelHanded(t) \/ Resume(t) \/ UnwindCancelled(t)
      PROVE  GateInv'
  <2>1. /\ waiters' = waiters /\ locked' = locked
        /\ \A v \in Tasks : Owner(v)' <=> Owner(v)
        /\ \A v \in Tasks : pc'[v] = "queued" <=> pc[v] = "queued"
    BY <1>4 DEF CancelHanded, Resume, UnwindCancelled, Owner, TypeOK
  <2>2. \A q \in Tiers : \A i \in DOMAIN waiters[q] : waiters[q][i].task \in Tasks
    <3>1. \A q \in Tiers : \A i \in DOMAIN waiters[q] : waiters[q][i] \in Entry
      BY DEF TypeOK
    <3> QED BY <3>1 DEF Entry
  <2> QED BY <2>1, <2>2 DEF GateInv, OneOwner, LockHasOwner, NobodyForgotten,
                            SomeoneWaits, QueuedOnce, Waits, Stands
<1>5. ASSUME NEW t \in Tasks, Release(t) \/ UnwindRevoked(t) PROVE GateInv'
  BY <1>5, ReleaseKeeps DEF Release, UnwindRevoked, Owner
<1>6. CASE UNCHANGED vars
  BY <1>6 DEF vars, GateInv, OneOwner, LockHasOwner, NobodyForgotten, SomeoneWaits,
              QueuedOnce, Waits, Stands, Owner
<1> QED BY <1>1, <1>2, <1>3, <1>4, <1>5, <1>6 DEF Next, Acquire, Cancel, Run

\* The gate's four invariants hold of every execution: one owner, a locked
\* gate always has one, an open gate has no waiter, and a waiter is queued
\* exactly once (core/priority.py:96-124).
THEOREM GateSafe == Spec => []GateInv
<1>1. Init => GateInv
  BY DEF Init, GateInv, OneOwner, LockHasOwner, NobodyForgotten, SomeoneWaits,
         QueuedOnce, Owner
<1> QED BY <1>1, GateStep, Typing, PTL DEF Spec

\* One load at a time: two tasks never own the gate together.
THEOREM MutualExclusion == Spec => []OneOwner
BY GateSafe, PTL DEF GateInv

\* The hand-off is never lost: the gate is locked exactly while a task owns it.
THEOREM HandOffNeverLost == Spec => []LockHasOwner
BY GateSafe, PTL DEF GateInv

-----------------------------------------------------------------------------

\* A task is handed the lock only by a release, which picks its entry.
LEMMA HandedByRelease ==
    ASSUME TypeOK, GateInv, [Next]_vars, NEW u \in Tasks, HandedTo(u)
    PROVE  \E t \in Tasks : \E p \in Tiers : \E i \in DOMAIN waiters[p] :
              Owner(t) /\ HandsOver(t, p, i) /\ Stands(u, p, i)
<1>1. PICK t \in Tasks : Owner(t) /\ ReleaseBy(t)
  BY DEF HandedTo, TypeOK, Next, Acquire, Cancel, Run, AcquireFree, AcquireQueued,
         CancelQueued, CancelHanded, Resume, UnwindCancelled, Release, UnwindRevoked,
         Owner, vars
<1>2. ~Opens(t)
  BY DEF Opens, HandedTo, TypeOK
<1>3. PICK p \in Tiers : \E i \in DOMAIN waiters[p] : HandsOver(t, p, i)
  BY <1>1, <1>2, ReleaseCases
<1>4. PICK i \in DOMAIN waiters[p] : HandsOver(t, p, i)
  BY <1>3
<1>5. Stands(u, p, i)
  <2>1. waiters[p][i].task = u
    BY <1>4 DEF HandedTo, HandsOver, TypeOK
  <2> QED BY <2>1, <1>4 DEF HandsOver, IsNext, LiveAt, Stands
<1> QED BY <1>1, <1>4, <1>5

\* A release serves the best tier waiting, whatever the number of loads.
THEOREM TierOrder == Spec => BestTierFirst
<1>1. TypeOK /\ GateInv /\ [Next]_vars =>
         [\A t, u \in Tasks : \A p, q \in Tiers :
            HandedTo(t) /\ Waits(t, p) /\ Waits(u, q) => p <= q]_vars
  <2> SUFFICES ASSUME TypeOK, GateInv, [Next]_vars, NEW t \in Tasks, NEW u \in Tasks,
                      NEW p \in Tiers, NEW q \in Tiers,
                      HandedTo(t), Waits(t, p), Waits(u, q)
               PROVE  p <= q
    OBVIOUS
  <2>1. PICK r \in Tiers : \E i \in DOMAIN waiters[r] : IsNext(r, i) /\ Stands(t, r, i)
    BY HandedByRelease DEF HandsOver
  <2>2. PICK i \in DOMAIN waiters[r] : IsNext(r, i) /\ Stands(t, r, i)
    BY <2>1
  <2>3. PICK j \in DOMAIN waiters[p] : Stands(t, p, j)
    BY DEF Waits
  <2>4. r = p
    BY <2>2, <2>3 DEF GateInv, QueuedOnce, Stands
  <2> QED BY <2>2, <2>4 DEF IsNext, Waits, Stands, Tiers
<1> QED BY <1>1, GateSafe, Typing, PTL DEF Spec, BestTierFirst

\* Within a tier the release serves the task that queued first.
THEOREM ArrivalOrder == Spec => FifoInTier
<1>1. TypeOK /\ GateInv /\ [Next]_vars =>
         [\A t \in Tasks : \A p \in Tiers : \A i, j \in DOMAIN waiters[p] :
            HandedTo(t) /\ Stands(t, p, i) /\ waiters[p][j].live => i <= j]_vars
  <2> SUFFICES ASSUME TypeOK, GateInv, [Next]_vars, NEW t \in Tasks, NEW p \in Tiers,
                      NEW i \in DOMAIN waiters[p], NEW j \in DOMAIN waiters[p],
                      HandedTo(t), Stands(t, p, i), waiters[p][j].live
               PROVE  i <= j
    OBVIOUS
  <2>1. PICK r \in Tiers : \E k \in DOMAIN waiters[r] : IsNext(r, k) /\ Stands(t, r, k)
    BY HandedByRelease DEF HandsOver
  <2>2. PICK k \in DOMAIN waiters[r] : IsNext(r, k) /\ Stands(t, r, k)
    BY <2>1
  <2>3. r = p /\ k = i
    BY <2>2 DEF GateInv, QueuedOnce, Stands
  <2>4. DOMAIN waiters[p] = 1..Len(waiters[p]) /\ Len(waiters[p]) \in Nat
    BY DEF TypeOK
  <2> QED BY <2>2, <2>3, <2>4 DEF IsNext
<1> QED BY <1>1, GateSafe, Typing, PTL DEF Spec, FifoInTier

-----------------------------------------------------------------------------

owners == {t \in Tasks : Owner(t)}
line == {w \in Tasks \X Tiers : Waits(w[1], w[2])}

\* A release is the abstract gate's Pass.
LEMMA ReleasePasses ==
    ASSUME TypeOK, GateInv, NEW t \in Tasks, Owner(t), ReleaseBy(t)
    PROVE  Gate!Pass(t)
<1>1. owners = {t}
  BY DEF GateInv, OneOwner, owners
<1>2. CASE Opens(t)
  <2>1. line = {} /\ line' = {}
    BY <1>2 DEF Opens, SomeoneWaits, line, Waits, Stands
  <2>2. owners' = {}
    <3>1. \A v \in Tasks : ~Owner(v)'
      BY <1>1, <1>2 DEF Opens, Owner, TypeOK, owners
    <3> QED BY <3>1 DEF owners
  <2> QED BY <1>1, <2>1, <2>2 DEF Gate!Pass, owners, line
<1>3. ASSUME NEW p \in Tiers, NEW i \in DOMAIN waiters[p], HandsOver(t, p, i)
      PROVE  Gate!Pass(t)
  <2> DEFINE u == waiters[p][i].task
  <2>1. Stands(u, p, i) /\ u \in Tasks /\ pc[u] = "queued"
    <3>1. waiters[p] \in Seq(Entry)
      BY DEF TypeOK
    <3>2. waiters[p][i] \in Entry
      BY <3>1
    <3> QED BY <3>2, <1>3 DEF HandsOver, IsNext, LiveAt, Stands, Entry, GateInv, QueuedOnce
  <2>2. owners' = {u}
    <3>1. \A v \in Tasks : Owner(v)' <=> v = u
      BY <1>1, <1>3, <2>1 DEF HandsOver, Owner, TypeOK, owners
    <3> QED BY <3>1, <2>1 DEF owners
  <2>3. \A v \in Tasks : \A q \in Tiers : (Waits(v, q))' => Waits(v, q) /\ <<v, q>> # <<u, p>>
    <3> SUFFICES ASSUME NEW v \in Tasks, NEW q \in Tiers, (Waits(v, q))'
                 PROVE  Waits(v, q) /\ <<v, q>> # <<u, p>>
      OBVIOUS
    <3>1. PICK j \in DOMAIN waiters'[q] : waiters'[q][j].live /\ waiters'[q][j].task = v
      BY DEF Waits, Stands
    <3>2. PICK k \in DOMAIN waiters[q] : waiters[q][k] = waiters'[q][j] /\ <<q, k>> # <<p, i>>
      BY <3>1, <1>3, HandOverBack
    <3> QED BY <2>1, <3>1, <3>2 DEF Waits, Stands, GateInv, QueuedOnce
  <2>4. \A v \in Tasks : \A q \in Tiers : Waits(v, q) /\ <<v, q>> # <<u, p>> => (Waits(v, q))'
    <3> SUFFICES ASSUME NEW v \in Tasks, NEW q \in Tiers, Waits(v, q), <<v, q>> # <<u, p>>
                 PROVE  (Waits(v, q))'
      OBVIOUS
    <3>1. PICK j \in DOMAIN waiters[q] : Stands(v, q, j)
      BY DEF Waits
    <3>2. <<q, j>> # <<p, i>>
      BY <3>1 DEF Stands
    <3>3. PICK k \in DOMAIN waiters'[q] : waiters'[q][k] = waiters[q][j]
      BY <3>1, <3>2, <1>3, HandOverForth DEF Stands
    <3> QED BY <3>1, <3>3 DEF Waits, Stands
  <2>5. line' = line \ {<<u, p>>} /\ <<u, p>> \in line
    BY <2>1, <2>3, <2>4 DEF line, Waits
  <2>6. \A w \in line : p <= w[2]
    BY <1>3 DEF line, HandsOver, IsNext, Waits, Stands, Tiers
  <2>7. <<u, p>>[1] = u /\ <<u, p>>[2] = p
    OBVIOUS
  <2>8. \E w \in line : /\ \A v \in line : w[2] <= v[2]
                        /\ owners' = {w[1]}
                        /\ line' = line \ {w}
    BY <2>2, <2>5, <2>6, <2>7
  <2> QED BY <1>1, <2>8 DEF Gate!Pass, owners, line
<1> QED BY <1>2, <1>3, ReleaseCases

LEMMA GateStepRefines ==
    ASSUME TypeOK, GateInv, [Next]_vars
    PROVE  [Gate!Next]_(Gate!vars)
<1>1. ASSUME NEW t \in Tasks, NEW p \in Tiers, AcquireFree(t, p) PROVE Gate!Enter(t)
  <2>1. owners = {}
    BY <1>1 DEF GateInv, LockHasOwner, AcquireFree, owners
  <2>2. owners' = {t}
    BY <1>1, <2>1 DEF AcquireFree, TypeOK, owners, Owner
  <2>3. line' = line
    BY <1>1 DEF AcquireFree, line, Waits, Stands
  <2> QED BY <2>1, <2>2, <2>3 DEF Gate!Enter, owners, line
<1>2. ASSUME NEW t \in Tasks, NEW p \in Tiers, AcquireQueued(t, p) PROVE Gate!Queue(t, p)
  <2>1. owners # {} /\ t \notin owners
    BY <1>2 DEF GateInv, LockHasOwner, AcquireQueued, owners, Owner
  <2>2. \A w \in line : w[1] # t
    BY <1>2 DEF GateInv, QueuedOnce, AcquireQueued, line, Waits, Stands
  <2>3. owners' = owners
    BY <1>2 DEF AcquireQueued, TypeOK, owners, Owner
  <2>4. /\ DOMAIN waiters'[p] = 1..(Len(waiters[p]) + 1)
        /\ waiters'[p][Len(waiters[p]) + 1] = [task |-> t, live |-> TRUE]
        /\ \A i \in DOMAIN waiters[p] : i \in DOMAIN waiters'[p] /\ waiters'[p][i] = waiters[p][i]
        /\ \A i \in DOMAIN waiters'[p] : i # Len(waiters[p]) + 1 => i \in DOMAIN waiters[p]
    <3>1. waiters[p] \in Seq(Entry)
      BY DEF TypeOK
    <3>2. waiters'[p] = Append(waiters[p], [task |-> t, live |-> TRUE])
      BY <1>2 DEF AcquireQueued, TypeOK
    <3> QED BY <3>1, <3>2
  <2>5. \A q \in Tiers : q # p => waiters'[q] = waiters[q]
    BY <1>2 DEF AcquireQueued, TypeOK
  <2>6. \A v \in Tasks : \A q \in Tiers : (Waits(v, q))' <=> Waits(v, q) \/ (v = t /\ q = p)
    <3>1. (Waits(t, p))'
      <4>1. Len(waiters[p]) + 1 \in DOMAIN waiters'[p]
        <5>1. waiters[p] \in Seq(Entry)
          BY DEF TypeOK
        <5> QED BY <5>1, <2>4
      <4> QED BY <4>1, <2>4 DEF Waits, Stands
    <3>2. \A v \in Tasks : (Waits(v, p))' => Waits(v, p) \/ v = t
      BY <2>4 DEF Waits, Stands
    <3>3. \A v \in Tasks : Waits(v, p) => (Waits(v, p))'
      BY <2>4 DEF Waits, Stands
    <3>4. \A v \in Tasks : \A q \in Tiers : q # p => ((Waits(v, q))' <=> Waits(v, q))
      BY <2>5 DEF Waits, Stands
    <3> QED BY <3>1, <3>2, <3>3, <3>4
  <2>7. line' = line \cup {<<t, p>>}
    BY <2>6 DEF line
  <2> QED BY <2>1, <2>2, <2>3, <2>7 DEF Gate!Queue, owners, line
<1>3. ASSUME NEW t \in Tasks, CancelQueued(t) PROVE Gate!Next
  <2>1. PICK p \in Tiers : Waits(t, p)
    BY <1>3 DEF CancelQueued, GateInv, QueuedOnce
  <2>2. \A v \in Tasks : \A q \in Tiers : (Waits(v, q))' <=> Waits(v, q) /\ v # t
    BY <1>3 DEF CancelQueued, Waits, Stands, Withdrawn
  <2>3. \A q \in Tiers : Waits(t, q) => q = p
    BY <2>1 DEF GateInv, QueuedOnce, Waits, Stands
  <2>4. <<t, p>> \in line /\ line' = line \ {<<t, p>>}
    BY <2>1, <2>2, <2>3 DEF line
  <2>5. owners' = owners
    BY <1>3 DEF CancelQueued, TypeOK, owners, Owner
  <2> QED BY <2>4, <2>5 DEF Gate!Next, Gate!GiveUp, owners, line
<1>4. ASSUME NEW t \in Tasks, CancelHanded(t) \/ Resume(t) \/ UnwindCancelled(t)
      PROVE  UNCHANGED Gate!vars
  <2>1. owners' = owners
    BY <1>4 DEF CancelHanded, Resume, UnwindCancelled, TypeOK, owners, Owner
  <2>2. line' = line
    BY <1>4 DEF CancelHanded, Resume, UnwindCancelled, line, Waits, Stands
  <2> QED BY <2>1, <2>2 DEF Gate!vars, owners, line
<1>5. ASSUME NEW t \in Tasks, Release(t) \/ UnwindRevoked(t) PROVE Gate!Pass(t)
  BY <1>5, ReleasePasses DEF Release, UnwindRevoked, Owner
<1>6. CASE UNCHANGED vars
  BY <1>6 DEF vars, Gate!vars, Owner, Waits, Stands
<1> QED BY <1>1, <1>2, <1>3, <1>4, <1>5, <1>6
        DEF Next, Acquire, Cancel, Run, Gate!Next, Tiers, Gate!Tiers

\* The lock implements the gate its docstring promises, for any set of tasks.
THEOREM Refinement == Spec => ImplementsGate
<1>1. Init => Gate!Init
  BY DEF Init, Gate!Init, Owner, Waits
<1> QED BY <1>1, GateStepRefines, GateSafe, Typing, PTL DEF Spec, ImplementsGate, Gate!Spec

=============================================================================
