--------------------------- MODULE SupervisorProofs ---------------------------
(***************************************************************************)
(* Proofs about Supervisor, for any models, callers, clients, pools, ports *)
(* and restart budget.                                                     *)
(*                                                                         *)
(* Callers take turns with a model's lock, and what a caller has in hand   *)
(* no watcher has (TurnInv, which needs nothing of the processes), so what *)
(* is being stopped gets no new process.  When processes die of what kills *)
(* them (~Survivors), all that lives or is looked after is its model's     *)
(* entry (Tied); when nobody else is on the ports (Strangers = {}), each   *)
(* entry has a port of its own (PortsSetAside).  All of this speaks of the *)
(* models whose lock was never dropped under a waiter.                     *)
(*                                                                         *)
(* Calls that take their turn are told apart by what they do (Kinds):      *)
(* start a child, mark one for a stop, or leave all as it is.              *)
(***************************************************************************)
EXTENDS Supervisor, FiniteSetTheorems, SequenceTheorems, WellFoundedInduction, TLAPS

-----------------------------------------------------------------------------
\* The invariant.

Runs(c) == call[c].pc \notin {"idle", "line"}

\* Callers that will need an instance when the lock comes to them.
Starters == {c \in Callers : call[c].pc = "line" /\ call[c].op = "start"}

Typed == TypeOK /\ Cardinality(Starters) <= Cardinality(FreshInsts)

\* Who holds a lock is alone with it, who waits for one is in its line, and a lock
\* serves one model; unless it was dropped under a waiter, all of its model.
LocksTurn ==
    /\ \A c, d \in Callers : Runs(c) /\ Runs(d) /\ call[c].lock = call[d].lock => c = d
    /\ \A c \in Callers :
          /\ Runs(c) => lockHeld[call[c].lock]
          /\ call[c].pc = "line" =>
                \E n \in 1..Len(lockLine[call[c].lock]) : lockLine[call[c].lock][n] = c
          /\ call[c].pc # "idle" =>
                /\ \A m \in Models : lockOf[m] = call[c].lock => m = call[c].model
                /\ call[c].model \notin stranded => lockOf[call[c].model] = call[c].lock
    /\ \A c, d \in Callers :
          call[c].pc # "idle" /\ call[d].pc # "idle" /\ call[c].lock = call[d].lock
          => call[c].model = call[d].model
    /\ \A m, n \in Models : lockOf[m] = lockOf[n] /\ lockOf[m] # None => m = n

\* An entry, and the instance a caller works on, is of the model named.
Named ==
    /\ \A m \in Models : table[m] # None => inst[table[m]].model = m
    /\ \A c \in Callers : Runs(c) => inst[call[c].inst].model = call[c].model

At(c, i) == Runs(c) /\ call[c].inst = i

\* What a caller has in hand no watcher has, and what is being stopped neither.
HandsApart ==
    \A i \in Insts : inst[i].model \notin stranded =>
        /\ inst[i].stopping => inst[i].watcher = "none"
        /\ \A c \in Callers : At(c, i) =>
              /\ inst[i].watcher = "none"
              /\ call[c].pc \in {"spawn", "health"} => ~inst[i].stopping

TurnInv == Typed /\ LocksTurn /\ Named /\ HandsApart

\* A child, and whoever looks after one, is of its model's entry; an entry that is
\* not shown as up has neither child nor watcher, unless a caller is at it.
TiedAt(i) ==
    /\ Alive(i) \/ inst[i].watcher # "none" \/ (\E c \in Callers : At(c, i))
       => table[inst[i].model] = i
    /\ inst[i].state \notin {"loading", "ready"} /\ (Alive(i) \/ inst[i].watcher # "none")
       => \E c \in Callers : At(c, i)
    /\ inst[i].watcher = "backoff" => ~Alive(i)
    /\ \A c \in Callers : At(c, i) /\ call[c].pc \in {"verify", "nothing"} => ~Alive(i)

Tied == \A i \in Insts : inst[i].model \notin stranded => TiedAt(i)

\* Each entry, up or not, has a port of its own, and nobody else is on our ports.
OwnPorts == \A i, j \in Insts : InTable(i) /\ InTable(j) =>
                inst[i].port \in portsInUse /\ (i # j => inst[i].port # inst[j].port)

PortsSetAside == foreign = {} /\ (stranded = {} => OwnPorts)

-----------------------------------------------------------------------------

\* Min is the least of a set of numbers, so one of them.
LEMMA MinIn ==
    ASSUME NEW S, S \subseteq Nat, S # {}
    PROVE  Min(S) \in S
<1> DEFINE R == {ss \in Nat \X Nat : ss[1] < ss[2]}
<1>1. IsWellFoundedOn(R, Nat)
  BY NatLessThanWellFounded DEF OpToRel
<1>2. PICK x \in S : \A y \in S : ~(<<y, x>> \in R)
  <2> HIDE DEF R
  <2> QED BY <1>1, WFMin
<1>3. \A y \in S : x <= y
  <2>1. ASSUME NEW y \in S, y < x PROVE <<y, x>> \in R
    <3>1. <<y, x>> \in Nat \X Nat /\ <<y, x>>[1] = y /\ <<y, x>>[2] = x
      OBVIOUS
    <3> QED BY <2>1, <3>1, Zenon
  <2>2. \A y \in S : ~(y < x)
    <3> HIDE DEF R
    <3> QED BY <1>2, <2>1
  <2> QED BY <2>2
<1> QED BY <1>3 DEF Min

\* What a turn with the lock does to the call and the locks: it ends, or goes on with
\* the lock held; the model keeps its lock or, with no entry left, loses it.
Turns(c, m, l, of) ==
    /\ \/ call' = [call EXCEPT ![c] = Idle] /\ lockHeld' = [lockHeld EXCEPT ![l] = FALSE]
       \/ /\ \E r \in Running : r.lock = l /\ r.model = m /\ call' = [call EXCEPT ![c] = r]
          /\ lockHeld' = [lockHeld EXCEPT ![l] = TRUE]
    /\ \/ lockOf' = of /\ stranded' = stranded
       \/ /\ of[m] # None /\ ~lockHeld'[of[m]] /\ table'[m] = None
          /\ lockOf' = [of EXCEPT ![m] = None]
          /\ stranded' = IF lockLine'[of[m]] # <<>> THEN stranded \cup {m} ELSE stranded

\* Whose turn it is: c is alone with l, which is the lock of m and of nobody else.
Turn(c, m, l, of) ==
    /\ c \in Callers /\ m \in Models /\ l \in Locks /\ of \in [Models -> Locks \cup {None}]
    /\ \A n \in Models : n # m => of[n] = lockOf[n]
    /\ \A n \in Models : of[n] = l => n = m
    /\ m \notin stranded => of[m] = l
    /\ of[m] = lockOf[m] \/ (lockOf[m] = None /\ of[m] = l)
    /\ \A d \in Callers \ {c} : call[d].pc # "idle" /\ call[d].lock = l => ~Runs(d) /\ call[d].model = m
    /\ \A d \in Callers \ {c} : call[d].pc = "line" =>
          \E n \in 1..Len(lockLine'[call[d].lock]) : lockLine'[call[d].lock][n] = d

LEMMA PruneFacts ==
    ASSUME NEW m, NEW of, PruneLock(m, of)
    PROVE  \/ lockOf' = of /\ stranded' = stranded
           \/ /\ of[m] # None /\ ~lockHeld'[of[m]] /\ table'[m] = None
              /\ lockOf' = [of EXCEPT ![m] = None]
              /\ stranded' = IF lockLine'[of[m]] # <<>> THEN stranded \cup {m} ELSE stranded
BY Zenon DEF PruneLock

LEMMA TurnLocks ==
    ASSUME TypeOK, LocksTurn, NEW c, NEW m, NEW l, NEW of, Turn(c, m, l, of), Turns(c, m, l, of)
    PROVE  LocksTurn'
<1>1. /\ call \in [Callers -> {Idle} \cup Waiting \cup Running] /\ lockHeld \in [Locks -> BOOLEAN]
      /\ c \in Callers /\ l \in Locks /\ m \in Models /\ None \notin Locks
      /\ lockOf \in [Models -> Locks \cup {None}] /\ of \in [Models -> Locks \cup {None}]
  BY SupervisorAssumption DEF TypeOK, Turn
<1>2. \A d \in Callers \ {c} : call'[d] = call[d]
  BY <1>1 DEF Turns
<1>3. \/ call'[c] = Idle /\ lockHeld' = [lockHeld EXCEPT ![l] = FALSE]
      \/ /\ call'[c].pc \notin {"idle", "line"} /\ call'[c].lock = l /\ call'[c].model = m
         /\ lockHeld' = [lockHeld EXCEPT ![l] = TRUE]
  BY <1>1 DEF Turns, Running
<1>4. Idle.pc = "idle"
  BY DEF Idle
<1>5. \A d \in Callers : call[d].pc # "idle" => call[d].lock \in Locks /\ call[d].model \in Models
  BY <1>1, <1>4 DEF Waiting, Running
<1>6. ASSUME NEW d \in Callers, NEW e \in Callers, Runs(d)', Runs(e)', call'[d].lock = call'[e].lock
      PROVE  d = e
  <2>1. d # c /\ e # c => d = e
    BY <1>2, <1>6 DEF LocksTurn, Runs
  <2>2. d = c /\ e # c => FALSE
    BY <1>2, <1>3, <1>4, <1>6 DEF Turn, Runs
  <2>3. e = c /\ d # c => FALSE
    BY <1>2, <1>3, <1>4, <1>6 DEF Turn, Runs
  <2> QED BY <2>1, <2>2, <2>3
<1>7. ASSUME NEW d \in Callers, Runs(d)' PROVE lockHeld'[call'[d].lock]
  <2>1. CASE d = c
    BY <1>1, <1>3, <1>4, <1>7, <2>1 DEF Runs
  <2>2. CASE d # c
    <3>1. Runs(d) /\ call'[d].lock = call[d].lock /\ call[d].lock # l /\ call[d].lock \in Locks
      BY <1>2, <1>5, <1>7, <2>2 DEF Runs, Turn
    <3>2. lockHeld[call[d].lock]
      BY <3>1 DEF LocksTurn
    <3> QED BY <1>1, <1>3, <3>1, <3>2
  <2> QED BY <2>1, <2>2
<1>8. ASSUME NEW d \in Callers, call'[d].pc = "line"
      PROVE  \E n \in 1..Len(lockLine'[call'[d].lock]) : lockLine'[call'[d].lock][n] = d
  BY <1>2, <1>3, <1>4, <1>8 DEF Turn
<1>9. ASSUME NEW d \in Callers, NEW e \in Callers, call'[d].pc # "idle", call'[e].pc # "idle",
             call'[d].lock = call'[e].lock
      PROVE  call'[d].model = call'[e].model
  <2>1. \A x \in Callers : x # c /\ call'[x].pc # "idle" /\ call'[x].lock = l => call'[x].model = m
    BY <1>2 DEF Turn
  <2>2. d # c /\ e # c => call'[d].model = call'[e].model
    BY <1>2, <1>9 DEF LocksTurn
  <2> QED BY <1>3, <1>4, <1>9, <2>1, <2>2
<1>10. \A n \in Models : lockOf'[n] # None => lockOf'[n] = of[n]
  BY <1>1 DEF Turns
<1>11. \A k, n \in Models : of[k] = of[n] /\ of[k] # None => k = n
  BY <1>1 DEF Turn, LocksTurn
<1>12. ASSUME NEW k \in Models, NEW n \in Models, lockOf'[k] = lockOf'[n], lockOf'[k] # None
       PROVE  k = n
  BY <1>10, <1>11, <1>12
<1>13. ASSUME NEW d \in Callers, call'[d].pc # "idle", NEW n \in Models, lockOf'[n] = call'[d].lock
       PROVE  n = call'[d].model
  <2>1. CASE d = c
    BY <1>1, <1>3, <1>4, <1>10, <1>13, <2>1 DEF Turn
  <2>2. CASE d # c
    <3>1. call'[d] = call[d] /\ call[d].lock \in Locks /\ of[n] = call[d].lock
      BY <1>1, <1>2, <1>5, <1>10, <1>13, <2>2
    <3>2. CASE of[n] = l
      BY <1>13, <2>2, <3>1, <3>2 DEF Turn
    <3>3. CASE of[n] # l
      <4>1. of[n] = lockOf[n]
        BY <3>3 DEF Turn
      <4>2. call[d].pc # "idle" /\ lockOf[n] = call[d].lock
        BY <1>13, <3>1, <4>1
      <4>3. n = call[d].model
        BY <4>2 DEF LocksTurn
      <4> QED BY <3>1, <4>3
    <3> QED BY <3>2, <3>3
  <2> QED BY <2>1, <2>2
<1>14. ASSUME NEW d \in Callers, call'[d].pc # "idle", call'[d].model \notin stranded'
       PROVE  lockOf'[call'[d].model] = call'[d].lock
  <2> DEFINE n == call'[d].model
  <2>1. n \in Models /\ n \notin stranded
    BY <1>1, <1>2, <1>3, <1>4, <1>5, <1>14 DEF Turns
  <2>2. of[n] = call'[d].lock
    <3>1. CASE d = c
      BY <1>3, <1>4, <1>14, <2>1, <3>1 DEF Turn
    <3>2. CASE d # c
      <4>1. lockOf[n] = call'[d].lock /\ call'[d].lock \in Locks
        BY <1>2, <1>5, <1>14, <2>1, <3>2 DEF LocksTurn
      <4> QED BY <1>1, <2>1, <4>1 DEF Turn
    <3> QED BY <3>1, <3>2
  <2>3. CASE lockOf' = of
    BY <2>2, <2>3
  <2>4. CASE n # m
    BY <1>1, <2>1, <2>2, <2>4 DEF Turns
  <2>5. CASE n = m /\ ~lockHeld'[of[m]] /\ lockLine'[of[m]] = <<>>
    <3>1. of[m] = l
      BY <2>1, <2>5 DEF Turn
    <3>2. call'[c].pc = "idle"
      BY <1>1, <1>3, <1>4, <2>5, <3>1
    <3>3. d # c /\ call'[d] = call[d] /\ call[d].lock = l
      BY <1>2, <1>14, <2>2, <2>5, <3>1, <3>2
    <3>4. call[d].pc = "line"
      BY <1>14, <3>3 DEF Turn, Runs
    <3>5. \E k \in 1..Len(lockLine'[l]) : lockLine'[l][k] = d
      BY <3>3, <3>4 DEF Turn
    <3> QED BY <2>5, <3>1, <3>5
  <2>6. CASE n = m /\ lockLine'[of[m]] # <<>> /\ stranded' = stranded \cup {m}
    BY <1>14, <2>6
  <2> QED BY <2>3, <2>4, <2>5, <2>6 DEF Turns
<1> QED BY <1>6, <1>7, <1>8, <1>9, <1>12, <1>13, <1>14 DEF LocksTurn

\* The other things that happen to calls and locks.

LEMMA SameLocks ==
    ASSUME TypeOK, LocksTurn, UNCHANGED locks, NEW c \in Callers, NEW r \in Running,
           Runs(c), r.lock = call[c].lock, r.model = call[c].model, call' = [call EXCEPT ![c] = r]
    PROVE  LocksTurn'
<1>1. \A d \in Callers : d # c => call'[d] = call[d]
  BY DEF TypeOK
<1>2. call'[c] = r /\ r.pc \notin {"idle", "line"} /\ UNCHANGED <<lockOf, lockHeld, lockLine, stranded>>
  BY DEF TypeOK, Running, locks
<1>3. \A d \in Callers : /\ Runs(d)' <=> Runs(d)
                         /\ (call'[d].pc = "idle") <=> (call[d].pc = "idle")
                         /\ (call'[d].pc = "line") <=> (call[d].pc = "line")
                         /\ call[d].pc # "idle" => call'[d].lock = call[d].lock /\ call'[d].model = call[d].model
  BY <1>1, <1>2 DEF Runs
<1>4. \A d, e \in Callers : Runs(d)' /\ Runs(e)' /\ call'[d].lock = call'[e].lock => d = e
  BY <1>3 DEF LocksTurn, Runs
<1>5. \A d \in Callers :
          /\ Runs(d)' => lockHeld[call'[d].lock]
          /\ call'[d].pc = "line" =>
                \E n \in 1..Len(lockLine[call'[d].lock]) : lockLine[call'[d].lock][n] = d
          /\ call'[d].pc # "idle" =>
                /\ \A m \in Models : lockOf[m] = call'[d].lock => m = call'[d].model
                /\ call'[d].model \notin stranded => lockOf[call'[d].model] = call'[d].lock
  BY <1>3 DEF LocksTurn, Runs
<1>6. \A d, e \in Callers :
          call'[d].pc # "idle" /\ call'[e].pc # "idle" /\ call'[d].lock = call'[e].lock
          => call'[d].model = call'[e].model
  BY <1>3 DEF LocksTurn
<1> QED BY <1>2, <1>4, <1>5, <1>6 DEF LocksTurn

\* What is in a sequence is still in it when another element is taken out.
LEMMA OneLeaves ==
    ASSUME NEW S, NEW s \in Seq(S), NEW n \in 1..Len(s), NEW k \in 1..Len(s), k # n
    PROVE  LET t == SubSeq(s, 1, n - 1) \o SubSeq(s, n + 1, Len(s)) IN
           \E j \in 1..Len(t) : t[j] = s[k]
<1> DEFINE a == SubSeq(s, 1, n - 1)
           b == SubSeq(s, n + 1, Len(s))
           t == a \o b
<1>1. Len(s) \in Nat /\ n \in Nat /\ k \in Nat /\ 1 <= n /\ n <= Len(s) /\ 1 <= k /\ k <= Len(s)
  OBVIOUS
<1>2. a \in Seq(S) /\ Len(a) = n - 1 /\ \A j \in 1..(n - 1) : a[j] = s[j]
  BY <1>1
<1>3. b \in Seq(S) /\ Len(b) = Len(s) - n /\ \A j \in 1..(Len(s) - n) : b[j] = s[n + j]
  <2>1. CASE n + 1 <= Len(s)
    BY <1>1, <2>1
  <2>2. CASE n + 1 > Len(s)
    BY <1>1, <2>2
  <2> QED BY <1>1, <2>1, <2>2
<1> SUFFICES \E j \in 1..Len(t) : t[j] = s[k]
  OBVIOUS
<1> HIDE DEF a, b
<1>4. Len(t) = Len(s) - 1 /\ \A j \in 1..Len(t) : t[j] = IF j <= n - 1 THEN a[j] ELSE b[j - (n - 1)]
  <2>1. Len(t) = Len(a) + Len(b)
    BY <1>2, <1>3, ConcatProperties
  <2>2. Len(t) = Len(s) - 1
    BY <1>1, <1>2, <1>3, <2>1
  <2>3. \A j \in 1..(Len(a) + Len(b)) : t[j] = IF j <= Len(a) THEN a[j] ELSE b[j - Len(a)]
    BY <1>2, <1>3
  <2> QED BY <1>2, <2>1, <2>2, <2>3
<1> HIDE DEF t
<1>5. CASE k < n
  <2>1. k \in 1..Len(t) /\ t[k] = s[k]
    BY <1>1, <1>2, <1>4, <1>5
  <2> QED BY <2>1
<1>6. CASE k > n
  <2>1. k - 1 \in 1..Len(t) /\ ~(k - 1 <= n - 1) /\ (k - 1) - (n - 1) = k - n /\ k - n \in 1..(Len(s) - n)
    BY <1>1, <1>4, <1>6
  <2>2. t[k - 1] = b[k - n] /\ b[k - n] = s[n + (k - n)] /\ n + (k - n) = k
    BY <1>1, <1>3, <1>4, <2>1
  <2>3. t[k - 1] = s[k]
    BY <2>2
  <2> QED BY <2>1, <2>3
<1> QED BY <1>1, <1>5, <1>6

LEMMA LeavesLine ==
    ASSUME TypeOK, LocksTurn, NEW c \in Callers, CancelInLine(c)
    PROVE  LocksTurn'
<1> DEFINE l == call[c].lock
<1>1. /\ call[c].pc = "line" /\ call' = [call EXCEPT ![c] = Idle]
      /\ UNCHANGED <<lockOf, lockHeld, stranded, table, portsInUse, inst, proc, foreign>>
  BY DEF CancelInLine, Return
<1>2. PICK n \in 1..Len(lockLine[l]) :
         /\ lockLine[l][n] = c
         /\ lockLine' = [lockLine EXCEPT ![l] = SubSeq(@, 1, n - 1) \o SubSeq(@, n + 1, Len(@))]
  BY DEF CancelInLine
<1>3. l \in Locks /\ lockLine \in [Locks -> Seq(Callers)] /\ l \in DOMAIN lockLine /\ lockLine[l] \in Seq(Callers)
  BY <1>1 DEF TypeOK, Idle, Waiting, Running
<1>4. \A d \in Callers : call'[d] = IF d = c THEN Idle ELSE call[d]
  BY <1>1 DEF TypeOK
<1>5. \A d \in Callers : call'[d].pc # "idle" => d # c /\ call'[d] = call[d]
  BY <1>4 DEF Idle
<1>6. ASSUME NEW d \in Callers, call'[d].pc = "line"
      PROVE  \E k \in 1..Len(lockLine'[call'[d].lock]) : lockLine'[call'[d].lock][k] = d
  <2>1. d # c /\ call'[d] = call[d]
    BY <1>5, <1>6
  <2>2. PICK k \in 1..Len(lockLine[call[d].lock]) : lockLine[call[d].lock][k] = d
    BY <1>6, <2>1 DEF LocksTurn
  <2>3. CASE call[d].lock # l
    BY <1>2, <1>3, <2>1, <2>2, <2>3
  <2>4. CASE call[d].lock = l
    <3> DEFINE s == lockLine[l]
               t == SubSeq(s, 1, n - 1) \o SubSeq(s, n + 1, Len(s))
    <3>1. lockLine'[l] = t /\ s \in Seq(Callers) /\ s[k] = d /\ s[n] = c /\ k # n
      BY <1>2, <1>3, <2>1, <2>2, <2>4
    <3>2. k \in 1..Len(s) /\ n \in 1..Len(s)
      BY <1>2, <2>2, <2>4
    <3>3. \E j \in 1..Len(t) : t[j] = s[k]
      <4> HIDE DEF s
      <4> QED BY <3>1, <3>2, OneLeaves
    <3> QED BY <2>1, <2>4, <3>1, <3>3
  <2> QED BY <2>3, <2>4
<1>7. \A d, e \in Callers : Runs(d)' /\ Runs(e)' /\ call'[d].lock = call'[e].lock => d = e
  BY <1>5 DEF LocksTurn, Runs
<1>8. \A d \in Callers :
          /\ Runs(d)' => lockHeld[call'[d].lock]
          /\ call'[d].pc # "idle" =>
                /\ \A m \in Models : lockOf[m] = call'[d].lock => m = call'[d].model
                /\ call'[d].model \notin stranded => lockOf[call'[d].model] = call'[d].lock
  BY <1>5 DEF LocksTurn, Runs
<1>9. \A d, e \in Callers :
          call'[d].pc # "idle" /\ call'[e].pc # "idle" /\ call'[d].lock = call'[e].lock
          => call'[d].model = call'[e].model
  BY <1>5 DEF LocksTurn
<1> QED BY <1>1, <1>6, <1>7, <1>8, <1>9 DEF LocksTurn

\* c gets in line for l, the lock of its model.
LEMMA EntersLine ==
    ASSUME TypeOK, LocksTurn, NEW c \in Callers, NEW m \in Models, NEW op \in {"start", "stop"}, NEW l \in Locks,
           call[c].pc = "idle", lockOf[m] = l,
           lockLine' = [lockLine EXCEPT ![l] = Append(@, c)],
           call' = [call EXCEPT ![c] = [pc |-> "line", op |-> op, model |-> m, lock |-> l]],
           UNCHANGED <<lockOf, lockHeld, stranded>>
    PROVE  LocksTurn'
<1> DEFINE r == [pc |-> "line", op |-> op, model |-> m, lock |-> l]
<1>1. r.pc = "line" /\ r.model = m /\ r.lock = l
  OBVIOUS
<1>2. lockLine \in [Locks -> Seq(Callers)] /\ \A d \in Callers : call'[d] = IF d = c THEN r ELSE call[d]
  BY DEF TypeOK
<1> HIDE DEF r
<1>3. \A d \in Callers : Runs(d)' => Runs(d) /\ d # c /\ call'[d] = call[d]
  BY <1>1, <1>2 DEF Runs
<1>4. ASSUME NEW d \in Callers, call'[d].pc = "line"
      PROVE  \E k \in 1..Len(lockLine'[call'[d].lock]) : lockLine'[call'[d].lock][k] = d
  <2>1. CASE d = c
    <3>1. lockLine'[l] = Append(lockLine[l], c) /\ lockLine[l] \in Seq(Callers)
      BY <1>2
    <3>2. Len(lockLine'[l]) \in 1..Len(lockLine'[l]) /\ lockLine'[l][Len(lockLine'[l])] = c
      BY <3>1
    <3> QED BY <1>1, <1>2, <2>1, <3>2
  <2>2. CASE d # c
    <3>1. call'[d] = call[d]
      BY <1>2, <2>2
    <3>2. PICK k \in 1..Len(lockLine[call[d].lock]) : lockLine[call[d].lock][k] = d
      BY <1>4, <3>1 DEF LocksTurn
    <3>3. CASE call[d].lock # l
      BY <1>2, <3>1, <3>2, <3>3
    <3>4. CASE call[d].lock = l
      <4>1. lockLine'[l] = Append(lockLine[l], c) /\ lockLine[l] \in Seq(Callers)
        BY <1>2
      <4>2. k \in 1..Len(lockLine'[l]) /\ lockLine'[l][k] = d
        BY <3>2, <3>4, <4>1
      <4> QED BY <3>1, <3>4, <4>2
    <3> QED BY <3>3, <3>4
  <2> QED BY <2>1, <2>2
<1>5. ASSUME NEW d \in Callers, call'[d].pc # "idle"
      PROVE  /\ \A n \in Models : lockOf[n] = call'[d].lock => n = call'[d].model
             /\ call'[d].model \notin stranded => lockOf[call'[d].model] = call'[d].lock
  <2>1. CASE d = c
    <3>1. l # None
      BY SupervisorAssumption
    <3> QED BY <1>1, <1>2, <2>1, <3>1 DEF LocksTurn
  <2>2. CASE d # c
    BY <1>2, <1>5, <2>2 DEF LocksTurn
  <2> QED BY <2>1, <2>2
<1>6. ASSUME NEW d \in Callers, NEW e \in Callers, call'[d].pc # "idle", call'[e].pc # "idle",
             call'[d].lock = call'[e].lock
      PROVE  call'[d].model = call'[e].model
  <2>1. \A x \in Callers : x # c /\ call[x].pc # "idle" /\ call[x].lock = l => call[x].model = m
    BY DEF LocksTurn
  <2>2. d # c /\ e # c => call'[d].model = call'[e].model
    BY <1>2, <1>6 DEF LocksTurn
  <2> QED BY <1>1, <1>2, <1>6, <2>1, <2>2
<1>7. \A d, e \in Callers : Runs(d)' /\ Runs(e)' /\ call'[d].lock = call'[e].lock => d = e
  BY <1>3 DEF LocksTurn
<1>8. \A d \in Callers : Runs(d)' => lockHeld[call'[d].lock]
  BY <1>3 DEF LocksTurn
<1> QED BY <1>4, <1>5, <1>6, <1>7, <1>8 DEF LocksTurn

-----------------------------------------------------------------------------
\* What the steps do to the calls, the entries and the instances.

\* c takes its turn for m: nobody else is working for m.
Alone(c, m) ==
    /\ c \in Callers /\ m \in Models /\ ~Runs(c)
    /\ m \notin stranded => \A d \in Callers : Runs(d) => call[d].model # m

\* A start sets up instance i on port p.
NewChild(c, m, i, p) ==
    /\ i \in FreshInsts /\ p \in FreePorts(portsInUse) /\ ~Up(m)
    /\ inst' = [inst EXCEPT ![i] = [model |-> m, state |-> "loading", port |-> p,
                                    stopping |-> FALSE, restarts |-> 0, watcher |-> "none"]]
    /\ proc' = [proc EXCEPT ![i] = "none"]
    /\ table' = [table EXCEPT ![m] = i]
    /\ portsInUse' = portsInUse \cup {p}
    /\ \E r \in Running : /\ r.pc = "spawn" /\ r.model = m /\ r.inst = i
                          /\ call' = [call EXCEPT ![c] = r]

\* A stop marks the entry of m.
Marks(c, m) ==
    /\ table[m] \in Insts
    /\ inst' = [inst EXCEPT ![table[m]].stopping = TRUE, ![table[m]].state = "unloading",
                            ![table[m]].watcher = "none"]
    /\ \E r \in Running : /\ r.pc = IF proc[table[m]] = "none" THEN "nothing" ELSE "kill"
                          /\ r.model = m /\ r.inst = table[m]
                          /\ call' = [call EXCEPT ![c] = r]
    /\ UNCHANGED <<table, portsInUse, proc>>

\* A call that does not run gets in line, leaves it or returns.
Quiet(c) ==
    /\ c \in Callers /\ ~Runs(c)
    /\ \E r \in {Idle} \cup Waiting : call' = [call EXCEPT ![c] = r]
    /\ UNCHANGED <<table, portsInUse, inst, proc>>

LEMMA BodyDoes ==
    ASSUME TypeOK, LocksTurn, NEW c, NEW m, NEW l, NEW of, NEW op, Turn(c, m, l, of), ~Runs(c),
           op = "start" => FreshInsts # {}, Body(c, op, m, l, of)
    PROVE  /\ Turns(c, m, l, of)
           /\ Alone(c, m)
           /\ \/ op = "start" /\ \E i, p : NewChild(c, m, i, p)
              \/ Marks(c, m)
              \/ Quiet(c) /\ call' = [call EXCEPT ![c] = Idle]
<1>1. c \in Callers /\ m \in Models /\ l \in Locks
  BY DEF Turn
<1>2. Alone(c, m)
  <2>1. ASSUME m \notin stranded, NEW d \in Callers, Runs(d), call[d].model = m
        PROVE  FALSE
    <3>1. d # c /\ call[d].pc # "idle"
      BY <2>1 DEF Runs
    <3>2. lockOf[m] = call[d].lock /\ call[d].lock \in Locks
      BY <1>1, <2>1, <3>1 DEF LocksTurn, TypeOK, Idle, Waiting, Running
    <3>3. call[d].lock = l
      BY <2>1, <3>2, SupervisorAssumption DEF Turn
    <3> QED BY <2>1, <3>1, <3>3 DEF Turn
  <2> QED BY <1>1, <2>1 DEF Alone
<1>3. CASE op = "start" /\ StartBody(c, m, l) /\ lockOf' = of /\ UNCHANGED stranded
  <2>1. CASE Unlock(l) /\ Return(c) /\ UNCHANGED <<table, portsInUse, inst, proc>>
    BY <1>1, <1>2, <1>3, <2>1 DEF Unlock, Return, Turns, Quiet
  <2>2. CASE ~(Unlock(l) /\ Return(c) /\ UNCHANGED <<table, portsInUse, inst, proc>>)
    <3>1. PICK i, p : i = Min(FreshInsts) /\ p = Min(FreePorts(portsInUse))
      OBVIOUS
    <3>2. /\ ~Up(m)
          /\ FreePorts(portsInUse) # {}
          /\ inst' = [inst EXCEPT ![i] = [model |-> m, state |-> "loading", port |-> p,
                                          stopping |-> FALSE, restarts |-> 0, watcher |-> "none"]]
          /\ proc' = [proc EXCEPT ![i] = "none"]
          /\ table' = [table EXCEPT ![m] = i]
          /\ portsInUse' = portsInUse \cup {p}
          /\ call' = [call EXCEPT ![c] = [pc |-> "spawn", model |-> m, lock |-> l, inst |-> i]]
          /\ Lock(l)
      BY <1>3, <2>2, <3>1 DEF StartBody
    <3>3. i \in FreshInsts /\ p \in FreePorts(portsInUse)
      BY <1>3, <3>1, <3>2, MinIn, SupervisorAssumption DEF FreshInsts, FreePorts
    <3> DEFINE r == [pc |-> "spawn", model |-> m, lock |-> l, inst |-> i]
    <3>4. r \in Running /\ r.pc = "spawn" /\ r.model = m /\ r.inst = i /\ r.lock = l
      BY <1>1, <3>3 DEF Running, FreshInsts
    <3>5. call' = [call EXCEPT ![c] = r]
      BY <3>2
    <3> HIDE DEF r
    <3>6. NewChild(c, m, i, p)
      BY <3>2, <3>3, <3>4, <3>5 DEF NewChild
    <3>7. Turns(c, m, l, of)
      BY <1>3, <3>2, <3>4, <3>5 DEF Turns, Lock
    <3> QED BY <1>2, <1>3, <3>6, <3>7
  <2> QED BY <2>1, <2>2
<1>4. CASE op = "stop" /\ StopBody(c, m, l) /\ PruneLock(m, of)
  <2>1. \/ lockOf' = of /\ stranded' = stranded
        \/ /\ of[m] # None /\ ~lockHeld'[of[m]] /\ table'[m] = None
           /\ lockOf' = [of EXCEPT ![m] = None]
           /\ stranded' = IF lockLine'[of[m]] # <<>> THEN stranded \cup {m} ELSE stranded
    BY <1>4, PruneFacts
  <2>2. CASE Unlock(l) /\ Return(c) /\ UNCHANGED <<table, portsInUse, inst, proc>>
    BY <1>1, <1>2, <2>1, <2>2 DEF Unlock, Return, Turns, Quiet
  <2>3. CASE ~(Unlock(l) /\ Return(c) /\ UNCHANGED <<table, portsInUse, inst, proc>>)
    <3>1. PICK i : i = table[m]
      OBVIOUS
    <3> DEFINE r == [pc |-> IF proc[i] = "none" THEN "nothing" ELSE "kill",
                     model |-> m, lock |-> l, inst |-> i]
    <3>2. /\ table[m] # None
          /\ inst' = [inst EXCEPT ![i].stopping = TRUE, ![i].state = "unloading",
                                  ![i].watcher = "none"]
          /\ call' = [call EXCEPT ![c] = r]
          /\ Lock(l)
          /\ UNCHANGED <<table, portsInUse, proc>>
      BY <1>4, <2>3, <3>1 DEF StopBody
    <3>3. i \in Insts
      BY <1>1, <3>1, <3>2 DEF TypeOK
    <3>4. /\ r \in Running /\ r.pc = IF proc[i] = "none" THEN "nothing" ELSE "kill"
          /\ r.model = m /\ r.inst = i /\ r.lock = l
      BY <1>1, <3>3 DEF Running
    <3> HIDE DEF r
    <3>5. Marks(c, m)
      BY <3>1, <3>2, <3>3, <3>4 DEF Marks
    <3>6. Turns(c, m, l, of)
      BY <2>1, <3>2, <3>4 DEF Turns, Lock
    <3> QED BY <1>2, <3>5, <3>6
  <2> QED BY <2>2, <2>3
<1> QED BY <1>3, <1>4 DEF Body

\* Taking the lock in a call, or as the waiter woken.
LEMMA CallTurn ==
    ASSUME TypeOK, LocksTurn, NEW c \in Callers, NEW m \in Models, NEW l \in Locks, NEW of,
           call[c].pc = "idle", ~lockHeld[l], lockLine[l] = <<>>, UNCHANGED lockLine,
           l = lockOf[m] \/ (lockOf[m] = None /\ l \in FreshLocks), of = [lockOf EXCEPT ![m] = l]
    PROVE  Turn(c, m, l, of)
<1>1. of \in [Models -> Locks \cup {None}] /\ of[m] = l /\ \A n \in Models : n # m => of[n] = lockOf[n]
  BY DEF TypeOK
<1>2. l # None /\ None \notin Locks
  BY SupervisorAssumption
<1>3. \A n \in Models : of[n] = l => n = m
  BY <1>1, <1>2 DEF LocksTurn, FreshLocks
<1>4. ASSUME NEW d \in Callers \ {c}, call[d].pc # "idle", call[d].lock = l
      PROVE  ~Runs(d) /\ call[d].model = m
  <2>1. ~Runs(d)
    BY <1>4 DEF LocksTurn
  <2>2. \E n \in 1..Len(lockLine[l]) : lockLine[l][n] = d
    BY <1>4, <2>1 DEF LocksTurn, Runs
  <2> QED BY <2>2
<1>5. \A d \in Callers \ {c} : call[d].pc = "line" =>
          \E n \in 1..Len(lockLine'[call[d].lock]) : lockLine'[call[d].lock][n] = d
  BY DEF LocksTurn
<1> QED BY <1>1, <1>2, <1>3, <1>4, <1>5 DEF Turn

LEMMA ResumeTurn ==
    ASSUME TypeOK, LocksTurn, NEW c \in Callers, NEW l,
           call[c].pc = "line", l = call[c].lock, ~lockHeld[l], Head(lockLine[l]) = c,
           lockLine' = [lockLine EXCEPT ![l] = Tail(@)]
    PROVE  Turn(c, call[c].model, l, lockOf)
<1>1. l \in Locks /\ call[c].model \in Models /\ lockOf \in [Models -> Locks \cup {None}]
  BY DEF TypeOK, Idle, Waiting, Running
<1>2. \A d \in Callers \ {c} : call[d].pc # "idle" /\ call[d].lock = l => ~Runs(d) /\ call[d].model = call[c].model
  BY DEF LocksTurn
<1>3. ASSUME NEW d \in Callers \ {c}, call[d].pc = "line"
      PROVE  \E n \in 1..Len(lockLine'[call[d].lock]) : lockLine'[call[d].lock][n] = d
  <2>1. PICK k \in 1..Len(lockLine[call[d].lock]) : lockLine[call[d].lock][k] = d
    BY <1>3 DEF LocksTurn
  <2>2. CASE call[d].lock = l
    <3>1. lockLine[l] \in Seq(Callers) /\ lockLine'[l] = Tail(lockLine[l])
      BY <1>1 DEF TypeOK
    <3>2. k # 1
      BY <2>1, <2>2, <3>1
    <3>3. PICK s : s = lockLine[l]
      OBVIOUS
    <3>4. s \in Seq(Callers) /\ k \in 1..Len(s) /\ k # 1 /\ s[k] = d /\ s # <<>>
      BY <2>1, <2>2, <3>1, <3>2, <3>3
    <3>5. Len(Tail(s)) = Len(s) - 1 /\ \A j \in 1..(Len(s) - 1) : Tail(s)[j] = s[j + 1]
      BY <3>4
    <3>6. k - 1 \in 1..(Len(s) - 1) /\ (k - 1) + 1 = k
      BY <3>4
    <3>7. k - 1 \in 1..Len(Tail(s)) /\ Tail(s)[k - 1] = d
      BY <3>4, <3>5, <3>6
    <3> QED BY <2>2, <3>1, <3>3, <3>7
  <2>3. CASE call[d].lock # l
    BY <1>1, <2>1, <2>3 DEF TypeOK
  <2> QED BY <2>2, <2>3
<1> QED BY <1>1, <1>2, <1>3 DEF LocksTurn, Turn

\* A call gets in line only behind somebody, so for a lock its model has already.
LEMMA CallDoes ==
    ASSUME TypeOK, LocksTurn, NEW c \in Callers, NEW op \in {"start", "stop"}, NEW m \in Models,
           Call(c, op, m)
    PROVE  \/ \E l, of : Turn(c, m, l, of) /\ Body(c, op, m, l, of) /\ l \in Locks
                         /\ of \in [Models -> Locks \cup {None}] /\ lockLine' = lockLine
           \/ /\ \E l \in Locks :
                    /\ lockOf[m] = l /\ lockLine' = [lockLine EXCEPT ![l] = Append(@, c)]
                    /\ call' = [call EXCEPT ![c] = [pc |-> "line", op |-> op, model |-> m, lock |-> l]]
              /\ UNCHANGED <<lockOf, lockHeld, stranded, table, portsInUse, inst, proc>>
<1>1. call[c].pc = "idle" /\ ObjectsLeft(op, m)
  BY DEF Call
<1>2. PICK l : l = IF lockOf[m] # None THEN lockOf[m] ELSE Min(FreshLocks)
  OBVIOUS
<1>3. l \in Locks /\ (l = lockOf[m] \/ (lockOf[m] = None /\ l \in FreshLocks))
  <2>1. CASE lockOf[m] # None
    BY <1>2, <2>1 DEF TypeOK
  <2>2. CASE lockOf[m] = None
    <3>1. FreshLocks # {} /\ FreshLocks \subseteq Locks
      BY <1>1, <2>2 DEF ObjectsLeft, FreshLocks
    <3>2. l \in FreshLocks
      BY <1>2, <2>2, <3>1, MinIn, SupervisorAssumption
    <3> QED BY <2>2, <3>1, <3>2
  <2> QED BY <2>1, <2>2
<1>4. CASE /\ ~lockHeld[l] /\ lockLine[l] = <<>>
           /\ UNCHANGED lockLine
           /\ Body(c, op, m, l, [lockOf EXCEPT ![m] = l])
  <2>1. PICK of : of = [lockOf EXCEPT ![m] = l]
    OBVIOUS
  <2>2. Turn(c, m, l, of)
    BY <1>1, <1>3, <1>4, <2>1, CallTurn
  <2>3. of \in [Models -> Locks \cup {None}]
    BY <2>2 DEF Turn
  <2>4. Body(c, op, m, l, of)
    BY <1>4, <2>1
  <2> QED BY <1>3, <1>4, <2>2, <2>3, <2>4
<1>5. CASE /\ lockHeld[l] \/ lockLine[l] # <<>>
           /\ lockLine' = [lockLine EXCEPT ![l] = Append(@, c)]
           /\ call' = [call EXCEPT ![c] = [pc |-> "line", op |-> op, model |-> m, lock |-> l]]
           /\ UNCHANGED <<lockOf, lockHeld, stranded, table, portsInUse, inst, proc>>
  <2>1. lockOf[m] = l
    BY <1>3, <1>5 DEF FreshLocks
  <2> QED BY <1>3, <1>5, <2>1
<1> QED BY <1>2, <1>4, <1>5 DEF Call

LEMMA Pools ==
    ASSUME NEW S, S \subseteq Starters
    PROVE  /\ IsFiniteSet(S) /\ Cardinality(S) \in Nat
           /\ IsFiniteSet(FreshInsts) /\ Cardinality(FreshInsts) \in Nat
           /\ Cardinality(FreshInsts) > Cardinality(S) => FreshInsts # {}
           /\ S # {} => Cardinality(S) > 0
<1>1. S \subseteq Callers /\ FreshInsts \subseteq Insts
  BY DEF Starters, FreshInsts
<1>2. IsFiniteSet(S) /\ IsFiniteSet(FreshInsts)
  BY <1>1, FS_Subset, SupervisorAssumption
<1>3. Cardinality(S) \in Nat /\ Cardinality(FreshInsts) \in Nat
  BY <1>2, FS_CardinalityType
<1>4. S # {} => Cardinality(S) > 0
  BY <1>2, <1>3, FS_EmptySet
<1>5. FreshInsts = {} => Cardinality(FreshInsts) = 0
  BY FS_EmptySet
<1> QED BY <1>2, <1>3, <1>4, <1>5

LocksTyped ==
    /\ lockOf \in [Models -> Locks \cup {None}]
    /\ lockHeld \in [Locks -> BOOLEAN]
    /\ lockLine \in [Locks -> Seq(Callers)]
    /\ stranded \subseteq Models

LEMMA TurnTyped ==
    ASSUME LocksTyped, NEW c, NEW m \in Models, NEW l \in Locks, NEW of \in [Models -> Locks \cup {None}],
           Turns(c, m, l, of), lockLine' \in [Locks -> Seq(Callers)]
    PROVE  LocksTyped' /\ stranded \subseteq stranded'
BY DEF LocksTyped, Turns

\* A caller's step on an instance it has.
CallerStep(c) ==
    \/ Spawned(c) \/ Healthy(c) \/ StartFails(c) \/ StartCleaned(c) \/ StopKills(c) \/ StopVerified(c)

\* What a step is, the calls that take their turn told by what they do.
Kinds ==
    \/ /\ Cardinality(Starters') < Cardinality(FreshInsts)
       /\ \E c, m, i, p : Alone(c, m) /\ NewChild(c, m, i, p) /\ UNCHANGED foreign
    \/ \E c, m : Alone(c, m) /\ Marks(c, m) /\ UNCHANGED foreign
    \/ \E c : Quiet(c) /\ UNCHANGED foreign
    \/ \E c \in Callers : CallerStep(c)
    \/ \E i \in Insts : Watch(i) \/ Binds(i) \/ Exits(i)
    \/ \E p \in Strangers : Stranger(p)

\* There are instances enough for the starts in line.
Enough == Cardinality(Starters') <= Cardinality(FreshInsts)

LEMMA StartersFew ==
    ASSUME Typed
    PROVE  /\ Starters' \subseteq Starters => Enough
           /\ \A c \in Starters : Starters' \subseteq Starters \ {c} => Cardinality(Starters') < Cardinality(FreshInsts)
           /\ Cardinality(Starters) < Cardinality(FreshInsts) =>
                 /\ Starters' \subseteq Starters => Cardinality(Starters') < Cardinality(FreshInsts)
                 /\ \A c \in Callers : Starters' \subseteq Starters \cup {c} => Enough
<1>1. /\ IsFiniteSet(Starters) /\ Cardinality(Starters) \in Nat /\ Cardinality(FreshInsts) \in Nat
      /\ Cardinality(Starters) <= Cardinality(FreshInsts)
  BY Pools DEF Typed
<1>2. ASSUME NEW S, IsFiniteSet(S), Starters' \subseteq S
      PROVE  Cardinality(Starters') \in Nat /\ Cardinality(S) \in Nat /\ Cardinality(Starters') <= Cardinality(S)
  BY <1>2, FS_Subset, FS_CardinalityType
<1>3. ASSUME NEW c \in Starters, Starters' \subseteq Starters \ {c}
      PROVE  Cardinality(Starters') < Cardinality(FreshInsts)
  <2>1. IsFiniteSet(Starters \ {c}) /\ Cardinality(Starters \ {c}) = Cardinality(Starters) - 1
    BY <1>1, FS_RemoveElement
  <2> QED BY <1>1, <1>2, <1>3, <2>1
<1>4. ASSUME NEW c \in Callers, Starters' \subseteq Starters \cup {c},
             Cardinality(Starters) < Cardinality(FreshInsts)
      PROVE  Enough
  <2>1. IsFiniteSet(Starters \cup {c}) /\ Cardinality(Starters \cup {c}) <= Cardinality(Starters) + 1
    <3>1. IsFiniteSet(Starters \cup {c})
      BY <1>1, FS_AddElement
    <3>2. Cardinality(Starters \cup {c}) = IF c \in Starters THEN Cardinality(Starters) ELSE Cardinality(Starters) + 1
      BY <1>1, FS_AddElement
    <3> QED BY <1>1, <3>1, <3>2
  <2> QED BY <1>1, <1>2, <1>4, <2>1 DEF Enough
<1>5. Starters' \subseteq Starters =>
         /\ Enough
         /\ Cardinality(Starters) < Cardinality(FreshInsts) => Cardinality(Starters') < Cardinality(FreshInsts)
  BY <1>1, <1>2 DEF Enough
<1> QED BY <1>3, <1>4, <1>5

LEMMA CallTakes ==
    ASSUME Typed, LocksTurn, NEW c \in Callers, NEW op \in {"start", "stop"}, NEW m \in Models,
           Call(c, op, m)
    PROVE  LocksTurn' /\ LocksTyped' /\ stranded \subseteq stranded' /\ Enough /\ Kinds
<1>1. TypeOK /\ LocksTyped
  BY DEF Typed, TypeOK, LocksTyped
<1>2. call[c].pc = "idle" /\ ~Runs(c) /\ ObjectsLeft(op, m) /\ UNCHANGED foreign
  BY DEF Call, Runs
<1>3. op = "start" => FreshInsts # {}
  BY <1>2, Pools DEF ObjectsLeft, Starters
<1>4. ASSUME NEW l, NEW of, Turn(c, m, l, of), Body(c, op, m, l, of), l \in Locks,
             of \in [Models -> Locks \cup {None}], lockLine' = lockLine
      PROVE  LocksTurn' /\ LocksTyped' /\ stranded \subseteq stranded' /\ Enough /\ Kinds
  <2>1. /\ Turns(c, m, l, of) /\ Alone(c, m)
        /\ (op = "start" /\ \E i, p : NewChild(c, m, i, p)) \/ Marks(c, m) \/ Quiet(c)
    BY <1>1, <1>2, <1>3, <1>4, BodyDoes
  <2>2. LocksTurn'
    BY <1>1, <1>4, <2>1, TurnLocks
  <2>3. LocksTyped' /\ stranded \subseteq stranded'
    BY <1>1, <1>4, <2>1, TurnTyped DEF LocksTyped
  <2>4. Starters' \subseteq Starters
    <3>1. PICK r \in {Idle} \cup Running : call' = [call EXCEPT ![c] = r]
      BY <2>1 DEF Turns
    <3>2. r.pc # "line"
      BY DEF Idle, Running
    <3> QED BY <1>1, <3>1, <3>2 DEF Starters, TypeOK
  <2>5. op = "start" => Cardinality(Starters') < Cardinality(FreshInsts)
    BY <1>2, <2>4, StartersFew DEF ObjectsLeft, Starters
  <2>6. Kinds
    BY <1>2, <2>1, <2>5, Zenon DEF Kinds
  <2> QED BY <2>2, <2>3, <2>4, <2>6, StartersFew
<1>5. ASSUME NEW l \in Locks, lockOf[m] = l, lockLine' = [lockLine EXCEPT ![l] = Append(@, c)],
             call' = [call EXCEPT ![c] = [pc |-> "line", op |-> op, model |-> m, lock |-> l]],
             UNCHANGED <<lockOf, lockHeld, stranded, table, portsInUse, inst, proc>>
      PROVE  LocksTurn' /\ LocksTyped' /\ stranded \subseteq stranded' /\ Enough /\ Kinds
  <2>1. LocksTurn'
    BY <1>1, <1>2, <1>5, EntersLine
  <2>2. LocksTyped'
    BY <1>1, <1>5 DEF LocksTyped
  <2>3. [pc |-> "line", op |-> op, model |-> m, lock |-> l] \in Waiting
    BY DEF Waiting
  <2>4. Quiet(c)
    BY <1>2, <1>5, <2>3 DEF Quiet
  <2>5. op = "start" => Cardinality(Starters) < Cardinality(FreshInsts)
    <3>1. op = "start" => Cardinality(FreshInsts) > Cardinality(Starters)
      BY <1>2 DEF ObjectsLeft, Starters
    <3> QED BY <3>1, Pools
  <2>6. Starters' \subseteq Starters \cup {c} /\ (op # "start" => Starters' \subseteq Starters)
    BY <1>1, <1>5 DEF Starters, TypeOK
  <2>7. Enough
    BY <2>5, <2>6, StartersFew
  <2> QED BY <1>2, <1>5, <2>1, <2>2, <2>4, <2>7 DEF Kinds
<1> QED BY <1>1, <1>4, <1>5, CallDoes

LEMMA ResumeTakes ==
    ASSUME Typed, LocksTurn, NEW c \in Callers, Resume(c)
    PROVE  LocksTurn' /\ LocksTyped' /\ stranded \subseteq stranded' /\ Enough /\ Kinds
<1>1. TypeOK /\ LocksTyped
  BY DEF Typed, TypeOK, LocksTyped
<1>2. PICK l, m, op : l = call[c].lock /\ m = call[c].model /\ op = call[c].op
  OBVIOUS
<1>3. /\ call[c].pc = "line" /\ ~Runs(c) /\ UNCHANGED foreign
      /\ ~lockHeld[l] /\ Head(lockLine[l]) = c
      /\ lockLine' = [lockLine EXCEPT ![l] = Tail(@)]
      /\ Body(c, op, m, l, lockOf)
  BY <1>2 DEF Resume, Runs
<1>4. l \in Locks /\ m \in Models /\ op \in {"start", "stop"} /\ lockOf \in [Models -> Locks \cup {None}]
  <2>1. call[c] \in {Idle} \cup Waiting \cup Running /\ call[c].pc = "line"
    BY <1>1, <1>3 DEF TypeOK
  <2>2. call[c] \in Waiting
    BY <2>1 DEF Idle, Running
  <2> QED BY <1>1, <1>2, <2>2 DEF TypeOK, Waiting
<1>5. op = "start" => FreshInsts # {}
  <2>1. op = "start" => Starters # {}
    BY <1>2, <1>3 DEF Starters
  <2>2. Starters # {} => Cardinality(Starters) > 0
    BY Pools
  <2>3. Cardinality(FreshInsts) > 0 => FreshInsts # {}
    BY FS_EmptySet
  <2> QED BY <2>1, <2>2, <2>3, Pools DEF Typed
<1>6. Turn(c, m, l, lockOf)
  BY <1>1, <1>2, <1>3, ResumeTurn
<1>7. /\ Turns(c, m, l, lockOf) /\ Alone(c, m)
      /\ (op = "start" /\ \E i, p : NewChild(c, m, i, p)) \/ Marks(c, m) \/ Quiet(c)
  BY <1>1, <1>3, <1>5, <1>6, BodyDoes
<1>8. LocksTurn'
  BY <1>1, <1>6, <1>7, TurnLocks
<1>9. lockLine' \in [Locks -> Seq(Callers)]
  <2>1. CASE lockLine[l] # <<>>
    <3>1. lockLine[l] \in Seq(Callers) /\ Tail(lockLine[l]) \in Seq(Callers)
      BY <1>1, <1>4, <2>1 DEF LocksTyped
    <3> QED BY <1>1, <1>3, <3>1 DEF LocksTyped
  <2>2. CASE lockLine[l] = <<>>
    <3>1. \E n \in 1..Len(lockLine[l]) : lockLine[l][n] = c
      BY <1>2, <1>3 DEF LocksTurn
    <3> QED BY <2>2, <3>1
  <2> QED BY <2>1, <2>2
<1>10. LocksTyped' /\ stranded \subseteq stranded'
  BY <1>1, <1>4, <1>7, <1>9, TurnTyped
<1>11. Starters' \subseteq Starters /\ (op = "start" => c \in Starters /\ Starters' \subseteq Starters \ {c})
  <2>1. PICK r \in {Idle} \cup Running : call' = [call EXCEPT ![c] = r]
    BY <1>7 DEF Turns
  <2>2. r.pc # "line"
    BY DEF Idle, Running
  <2> QED BY <1>1, <1>2, <1>3, <2>1, <2>2 DEF Starters, TypeOK
<1>12. op = "start" => Cardinality(Starters') < Cardinality(FreshInsts)
  BY <1>11, StartersFew
<1>13. Kinds
  BY <1>3, <1>7, <1>12, Zenon DEF Kinds
<1> QED BY <1>8, <1>10, <1>11, <1>13, StartersFew

LEMMA OwnTurn ==
    ASSUME TypeOK, LocksTurn, NEW c \in Callers, Runs(c), lockLine' = lockLine
    PROVE  /\ call[c].lock \in Locks /\ call[c].model \in Models /\ call[c].inst \in Insts
           /\ call[c] \in Running
           /\ Turn(c, call[c].model, call[c].lock, lockOf)
<1>1. call[c] \in Running
  BY DEF TypeOK, Runs, Idle, Waiting
<1>2. call[c].lock \in Locks /\ call[c].model \in Models /\ call[c].inst \in Insts
  BY <1>1 DEF Running
<1>3. call[c].pc # "idle"
  BY DEF Runs
<1>4. \A d \in Callers \ {c} : call[d].pc # "idle" /\ call[d].lock = call[c].lock
          => ~Runs(d) /\ call[d].model = call[c].model
  BY <1>3 DEF LocksTurn
<1>5. \A d \in Callers \ {c} : call[d].pc = "line" =>
          \E n \in 1..Len(lockLine'[call[d].lock]) : lockLine'[call[d].lock][n] = d
  BY DEF LocksTurn
<1>6. /\ \A n \in Models : lockOf[n] = call[c].lock => n = call[c].model
      /\ call[c].model \notin stranded => lockOf[call[c].model] = call[c].lock
  BY <1>3 DEF LocksTurn
<1> QED BY <1>1, <1>2, <1>4, <1>5, <1>6 DEF Turn, TypeOK

\* The steps of a caller that leave it running.
LEMMA RunsOn ==
    ASSUME TypeOK, NEW c \in Callers, Spawned(c) \/ StartFails(c) \/ StopKills(c)
    PROVE  /\ Runs(c)
           /\ \E r \in Running : /\ r.lock = call[c].lock /\ r.model = call[c].model /\ r.inst = call[c].inst
                                 /\ r.pc = IF Spawned(c) THEN "health" ELSE IF StartFails(c) THEN "cleanup" ELSE "verify"
                                 /\ call' = [call EXCEPT ![c] = r]
           /\ UNCHANGED locks
<1>1. Runs(c) /\ UNCHANGED locks
  BY DEF Runs, Spawned, StartFails, StopKills
<1>2. call[c] \in Running
  BY <1>1 DEF TypeOK, Runs, Idle, Waiting
<1>3. ASSUME NEW p \in {"health", "cleanup", "verify"}, call' = [call EXCEPT ![c].pc = p]
      PROVE  \E r \in Running : /\ r.lock = call[c].lock /\ r.model = call[c].model /\ r.inst = call[c].inst
                                /\ r.pc = p /\ call' = [call EXCEPT ![c] = r]
  <2>1. PICK r : r = [call[c] EXCEPT !.pc = p]
    OBVIOUS
  <2>2. r \in Running
    BY <1>2, <1>3, <2>1 DEF Running
  <2>3. r.lock = call[c].lock /\ r.model = call[c].model /\ r.inst = call[c].inst /\ r.pc = p
    BY <1>2, <2>1 DEF Running
  <2>4. call' = [call EXCEPT ![c] = r]
    BY <1>3, <2>1 DEF TypeOK
  <2> QED BY <2>2, <2>3, <2>4
<1>4. CASE Spawned(c)
  <2>1. call' = [call EXCEPT ![c].pc = "health"]
    BY <1>4 DEF Spawned
  <2> QED BY <1>1, <1>3, <1>4, <2>1
<1>5. CASE StartFails(c) /\ ~Spawned(c)
  <2>1. call' = [call EXCEPT ![c].pc = "cleanup"]
    BY <1>5 DEF StartFails
  <2> QED BY <1>1, <1>3, <1>5, <2>1
<1>6. CASE StopKills(c) /\ ~Spawned(c) /\ ~StartFails(c)
  <2>1. call' = [call EXCEPT ![c].pc = "verify"]
    BY <1>6 DEF StopKills
  <2> QED BY <1>1, <1>3, <1>6, <2>1
<1> QED BY <1>4, <1>5, <1>6

\* The steps of a caller that end its turn.
LEMMA RunEnds ==
    ASSUME TypeOK, LocksTurn, NEW c \in Callers, Healthy(c) \/ StartCleaned(c) \/ StopVerified(c)
    PROVE  /\ Runs(c) /\ lockLine' = lockLine
           /\ call' = [call EXCEPT ![c] = Idle]
           /\ Turns(c, call[c].model, call[c].lock, lockOf)
<1>1. /\ Runs(c) /\ lockLine' = lockLine
      /\ call' = [call EXCEPT ![c] = Idle] /\ lockHeld' = [lockHeld EXCEPT ![call[c].lock] = FALSE]
  BY DEF Runs, Healthy, StartCleaned, StopVerified, Return, Unlock
<1>2. CASE Healthy(c) \/ StartCleaned(c)
  <2>1. lockOf' = lockOf /\ stranded' = stranded
    BY <1>2 DEF Healthy, StartCleaned
  <2> QED BY <1>1, <2>1 DEF Turns
<1>3. CASE StopVerified(c)
  <2>1. PruneLock(call[c].model, lockOf)
    BY <1>3 DEF StopVerified
  <2> QED BY <1>1, <2>1, PruneFacts DEF Turns
<1> QED BY <1>2, <1>3

LEMMA StepTakes ==
    ASSUME Typed, LocksTurn, [Next]_vars
    PROVE  LocksTurn' /\ LocksTyped' /\ stranded \subseteq stranded' /\ Enough /\ (Kinds \/ UNCHANGED vars)
<1>1. TypeOK /\ LocksTyped
  BY DEF Typed, TypeOK, LocksTyped
<1>2. ASSUME UNCHANGED locks, UNCHANGED call
      PROVE  LocksTurn' /\ LocksTyped' /\ stranded \subseteq stranded' /\ Enough
  <2>1. LocksTurn' /\ LocksTyped' /\ stranded \subseteq stranded'
    BY <1>1, <1>2 DEF locks, LocksTurn, LocksTyped, Runs
  <2> QED BY <1>2, <2>1, StartersFew DEF Starters
<1> DEFINE NoLine(c) == \E r : r.pc # "line" /\ call' = [call EXCEPT ![c] = r]
<1>0. \A c \in Callers : NoLine(c) => Enough
  <2>1. \A c \in Callers : NoLine(c) => Starters' \subseteq Starters
    BY <1>1 DEF Starters, TypeOK
  <2> QED BY <2>1, StartersFew
<1>3. ASSUME NEW c \in Callers, CancelInLine(c)
      PROVE  LocksTurn' /\ LocksTyped' /\ stranded \subseteq stranded' /\ Enough /\ Kinds
  <2>1. LocksTurn'
    BY <1>1, <1>3, LeavesLine
  <2>2. /\ ~Runs(c) /\ call[c].pc = "line" /\ call' = [call EXCEPT ![c] = Idle]
        /\ UNCHANGED <<lockOf, lockHeld, stranded, table, portsInUse, inst, proc, foreign>>
    BY <1>3 DEF CancelInLine, Return, Runs
  <2>3. lockLine' \in [Locks -> Seq(Callers)]
    <3>1. PICK l, n : l = call[c].lock /\ n \in 1..Len(lockLine[l])
                      /\ lockLine' = [lockLine EXCEPT ![l] = SubSeq(@, 1, n - 1) \o SubSeq(@, n + 1, Len(@))]
      BY <1>3 DEF CancelInLine
    <3>2. l \in Locks /\ lockLine \in [Locks -> Seq(Callers)]
      BY <1>1, <2>2, <3>1 DEF TypeOK, Idle, Waiting, Running
    <3>3. PICK s : s = lockLine[l]
      OBVIOUS
    <3>4. s \in Seq(Callers) /\ n \in 1..Len(s)
      BY <3>1, <3>2, <3>3
    <3>5. SubSeq(s, 1, n - 1) \in Seq(Callers) /\ SubSeq(s, n + 1, Len(s)) \in Seq(Callers)
      BY <3>4
    <3>6. SubSeq(s, 1, n - 1) \o SubSeq(s, n + 1, Len(s)) \in Seq(Callers)
      BY <3>5, ConcatProperties
    <3> QED BY <3>1, <3>2, <3>3, <3>6
  <2>4. Quiet(c)
    BY <2>2 DEF Quiet
  <2>5. Idle.pc # "line"
    BY DEF Idle
  <2>6. Enough
    BY <1>0, <2>2, <2>5
  <2> QED BY <1>1, <2>1, <2>2, <2>3, <2>4, <2>6 DEF LocksTyped, Kinds
<1>4. ASSUME NEW c \in Callers, Spawned(c) \/ StartFails(c) \/ StopKills(c)
      PROVE  LocksTurn' /\ LocksTyped' /\ stranded \subseteq stranded' /\ Enough /\ Kinds
  <2>1. LocksTurn' /\ UNCHANGED locks
    BY <1>1, <1>4, RunsOn, SameLocks
  <2>2. CallerStep(c)
    BY <1>4 DEF CallerStep
  <2>3. Enough
    <3>1. PICK r \in Running : call' = [call EXCEPT ![c] = r]
      BY <1>1, <1>4, RunsOn
    <3>2. r.pc # "line"
      BY DEF Running
    <3> QED BY <1>0, <3>1, <3>2
  <2> QED BY <1>1, <2>1, <2>2, <2>3 DEF LocksTyped, locks, Kinds
<1>5. ASSUME NEW c \in Callers, Healthy(c) \/ StartCleaned(c) \/ StopVerified(c)
      PROVE  LocksTurn' /\ LocksTyped' /\ stranded \subseteq stranded' /\ Enough /\ Kinds
  <2>1. PICK l, m : l = call[c].lock /\ m = call[c].model
    OBVIOUS
  <2>2. Runs(c) /\ lockLine' = lockLine /\ Turns(c, m, l, lockOf)
    BY <1>1, <1>5, <2>1, RunEnds
  <2>3. l \in Locks /\ m \in Models /\ Turn(c, m, l, lockOf)
    BY <1>1, <2>1, <2>2, OwnTurn
  <2>4. LocksTurn'
    BY <1>1, <2>2, <2>3, TurnLocks
  <2>5. LocksTyped' /\ stranded \subseteq stranded'
    BY <1>1, <2>2, <2>3, TurnTyped DEF LocksTyped
  <2>6. CallerStep(c)
    BY <1>5 DEF CallerStep
  <2>7. Enough
    <3>1. call' = [call EXCEPT ![c] = Idle] /\ Idle.pc # "line"
      BY <1>1, <1>5, RunEnds DEF Idle
    <3> QED BY <1>0, <3>1
  <2> QED BY <2>4, <2>5, <2>6, <2>7 DEF Kinds
<1>6. ASSUME NEW i \in Insts, Watch(i) \/ Binds(i) \/ Exits(i)
      PROVE  LocksTurn' /\ LocksTyped' /\ stranded \subseteq stranded' /\ Enough /\ Kinds
  <2>1. UNCHANGED locks /\ UNCHANGED call
    BY <1>6 DEF Watch, WatchExit, WatchRelaunch, WatchSpawned, WatchHealthy, WatchFails, Binds, Exits
  <2> QED BY <1>2, <1>6, <2>1 DEF Kinds
<1>7. ASSUME NEW p \in Strangers, Stranger(p)
      PROVE  LocksTurn' /\ LocksTyped' /\ stranded \subseteq stranded' /\ Enough /\ Kinds
  BY <1>2, <1>7 DEF Stranger, Kinds
<1>8. CASE UNCHANGED vars
  BY <1>2, <1>8 DEF vars, locks
<1>9. CASE Next
  BY <1>3, <1>4, <1>5, <1>6, <1>7, <1>9, CallTakes, ResumeTakes DEF Next, Proceed
<1> QED BY <1>8, <1>9

-----------------------------------------------------------------------------
\* Types, and instances enough for the starts in line.

LEMMA ChoiceIn ==
    ASSUME NEW used, NEW q, FreePorts(used) # {}
    PROVE  Choice(FreePorts(used), q) \in FreePorts(used)
BY MinIn, SupervisorAssumption DEF Choice, FreePorts

LEMMA RelaunchDoes ==
    ASSUME NEW i, WatchRelaunch(i)
    PROVE  /\ inst[i].watcher = "backoff" /\ UNCHANGED <<locks, table, proc, call, foreign>>
           /\ \/ /\ FreePorts(portsInUse \ {inst[i].port}) = {}
                 /\ portsInUse' = portsInUse \ {inst[i].port}
                 /\ inst' = [inst EXCEPT ![i].state = "failed", ![i].watcher = "none"]
              \/ \E p \in FreePorts(portsInUse \ {inst[i].port}) :
                    /\ inst[i].port \in FreePorts(portsInUse \ {inst[i].port}) => p = inst[i].port
                    /\ portsInUse' = (portsInUse \ {inst[i].port}) \cup {p}
                    /\ inst' = [inst EXCEPT ![i].port = p, ![i].watcher = "spawn"]
BY ChoiceIn DEF WatchRelaunch, Choice

\* Instance i gets this port, stopping, state and watcher, and no other changes.
Sets(i, p, b, s, w) ==
    \E r \in Instance : /\ r.model = inst[i].model /\ r.port = p /\ r.stopping = b /\ r.state = s
                        /\ r.watcher = w /\ inst' = [inst EXCEPT ![i] = r]

States == {"loading", "ready", "failed", "unloading", "stopped"}
Watchers == {"none", "watch", "backoff", "spawn", "health"}

LEMMA SetsFields ==
    ASSUME TypeOK, NEW i \in Insts
    PROVE  /\ \A s \in States :
                 inst' = [inst EXCEPT ![i].state = s]
                 => Sets(i, inst[i].port, inst[i].stopping, s, inst[i].watcher)
           /\ \A w \in Watchers :
                 inst' = [inst EXCEPT ![i].watcher = w]
                 => Sets(i, inst[i].port, inst[i].stopping, inst[i].state, w)
           /\ \A s \in States, w \in Watchers :
                 inst' = [inst EXCEPT ![i].state = s, ![i].watcher = w]
                 => Sets(i, inst[i].port, inst[i].stopping, s, w)
           /\ \A s \in States :
                 inst' = [inst EXCEPT ![i].stopping = TRUE, ![i].state = s]
                 => Sets(i, inst[i].port, TRUE, s, inst[i].watcher)
           /\ \A s \in States, w \in Watchers :
                 inst' = [inst EXCEPT ![i].stopping = TRUE, ![i].state = s, ![i].watcher = w]
                 => Sets(i, inst[i].port, TRUE, s, w)
           /\ \A p \in Ports, w \in Watchers :
                 inst' = [inst EXCEPT ![i].port = p, ![i].watcher = w]
                 => Sets(i, p, inst[i].stopping, inst[i].state, w)
           /\ \A n \in 0..MaxRestarts, s \in States, w \in Watchers :
                 inst' = [inst EXCEPT ![i].restarts = n, ![i].state = s, ![i].watcher = w]
                 => Sets(i, inst[i].port, inst[i].stopping, s, w)
<1>1. inst[i] \in Instance /\ inst \in [Insts -> Instance]
  BY DEF TypeOK
<1>2. ASSUME NEW s \in States, inst' = [inst EXCEPT ![i].state = s]
      PROVE  Sets(i, inst[i].port, inst[i].stopping, s, inst[i].watcher)
  <2>1. PICK r : r = [inst[i] EXCEPT !.state = s]
    OBVIOUS
  <2>2. /\ r \in Instance /\ r.model = inst[i].model /\ r.port = inst[i].port /\ r.stopping = inst[i].stopping
        /\ r.state = s /\ r.watcher = inst[i].watcher
    BY <1>1, <1>2, <2>1 DEF Instance, States, Watchers
  <2>3. inst' = [inst EXCEPT ![i] = r]
    BY <1>1, <1>2, <2>1
  <2> QED BY <2>2, <2>3 DEF Sets
<1>3. ASSUME NEW w \in Watchers, inst' = [inst EXCEPT ![i].watcher = w]
      PROVE  Sets(i, inst[i].port, inst[i].stopping, inst[i].state, w)
  <2>1. PICK r : r = [inst[i] EXCEPT !.watcher = w]
    OBVIOUS
  <2>2. /\ r \in Instance /\ r.model = inst[i].model /\ r.port = inst[i].port /\ r.stopping = inst[i].stopping
        /\ r.state = inst[i].state /\ r.watcher = w
    BY <1>1, <1>3, <2>1 DEF Instance, States, Watchers
  <2>3. inst' = [inst EXCEPT ![i] = r]
    BY <1>1, <1>3, <2>1
  <2> QED BY <2>2, <2>3 DEF Sets
<1>4. ASSUME NEW s \in States, NEW w \in Watchers, inst' = [inst EXCEPT ![i].state = s, ![i].watcher = w]
      PROVE  Sets(i, inst[i].port, inst[i].stopping, s, w)
  <2>1. PICK r : r = [inst[i] EXCEPT !.state = s, !.watcher = w]
    OBVIOUS
  <2>2. /\ r \in Instance /\ r.model = inst[i].model /\ r.port = inst[i].port /\ r.stopping = inst[i].stopping
        /\ r.state = s /\ r.watcher = w
    BY <1>1, <1>4, <2>1 DEF Instance, States, Watchers
  <2>3. inst' = [inst EXCEPT ![i] = r]
    BY <1>1, <1>4, <2>1
  <2> QED BY <2>2, <2>3 DEF Sets
<1>5. ASSUME NEW s \in States, inst' = [inst EXCEPT ![i].stopping = TRUE, ![i].state = s]
      PROVE  Sets(i, inst[i].port, TRUE, s, inst[i].watcher)
  <2>1. PICK r : r = [inst[i] EXCEPT !.stopping = TRUE, !.state = s]
    OBVIOUS
  <2>2. /\ r \in Instance /\ r.model = inst[i].model /\ r.port = inst[i].port /\ r.stopping = TRUE
        /\ r.state = s /\ r.watcher = inst[i].watcher
    BY <1>1, <1>5, <2>1 DEF Instance, States, Watchers
  <2>3. inst' = [inst EXCEPT ![i] = r]
    BY <1>1, <1>5, <2>1
  <2> QED BY <2>2, <2>3 DEF Sets
<1>6. ASSUME NEW s \in States, NEW w \in Watchers, inst' = [inst EXCEPT ![i].stopping = TRUE, ![i].state = s, ![i].watcher = w]
      PROVE  Sets(i, inst[i].port, TRUE, s, w)
  <2>1. PICK r : r = [inst[i] EXCEPT !.stopping = TRUE, !.state = s, !.watcher = w]
    OBVIOUS
  <2>2. /\ r \in Instance /\ r.model = inst[i].model /\ r.port = inst[i].port /\ r.stopping = TRUE
        /\ r.state = s /\ r.watcher = w
    BY <1>1, <1>6, <2>1 DEF Instance, States, Watchers
  <2>3. inst' = [inst EXCEPT ![i] = r]
    BY <1>1, <1>6, <2>1
  <2> QED BY <2>2, <2>3 DEF Sets
<1>7. ASSUME NEW p \in Ports, NEW w \in Watchers, inst' = [inst EXCEPT ![i].port = p, ![i].watcher = w]
      PROVE  Sets(i, p, inst[i].stopping, inst[i].state, w)
  <2>1. PICK r : r = [inst[i] EXCEPT !.port = p, !.watcher = w]
    OBVIOUS
  <2>2. /\ r \in Instance /\ r.model = inst[i].model /\ r.port = p /\ r.stopping = inst[i].stopping
        /\ r.state = inst[i].state /\ r.watcher = w
    BY <1>1, <1>7, <2>1 DEF Instance, States, Watchers
  <2>3. inst' = [inst EXCEPT ![i] = r]
    BY <1>1, <1>7, <2>1
  <2> QED BY <2>2, <2>3 DEF Sets
<1>8. ASSUME NEW n \in 0..MaxRestarts, NEW s \in States, NEW w \in Watchers, inst' = [inst EXCEPT ![i].restarts = n, ![i].state = s, ![i].watcher = w]
      PROVE  Sets(i, inst[i].port, inst[i].stopping, s, w)
  <2>1. PICK r : r = [inst[i] EXCEPT !.restarts = n, !.state = s, !.watcher = w]
    OBVIOUS
  <2>2. /\ r \in Instance /\ r.model = inst[i].model /\ r.port = inst[i].port /\ r.stopping = inst[i].stopping
        /\ r.state = s /\ r.watcher = w
    BY <1>1, <1>8, <2>1 DEF Instance, States, Watchers
  <2>3. inst' = [inst EXCEPT ![i] = r]
    BY <1>1, <1>8, <2>1
  <2> QED BY <2>2, <2>3 DEF Sets
<1> QED BY <1>2, <1>3, <1>4, <1>5, <1>6, <1>7, <1>8

\* What each step sets.
LEMMA StepSets ==
    ASSUME TypeOK
    PROVE  /\ \A c, m : Marks(c, m) =>
                 Sets(table[m], inst[table[m]].port, TRUE, "unloading", "none")
           /\ \A c \in Callers : LET i == call[c].inst IN Runs(c) =>
                 /\ Spawned(c) => Sets(i, inst[i].port, inst[i].stopping, "loading", inst[i].watcher)
                 /\ Healthy(c) => Sets(i, inst[i].port, inst[i].stopping, "ready",
                                       IF inst[i].stopping THEN "none" ELSE "watch")
                 /\ StartFails(c) => Sets(i, inst[i].port, TRUE, "failed", inst[i].watcher)
                 /\ StopVerified(c) => \E s \in {"stopped", "failed"} :
                       /\ s = "stopped" <=> (call[c].pc = "nothing" \/ ~Alive(i))
                       /\ Sets(i, inst[i].port, inst[i].stopping, s, inst[i].watcher)
           /\ \A i \in Insts :
                 /\ WatchExit(i) => \/ Sets(i, inst[i].port, inst[i].stopping, "failed", "none")
                                    \/ Sets(i, inst[i].port, inst[i].stopping, "loading", "backoff")
                 /\ WatchSpawned(i) => Sets(i, inst[i].port, inst[i].stopping, inst[i].state, "health")
                 /\ WatchHealthy(i) => Sets(i, inst[i].port, inst[i].stopping, "ready", "watch")
                 /\ WatchFails(i) => \/ Sets(i, inst[i].port, inst[i].stopping, "failed", "none")
                                     \/ Sets(i, inst[i].port, inst[i].stopping, inst[i].state, "watch")
                 /\ WatchRelaunch(i) =>
                       \/ /\ FreePorts(portsInUse \ {inst[i].port}) = {}
                          /\ portsInUse' = portsInUse \ {inst[i].port}
                          /\ Sets(i, inst[i].port, inst[i].stopping, "failed", "none")
                       \/ \E p \in FreePorts(portsInUse \ {inst[i].port}) :
                             /\ inst[i].port \in FreePorts(portsInUse \ {inst[i].port}) => p = inst[i].port
                             /\ portsInUse' = (portsInUse \ {inst[i].port}) \cup {p}
                             /\ Sets(i, p, inst[i].stopping, inst[i].state, "spawn")
<1>1. \A i \in Insts : /\ inst[i] \in Instance /\ inst[i].port \in Ports /\ inst[i].stopping \in BOOLEAN
                       /\ inst[i].restarts \in 0..MaxRestarts
                       /\ inst[i].state \in {"loading", "ready", "failed", "unloading", "stopped"}
                       /\ inst[i].watcher \in {"none", "watch", "backoff", "spawn", "health"}
  BY DEF TypeOK, Instance
<1>2. ASSUME NEW c, NEW m, Marks(c, m)
      PROVE  Sets(table[m], inst[table[m]].port, TRUE, "unloading", "none")
  <2>1. PICK i \in Insts : i = table[m]
    BY <1>2 DEF Marks
  <2>2. inst' = [inst EXCEPT ![i].stopping = TRUE, ![i].state = "unloading", ![i].watcher = "none"]
    BY <1>2, <2>1 DEF Marks
  <2>3. Sets(i, inst[i].port, TRUE, "unloading", "none")
    BY <1>1, <2>2, SetsFields DEF States, Watchers
  <2> QED BY <2>1, <2>3
<1>3. ASSUME NEW c \in Callers, NEW i, i = call[c].inst, Runs(c)
      PROVE  /\ Spawned(c) => Sets(i, inst[i].port, inst[i].stopping, "loading", inst[i].watcher)
             /\ Healthy(c) => Sets(i, inst[i].port, inst[i].stopping, "ready",
                                   IF inst[i].stopping THEN "none" ELSE "watch")
             /\ StartFails(c) => Sets(i, inst[i].port, TRUE, "failed", inst[i].watcher)
             /\ StopVerified(c) => \E s \in {"stopped", "failed"} :
                   /\ s = "stopped" <=> (call[c].pc = "nothing" \/ ~Alive(i))
                   /\ Sets(i, inst[i].port, inst[i].stopping, s, inst[i].watcher)
  <2>1. i \in Insts
    BY <1>3 DEF TypeOK, Runs, Idle, Waiting, Running
  <2>2. ASSUME Spawned(c)
        PROVE  Sets(i, inst[i].port, inst[i].stopping, "loading", inst[i].watcher)
    BY <1>1, <1>3, <2>1, <2>2, SetsFields DEF States, Watchers, Spawned
  <2>3. ASSUME Healthy(c)
        PROVE  Sets(i, inst[i].port, inst[i].stopping, "ready", IF inst[i].stopping THEN "none" ELSE "watch")
    <3>1. PICK w : w = IF inst[i].stopping THEN "none" ELSE "watch"
      OBVIOUS
    <3>2. w \in {"none", "watch", "backoff", "spawn", "health"}
          /\ inst' = [inst EXCEPT ![i].state = "ready", ![i].watcher = w]
      BY <1>3, <2>3, <3>1 DEF Healthy
    <3>3. Sets(i, inst[i].port, inst[i].stopping, "ready", w)
      BY <1>1, <2>1, <3>2, SetsFields DEF States, Watchers
    <3> QED BY <3>1, <3>3
  <2>4. ASSUME StartFails(c)
        PROVE  Sets(i, inst[i].port, TRUE, "failed", inst[i].watcher)
    BY <1>1, <1>3, <2>1, <2>4, SetsFields DEF States, Watchers, StartFails
  <2>5. ASSUME StopVerified(c)
        PROVE  \E s \in {"stopped", "failed"} :
                  /\ s = "stopped" <=> (call[c].pc = "nothing" \/ ~Alive(i))
                  /\ Sets(i, inst[i].port, inst[i].stopping, s, inst[i].watcher)
    <3>1. PICK s : s = IF call[c].pc = "nothing" \/ ~Alive(i) THEN "stopped" ELSE "failed"
      OBVIOUS
    <3>2. s \in {"stopped", "failed"} /\ (s = "stopped" <=> (call[c].pc = "nothing" \/ ~Alive(i)))
      BY <3>1
    <3>3. inst' = [inst EXCEPT ![i].state = s]
      BY <1>3, <2>5, <3>1 DEF StopVerified
    <3>4. Sets(i, inst[i].port, inst[i].stopping, s, inst[i].watcher)
      BY <1>1, <2>1, <3>2, <3>3, SetsFields DEF States, Watchers
    <3> QED BY <3>2, <3>4
  <2> QED BY <2>2, <2>3, <2>4, <2>5
<1>4. ASSUME NEW i \in Insts
      PROVE  /\ WatchExit(i) => \/ Sets(i, inst[i].port, inst[i].stopping, "failed", "none")
                                \/ Sets(i, inst[i].port, inst[i].stopping, "loading", "backoff")
             /\ WatchSpawned(i) => Sets(i, inst[i].port, inst[i].stopping, inst[i].state, "health")
             /\ WatchHealthy(i) => Sets(i, inst[i].port, inst[i].stopping, "ready", "watch")
             /\ WatchFails(i) => \/ Sets(i, inst[i].port, inst[i].stopping, "failed", "none")
                                 \/ Sets(i, inst[i].port, inst[i].stopping, inst[i].state, "watch")
  <2>1. ASSUME inst' = [inst EXCEPT ![i].state = "failed", ![i].watcher = "none"]
        PROVE  Sets(i, inst[i].port, inst[i].stopping, "failed", "none")
    BY <1>1, <1>4, <2>1, SetsFields DEF States, Watchers
  <2>2. ASSUME WatchExit(i)
        PROVE  \/ Sets(i, inst[i].port, inst[i].stopping, "failed", "none")
               \/ Sets(i, inst[i].port, inst[i].stopping, "loading", "backoff")
    <3>1. CASE inst[i].restarts >= MaxRestarts
      BY <2>1, <2>2, <3>1 DEF WatchExit
    <3>2. CASE ~(inst[i].restarts >= MaxRestarts)
      <4>1. PICK n : n = inst[i].restarts + 1
        OBVIOUS
      <4>2. n \in 0..MaxRestarts
        BY <1>1, <3>2, <4>1, SupervisorAssumption
      <4>3. inst' = [inst EXCEPT ![i].restarts = n, ![i].state = "loading", ![i].watcher = "backoff"]
        BY <2>2, <3>2, <4>1 DEF WatchExit
      <4> QED BY <1>1, <4>2, <4>3, SetsFields DEF States, Watchers
    <3> QED BY <3>1, <3>2
  <2>3. WatchSpawned(i) => Sets(i, inst[i].port, inst[i].stopping, inst[i].state, "health")
    BY <1>1, SetsFields DEF States, Watchers, WatchSpawned
  <2>4. WatchHealthy(i) => Sets(i, inst[i].port, inst[i].stopping, "ready", "watch")
    BY <1>1, SetsFields DEF States, Watchers, WatchHealthy
  <2>5. WatchFails(i) => \/ Sets(i, inst[i].port, inst[i].stopping, "failed", "none")
                         \/ Sets(i, inst[i].port, inst[i].stopping, inst[i].state, "watch")
    BY <1>1, <2>1, SetsFields DEF States, Watchers, WatchFails
  <2> QED BY <2>2, <2>3, <2>4, <2>5
<1>5. ASSUME NEW i \in Insts, WatchRelaunch(i)
      PROVE  \/ /\ FreePorts(portsInUse \ {inst[i].port}) = {}
                /\ portsInUse' = portsInUse \ {inst[i].port}
                /\ Sets(i, inst[i].port, inst[i].stopping, "failed", "none")
             \/ \E p \in FreePorts(portsInUse \ {inst[i].port}) :
                   /\ inst[i].port \in FreePorts(portsInUse \ {inst[i].port}) => p = inst[i].port
                   /\ portsInUse' = (portsInUse \ {inst[i].port}) \cup {p}
                   /\ Sets(i, p, inst[i].stopping, inst[i].state, "spawn")
  <2>1. ASSUME inst' = [inst EXCEPT ![i].state = "failed", ![i].watcher = "none"]
        PROVE  Sets(i, inst[i].port, inst[i].stopping, "failed", "none")
    BY <1>1, <1>5, <2>1, SetsFields DEF States, Watchers
  <2>2. ASSUME NEW p \in FreePorts(portsInUse \ {inst[i].port}),
               inst' = [inst EXCEPT ![i].port = p, ![i].watcher = "spawn"]
        PROVE  Sets(i, p, inst[i].stopping, inst[i].state, "spawn")
    <3>1. p \in Ports
      BY <2>2 DEF FreePorts
    <3> QED BY <1>1, <1>5, <2>2, <3>1, SetsFields DEF States, Watchers
  <2> QED BY <1>5, <2>1, <2>2, RelaunchDoes
<1> QED BY <1>2, <1>3, <1>4, <1>5

LEMMA SetsTyped ==
    ASSUME TypeOK, NEW i \in Insts, NEW p, NEW b, NEW s, NEW w, Sets(i, p, b, s, w)
    PROVE  /\ inst' \in [Insts -> Instance]
           /\ \A j \in Insts : j # i => inst'[j] = inst[j]
           /\ \A j \in Insts : inst'[j].model = inst[j].model
           /\ inst'[i].port = p /\ inst'[i].stopping = b /\ inst'[i].state = s /\ inst'[i].watcher = w
BY DEF TypeOK, Sets

\* A step changes one instance at most, the one it is at, and no model.
LEMMA OneChanges ==
    ASSUME TypeOK, LocksTurn
    PROVE  /\ \A c, m : Marks(c, m) => \A j \in Insts : j # table[m] => inst'[j] = inst[j]
           /\ \A c \in Callers : CallerStep(c) => \A j \in Insts : j # call[c].inst => inst'[j] = inst[j]
           /\ \A i \in Insts : Watch(i) \/ Binds(i) \/ Exits(i)
                 => \A j \in Insts : j # i => inst'[j] = inst[j]
           /\ (\E c, m : Marks(c, m)) \/ (\E c \in Callers : CallerStep(c))
              \/ (\E i \in Insts : Watch(i) \/ Binds(i) \/ Exits(i))
              => \A j \in Insts : inst'[j].model = inst[j].model
<1> DEFINE One(i) == /\ \A j \in Insts : j # i => inst'[j] = inst[j]
                     /\ \A j \in Insts : inst'[j].model = inst[j].model
<1>1. ASSUME NEW i \in Insts, inst' = inst \/ \E p, b, s, w : Sets(i, p, b, s, w)
      PROVE  One(i)
  BY <1>1, SetsTyped
<1>2. ASSUME NEW c, NEW m, Marks(c, m) PROVE One(table[m])
  <2>1. table[m] \in Insts /\ Sets(table[m], inst[table[m]].port, TRUE, "unloading", "none")
    BY <1>2, StepSets DEF Marks
  <2> QED BY <1>1, <2>1
<1>3. ASSUME NEW c \in Callers, CallerStep(c) PROVE One(call[c].inst)
  <2>1. Runs(c)
    BY <1>3, RunsOn, RunEnds DEF CallerStep
  <2>2. PICK i : i = call[c].inst
    OBVIOUS
  <2>3. i \in Insts
    BY <2>1, <2>2 DEF TypeOK, Runs, Idle, Waiting, Running
  <2>4. inst' = inst \/ \E p, b, s, w : Sets(i, p, b, s, w)
    <3>1. CASE StartCleaned(c) \/ StopKills(c)
      BY <3>1 DEF StartCleaned, StopKills
    <3>2. CASE Spawned(c)
      BY <2>1, <2>2, <3>2, StepSets
    <3>3. CASE Healthy(c)
      BY <2>1, <2>2, <3>3, StepSets
    <3>4. CASE StartFails(c)
      BY <2>1, <2>2, <3>4, StepSets
    <3>5. CASE StopVerified(c)
      BY <2>1, <2>2, <3>5, StepSets
    <3> QED BY <1>3, <3>1, <3>2, <3>3, <3>4, <3>5 DEF CallerStep
  <2> QED BY <1>1, <2>2, <2>3, <2>4
<1>4. ASSUME NEW i \in Insts, Watch(i) \/ Binds(i) \/ Exits(i) PROVE One(i)
  <2>1. inst' = inst \/ \E p, b, s, w : Sets(i, p, b, s, w)
    <3>1. CASE Binds(i) \/ Exits(i)
      BY <3>1 DEF Binds, Exits
    <3>2. CASE WatchExit(i)
      BY <3>2, StepSets
    <3>3. CASE WatchSpawned(i)
      BY <3>3, StepSets
    <3>4. CASE WatchHealthy(i)
      BY <3>4, StepSets
    <3>5. CASE WatchFails(i)
      BY <3>5, StepSets
    <3>6. CASE WatchRelaunch(i)
      BY <3>6, StepSets
    <3> QED BY <1>4, <3>1, <3>2, <3>3, <3>4, <3>5, <3>6 DEF Watch
  <2> QED BY <1>1, <2>1
<1> HIDE DEF One
<1>5. \A i : One(i) => /\ \A j \in Insts : j # i => inst'[j] = inst[j]
                      /\ \A j \in Insts : inst'[j].model = inst[j].model
  BY DEF One
<1> QED BY <1>2, <1>3, <1>4, <1>5

LEMMA TypeStep ==
    ASSUME TypeOK, LocksTurn, LocksTyped', Kinds
    PROVE  TypeOK'
<1> DEFINE Good == /\ table' \in [Models -> Insts \cup {None}]
                   /\ portsInUse' \subseteq Ports
                   /\ inst' \in [Insts -> Instance]
                   /\ proc' \in [Insts -> {"none", "starting", "listening", "dead"}]
                   /\ call' \in [Callers -> {Idle} \cup Waiting \cup Running]
                   /\ foreign' \subseteq Ports
<1>1. /\ table \in [Models -> Insts \cup {None}] /\ portsInUse \subseteq Ports
      /\ inst \in [Insts -> Instance] /\ proc \in [Insts -> {"none", "starting", "listening", "dead"}]
      /\ call \in [Callers -> {Idle} \cup Waiting \cup Running] /\ foreign \subseteq Ports
      /\ MaxRestarts \in Nat
  BY SupervisorAssumption DEF TypeOK
<1>2. ASSUME NEW c, NEW m, NEW i, NEW p, Alone(c, m), NewChild(c, m, i, p), UNCHANGED foreign
      PROVE  Good
  <2>1. c \in Callers /\ m \in Models /\ i \in Insts /\ p \in Ports
    BY <1>2 DEF Alone, NewChild, FreshInsts, FreePorts
  <2>2. [model |-> m, state |-> "loading", port |-> p, stopping |-> FALSE, restarts |-> 0,
         watcher |-> "none"] \in Instance
    BY <1>1, <2>1 DEF Instance
  <2>3. PICK r \in Running : call' = [call EXCEPT ![c] = r]
    BY <1>2 DEF NewChild
  <2> QED BY <1>1, <1>2, <2>1, <2>2, <2>3 DEF NewChild
<1>3. ASSUME NEW c, NEW m, Alone(c, m), Marks(c, m), UNCHANGED foreign PROVE Good
  <2>1. PICK r \in Running : call' = [call EXCEPT ![c] = r]
    BY <1>3 DEF Marks
  <2>2. inst' \in [Insts -> Instance]
    <3>1. table[m] \in Insts /\ Sets(table[m], inst[table[m]].port, TRUE, "unloading", "none")
      BY <1>3, StepSets DEF Marks
    <3> QED BY <3>1, SetsTyped
  <2> QED BY <1>1, <1>3, <2>1, <2>2 DEF Marks, Alone
<1>4. ASSUME NEW c, Quiet(c), UNCHANGED foreign PROVE Good
  BY <1>1, <1>4 DEF Quiet
<1>5. ASSUME NEW c \in Callers, CallerStep(c) PROVE Good
  <2>1. Runs(c) /\ \E r \in {Idle} \cup Running : call' = [call EXCEPT ![c] = r]
    BY <1>5, RunsOn, RunEnds DEF CallerStep
  <2>2. call' \in [Callers -> {Idle} \cup Waiting \cup Running]
    BY <1>1, <2>1
  <2>3. PICK i, m : i = call[c].inst /\ m = call[c].model
    OBVIOUS
  <2>4. call[c] \in Running /\ i \in Insts /\ m \in Models
    BY <1>1, <2>1, <2>3 DEF Runs, Idle, Waiting, Running
  <2>5. CASE Spawned(c)
    BY <1>1, <2>2, <2>3, <2>4, <2>5 DEF Spawned, Instance
  <2>6. CASE Healthy(c)
    BY <1>1, <2>2, <2>3, <2>4, <2>6 DEF Healthy, Instance
  <2>7. CASE StartFails(c)
    <3>1. Sets(i, inst[i].port, TRUE, "failed", inst[i].watcher)
      BY <2>1, <2>3, <2>7, StepSets
    <3>2. inst' \in [Insts -> Instance]
      BY <2>4, <3>1, SetsTyped
    <3> QED BY <1>1, <2>2, <2>7, <3>2 DEF StartFails
  <2>8. CASE StartCleaned(c)
    BY <1>1, <2>2, <2>3, <2>4, <2>8 DEF StartCleaned
  <2>9. CASE StopKills(c)
    BY <1>1, <2>2, <2>3, <2>4, <2>9 DEF StopKills
  <2>10. CASE StopVerified(c)
    BY <1>1, <2>2, <2>3, <2>4, <2>10 DEF StopVerified, Instance
  <2> QED BY <1>5, <2>5, <2>6, <2>7, <2>8, <2>9, <2>10 DEF CallerStep
<1>6. ASSUME NEW i \in Insts, Watch(i) \/ Binds(i) \/ Exits(i) PROVE Good
  <2>1. CASE WatchExit(i)
    BY <1>1, <2>1 DEF WatchExit, Instance
  <2>2. CASE WatchRelaunch(i)
    <3>1. \E p, s, w : Sets(i, p, inst[i].stopping, s, w)
      BY <2>2, StepSets
    <3>2. inst' \in [Insts -> Instance]
      BY <3>1, SetsTyped
    <3>3. \E p \in Ports : portsInUse' \subseteq portsInUse \cup {p}
      <4>1. inst[i].port \in Ports
        BY <1>1 DEF Instance
      <4>2. \A p \in FreePorts(portsInUse \ {inst[i].port}) : p \in Ports
        BY DEF FreePorts
      <4> QED BY <2>2, <4>1, <4>2, RelaunchDoes
    <3>4. portsInUse' \subseteq Ports
      BY <1>1, <3>3
    <3> QED BY <1>1, <2>2, <3>2, <3>4 DEF WatchRelaunch
  <2>3. CASE WatchSpawned(i)
    BY <1>1, <2>3 DEF WatchSpawned, Instance
  <2>4. CASE WatchHealthy(i)
    BY <1>1, <2>4 DEF WatchHealthy, Instance
  <2>5. CASE WatchFails(i)
    BY <1>1, <2>5 DEF WatchFails, Instance
  <2>6. CASE Binds(i)
    BY <1>1, <2>6 DEF Binds
  <2>7. CASE Exits(i)
    BY <1>1, <2>7 DEF Exits
  <2> QED BY <1>6, <2>1, <2>2, <2>3, <2>4, <2>5, <2>6, <2>7 DEF Watch
<1>7. ASSUME NEW p \in Strangers, Stranger(p) PROVE Good
  BY <1>1, <1>7, SupervisorAssumption DEF Stranger
<1>8. Good
  BY <1>2, <1>3, <1>4, <1>5, <1>6, <1>7 DEF Kinds
<1> QED BY <1>8 DEF LocksTyped, TypeOK

\* An instance nothing refers to stays so until a start takes it.
LEMMA FreshStays ==
    ASSUME TypeOK, LocksTurn, Kinds
    PROVE  \/ FreshInsts \subseteq FreshInsts'
           \/ /\ Cardinality(Starters') < Cardinality(FreshInsts)
              /\ \E i : FreshInsts \ {i} \subseteq FreshInsts'
<1> DEFINE Apart(j) == /\ j \in Insts /\ ~Alive(j) /\ ~InTable(j) /\ inst[j].watcher = "none"
                       /\ \A c \in Callers : ~At(c, j)
           Stays(j) == /\ proc'[j] = proc[j] \/ proc'[j] \notin {"starting", "listening"}
                       /\ \A m \in Models : table'[m] = table[m] \/ table'[m] # j
                       /\ inst'[j].watcher = "none"
                       /\ \A c \in Callers : call'[c].pc \in {"idle", "line"} \/ call'[c].inst # j
<1>1. \A j : j \in FreshInsts <=> Apart(j)
  BY DEF FreshInsts, At, Runs
<1>2. \A j : Apart(j) /\ Stays(j) => j \in FreshInsts'
  BY DEF FreshInsts, At, Runs, InTable, Alive
<1>3. /\ table \in [Models -> Insts \cup {None}] /\ inst \in [Insts -> Instance]
      /\ proc \in [Insts -> {"none", "starting", "listening", "dead"}]
      /\ call \in [Callers -> {Idle} \cup Waiting \cup Running]
      /\ None \notin Insts
  BY SupervisorAssumption DEF TypeOK
<1>4. ASSUME Cardinality(Starters') < Cardinality(FreshInsts),
             NEW c, NEW m, NEW i, NEW p, Alone(c, m), NewChild(c, m, i, p)
      PROVE  FreshInsts \ {i} \subseteq FreshInsts'
  <2>1. ASSUME NEW j, Apart(j), j # i PROVE Stays(j)
    <3>1. PICK r \in Running : r.inst = i /\ call' = [call EXCEPT ![c] = r]
      BY <1>4 DEF NewChild
    <3> QED BY <1>3, <1>4, <2>1, <3>1 DEF NewChild, Alone, At, Runs
  <2> QED BY <1>1, <1>2, <2>1
<1>5. ASSUME NEW c, NEW m, Alone(c, m), Marks(c, m) PROVE FreshInsts \subseteq FreshInsts'
  <2>1. ASSUME NEW j, Apart(j) PROVE Stays(j)
    <3>1. PICK r \in Running : r.inst = table[m] /\ call' = [call EXCEPT ![c] = r]
      BY <1>5 DEF Marks
    <3>2. m \in Models /\ table[m] \in Insts /\ table[m] # j
      BY <1>5, <2>1 DEF Marks, Alone, InTable
    <3>3. inst'[j] = inst[j]
      BY <1>5, <2>1, <3>2, OneChanges
    <3> QED BY <1>3, <1>5, <2>1, <3>1, <3>2, <3>3 DEF Marks, Alone, At, Runs
  <2> QED BY <1>1, <1>2, <2>1
<1>6. ASSUME NEW c, Quiet(c) PROVE FreshInsts \subseteq FreshInsts'
  <2>1. PICK r \in {Idle} \cup Waiting : call' = [call EXCEPT ![c] = r]
    BY <1>6 DEF Quiet
  <2>2. r.pc \in {"idle", "line"}
    BY DEF Idle, Waiting
  <2>3. \A j : Apart(j) => Stays(j)
    BY <1>3, <1>6, <2>1, <2>2 DEF Quiet, At, Runs
  <2> QED BY <1>1, <1>2, <2>3
<1>7. ASSUME NEW c \in Callers, CallerStep(c) PROVE FreshInsts \subseteq FreshInsts'
  <2>1. Runs(c)
    BY <1>7, RunsOn, RunEnds DEF CallerStep
  <2>2. PICK i : i = call[c].inst
    OBVIOUS
  <2>3. i \in Insts /\ At(c, i)
    BY <1>3, <2>1, <2>2 DEF At, Runs, Idle, Waiting, Running
  <2>4. \/ call' = [call EXCEPT ![c] = Idle]
        \/ \E r \in Running : r.inst = i /\ call' = [call EXCEPT ![c] = r]
    BY <1>7, <2>2, RunsOn, RunEnds DEF CallerStep
  <2>5. ASSUME NEW j, Apart(j) PROVE Stays(j)
    <3>1. j # i
      BY <2>3, <2>5
    <3>2. \A d \in Callers : call'[d].pc \in {"idle", "line"} \/ call'[d].inst # j
      BY <1>3, <2>4, <2>5, <3>1 DEF At, Runs, Idle
    <3>3. proc'[j] = proc[j]
      BY <1>3, <1>7, <2>2, <2>5, <3>1
         DEF CallerStep, Spawned, Healthy, StartFails, StartCleaned, StopKills, StopVerified
    <3>4. inst'[j] = inst[j]
      BY <1>7, <2>2, <2>5, <3>1, OneChanges
    <3>5. \A m \in Models : table'[m] = table[m] \/ table'[m] # j
      BY <1>3, <1>7, <2>5 DEF CallerStep, Spawned, Healthy, StartFails, StartCleaned, StopKills, StopVerified
    <3> QED BY <2>5, <3>2, <3>3, <3>4, <3>5
  <2> QED BY <1>1, <1>2, <2>5
<1>8. ASSUME NEW i \in Insts, Watch(i) \/ Binds(i) \/ Exits(i) PROVE FreshInsts \subseteq FreshInsts'
  <2>1. UNCHANGED <<call, table>>
    BY <1>8 DEF Watch, WatchExit, WatchRelaunch, WatchSpawned, WatchHealthy, WatchFails, Binds, Exits
  <2>2. ASSUME NEW j, Apart(j) PROVE Stays(j)
    <3>1. j # i
      BY <1>8, <2>2 DEF Alive, Watch, WatchExit, WatchRelaunch, WatchSpawned, WatchHealthy, WatchFails, Binds, Exits
    <3>2. proc'[j] = proc[j]
      BY <1>3, <1>8, <2>2, <3>1
         DEF Watch, WatchExit, WatchRelaunch, WatchSpawned, WatchHealthy, WatchFails, Binds, Exits
    <3>3. inst'[j] = inst[j]
      BY <1>8, <2>2, <3>1, OneChanges
    <3> QED BY <2>1, <2>2, <3>2, <3>3 DEF At, Runs
  <2> QED BY <1>1, <1>2, <2>2
<1>9. ASSUME NEW p \in Strangers, Stranger(p) PROVE FreshInsts \subseteq FreshInsts'
  BY <1>9 DEF Stranger, FreshInsts, Alive, InTable
<1> QED BY <1>4, <1>5, <1>6, <1>7, <1>8, <1>9 DEF Kinds

LEMMA TypedStep ==
    ASSUME Typed, LocksTurn, [Next]_vars
    PROVE  Typed'
<1>1. TypeOK /\ LocksTurn
  BY DEF Typed
<1>2. CASE UNCHANGED vars
  BY <1>2 DEF vars, Typed, TypeOK, Starters, FreshInsts, Alive, InTable
<1>3. CASE ~(UNCHANGED vars)
  <2>1. LocksTyped' /\ Enough /\ Kinds
    BY <1>3, StepTakes
  <2>2. TypeOK'
    BY <1>1, <2>1, TypeStep
  <2>3. /\ IsFiniteSet(FreshInsts) /\ IsFiniteSet(FreshInsts') /\ IsFiniteSet(Starters')
        /\ Cardinality(FreshInsts) \in Nat /\ Cardinality(FreshInsts') \in Nat /\ Cardinality(Starters') \in Nat
    <3>1. FreshInsts \subseteq Insts /\ FreshInsts' \subseteq Insts /\ Starters' \subseteq Callers
      BY DEF FreshInsts, Starters
    <3>2. IsFiniteSet(FreshInsts) /\ IsFiniteSet(FreshInsts') /\ IsFiniteSet(Starters')
      BY <3>1, FS_Subset, SupervisorAssumption
    <3> QED BY <3>2, FS_CardinalityType
  <2>4. CASE FreshInsts \subseteq FreshInsts'
    <3>1. Cardinality(FreshInsts) <= Cardinality(FreshInsts')
      BY <2>3, <2>4, FS_Subset
    <3> QED BY <2>1, <2>2, <2>3, <3>1 DEF Typed, Enough
  <2>5. ASSUME Cardinality(Starters') < Cardinality(FreshInsts), NEW i, FreshInsts \ {i} \subseteq FreshInsts'
        PROVE  Typed'
    <3>1. Cardinality(FreshInsts \ {i}) <= Cardinality(FreshInsts')
      BY <2>3, <2>5, FS_Subset
    <3>2. IsFiniteSet(FreshInsts \ {i}) /\ Cardinality(FreshInsts) - 1 <= Cardinality(FreshInsts \ {i})
          /\ Cardinality(FreshInsts \ {i}) \in Nat
      <4>1. IsFiniteSet(FreshInsts \ {i})
        BY <2>3, FS_RemoveElement
      <4>2. Cardinality(FreshInsts \ {i}) = IF i \in FreshInsts THEN Cardinality(FreshInsts) - 1 ELSE Cardinality(FreshInsts)
        BY <2>3, FS_RemoveElement
      <4>3. Cardinality(FreshInsts \ {i}) \in Nat
        BY <4>1, FS_CardinalityType
      <4> QED BY <2>3, <4>1, <4>2, <4>3
    <3> QED BY <2>2, <2>3, <2>5, <3>1, <3>2 DEF Typed
  <2> QED BY <1>1, <2>1, <2>4, <2>5, FreshStays
<1> QED BY <1>2, <1>3

-----------------------------------------------------------------------------
\* Who an entry and a caller stand for, and who is apart from whom.

\* The step of a caller in its turn: it ends it or goes on where it was.
LEMMA CallerMoves ==
    ASSUME TypeOK, LocksTurn, NEW c \in Callers, CallerStep(c)
    PROVE  /\ Runs(c) /\ call[c] \in Running /\ call[c].inst \in Insts /\ call[c].model \in Models
           /\ \A d \in Callers : d # c => call'[d] = call[d]
           /\ \/ call'[c] = Idle /\ ~Runs(c)'
              \/ /\ call'[c].inst = call[c].inst /\ call'[c].model = call[c].model
                 /\ \/ Spawned(c) /\ call'[c].pc = "health"
                    \/ StartFails(c) /\ call'[c].pc = "cleanup"
                    \/ StopKills(c) /\ call'[c].pc = "verify"
           /\ \A m \in Models : table'[m] = table[m] \/ (m = call[c].model /\ table'[m] = None)
<1>1. Runs(c)
  BY RunsOn, RunEnds DEF CallerStep
<1>2. call[c] \in Running /\ call[c].inst \in Insts /\ call[c].model \in Models
  BY <1>1 DEF TypeOK, Runs, Idle, Waiting, Running
<1>3. \A m \in Models : table'[m] = table[m] \/ (m = call[c].model /\ table'[m] = None)
  BY DEF TypeOK, CallerStep, Spawned, Healthy, StartFails, StartCleaned, StopKills, StopVerified
<1>4. CASE Spawned(c) \/ StartFails(c) \/ StopKills(c)
  <2>1. PICK r \in Running : /\ r.model = call[c].model /\ r.inst = call[c].inst
                             /\ r.pc = IF Spawned(c) THEN "health" ELSE IF StartFails(c) THEN "cleanup" ELSE "verify"
                             /\ call' = [call EXCEPT ![c] = r]
    BY <1>4, RunsOn
  <2> QED BY <1>1, <1>2, <1>3, <1>4, <2>1 DEF TypeOK
<1>5. CASE Healthy(c) \/ StartCleaned(c) \/ StopVerified(c)
  <2>1. call' = [call EXCEPT ![c] = Idle]
    BY <1>5, RunEnds
  <2> QED BY <1>1, <1>2, <1>3, <2>1 DEF TypeOK, Runs, Idle
<1> QED BY <1>4, <1>5 DEF CallerStep

LEMMA NamedStep ==
    ASSUME TypeOK, LocksTurn, Named, Kinds
    PROVE  Named'
<1>1. /\ table \in [Models -> Insts \cup {None}] /\ inst \in [Insts -> Instance]
      /\ call \in [Callers -> {Idle} \cup Waiting \cup Running] /\ None \notin Insts
  BY SupervisorAssumption DEF TypeOK
<1>2. \A c \in Callers : Runs(c) => call[c].inst \in Insts
  BY <1>1 DEF Runs, Idle, Waiting, Running
<1>3. ASSUME NEW c, NEW m, NEW i, NEW p, Alone(c, m), NewChild(c, m, i, p) PROVE Named'
  <2>1. i \in Insts /\ ~InTable(i) /\ \A d \in Callers : ~At(d, i)
    BY <1>3 DEF NewChild, FreshInsts, At, Runs
  <2>2. PICK r \in Running : r.model = m /\ r.inst = i /\ call' = [call EXCEPT ![c] = r]
    BY <1>3 DEF NewChild
  <2>3. inst'[i].model = m /\ \A j \in Insts : j # i => inst'[j] = inst[j]
    BY <1>1, <1>3, <2>1 DEF NewChild
  <2>4. \A n \in Models : table'[n] # None => inst'[table'[n]].model = n
    BY <1>1, <1>3, <2>1, <2>3 DEF NewChild, Named, InTable
  <2>5. \A d \in Callers : Runs(d)' => inst'[call'[d].inst].model = call'[d].model
    BY <1>1, <1>2, <1>3, <2>1, <2>2, <2>3 DEF Alone, Named, At, Runs
  <2> QED BY <2>4, <2>5 DEF Named
<1>4. ASSUME NEW c, NEW m, Alone(c, m), Marks(c, m) PROVE Named'
  <2>1. \A j \in Insts : inst'[j].model = inst[j].model
    BY <1>4, OneChanges
  <2>2. PICK r \in Running : r.model = m /\ r.inst = table[m] /\ call' = [call EXCEPT ![c] = r]
    BY <1>4 DEF Marks
  <2>3. table' = table /\ table[m] \in Insts /\ m \in Models /\ c \in Callers /\ table[m] # None
    BY <1>1, <1>4 DEF Marks, Alone
  <2>4. \A n \in Models : table'[n] # None => inst'[table'[n]].model = n
    BY <1>1, <2>1, <2>3 DEF Named
  <2>5. \A d \in Callers : Runs(d)' => inst'[call'[d].inst].model = call'[d].model
    BY <1>1, <1>2, <2>1, <2>2, <2>3 DEF Named, Runs
  <2> QED BY <2>4, <2>5 DEF Named
<1>5. ASSUME NEW c, Quiet(c) PROVE Named'
  <2>1. PICK r \in {Idle} \cup Waiting : call' = [call EXCEPT ![c] = r]
    BY <1>5 DEF Quiet
  <2>2. r.pc \in {"idle", "line"}
    BY DEF Idle, Waiting
  <2> QED BY <1>1, <1>5, <2>1, <2>2 DEF Named, Quiet, Runs
<1>6. ASSUME NEW c \in Callers, CallerStep(c) PROVE Named'
  <2>1. \A j \in Insts : inst'[j].model = inst[j].model
    BY <1>6, OneChanges
  <2>2. \A n \in Models : table'[n] # None => table'[n] = table[n]
    BY <1>6, CallerMoves
  <2>3. \A d \in Callers : Runs(d)' => Runs(d) /\ call'[d].inst = call[d].inst /\ call'[d].model = call[d].model
    BY <1>6, CallerMoves DEF Runs
  <2> QED BY <1>1, <1>2, <2>1, <2>2, <2>3 DEF Named
<1>7. ASSUME NEW i \in Insts, Watch(i) \/ Binds(i) \/ Exits(i) PROVE Named'
  <2>1. \A j \in Insts : inst'[j].model = inst[j].model
    BY <1>7, OneChanges
  <2>2. UNCHANGED <<call, table>>
    BY <1>7 DEF Watch, WatchExit, WatchRelaunch, WatchSpawned, WatchHealthy, WatchFails, Binds, Exits
  <2> QED BY <1>1, <1>2, <2>1, <2>2 DEF Named, Runs
<1>8. ASSUME NEW p \in Strangers, Stranger(p) PROVE Named'
  BY <1>8 DEF Stranger, Named, Runs
<1> QED BY <1>3, <1>4, <1>5, <1>6, <1>7, <1>8 DEF Kinds

\* One caller at most is at an instance of a model whose lock was not dropped.
LEMMA OneAt ==
    ASSUME LocksTurn, Named, NEW c \in Callers, NEW d \in Callers, NEW i, At(c, i), At(d, i),
           inst[i].model \notin stranded
    PROVE  c = d
<1>1. call[c].model = inst[i].model /\ call[d].model = inst[i].model /\ call[c].pc # "idle" /\ call[d].pc # "idle"
  BY DEF Named, At, Runs
<1>2. call[c].lock = call[d].lock
  BY <1>1 DEF LocksTurn
<1> QED BY <1>2 DEF LocksTurn, At

LEMMA HandsStep ==
    ASSUME TypeOK, LocksTurn, Named, HandsApart, stranded \subseteq stranded', Kinds
    PROVE  HandsApart'
<1> DEFINE Good(j) == /\ inst'[j].stopping => inst'[j].watcher = "none"
                      /\ \A d \in Callers : At(d, j)' =>
                            /\ inst'[j].watcher = "none"
                            /\ call'[d].pc \in {"spawn", "health"} => ~inst'[j].stopping
<1>1. /\ table \in [Models -> Insts \cup {None}] /\ inst \in [Insts -> Instance]
      /\ call \in [Callers -> {Idle} \cup Waiting \cup Running] /\ None \notin Insts
  BY SupervisorAssumption DEF TypeOK
<1>2. ASSUME NEW j \in Insts, inst'[j] = inst[j], inst'[j].model \notin stranded',
             \A d \in Callers : At(d, j)' => At(d, j) /\ call'[d].pc = call[d].pc
      PROVE  Good(j)
  BY <1>2 DEF HandsApart
<1>3. ASSUME NEW c, NEW m, NEW i, NEW p, Alone(c, m), NewChild(c, m, i, p),
             NEW j \in Insts, inst'[j].model \notin stranded'
      PROVE  Good(j)
  <2>1. i \in Insts /\ \A d \in Callers : ~At(d, i)
    BY <1>3 DEF NewChild, FreshInsts, At, Runs
  <2>2. PICK r \in Running : r.inst = i /\ call' = [call EXCEPT ![c] = r]
    BY <1>3 DEF NewChild
  <2>3. c \in Callers /\ call'[c].inst = i /\ \A d \in Callers : d # c => call'[d] = call[d]
    BY <1>1, <1>3, <2>2 DEF Alone
  <2>4. CASE j = i
    <3>1. inst'[i].stopping = FALSE /\ inst'[i].watcher = "none"
      BY <1>1, <1>3, <2>1 DEF NewChild
    <3> QED BY <2>4, <3>1
  <2>5. CASE j # i
    <3>1. inst'[j] = inst[j]
      BY <1>1, <1>3, <2>1, <2>5 DEF NewChild
    <3>2. \A d \in Callers : At(d, j)' => At(d, j) /\ call'[d].pc = call[d].pc
      BY <2>3, <2>5 DEF At, Runs
    <3> HIDE DEF Good
    <3> QED BY <1>2, <1>3, <3>1, <3>2
  <2> QED BY <2>4, <2>5
<1>4. ASSUME NEW c, NEW m, Alone(c, m), Marks(c, m), NEW j \in Insts, inst'[j].model \notin stranded'
      PROVE  Good(j)
  <2>1. PICK r \in Running : /\ r.pc \in {"kill", "nothing"} /\ r.inst = table[m]
                             /\ call' = [call EXCEPT ![c] = r]
    BY <1>4 DEF Marks
  <2>2. /\ c \in Callers /\ m \in Models /\ call'[c].inst = table[m] /\ call'[c].pc \in {"kill", "nothing"}
        /\ \A d \in Callers : d # c => call'[d] = call[d]
    BY <1>1, <1>4, <2>1 DEF Alone
  <2>3. CASE j = table[m]
    <3>1. table[m] \in Insts /\ Sets(table[m], inst[table[m]].port, TRUE, "unloading", "none")
      BY <1>4, StepSets DEF Marks
    <3>2. inst'[j].watcher = "none" /\ inst'[j].model = inst[j].model
      <4>1. PICK i \in Insts : i = table[m]
        BY <3>1
      <4>2. \E e \in Instance : e.watcher = "none" /\ e.model = inst[i].model /\ inst' = [inst EXCEPT ![i] = e]
        BY <3>1, <4>1 DEF Sets
      <4>3. inst'[i].watcher = "none" /\ inst'[i].model = inst[i].model
        BY <1>1, <4>2
      <4> QED BY <2>3, <4>1, <4>3
    <3>3. inst[j].model = m /\ m \notin stranded
      BY <1>1, <1>4, <2>2, <2>3, <3>1, <3>2 DEF Named
    <3>4. \A d \in Callers : At(d, j) => FALSE
      BY <1>4, <3>3 DEF Named, Alone, At
    <3>5. \A d \in Callers : At(d, j)' => d = c
      BY <2>2, <3>4 DEF At, Runs
    <3> QED BY <2>2, <3>2, <3>5
  <2>4. CASE j # table[m]
    <3>1. inst'[j] = inst[j]
      BY <1>4, <2>4, OneChanges
    <3>2. \A d \in Callers : At(d, j)' => At(d, j) /\ call'[d].pc = call[d].pc
      BY <2>2, <2>4 DEF At, Runs
    <3> HIDE DEF Good
    <3> QED BY <1>2, <1>4, <3>1, <3>2
  <2> QED BY <2>3, <2>4
<1>5. ASSUME NEW c, Quiet(c), NEW j \in Insts, inst'[j].model \notin stranded' PROVE Good(j)
  <2>1. PICK r \in {Idle} \cup Waiting : call' = [call EXCEPT ![c] = r]
    BY <1>5 DEF Quiet
  <2>2. r.pc \in {"idle", "line"}
    BY DEF Idle, Waiting
  <2>3. inst'[j] = inst[j] /\ \A d \in Callers : At(d, j)' => At(d, j) /\ call'[d].pc = call[d].pc
    BY <1>1, <1>5, <2>1, <2>2 DEF Quiet, At, Runs
  <2> HIDE DEF Good
  <2> QED BY <1>2, <1>5, <2>3
<1>6. ASSUME NEW c \in Callers, CallerStep(c), NEW j \in Insts, inst'[j].model \notin stranded' PROVE Good(j)
  <2>1. PICK i : i = call[c].inst
    OBVIOUS
  <2>2. Runs(c) /\ At(c, i) /\ i \in Insts /\ \A d \in Callers : d # c => call'[d] = call[d]
    BY <1>6, <2>1, CallerMoves DEF At
  <2>3. \A d \in Callers : At(d, j)' => At(d, j) /\ (d # c => call'[d].pc = call[d].pc)
    BY <1>6, <2>1, <2>2, CallerMoves DEF At, Runs
  <2>4. CASE j # i
    <3>1. inst'[j] = inst[j]
      BY <1>6, <2>1, <2>4, OneChanges
    <3>2. \A d \in Callers : At(d, j)' => At(d, j) /\ call'[d].pc = call[d].pc
      BY <2>1, <2>2, <2>3, <2>4 DEF At
    <3> HIDE DEF Good
    <3> QED BY <1>2, <1>6, <3>1, <3>2
  <2>5. CASE j = i
    <3>1. inst[i].model \notin stranded
      BY <1>6, <2>2, <2>5, OneChanges
    <3>2. inst[i].watcher = "none" /\ (call[c].pc \in {"spawn", "health"} => ~inst[i].stopping)
      BY <2>2, <3>1 DEF HandsApart
    <3>3. \A d \in Callers : At(d, i)' => d = c
      BY <2>2, <2>3, <2>5, <3>1, OneAt
    <3>4. CASE Spawned(c)
      <4>1. inst'[i].stopping = inst[i].stopping /\ inst'[i].watcher = inst[i].watcher /\ call[c].pc = "spawn"
        BY <2>1, <2>2, <3>4, StepSets, SetsTyped DEF Spawned
      <4> QED BY <2>5, <3>2, <3>3, <4>1
    <3>5. CASE Healthy(c)
      <4>1. inst'[i].stopping = inst[i].stopping /\ call[c].pc = "health" /\ ~Runs(c)'
        <5>1. \E w : Sets(i, inst[i].port, inst[i].stopping, "ready", w)
          BY <2>1, <2>2, <3>5, StepSets
        <5>2. inst'[i].stopping = inst[i].stopping
          BY <2>2, <5>1, SetsTyped
        <5>3. call[c].pc = "health" /\ ~Runs(c)'
          BY <1>1, <3>5 DEF Healthy, Return, Runs, Idle
        <5> QED BY <5>2, <5>3
      <4> QED BY <2>5, <3>2, <3>3, <4>1 DEF At
    <3>6. CASE StartFails(c)
      <4>1. inst'[i].watcher = inst[i].watcher /\ call'[c].pc = "cleanup"
        BY <1>1, <2>1, <2>2, <3>6, StepSets, SetsTyped DEF StartFails, Runs
      <4> QED BY <2>5, <3>2, <3>3, <4>1
    <3>7. CASE StartCleaned(c)
      <4>1. inst' = inst /\ ~Runs(c)'
        BY <1>1, <3>7 DEF StartCleaned, Return, Runs, Idle
      <4> QED BY <2>5, <3>1, <3>3, <4>1 DEF HandsApart, At
    <3>8. CASE StopKills(c)
      <4>1. inst' = inst /\ call'[c].pc = "verify"
        BY <1>1, <3>8 DEF StopKills
      <4> QED BY <2>5, <3>2, <3>3, <4>1
    <3>9. CASE StopVerified(c)
      <4>1. \E s : Sets(i, inst[i].port, inst[i].stopping, s, inst[i].watcher)
        BY <2>1, <2>2, <3>9, StepSets
      <4>2. inst'[i].watcher = inst[i].watcher
        BY <2>2, <4>1, SetsTyped
      <4>3. ~Runs(c)'
        BY <1>1, <3>9 DEF StopVerified, Return, Runs, Idle
      <4> QED BY <2>5, <3>2, <3>3, <4>2, <4>3 DEF At
    <3> QED BY <1>6, <3>4, <3>5, <3>6, <3>7, <3>8, <3>9 DEF CallerStep
  <2> QED BY <2>4, <2>5
<1>7. ASSUME NEW i \in Insts, Watch(i), NEW j \in Insts, inst'[j].model \notin stranded' PROVE Good(j)
  <2>1. UNCHANGED call
    BY <1>7 DEF Watch, WatchExit, WatchRelaunch, WatchSpawned, WatchHealthy, WatchFails
  <2>2. CASE j # i
    <3>1. inst'[j] = inst[j]
      BY <1>7, <2>2, OneChanges
    <3> HIDE DEF Good
    <3> QED BY <1>2, <1>7, <2>1, <3>1 DEF At, Runs
  <2>3. CASE j = i
    <3>1. inst[i].watcher # "none" /\ inst[i].model \notin stranded
      BY <1>7, <2>3, OneChanges DEF Watch, WatchExit, WatchRelaunch, WatchSpawned, WatchHealthy, WatchFails
    <3>2. ~inst[i].stopping /\ \A d \in Callers : ~At(d, i)
      BY <3>1 DEF HandsApart
    <3>3. \E p, s, w : Sets(i, p, inst[i].stopping, s, w)
      BY <1>7, StepSets DEF Watch
    <3>4. inst'[i].stopping = inst[i].stopping
      BY <3>3, SetsTyped
    <3>5. inst[i].stopping = FALSE
      BY <1>1, <3>2 DEF Instance
    <3>6. \A d \in Callers : ~At(d, i)'
      BY <2>1, <3>2 DEF At, Runs
    <3> QED BY <2>3, <3>4, <3>5, <3>6
  <2> QED BY <2>2, <2>3
<1>8. ASSUME UNCHANGED <<inst, call>>, NEW j \in Insts, inst'[j].model \notin stranded' PROVE Good(j)
  BY <1>2, <1>8 DEF At, Runs
<1>9. ASSUME NEW j \in Insts, inst'[j].model \notin stranded' PROVE Good(j)
  <2>1. \A i \in Insts : Binds(i) \/ Exits(i) => UNCHANGED <<inst, call>>
    BY DEF Binds, Exits
  <2>2. \A p \in Strangers : Stranger(p) => UNCHANGED <<inst, call>>
    BY DEF Stranger
  <2> HIDE DEF Good
  <2> QED BY <1>3, <1>4, <1>5, <1>6, <1>7, <1>8, <1>9, <2>1, <2>2 DEF Kinds
<1> QED BY <1>9 DEF HandsApart

-----------------------------------------------------------------------------

LEMMA TurnStep ==
    ASSUME TurnInv, [Next]_vars
    PROVE  TurnInv'
<1>1. TypeOK /\ Typed /\ LocksTurn /\ Named /\ HandsApart
  BY DEF TurnInv, Typed
<1>2. Typed' /\ LocksTurn' /\ stranded \subseteq stranded' /\ (Kinds \/ UNCHANGED vars)
  BY <1>1, TypedStep, StepTakes
<1>3. CASE UNCHANGED vars
  BY <1>1, <1>2, <1>3 DEF vars, TurnInv, Named, HandsApart, At, Runs
<1>4. CASE Kinds
  BY <1>1, <1>2, <1>4, NamedStep, HandsStep DEF TurnInv
<1> QED BY <1>2, <1>3, <1>4

LEMMA TurnInit ==
    ASSUME Init
    PROVE  TurnInv
<1>1. PICK m \in Models, p \in Ports :
          inst = [i \in Insts |-> [model |-> m, state |-> "stopped", port |-> p,
                                   stopping |-> FALSE, restarts |-> 0, watcher |-> "none"]]
  BY DEF Init
<1>2. inst \in [Insts -> Instance]
  BY <1>1, SupervisorAssumption DEF Instance
<1>3. \A l \in Locks : <<>> \in Seq(Callers)
  OBVIOUS
<1>4. TypeOK
  BY <1>2, <1>3 DEF Init, TypeOK
<1>5. \A c \in Callers : call[c].pc = "idle"
  BY DEF Init, Idle
<1>6. Starters = {} /\ Cardinality(Starters) = 0
  BY <1>5, FS_EmptySet DEF Starters
<1>7. Cardinality(FreshInsts) \in Nat
  <2>1. FreshInsts \subseteq Insts
    BY DEF FreshInsts
  <2>2. IsFiniteSet(FreshInsts)
    BY <2>1, FS_Subset, SupervisorAssumption
  <2> QED BY <2>2, FS_CardinalityType
<1>8. Typed
  BY <1>4, <1>6, <1>7 DEF Typed
<1>9. LocksTurn /\ Named /\ HandsApart
  BY <1>1, <1>5 DEF Init, LocksTurn, Named, HandsApart, Runs, At
<1> QED BY <1>8, <1>9 DEF TurnInv

\* Callers take turns with a model's lock and its instances.
THEOREM TurnsHold == Spec => []TurnInv
<1>1. Init => TurnInv
  BY TurnInit
<1>2. TurnInv /\ [Next]_vars => TurnInv'
  BY TurnStep
<1> QED BY <1>1, <1>2, PTL DEF Spec

\* A process comes to be in a caller's hands or a watcher's.
LEMMA StoppedStep ==
    ASSUME TurnInv, [Next]_vars, NEW i \in Insts, inst[i].stopping, ~Alive(i), inst[i].model \notin stranded
    PROVE  ~Alive(i)'
<1>1. proc \in [Insts -> {"none", "starting", "listening", "dead"}] /\ TypeOK /\ Typed /\ LocksTurn /\ HandsApart
  BY DEF TurnInv, Typed, TypeOK
<1>2. inst[i].watcher = "none" /\ \A c \in Callers : call[c].pc \in {"spawn", "health"} => ~At(c, i)
  BY <1>1 DEF HandsApart
<1>3. CASE UNCHANGED proc
  BY <1>3 DEF Alive
<1>4. ASSUME NEW c, NEW m, NEW j, NEW p, NewChild(c, m, j, p) PROVE ~Alive(i)'
  BY <1>1, <1>4 DEF NewChild, Alive
<1>5. ASSUME NEW c \in Callers, CallerStep(c) PROVE ~Alive(i)'
  <2>1. CASE Spawned(c)
    <3>1. call[c].inst # i
      BY <1>2, <2>1 DEF At, Runs, Spawned
    <3> QED BY <1>1, <2>1, <3>1 DEF Spawned, Alive
  <2>2. CASE StartCleaned(c) \/ StopKills(c)
    BY <1>1, <2>2 DEF StartCleaned, StopKills, Killed, Alive
  <2>3. CASE Healthy(c) \/ StartFails(c) \/ StopVerified(c)
    BY <1>3, <2>3 DEF Healthy, StartFails, StopVerified
  <2> QED BY <1>5, <2>1, <2>2, <2>3 DEF CallerStep
<1>6. ASSUME NEW j \in Insts, Watch(j) \/ Binds(j) \/ Exits(j) PROVE ~Alive(i)'
  <2>1. CASE WatchSpawned(j)
    <3>1. j # i
      BY <1>2, <2>1 DEF WatchSpawned
    <3> QED BY <1>1, <2>1, <3>1 DEF WatchSpawned, Alive
  <2>2. CASE WatchFails(j)
    BY <1>1, <2>2 DEF WatchFails, Killed, Alive
  <2>3. CASE Binds(j) \/ Exits(j)
    BY <1>1, <2>3 DEF Binds, Exits, Alive
  <2>4. CASE WatchExit(j) \/ WatchRelaunch(j) \/ WatchHealthy(j)
    BY <1>3, <2>4 DEF WatchExit, WatchRelaunch, WatchHealthy
  <2> QED BY <1>6, <2>1, <2>2, <2>3, <2>4 DEF Watch
<1>7. Kinds \/ UNCHANGED vars
  BY <1>1, StepTakes
<1> QED BY <1>3, <1>4, <1>5, <1>6, <1>7 DEF Kinds, Marks, Quiet, Stranger, vars

\* An instance being stopped gets no new process, however its watcher and the calls
\* on its model stood, while no lock of the model was dropped under a waiter.
THEOREM StoppedStayDown == Spec => StoppedStaysDown
<1>1. TurnInv /\ [Next]_vars =>
         \A i \in Insts : inst[i].stopping /\ ~Alive(i) => ~Alive(i)' \/ inst[i].model \in stranded
  <2>1. ASSUME TurnInv, [Next]_vars, NEW i \in Insts
        PROVE  inst[i].stopping /\ ~Alive(i) => ~Alive(i)' \/ inst[i].model \in stranded
    BY <2>1, StoppedStep
  <2> QED BY <2>1, Zenon
<1> QED BY <1>1, TurnsHold, PTL DEF Spec, StoppedStaysDown

-----------------------------------------------------------------------------
\* Every child is its model's entry, when processes die of what kills them.

\* An instance nothing is done to.
LEMMA TiedSame ==
    ASSUME NEW j \in Insts, TiedAt(j), inst'[j] = inst[j], Alive(j)' => Alive(j),
           \A d \in Callers : (At(d, j)' <=> At(d, j)) /\ (At(d, j) => call'[d].pc = call[d].pc),
           table'[inst[j].model] = table[inst[j].model]
           \/ (~Alive(j) /\ inst[j].watcher = "none" /\ \A d \in Callers : ~At(d, j))
    PROVE  TiedAt(j)'
<1>1. \A d \in Callers : At(d, j)' <=> At(d, j)
  OBVIOUS
<1>2. Alive(j)' \/ inst'[j].watcher # "none" \/ (\E d \in Callers : At(d, j)')
      => table'[inst'[j].model] = j
  BY <1>1 DEF TiedAt
<1>3. inst'[j].state \notin {"loading", "ready"} /\ (Alive(j)' \/ inst'[j].watcher # "none")
      => \E d \in Callers : At(d, j)'
  BY <1>1 DEF TiedAt
<1>4. inst'[j].watcher = "backoff" => ~Alive(j)'
  BY DEF TiedAt
<1>5. \A d \in Callers : At(d, j)' /\ call'[d].pc \in {"verify", "nothing"} => ~Alive(j)'
  BY DEF TiedAt
<1> QED BY <1>2, <1>3, <1>4, <1>5 DEF TiedAt

LEMMA TiedNewChild ==
    ASSUME TurnInv, Tied, NEW c, NEW m, NEW i, NEW p, Alone(c, m), NewChild(c, m, i, p),
           NEW j \in Insts, inst'[j].model \notin stranded
    PROVE  TiedAt(j)'
<1>1. /\ table \in [Models -> Insts \cup {None}] /\ inst \in [Insts -> Instance]
      /\ proc \in [Insts -> {"none", "starting", "listening", "dead"}]
      /\ call \in [Callers -> {Idle} \cup Waiting \cup Running]
      /\ Named
  BY DEF TurnInv, Typed, TypeOK
<1>2. i \in Insts /\ m \in Models /\ c \in Callers /\ ~Runs(c) /\ \A d \in Callers : ~At(d, i)
  BY DEF NewChild, FreshInsts, At, Runs, Alone
<1>3. PICK r \in Running : r.pc = "spawn" /\ r.inst = i /\ call' = [call EXCEPT ![c] = r]
  BY DEF NewChild
<1>4. /\ call'[c].pc = "spawn" /\ call'[c].inst = i
      /\ \A d \in Callers : d # c => call'[d] = call[d]
  BY <1>1, <1>2, <1>3
<1>5. CASE j = i
  <2>1. /\ inst'[i].model = m /\ inst'[i].watcher = "none" /\ inst'[i].state = "loading"
        /\ table'[m] = i /\ ~Alive(i)'
    BY <1>1, <1>2 DEF NewChild, Alive
  <2> QED BY <1>5, <2>1 DEF TiedAt
<1>6. CASE j # i
  <2>1. inst'[j] = inst[j] /\ proc'[j] = proc[j] /\ TiedAt(j)
    BY <1>1, <1>2, <1>6 DEF NewChild, Tied
  <2>2. \A d \in Callers : (At(d, j)' <=> At(d, j)) /\ (At(d, j) => call'[d].pc = call[d].pc)
    BY <1>2, <1>4, <1>6 DEF At, Runs
  <2>3. CASE inst[j].model # m
    <3>1. table'[inst[j].model] = table[inst[j].model]
      BY <1>1, <2>3 DEF NewChild, Instance
    <3> QED BY <2>1, <2>2, <3>1, TiedSame DEF Alive
  <2>4. CASE inst[j].model = m
    <3>1. \A d \in Callers : ~At(d, j)
      BY <1>1, <2>1, <2>4 DEF Named, Alone, At
    <3>2. ASSUME Alive(j) \/ inst[j].watcher # "none" PROVE FALSE
      <4>1. table[m] = j /\ inst[j].state \in {"loading", "ready"}
        BY <2>1, <2>4, <3>1, <3>2 DEF TiedAt
      <4>2. j # None
        BY SupervisorAssumption
      <4> QED BY <4>1, <4>2 DEF NewChild, Up
    <3> QED BY <2>1, <2>2, <3>1, <3>2, TiedSame DEF Alive
  <2> QED BY <2>3, <2>4
<1> QED BY <1>5, <1>6

LEMMA TiedMarks ==
    ASSUME TurnInv, Tied, NEW c, NEW m, Alone(c, m), Marks(c, m), NEW j \in Insts, inst'[j].model \notin stranded
    PROVE  TiedAt(j)'
<1>1. /\ table \in [Models -> Insts \cup {None}] /\ inst \in [Insts -> Instance]
      /\ proc \in [Insts -> {"none", "starting", "listening", "dead"}]
      /\ call \in [Callers -> {Idle} \cup Waiting \cup Running]
      /\ Named /\ TypeOK /\ LocksTurn
  BY DEF TurnInv, Typed, TypeOK
<1>2. /\ c \in Callers /\ m \in Models /\ ~Runs(c) /\ table[m] \in Insts
      /\ UNCHANGED <<table, proc>>
  BY DEF Marks, Alone
<1>3. PICK r \in Running : /\ r.pc = IF proc[table[m]] = "none" THEN "nothing" ELSE "kill"
                           /\ r.inst = table[m] /\ call' = [call EXCEPT ![c] = r]
  BY DEF Marks
<1>4. /\ call'[c].pc = (IF proc[table[m]] = "none" THEN "nothing" ELSE "kill") /\ call'[c].inst = table[m]
      /\ \A d \in Callers : d # c => call'[d] = call[d]
  BY <1>1, <1>2, <1>3
<1>5. CASE j = table[m]
  <2>1. Sets(j, inst[j].port, TRUE, "unloading", "none")
    BY <1>1, <1>5, StepSets
  <2>2. PICK s \in Instance : s.model = inst[j].model /\ s.watcher = "none" /\ inst' = [inst EXCEPT ![j] = s]
    BY <2>1 DEF Sets
  <2>3. inst'[j].watcher = "none" /\ inst'[j].model = inst[j].model
    BY <1>1, <2>2
  <2>4. inst[j].model = m /\ m \notin stranded
    BY <1>1, <1>2, <1>5, <2>3, SupervisorAssumption DEF Named
  <2>5. \A d \in Callers : ~At(d, j)
    BY <1>1, <2>4 DEF Named, Alone, At
  <2>6. At(c, j)' /\ \A d \in Callers : At(d, j)' => d = c
    BY <1>2, <1>4, <1>5, <2>5 DEF At, Runs
  <2>7. call'[c].pc \in {"verify", "nothing"} => ~Alive(j)'
    BY <1>2, <1>4, <1>5 DEF Alive
  <2>8. table'[inst'[j].model] = j
    BY <1>2, <1>5, <2>3, <2>4
  <2> QED BY <1>2, <2>3, <2>6, <2>7, <2>8 DEF TiedAt
<1>6. CASE j # table[m]
  <2>1. inst'[j] = inst[j]
    BY <1>1, <1>6, OneChanges
  <2>2. \A d \in Callers : (At(d, j)' <=> At(d, j)) /\ (At(d, j) => call'[d].pc = call[d].pc)
    BY <1>2, <1>4, <1>6 DEF At, Runs
  <2>3. TiedAt(j)
    BY <2>1 DEF Tied
  <2> QED BY <1>2, <2>1, <2>2, <2>3, TiedSame DEF Alive
<1> QED BY <1>5, <1>6

LEMMA TiedCaller ==
    ASSUME TurnInv, Tied, ~Survivors, NEW c \in Callers, CallerStep(c), NEW j \in Insts,
           inst'[j].model \notin stranded
    PROVE  TiedAt(j)'
<1>1. /\ table \in [Models -> Insts \cup {None}] /\ inst \in [Insts -> Instance]
      /\ proc \in [Insts -> {"none", "starting", "listening", "dead"}]
      /\ call \in [Callers -> {Idle} \cup Waiting \cup Running]
      /\ Named /\ TypeOK /\ LocksTurn /\ HandsApart
  BY DEF TurnInv, Typed, TypeOK
<1>2. PICK i : i = call[c].inst
  OBVIOUS
<1>3. /\ Runs(c) /\ At(c, i) /\ i \in Insts /\ call[c].model \in Models /\ inst[i].model = call[c].model
      /\ \A d \in Callers : d # c => call'[d] = call[d]
      /\ \/ ~Runs(c)'
         \/ At(c, i)' /\ \/ Spawned(c) /\ call'[c].pc = "health"
                         \/ StartFails(c) /\ call'[c].pc = "cleanup"
                         \/ StopKills(c) /\ call'[c].pc = "verify"
  <2>1. Runs(c) /\ call[c].inst \in Insts /\ call[c].model \in Models
        /\ \A d \in Callers : d # c => call'[d] = call[d]
    BY <1>1, CallerMoves
  <2>2. \/ ~Runs(c)'
        \/ /\ call'[c].inst = i
           /\ \/ Spawned(c) /\ call'[c].pc = "health"
              \/ StartFails(c) /\ call'[c].pc = "cleanup"
              \/ StopKills(c) /\ call'[c].pc = "verify"
    BY <1>1, <1>2, CallerMoves
  <2> QED BY <1>1, <1>2, <2>1, <2>2 DEF Named, At, Runs
<1>4. inst[j].model \notin stranded /\ inst'[j].model = inst[j].model /\ TiedAt(j) /\ inst[j].model \in Models
  <2>1. inst'[j].model = inst[j].model
    BY <1>1, OneChanges
  <2> QED BY <1>1, <2>1 DEF Tied, Instance
<1>5. CASE j # i
  <2>1. inst'[j] = inst[j]
    BY <1>1, <1>2, <1>5, OneChanges
  <2>2. proc'[j] = proc[j]
    BY <1>1, <1>2, <1>5
       DEF CallerStep, Spawned, Healthy, StartFails, StartCleaned, StopKills, StopVerified
  <2>3. \A d \in Callers : (At(d, j)' <=> At(d, j)) /\ (At(d, j) => call'[d].pc = call[d].pc)
    BY <1>3, <1>5 DEF At, Runs
  <2>4. CASE inst[j].model # call[c].model
    <3>1. table'[inst[j].model] = table[inst[j].model]
      BY <1>1, <1>4, <2>4, CallerMoves
    <3> QED BY <1>4, <2>1, <2>2, <2>3, <3>1, TiedSame DEF Alive
  <2>5. CASE inst[j].model = call[c].model
    <3>1. table[inst[j].model] = i
      BY <1>3, <1>4, <2>5 DEF Tied, TiedAt
    <3>2. ~Alive(j) /\ inst[j].watcher = "none" /\ \A d \in Callers : ~At(d, j)
      BY <1>1, <1>4, <1>5, <3>1 DEF TiedAt, Instance
    <3> QED BY <1>4, <2>1, <2>2, <2>3, <3>2, TiedSame DEF Alive
  <2> QED BY <2>4, <2>5
<1>6. CASE j = i
  <2>1. \A d \in Callers : At(d, i) => d = c
    BY <1>1, <1>3, <1>4, <1>6, OneAt
  <2>2. \A d \in Callers : At(d, i)' => d = c
    BY <1>3, <2>1 DEF At, Runs
  <2>3. inst[i].watcher = "none" /\ table[inst[i].model] = i
    BY <1>1, <1>3, <1>4, <1>6 DEF HandsApart, TiedAt
  <2>4. CASE Spawned(c)
    <3>1. Sets(i, inst[i].port, inst[i].stopping, "loading", inst[i].watcher)
      BY <1>1, <1>2, <1>3, <2>4, StepSets
    <3>2. inst'[i].watcher = "none"
      BY <1>1, <1>3, <2>3, <3>1, SetsTyped
    <3>3. table' = table /\ call'[c].pc = "health" /\ At(c, i)'
      BY <1>1, <1>2, <1>3, <2>4 DEF Spawned, At, Runs
    <3> QED BY <1>4, <1>6, <2>2, <2>3, <3>2, <3>3 DEF TiedAt
  <2>5. CASE Healthy(c)
    <3>1. \E w \in {"none", "watch"} : Sets(i, inst[i].port, inst[i].stopping, "ready", w)
      BY <1>1, <1>2, <1>3, <2>5, StepSets
    <3>2. inst'[i].watcher # "backoff" /\ inst'[i].state = "ready"
      BY <1>1, <1>3, <3>1, SetsTyped
    <3>3. table' = table /\ ~Runs(c)'
      BY <1>1, <2>5 DEF Healthy, Return, Runs, Idle
    <3> QED BY <1>4, <1>6, <2>2, <2>3, <3>2, <3>3 DEF TiedAt, At
  <2>6. CASE StartFails(c)
    <3>1. \E b : Sets(i, inst[i].port, b, "failed", inst[i].watcher)
      BY <1>1, <1>2, <1>3, <2>6, StepSets
    <3>2. inst'[i].watcher = "none"
      BY <1>1, <1>3, <2>3, <3>1, SetsTyped
    <3>3. table' = table /\ call'[c].pc = "cleanup" /\ At(c, i)'
      BY <1>1, <1>2, <1>3, <2>6 DEF StartFails, At, Runs
    <3> QED BY <1>4, <1>6, <2>2, <2>3, <3>2, <3>3 DEF TiedAt
  <2>7. CASE StartCleaned(c)
    <3>1. ~Alive(i)' /\ inst' = inst /\ ~Runs(c)'
      BY <1>1, <1>2, <1>3, <2>7 DEF StartCleaned, Killed, Alive, Return, Runs, Idle
    <3> QED BY <1>4, <1>6, <2>2, <2>3, <3>1 DEF TiedAt, At
  <2>8. CASE StopKills(c)
    <3>1. ~Alive(i)' /\ inst' = inst /\ table' = table
      BY <1>1, <1>2, <1>3, <2>8 DEF StopKills, Killed, Alive
    <3>2. At(c, i)'
      BY <1>1, <1>2, <1>3, <2>8 DEF StopKills, At, Runs
    <3> QED BY <1>4, <1>6, <2>3, <3>1, <3>2 DEF TiedAt
  <2>9. CASE StopVerified(c)
    <3>1. \E s : Sets(i, inst[i].port, inst[i].stopping, s, inst[i].watcher)
      BY <1>1, <1>2, <1>3, <2>9, StepSets
    <3>2. inst'[i].watcher = "none"
      BY <1>1, <1>3, <2>3, <3>1, SetsTyped
    <3>3. proc' = proc /\ ~Runs(c)' /\ call[c].pc \in {"verify", "nothing"}
      BY <1>1, <2>9 DEF StopVerified, Return, Runs, Idle
    <3>4. ~Alive(i)'
      BY <1>3, <1>4, <1>6, <3>3 DEF TiedAt, Alive
    <3> QED BY <1>4, <1>6, <2>2, <2>3, <3>2, <3>3, <3>4 DEF TiedAt, At
  <2> QED BY <2>4, <2>5, <2>6, <2>7, <2>8, <2>9 DEF CallerStep
<1> QED BY <1>5, <1>6

LEMMA TiedWatch ==
    ASSUME TurnInv, Tied, ~Survivors, NEW i \in Insts, Watch(i) \/ Binds(i) \/ Exits(i), NEW j \in Insts,
           inst'[j].model \notin stranded
    PROVE  TiedAt(j)'
<1>1. /\ inst \in [Insts -> Instance]
      /\ proc \in [Insts -> {"none", "starting", "listening", "dead"}]
      /\ TypeOK /\ LocksTurn /\ HandsApart
  BY DEF TurnInv, Typed, TypeOK
<1>2. UNCHANGED <<call, table>>
  BY DEF Watch, WatchExit, WatchRelaunch, WatchSpawned, WatchHealthy, WatchFails, Binds, Exits
<1>3. inst[j].model \notin stranded /\ inst'[j].model = inst[j].model /\ TiedAt(j)
  <2>1. inst'[j].model = inst[j].model
    BY <1>1, OneChanges
  <2> QED BY <2>1 DEF Tied
<1>4. \A d \in Callers : (At(d, j)' <=> At(d, j)) /\ (At(d, j) => call'[d].pc = call[d].pc)
  BY <1>2 DEF At, Runs
<1>5. CASE j # i
  <2>1. inst'[j] = inst[j]
    BY <1>1, <1>5, OneChanges
  <2>2. proc'[j] = proc[j]
    BY <1>1, <1>5 DEF Watch, WatchExit, WatchRelaunch, WatchSpawned, WatchHealthy, WatchFails, Binds, Exits
  <2> QED BY <1>2, <1>3, <1>4, <2>1, <2>2, TiedSame DEF Alive
<1>6. CASE j = i /\ (Binds(i) \/ Exits(i))
  <2>1. inst' = inst /\ (Alive(i)' => Alive(i))
    BY <1>1, <1>6 DEF Binds, Exits, Alive
  <2> QED BY <1>2, <1>3, <1>4, <1>6, <2>1, TiedSame
<1>7. CASE j = i /\ Watch(i)
  <2>1. inst[i].watcher # "none"
    BY <1>7 DEF Watch, WatchExit, WatchRelaunch, WatchSpawned, WatchHealthy, WatchFails
  <2>2. table'[inst'[i].model] = i /\ \A d \in Callers : ~At(d, i) /\ ~At(d, i)'
    BY <1>1, <1>2, <1>3, <1>4, <1>7, <2>1 DEF TiedAt, HandsApart
  <2>3. inst[i].state \in {"loading", "ready"} /\ (inst[i].watcher = "backoff" => ~Alive(i))
    BY <1>3, <1>7, <2>1, <2>2 DEF TiedAt
  <2> DEFINE Fine == /\ inst'[i].state \in {"loading", "ready"} \/ (~Alive(i)' /\ inst'[i].watcher = "none")
                     /\ inst'[i].watcher = "backoff" => ~Alive(i)'
  <2>4. ASSUME WatchExit(i) PROVE Fine
    <3>1. ~Alive(i)'
      BY <2>4 DEF WatchExit, Alive
    <3>2. \/ Sets(i, inst[i].port, inst[i].stopping, "failed", "none")
          \/ Sets(i, inst[i].port, inst[i].stopping, "loading", "backoff")
      BY <1>1, <2>4, StepSets
    <3>3. inst'[i].state = "loading" \/ inst'[i].watcher = "none"
      BY <1>1, <3>2, SetsTyped
    <3> QED BY <3>1, <3>3
  <2>5. ASSUME WatchRelaunch(i) PROVE Fine
    <3>1. Alive(i)' <=> Alive(i)
      BY <2>5 DEF WatchRelaunch, Alive
    <3>2. inst[i].watcher = "backoff"
      BY <2>5 DEF WatchRelaunch
    <3>3. \/ Sets(i, inst[i].port, inst[i].stopping, "failed", "none")
          \/ \E p : Sets(i, p, inst[i].stopping, inst[i].state, "spawn")
      BY <1>1, <2>5, StepSets
    <3>4. inst'[i].watcher = "none" \/ inst'[i].state = inst[i].state
      BY <1>1, <3>3, SetsTyped
    <3> QED BY <2>3, <3>1, <3>2, <3>4
  <2>6. ASSUME WatchSpawned(i) PROVE Fine
    <3>1. Sets(i, inst[i].port, inst[i].stopping, inst[i].state, "health")
      BY <1>1, <2>6, StepSets
    <3>2. inst'[i].state = inst[i].state /\ inst'[i].watcher = "health"
      BY <1>1, <3>1, SetsTyped
    <3> QED BY <2>3, <3>2
  <2>7. ASSUME WatchHealthy(i) PROVE Fine
    <3>1. Sets(i, inst[i].port, inst[i].stopping, "ready", "watch")
      BY <1>1, <2>7, StepSets
    <3>2. inst'[i].state = "ready" /\ inst'[i].watcher = "watch"
      BY <1>1, <3>1, SetsTyped
    <3> QED BY <3>2
  <2>8. ASSUME WatchFails(i) PROVE Fine
    <3>1. ~Alive(i)'
      BY <1>1, <2>8 DEF WatchFails, Killed, Alive
    <3>2. \/ Sets(i, inst[i].port, inst[i].stopping, "failed", "none")
          \/ Sets(i, inst[i].port, inst[i].stopping, inst[i].state, "watch")
      BY <1>1, <2>8, StepSets
    <3>3. inst'[i].watcher = "none" \/ (inst'[i].state = inst[i].state /\ inst'[i].watcher = "watch")
      BY <1>1, <3>2, SetsTyped
    <3> QED BY <2>3, <3>1, <3>3
  <2>9. Fine
    BY <1>7, <2>4, <2>5, <2>6, <2>7, <2>8 DEF Watch
  <2> QED BY <1>7, <2>2, <2>9 DEF TiedAt
<1> QED BY <1>5, <1>6, <1>7

LEMMA TiedStep ==
    ASSUME TurnInv, Tied, ~Survivors, [Next]_vars
    PROVE  Tied'
<1>1. TypeOK /\ Typed /\ LocksTurn
  BY DEF TurnInv, Typed
<1>2. stranded \subseteq stranded' /\ (Kinds \/ UNCHANGED vars)
  BY <1>1, StepTakes
<1>3. ASSUME UNCHANGED <<call, inst, proc, table>> PROVE Tied'
  BY <1>2, <1>3 DEF Tied, TiedAt, At, Runs, Alive
<1>4. ASSUME NEW c, Quiet(c), NEW j \in Insts, inst'[j].model \notin stranded PROVE TiedAt(j)'
  <2>1. PICK r \in {Idle} \cup Waiting : call' = [call EXCEPT ![c] = r]
    BY <1>4 DEF Quiet
  <2>2. r.pc \in {"idle", "line"}
    BY DEF Idle, Waiting
  <2>3. \A d \in Callers : (At(d, j)' <=> At(d, j)) /\ (At(d, j) => call'[d].pc = call[d].pc)
    BY <1>1, <1>4, <2>1, <2>2 DEF Quiet, TypeOK, At, Runs
  <2>4. inst' = inst /\ proc' = proc /\ table' = table /\ TiedAt(j)
    BY <1>4 DEF Quiet, Tied
  <2> QED BY <1>4, <2>3, <2>4, TiedSame DEF Alive
<1>5. ASSUME NEW j \in Insts, inst'[j].model \notin stranded, Kinds, ~(UNCHANGED <<call, inst, proc, table>>)
      PROVE  TiedAt(j)'
  <2>1. \A p \in Strangers : Stranger(p) => UNCHANGED <<call, inst, proc, table>>
    BY DEF Stranger
  <2> QED BY <1>4, <1>5, <2>1, TiedNewChild, TiedMarks, TiedCaller, TiedWatch DEF Kinds
<1> QED BY <1>2, <1>3, <1>5 DEF Tied, vars

-----------------------------------------------------------------------------
\* Every entry has a port of its own.

LEMMA ApartSame ==
    ASSUME OwnPorts, \A i \in Insts : InTable(i)' => InTable(i), \A i \in Insts : inst'[i].port = inst[i].port,
           \A i \in Insts : InTable(i)' /\ inst[i].port \in portsInUse => inst[i].port \in portsInUse'
    PROVE  OwnPorts'
BY DEF OwnPorts

\* With nobody else on the host's ports, a relaunch gets its old port again.
LEMMA SamePort ==
    ASSUME TurnInv, Tied, OwnPorts, foreign = {}, stranded = {}, NEW i \in Insts, WatchRelaunch(i)
    PROVE  portsInUse' = portsInUse /\ \A j \in Insts : inst'[j].port = inst[j].port
<1>1. TypeOK /\ LocksTurn /\ inst \in [Insts -> Instance]
  BY DEF TurnInv, Typed, TypeOK
<1>2. inst[i].watcher = "backoff"
  BY DEF WatchRelaunch
<1>3. InTable(i) /\ ~Alive(i) /\ inst[i].port \in Ports
  <2>1. table[inst[i].model] = i /\ ~Alive(i) /\ inst[i].model \in Models
    BY <1>1, <1>2 DEF Tied, TiedAt, Instance
  <2> QED BY <1>1, <2>1 DEF InTable, Instance
<1>4. inst[i].port \in portsInUse
  BY <1>3 DEF OwnPorts
<1>5. Bindable(inst[i].port)
  <2>1. ASSUME NEW j \in Insts, Listens(j, inst[i].port) PROVE FALSE
    <3>1. Alive(j) /\ inst[j].port = inst[i].port
      BY <2>1 DEF Listens, Alive
    <3>2. table[inst[j].model] = j /\ inst[j].model \in Models
      BY <1>1, <3>1 DEF Tied, TiedAt, Instance
    <3>3. InTable(j)
      BY <3>2 DEF InTable
    <3> QED BY <1>3, <3>1, <3>3 DEF OwnPorts
  <2> QED BY <2>1 DEF Bindable
<1>6. inst[i].port \in FreePorts(portsInUse \ {inst[i].port})
  BY <1>3, <1>5 DEF FreePorts
<1>7. /\ portsInUse' = (portsInUse \ {inst[i].port}) \cup {inst[i].port}
      /\ Sets(i, inst[i].port, inst[i].stopping, inst[i].state, "spawn")
  BY <1>1, <1>6, StepSets
<1>8. inst'[i].port = inst[i].port /\ \A j \in Insts : j # i => inst'[j] = inst[j]
  BY <1>1, <1>7, SetsTyped
<1> QED BY <1>4, <1>7, <1>8

LEMMA ApartStep ==
    ASSUME TurnInv, Tied, OwnPorts, foreign = {}, Strangers = {}, stranded = {}, [Next]_vars
    PROVE  OwnPorts'
<1>1. /\ TypeOK /\ Typed /\ LocksTurn /\ Named
      /\ table \in [Models -> Insts \cup {None}] /\ inst \in [Insts -> Instance] /\ None \notin Insts
  BY SupervisorAssumption DEF TurnInv, Typed, TypeOK
<1>2. Kinds \/ UNCHANGED vars
  BY <1>1, StepTakes
<1>3. ASSUME UNCHANGED <<table, portsInUse>>, \A i \in Insts : inst'[i].port = inst[i].port PROVE OwnPorts'
  BY <1>3, ApartSame DEF InTable
<1>4. ASSUME NEW c, NEW m, NEW i, NEW p, NewChild(c, m, i, p) PROVE OwnPorts'
  <2>1. i \in Insts /\ p \notin portsInUse
    BY <1>4 DEF NewChild, FreshInsts, FreePorts
  <2>2. inst'[i].port = p /\ \A j \in Insts : j # i => inst'[j] = inst[j]
    BY <1>1, <1>4, <2>1 DEF NewChild
  <2>3. \A j \in Insts : InTable(j)' => j = i \/ InTable(j)
    BY <1>1, <1>4 DEF NewChild, InTable
  <2>4. portsInUse' = portsInUse \cup {p}
    BY <1>4 DEF NewChild
  <2> QED BY <2>1, <2>2, <2>3, <2>4 DEF OwnPorts
<1>5. ASSUME NEW c, NEW m, Marks(c, m) PROVE OwnPorts'
  <2>1. PICK i \in Insts : i = table[m] /\ inst' = [inst EXCEPT ![i].stopping = TRUE, ![i].state = "unloading",
                                                                ![i].watcher = "none"]
    BY <1>5 DEF Marks
  <2>2. PICK r : r = [inst[i] EXCEPT !.stopping = TRUE, !.state = "unloading", !.watcher = "none"]
    OBVIOUS
  <2>3. r.port = inst[i].port /\ inst' = [inst EXCEPT ![i] = r]
    BY <1>1, <2>1, <2>2 DEF Instance
  <2> QED BY <1>1, <1>3, <1>5, <2>3 DEF Marks
<1>6. ASSUME NEW c \in Callers, CallerStep(c) PROVE OwnPorts'
  <2>1. PICK i : i = call[c].inst
    OBVIOUS
  <2>2. Runs(c) /\ At(c, i) /\ i \in Insts /\ call[c].model \in Models /\ inst[i].model = call[c].model
    BY <1>1, <1>6, <2>1, CallerMoves DEF Named, At
  <2>3. \A j \in Insts : j # i => inst'[j] = inst[j]
    BY <1>1, <1>6, <2>1, OneChanges
  <2>4. inst'[i].port = inst[i].port
    <3>1. CASE Spawned(c)
      <4>1. Sets(i, inst[i].port, inst[i].stopping, "loading", inst[i].watcher)
        BY <1>1, <2>1, <2>2, <3>1, StepSets
      <4> QED BY <1>1, <2>2, <4>1, SetsTyped
    <3>2. CASE Healthy(c)
      <4>1. \E w : Sets(i, inst[i].port, inst[i].stopping, "ready", w)
        BY <1>1, <2>1, <2>2, <3>2, StepSets
      <4> QED BY <1>1, <2>2, <4>1, SetsTyped
    <3>3. CASE StartFails(c)
      <4>1. \E b : Sets(i, inst[i].port, b, "failed", inst[i].watcher)
        BY <1>1, <2>1, <2>2, <3>3, StepSets
      <4> QED BY <1>1, <2>2, <4>1, SetsTyped
    <3>4. CASE StartCleaned(c) \/ StopKills(c)
      BY <3>4 DEF StartCleaned, StopKills
    <3>5. CASE StopVerified(c)
      <4>1. \E s : Sets(i, inst[i].port, inst[i].stopping, s, inst[i].watcher)
        BY <1>1, <2>1, <2>2, <3>5, StepSets
      <4> QED BY <1>1, <2>2, <4>1, SetsTyped
    <3> QED BY <1>6, <3>1, <3>2, <3>3, <3>4, <3>5 DEF CallerStep
  <2>5. \A j \in Insts : InTable(j)' => InTable(j)
    BY <1>1, <1>6, CallerMoves DEF InTable
  <2>6. CASE portsInUse' = portsInUse
    BY <2>3, <2>4, <2>5, <2>6, ApartSame
  <2>7. CASE portsInUse' = portsInUse \ {inst[i].port} /\ table' = [table EXCEPT ![call[c].model] = None]
    <3>1. InTable(i)
      BY <1>1, <2>2 DEF Tied, TiedAt, InTable
    <3>2. ~InTable(i)'
      BY <1>1, <2>2, <2>7 DEF Named, InTable
    <3>3. \A j \in Insts : InTable(j)' /\ inst[j].port \in portsInUse => inst[j].port \in portsInUse'
      BY <2>2, <2>5, <2>7, <3>1, <3>2 DEF OwnPorts
    <3> QED BY <2>3, <2>4, <2>5, <3>3, ApartSame
  <2>8. \/ portsInUse' = portsInUse
        \/ portsInUse' = portsInUse \ {inst[i].port} /\ table' = [table EXCEPT ![call[c].model] = None]
    BY <1>6, <2>1 DEF CallerStep, Spawned, Healthy, StartFails, StartCleaned, StopKills, StopVerified
  <2> QED BY <2>6, <2>7, <2>8
<1>7. ASSUME NEW i \in Insts, Watch(i) \/ Binds(i) \/ Exits(i) PROVE OwnPorts'
  <2>1. table' = table
    BY <1>7 DEF Watch, WatchExit, WatchRelaunch, WatchSpawned, WatchHealthy, WatchFails, Binds, Exits
  <2>2. CASE WatchRelaunch(i)
    BY <1>3, <2>1, <2>2, SamePort
  <2>3. CASE ~WatchRelaunch(i)
    <3>1. portsInUse' = portsInUse
      BY <1>7, <2>3 DEF Watch, WatchExit, WatchSpawned, WatchHealthy, WatchFails, Binds, Exits
    <3>2. inst' = inst \/ \E s, w : Sets(i, inst[i].port, inst[i].stopping, s, w)
      <4>1. CASE Binds(i) \/ Exits(i)
        BY <4>1 DEF Binds, Exits
      <4>2. CASE WatchExit(i)
        BY <1>1, <4>2, StepSets
      <4>3. CASE WatchSpawned(i)
        BY <1>1, <4>3, StepSets
      <4>4. CASE WatchHealthy(i)
        BY <1>1, <4>4, StepSets
      <4>5. CASE WatchFails(i)
        BY <1>1, <4>5, StepSets
      <4> QED BY <1>7, <2>3, <4>1, <4>2, <4>3, <4>4, <4>5 DEF Watch
    <3>3. \A j \in Insts : inst'[j].port = inst[j].port
      BY <1>1, <3>2, SetsTyped
    <3> QED BY <1>3, <2>1, <3>1, <3>3
  <2> QED BY <2>2, <2>3
<1>8. ASSUME NEW c, Quiet(c) PROVE OwnPorts'
  BY <1>3, <1>8 DEF Quiet
<1>9. CASE UNCHANGED vars
  BY <1>3, <1>9 DEF vars
<1> QED BY <1>2, <1>4, <1>5, <1>6, <1>7, <1>8, <1>9 DEF Kinds

LEMMA SetAsideStep ==
    ASSUME TurnInv, Tied, PortsSetAside, Strangers = {}, [Next]_vars
    PROVE  PortsSetAside'
<1>1. stranded \subseteq stranded' /\ (Kinds \/ UNCHANGED vars)
  BY StepTakes DEF TurnInv
<1>2. foreign' = {}
  <2>1. \A c \in Callers : CallerStep(c) => foreign' = foreign
    BY DEF CallerStep, Spawned, Healthy, StartFails, StartCleaned, StopKills, StopVerified
  <2>2. \A i \in Insts : Watch(i) \/ Binds(i) \/ Exits(i) => foreign' = foreign
    BY DEF Watch, WatchExit, WatchRelaunch, WatchSpawned, WatchHealthy, WatchFails, Binds, Exits
  <2> QED BY <1>1, <2>1, <2>2 DEF Kinds, vars, PortsSetAside
<1>3. ASSUME stranded' = {} PROVE OwnPorts'
  BY <1>1, <1>3, ApartStep DEF PortsSetAside
<1> QED BY <1>2, <1>3 DEF PortsSetAside

-----------------------------------------------------------------------------

\* With nothing outliving a kill and nobody else on its ports, every live child is
\* its model's entry, on a port that is its own and set aside, whatever calls, crashes
\* and relaunches come together, unless a lock was dropped under a waiter.
THEOREM ChildrenAreAccounted ==
    ASSUME ~Survivors, Strangers = {}
    PROVE  Spec => []ChildrenAccounted
<1> DEFINE All == TurnInv /\ Tied /\ PortsSetAside
<1>1. Init => All
  <2>1. Init => TurnInv
    BY TurnInit
  <2>2. Init => Tied /\ PortsSetAside
    <3>1. ASSUME Init PROVE Tied /\ PortsSetAside
      <4>1. \A c \in Callers, i \in Insts : ~At(c, i)
        BY <3>1 DEF Init, Idle, At, Runs
      <4>2. \A i \in Insts : ~Alive(i) /\ inst[i].watcher = "none" /\ ~InTable(i)
        BY <3>1, SupervisorAssumption DEF Init, Alive, InTable
      <4> QED BY <3>1, <4>1, <4>2 DEF Init, Tied, TiedAt, PortsSetAside, OwnPorts
    <3> QED BY <3>1
  <2> QED BY <2>1, <2>2
<1>2. All /\ [Next]_vars => All'
  BY TurnStep, TiedStep, SetAsideStep
<1>3. All => ChildrenAccounted
  <2>1. ASSUME All PROVE ChildrenAccounted
    <3>1. TypeOK
      BY <2>1 DEF TurnInv, Typed
    <3>2. ChildrenInTable
      BY <2>1 DEF ChildrenInTable, Children, Tied, TiedAt
    <3>3. PortsApart
      BY <2>1 DEF PortsApart, PortsSetAside, OwnPorts, HasPort
    <3> QED BY <3>1, <3>2, <3>3 DEF ChildrenAccounted
  <2> QED BY <2>1
<1>4. Spec => []All
  <2> HIDE DEF All
  <2> QED BY <1>1, <1>2, PTL DEF Spec
<1> QED BY <1>3, <1>4, PTL

====
