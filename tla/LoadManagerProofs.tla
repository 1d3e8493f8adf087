-------------------------- MODULE LoadManagerProofs --------------------------
(***************************************************************************)
(* Proofs about LoadManager, for any models, cards, sizes, tiers, requests *)
(* and callers of every kind.                                              *)
(*                                                                         *)
(* One load at a time is past the gate (GateHeld), so the card it planned  *)
(* on keeps the room of its plan (PlansHold) while others only take        *)
(* children away; a lease begins when no load is in flight, so a plan does *)
(* not go to a card that was leased since.  Who is in start() or stop() is *)
(* the head of its model's slot (InLine), so a launch ends with the child  *)
(* it began.                                                               *)
(*                                                                         *)
(* The steps of a load are put together from a few parts; what they do is  *)
(* said once (Acts) and each part of the invariant follows from that.      *)
(***************************************************************************)
EXTENDS LoadManager, FiniteSetTheorems, SequenceTheorems, TLAPS

-----------------------------------------------------------------------------
\* The invariant.

Children == [state : {"none", "loading", "ready", "unloading", "failed"},
             card : Cards \cup {None}, active : 0..Cardinality(Requests)]

Recs == [pc : InFlightPCs \cup {"idle", "queue", "admitted", "stream", "cut", "move", "down"},
         model : Models \cup {None},
         mode : {"load", "force", "reload", "restore", "move", "back"},
         card : Cards \cup {None}, victim : Models \cup {None}, todo : SUBSET Models,
         stage : {"first", "retry", "second"}, wanted : SUBSET Models, home : Cards \cup {None}]

\* A task off the load path only stops children; who is not idle has its model, who
\* stops a child has its victim; only requests are served.
KindOf(p, r) ==
    /\ p \notin LoadTasks => r.pc \in {"idle", "stop", "stopping"}
    /\ p \in LoadTasks \cup Unloaders /\ r.pc # "idle" => r.model \in Models
    /\ r.pc \in {"stop", "stopping"} => r.victim \in Models
    /\ r.pc \in {"admitted", "stream", "cut"} => p \in Requests

\* Who is in start() or stop() is the head of its model's slot, and who waits to
\* get in is in it.
InSlot(p, r, s) ==
    LET q == IF r.pc \in {"stop", "stopping"} THEN s[r.victim] ELSE s[r.model] IN
    /\ r.pc \in {"stop", "start"} => q # <<>> /\ Head(q) = p
    /\ r.pc \in {"stopping", "starting"} => \E i \in 1..Len(q) : q[i] = p

InLine == \A p \in Tasks : InSlot(p, task[p], slot)

\* Who waits for a model's lock is in its queue.
Queued == \A p \in LoadTasks : task[p].pc = "queue" =>
              \E i \in 1..Len(queue[task[p].model]) : queue[task[p].model][i] = p

\* No child counts more than the requests that have begun on its model.
Begun(m) == {r \in Requests : task[r].pc \in {"stream", "cut"} /\ task[r].model = m}

Counted == \A m \in Models : child[m].active <= Cardinality(Begun(m))

Typed ==
    /\ TypeOK /\ child \in [Models -> Children]
    /\ task \in [Tasks -> Recs] /\ \A p \in Tasks : KindOf(p, task[p])
    /\ InLine /\ Queued /\ Counted
    /\ \A c \in Cards : lease[c] # None => CardOf[lease[c]] = c

\* The gate has one owner; who is past it owns it, and who waits in its line, once,
\* is at the gate.
PastGate == InFlightPCs \ {"gate"}

GateHeld ==
    /\ \A p, q \in owners : p = q
    /\ \A p \in LoadTasks : task[p].pc \in PastGate => p \in owners
    /\ \A p \in owners : task[p].pc \in InFlightPCs
    /\ \A w \in line : task[w[1]].pc = "gate" /\ w[1] \notin owners
    /\ \A v, w \in line : v[1] = w[1] => v = w

\* A load with a plan: its card is not leased away and, the children it is rid of
\* apart, has room for its model.
Planned(r) ==
    \/ r.pc \in {"stop", "stopping"} /\ r.stage # "retry"
    \/ r.pc \in {"start", "starting"}

Spared(r) == IF r.pc = "starting" THEN {} ELSE r.todo \cup {r.victim}

Fits(w, r, without) == ~Crashes => Taken(w, r.card, without) + SizeOf[r.model] <= Room

PlanHolds(r, w) ==
    Planned(r) =>
        /\ r.card \in Cards /\ ~Blocked(r.card, r.model)
        /\ r.pc # "start" => Fits(w, r, Spared(r))

PlansHold == \A p \in LoadTasks : PlanHolds(task[p], child)

\* A launch has its child, which is loading where the plan says.
Launches ==
    /\ \A p \in LoadTasks : task[p].pc = "start" =>
           LET n == child[task[p].model] IN n.state = "loading" /\ n.card = task[p].card
    /\ ~Crashes => \A m \in Models : child[m].state = "loading" => Launching(m)

RoomHolds == ~Crashes => RoomEnough

\* The rebalancer's loads are for its card, and stop no child but the one they move.
Mover(r) ==
    /\ r.mode \in Placed /\ r.wanted = {}
    /\ r.todo \subseteq {r.model}
    /\ r.mode = "back" => r.todo = {}

MoverOK(r) ==
    /\ r.pc \in InFlightPCs \cup {"queue", "move"} => Mover(r)
    /\ r.pc \in {"stop", "stopping"} => r.mode = "move" /\ r.victim = r.model /\ r.todo = {}

Moving == \A p \in Rebalancer : MoverOK(task[p])

LoadInv ==
    /\ Typed /\ GateHeld /\ PlansHold /\ Launches /\ RoomHolds /\ LeaseHonoured
    /\ Moving /\ RestoreComing

-----------------------------------------------------------------------------
\* Room.

UnitsOf(S) == UNION {Units(n) : n \in S}

LEMMA UnitsFinite ==
    ASSUME NEW S, S \subseteq Models
    PROVE  IsFiniteSet(UnitsOf(S)) /\ Cardinality(UnitsOf(S)) \in Nat
<1>1. \A n \in Models : IsFiniteSet(Units(n))
  <2> SUFFICES ASSUME NEW n \in Models PROVE IsFiniteSet(Units(n))
    OBVIOUS
  <2>1. SizeOf[n] \in Nat
    BY LoadManagerAssumption
  <2>2. IsFiniteSet({n})
    BY FS_Singleton
  <2>3. IsFiniteSet(1..SizeOf[n])
    BY <2>1, FS_Interval
  <2> QED BY <2>2, <2>3, FS_Product DEF Units
<1>2. IsFiniteSet(S)
  BY LoadManagerAssumption, FS_Subset
<1> DEFINE F == [n \in S |-> Units(n)]
           T == {Units(n) : n \in S}
<1>3. IsFiniteSet(T)
  <2>1. F \in Surjection(S, T)
    BY DEF Surjection
  <2> QED BY <1>2, <2>1, FS_Surjection
<1>4. \A U \in T : IsFiniteSet(U)
  BY <1>1
<1>5. IsFiniteSet(UNION T)
  <2> HIDE DEF T
  <2> QED BY <1>3, <1>4, FS_UNION
<1> QED BY <1>5, FS_CardinalityType DEF UnitsOf

\* Fewer children take no more room.
LEMMA FewerTakeLess ==
    ASSUME NEW S, NEW T, S \subseteq T, T \subseteq Models
    PROVE  Cardinality(UnitsOf(S)) <= Cardinality(UnitsOf(T))
<1>1. UnitsOf(S) \subseteq UnitsOf(T)
  BY DEF UnitsOf
<1> QED BY <1>1, UnitsFinite, FS_Subset

\* One more takes its size, if it was not there.
LEMMA OneMore ==
    ASSUME NEW S, NEW T, T \subseteq Models, NEW m \in Models, S \subseteq T \cup {m}
    PROVE  Cardinality(UnitsOf(S)) <= Cardinality(UnitsOf(T)) + SizeOf[m]
<1>1. UnitsOf(S) \subseteq UnitsOf(T) \cup Units(m)
  BY DEF UnitsOf
<1>2. SizeOf[m] \in Nat /\ IsFiniteSet(Units(m)) /\ Cardinality(Units(m)) = SizeOf[m]
  <2>1. SizeOf[m] \in Nat /\ SizeOf[m] >= 1
    BY LoadManagerAssumption
  <2>2. IsFiniteSet({m}) /\ Cardinality({m}) = 1
    BY FS_Singleton
  <2>3. IsFiniteSet(1..SizeOf[m]) /\ Cardinality(1..SizeOf[m]) = SizeOf[m]
    BY <2>1, FS_Interval, SMTT(30)
  <2>4. IsFiniteSet({m} \X (1..SizeOf[m])) /\ Cardinality({m} \X (1..SizeOf[m])) = 1 * SizeOf[m]
    BY <2>2, <2>3, FS_Product, ZenonT(60)
  <2> QED BY <2>1, <2>4 DEF Units
<1>3. IsFiniteSet(UnitsOf(T)) /\ Cardinality(UnitsOf(T)) \in Nat
  BY UnitsFinite
<1>4. UnitsOf(T) \cap Units(m) \subseteq Units(m)
  OBVIOUS
<1>5. Cardinality(UnitsOf(T) \cap Units(m)) \in Nat
  BY <1>2, <1>4, FS_Subset, FS_CardinalityType
<1>6. /\ IsFiniteSet(UnitsOf(T) \cup Units(m))
      /\ Cardinality(UnitsOf(T) \cup Units(m)) =
             Cardinality(UnitsOf(T)) + Cardinality(Units(m)) - Cardinality(UnitsOf(T) \cap Units(m))
  BY <1>2, <1>3, FS_Union
<1>7. Cardinality(UnitsOf(S)) <= Cardinality(UnitsOf(T) \cup Units(m)) /\ IsFiniteSet(UnitsOf(S))
  BY <1>1, <1>6, FS_Subset
<1>8. Cardinality(UnitsOf(S)) \in Nat
  BY <1>7, FS_CardinalityType
<1> QED BY <1>2, <1>3, <1>5, <1>6, <1>7, <1>8

LEMMA TakenIs ==
    ASSUME NEW w, NEW c, NEW X
    PROVE  /\ Taken(w, c, X) = Cardinality(UnitsOf(OnCard(w, c) \ X))
           /\ OnCard(w, c) \ X \subseteq Models
           /\ Taken(w, c, X) \in Nat
<1>1. Taken(w, c, X) = Cardinality(UnitsOf(OnCard(w, c) \ X))
  BY DEF Taken, UnitsOf
<1>2. OnCard(w, c) \ X \subseteq Models
  BY DEF OnCard
<1> QED BY <1>1, <1>2, UnitsFinite

LEMMA TakenLess ==
    ASSUME NEW v, NEW w, NEW c, NEW X, NEW Y, OnCard(v, c) \ X \subseteq OnCard(w, c) \ Y
    PROVE  Taken(v, c, X) <= Taken(w, c, Y)
<1> DEFINE S == OnCard(v, c) \ X
           T == OnCard(w, c) \ Y
<1>1. /\ Taken(v, c, X) = Cardinality(UnitsOf(S)) /\ Taken(w, c, Y) = Cardinality(UnitsOf(T))
      /\ S \subseteq T /\ T \subseteq Models
  BY TakenIs
<1> HIDE DEF S, T
<1> QED BY <1>1, FewerTakeLess

LEMMA TakenMore ==
    ASSUME NEW v, NEW w, NEW c, NEW m \in Models, OnCard(v, c) \subseteq OnCard(w, c) \cup {m}
    PROVE  Taken(v, c, {}) <= Taken(w, c, {}) + SizeOf[m]
<1> DEFINE S == OnCard(v, c) \ {}
           T == OnCard(w, c) \ {}
<1>1. /\ Taken(v, c, {}) = Cardinality(UnitsOf(S)) /\ Taken(w, c, {}) = Cardinality(UnitsOf(T))
      /\ S \subseteq T \cup {m} /\ T \subseteq Models
  BY TakenIs, ZenonT(60)
<1> HIDE DEF S, T
<1> QED BY <1>1, OneMore

-----------------------------------------------------------------------------
\* Slots.

\* What holds of the slots for everybody but p.
SlotsFor(p, s) ==
    /\ s \in [Models -> Seq(Tasks)]
    /\ \A q \in Tasks \ {p} : InSlot(q, task[q], s)

\* Nobody else launches m.
Alone(p, m) == \A q \in Tasks \ {p} : task[q].pc = "start" => task[q].model # m

LEMMA SlotNames ==
    ASSUME Typed, NEW q \in Tasks, NEW s
    PROVE  /\ task[q].pc \in {"stop", "stopping"} => task[q].victim \in Models
           /\ task[q].pc \in {"start", "starting", "queue"} => task[q].model \in Models /\ q \in LoadTasks
BY DEF Typed, KindOf

LEMMA SlotsAsTheyAre ==
    ASSUME Typed, NEW p
    PROVE  SlotsFor(p, slot)
BY DEF Typed, TypeOK, SlotsFor, InLine

LEMMA InsideIsAlone ==
    ASSUME Typed, NEW p, NEW s, SlotsFor(p, s), NEW m \in Models, Inside(s, m, p)
    PROVE  Alone(p, m)
<1> SUFFICES ASSUME NEW q \in Tasks \ {p}, task[q].pc = "start", task[q].model = m PROVE FALSE
  BY DEF Alone
<1>1. s[m] # <<>> /\ Head(s[m]) = q
  BY DEF SlotsFor, InSlot
<1> QED BY <1>1 DEF Inside

LEMMA Joins ==
    ASSUME Typed, NEW p \in Tasks, NEW s, SlotsFor(p, s), NEW m \in Models
    PROVE  /\ SlotsFor(p, Join(s, m, p))
           /\ \E i \in 1..Len(Join(s, m, p)[m]) : Join(s, m, p)[m][i] = p
           /\ Inside(s, m, p) => Join(s, m, p)[m] # <<>> /\ Head(Join(s, m, p)[m]) = p
<1>1. s \in [Models -> Seq(Tasks)] /\ s[m] \in Seq(Tasks)
  BY DEF SlotsFor
<1>2. CASE s[m] # <<>> /\ Head(s[m]) = p
  <2>1. Join(s, m, p) = s
    BY <1>2 DEF Join
  <2>2. Len(s[m]) \in Nat /\ Len(s[m]) >= 1 /\ s[m][1] = p
    BY <1>1, <1>2, EmptySeq
  <2>3. 1 \in 1..Len(s[m])
    BY <2>2
  <2> QED BY <1>2, <2>1, <2>2, <2>3
<1>3. CASE ~(s[m] # <<>> /\ Head(s[m]) = p)
  <2> DEFINE t == Append(s[m], p)
  <2>1. Join(s, m, p) = [s EXCEPT ![m] = t]
    BY <1>3 DEF Join
  <2>2. /\ t \in Seq(Tasks) /\ t # <<>> /\ Len(t) = Len(s[m]) + 1 /\ Len(s[m]) \in Nat
        /\ \A i \in 1..Len(s[m]) : t[i] = s[m][i]
        /\ t[Len(s[m]) + 1] = p
    BY <1>1, AppendProperties, LenProperties
  <2>3. Head(t) = IF s[m] = <<>> THEN p ELSE Head(s[m])
    BY <1>1, HeadTailAppend
  <2> HIDE DEF t
  <2>4. Join(s, m, p) \in [Models -> Seq(Tasks)] /\ Join(s, m, p)[m] = t
    BY <1>1, <2>1, <2>2
  <2>5. \A n \in Models \ {m} : Join(s, m, p)[n] = s[n]
    BY <1>1, <2>1
  <2>6. ASSUME NEW q \in Tasks \ {p} PROVE InSlot(q, task[q], Join(s, m, p))
    <3>1. InSlot(q, task[q], s)
      BY DEF SlotsFor
    <3>2. /\ task[q].pc \in {"stop", "stopping"} => task[q].victim \in Models
          /\ task[q].pc \in {"start", "starting"} => task[q].model \in Models
      BY SlotNames
    <3> DEFINE a == IF task[q].pc \in {"stop", "stopping"} THEN task[q].victim ELSE task[q].model
    <3>3. CASE task[q].pc \in {"stop", "start"}
      <4>1. a \in Models /\ s[a] # <<>> /\ Head(s[a]) = q
        BY <3>1, <3>2, <3>3 DEF InSlot
      <4>2. Join(s, m, p)[a] # <<>> /\ Head(Join(s, m, p)[a]) = q
        BY <2>2, <2>3, <2>4, <2>5, <4>1
      <4> QED BY <3>3, <4>2 DEF InSlot
    <3>4. CASE task[q].pc \in {"stopping", "starting"}
      <4>1. a \in Models /\ \E i \in 1..Len(s[a]) : s[a][i] = q
        BY <3>1, <3>2, <3>4 DEF InSlot
      <4>2. \E i \in 1..Len(Join(s, m, p)[a]) : Join(s, m, p)[a][i] = q
        <5>1. CASE a # m
          BY <2>5, <4>1, <5>1
        <5>2. CASE a = m
          <6>1. PICK i \in 1..Len(s[m]) : s[m][i] = q
            BY <4>1, <5>2
          <6>2. i \in 1..Len(t) /\ t[i] = q
            BY <2>2, <6>1
          <6> QED BY <2>4, <5>2, <6>2
        <5> QED BY <5>1, <5>2
      <4> QED BY <3>4, <4>2 DEF InSlot
    <3>5. CASE task[q].pc \notin {"stop", "start", "stopping", "starting"}
      BY <3>5 DEF InSlot
    <3> QED BY <3>3, <3>4, <3>5
  <2>7. \E i \in 1..Len(t) : t[i] = p
    BY <2>2
  <2>8. Inside(s, m, p) => Head(t) = p
    BY <1>3, <2>3 DEF Inside
  <2> QED BY <2>2, <2>4, <2>6, <2>7, <2>8 DEF SlotsFor
<1> QED BY <1>2, <1>3

\* The head of a slot leaves it.
LEMMA Leaves ==
    ASSUME Typed, NEW p \in Tasks, NEW s, SlotsFor(p, s), NEW m \in Models,
           s[m] # <<>>, Head(s[m]) = p
    PROVE  SlotsFor(p, Leave(s, m))
<1> DEFINE t == Tail(s[m])
<1>1. s \in [Models -> Seq(Tasks)] /\ s[m] \in Seq(Tasks)
  BY DEF SlotsFor
<1>2. /\ t \in Seq(Tasks) /\ Len(t) = Len(s[m]) - 1
      /\ \A i \in 1..Len(t) : t[i] = s[m][i + 1]
  BY <1>1, HeadTailProperties
<1>3. Len(s[m]) \in Nat /\ s[m][1] = p
  BY <1>1, LenProperties
<1>4. Leave(s, m) = [s EXCEPT ![m] = t]
  BY DEF Leave
<1> HIDE DEF t
<1>5. Leave(s, m) \in [Models -> Seq(Tasks)] /\ Leave(s, m)[m] = t /\ \A n \in Models \ {m} : Leave(s, m)[n] = s[n]
  BY <1>1, <1>2, <1>4
<1>6. ASSUME NEW q \in Tasks \ {p} PROVE InSlot(q, task[q], Leave(s, m))
  <2>1. InSlot(q, task[q], s)
    BY DEF SlotsFor
  <2>2. /\ task[q].pc \in {"stop", "stopping"} => task[q].victim \in Models
        /\ task[q].pc \in {"start", "starting"} => task[q].model \in Models
    BY SlotNames
  <2> DEFINE a == IF task[q].pc \in {"stop", "stopping"} THEN task[q].victim ELSE task[q].model
  <2>3. CASE task[q].pc \in {"stop", "start"}
    <3>1. a \in Models /\ s[a] # <<>> /\ Head(s[a]) = q
      BY <2>1, <2>2, <2>3 DEF InSlot
    <3>2. a # m
      BY <3>1
    <3> QED BY <1>5, <2>3, <3>1, <3>2 DEF InSlot
  <2>4. CASE task[q].pc \in {"stopping", "starting"}
    <3>1. a \in Models
      BY <2>2, <2>4
    <3>2. PICK i \in 1..Len(s[a]) : s[a][i] = q
      BY <2>1, <2>4 DEF InSlot
    <3>3. CASE a # m
      BY <1>5, <2>4, <3>1, <3>2, <3>3 DEF InSlot
    <3>4. CASE a = m
      <4>1. i # 1 /\ i \in Nat /\ i <= Len(s[m])
        BY <1>3, <3>2, <3>4
      <4>2. i - 1 \in 1..Len(t) /\ t[i - 1] = s[m][(i - 1) + 1] /\ (i - 1) + 1 = i
        BY <1>2, <1>3, <3>2, <4>1
      <4>3. t[i - 1] = q
        BY <3>2, <3>4, <4>2
      <4> QED BY <1>5, <2>4, <3>4, <4>2, <4>3 DEF InSlot
    <3> QED BY <3>3, <3>4
  <2>5. CASE task[q].pc \notin {"stop", "start", "stopping", "starting"}
    BY <2>5 DEF InSlot
  <2> QED BY <2>3, <2>4, <2>5
<1> QED BY <1>5, <1>6 DEF SlotsFor

-----------------------------------------------------------------------------
\* What a step of task p does.

\* The other tasks stay as they are, streams that are cut apart.
OthersRest(p) ==
    /\ task' \in [Tasks -> Recs]
    /\ \A q \in Tasks \ {p} :
          \/ task'[q] = task[q]
          \/ q \in Requests /\ task[q].pc = "stream" /\ task'[q] = [task[q] EXCEPT !.pc = "cut"]

InPlace(p) ==
    /\ OthersRest(p) /\ KindOf(p, task'[p])
    /\ SlotsFor(p, slot') /\ InSlot(p, task'[p], slot')

\* Children go, or begin to, and nobody else was launching them.
Faded(p, n, x) ==
    \/ x = child[n]
    \/ Alone(p, n) /\ x = NoChild
    \/ Alone(p, n) /\ child[n].state \notin {"none", "failed"} /\ x = [child[n] EXCEPT !.state = "unloading"]

Fading(p, w) == w \in [Models -> Children] /\ \A n \in Models : Faded(p, n, w[n])

\* The child p was launching, if any, is loading no more.
Left(p, w) == task[p].pc = "start" => w[task[p].model].state # "loading"

LaunchOf(r) == [state |-> "loading", card |-> r.card, active |-> 0]

ChildActs(p) ==
    LET r == task'[p] IN
    \/ r.pc # "start" /\ Fading(p, child') /\ Left(p, child')
    \/ /\ task[p].pc # "start" /\ r.pc = "start" /\ r.model \in Models /\ Alone(p, r.model)
       /\ \E w : Fading(p, w) /\ Fits(w, r, {}) /\ child' = [w EXCEPT ![r.model] = LaunchOf(r)]

\* The gate is entered or kept by who goes on, waited for, passed on by who ends; or
\* the task was not at it.
MayPass(p) == owners = {} \/ p \in owners

GateActs(p) ==
    LET pc == task'[p].pc IN
    \/ pc \in PastGate /\ MayPass(p) /\ KeepGate(p)
    \/ pc = "gate" /\ task[p].pc \notin InFlightPCs /\ Gate!Queue(p, ModelTier[task'[p].model])
    \/ pc \notin InFlightPCs /\ (IF owners = {} THEN UNCHANGED gateVars ELSE Gate!Pass(p))
    \/ pc \notin InFlightPCs /\ task[p].pc \notin InFlightPCs /\ UNCHANGED gateVars

RestoreActs(p) ==
    \/ task'[p].pc \in InFlightPCs
    \/ entries' # {} => restoring'
    \/ task[p].pc \notin InFlightPCs /\ entries' \subseteq entries /\ restoring' = restoring

Acts(p) ==
    /\ InPlace(p) /\ ChildActs(p) /\ GateActs(p) /\ RestoreActs(p)
    /\ PlanHolds(task'[p], child')
    /\ p \in Rebalancer => MoverOK(task'[p])
    /\ entries' \subseteq Models /\ suppressed' \subseteq Models /\ restoring' \in BOOLEAN

\* What a load of record r may begin a part of a step with: children w, slots s.
Set(p, r, w, s) ==
    /\ p \in LoadTasks /\ r \in Recs /\ r.model \in Models
    /\ Fading(p, w) /\ Left(p, w) /\ SlotsFor(p, s)
    /\ p \in Rebalancer => Mover(r)

LEMMA TypedFacts ==
    ASSUME Typed
    PROVE  /\ child \in [Models -> Children] /\ task \in [Tasks -> Recs]
           /\ slot \in [Models -> Seq(Tasks)] /\ queue \in [Models -> Seq(LoadTasks)]
           /\ entries \subseteq Models /\ suppressed \subseteq Models /\ restoring \in BOOLEAN
           /\ owners \subseteq LoadTasks /\ LoadTasks \subseteq Tasks
           /\ lease \in [Cards -> Grants \cup {None}]
           /\ None \notin Tasks \cup Models \cup Cards
BY LoadManagerAssumption DEF Typed, TypeOK, Tasks, LoadTasks

LEMMA FadingAsIs ==
    ASSUME Typed, NEW p
    PROVE  Fading(p, child)
BY TypedFacts DEF Fading, Faded

LEMMA NoChildIs == NoChild \in Children /\ NoChild.state = "none" /\ NoChild.card = None /\ NoChild.active = 0
<1>1. 0 \in 0..Cardinality(Requests)
  BY LoadManagerAssumption, FS_CardinalityType
<1> QED BY <1>1 DEF NoChild, Children

LEMMA FadingGone ==
    ASSUME Typed, NEW p, NEW v \in Models, Alone(p, v)
    PROVE  Fading(p, [child EXCEPT ![v] = NoChild])
BY TypedFacts, NoChildIs DEF Fading, Faded

\* No card gets another child, and one that is going goes on.
Shrinks ==
    /\ child' \in [Models -> Children]
    /\ \A c \in Cards : OnCard(child', c) \subseteq OnCard(child, c)
    /\ \A c \in Cards : \A n \in OnCard(child', c) : child[n].state = "unloading" => child'[n].state = "unloading"

\* Children that fade take no room.
LEMMA FadingTakes ==
    ASSUME Typed, NEW p, NEW w, Fading(p, w), NEW c \in Cards
    PROVE  OnCard(w, c) \subseteq OnCard(child, c)
<1> SUFFICES ASSUME NEW n \in Models, w[n].card = c, w[n].state \in {"loading", "ready", "unloading"}
             PROVE  child[n].card = c /\ child[n].state \in {"loading", "ready", "unloading"}
  BY DEF OnCard
<1> QED BY TypedFacts, NoChildIs DEF Fading, Faded, Children

LEMMA FadingShrinks ==
    ASSUME Typed, NEW p, Fading(p, child')
    PROVE  Shrinks
<1>1. \A c \in Cards : OnCard(child', c) \subseteq OnCard(child, c)
  BY FadingTakes
<1>2. ASSUME NEW c \in Cards, NEW n \in OnCard(child', c), child[n].state = "unloading"
      PROVE  child'[n].state = "unloading"
  <2>1. n \in Models /\ child'[n].state # "none" /\ child[n] \in Children
    BY TypedFacts DEF OnCard
  <2>2. child'[n] = child[n] \/ child'[n] = NoChild \/ child'[n] = [child[n] EXCEPT !.state = "unloading"]
    BY <2>1 DEF Fading, Faded
  <2> QED BY <1>2, <2>1, <2>2, NoChildIs DEF Children
<1> QED BY <1>1, <1>2 DEF Shrinks, Fading

-----------------------------------------------------------------------------
\* The parts of a step.

\* Task p, as r, calls stop() of v's child.
LEMMA Stops ==
    ASSUME Typed, NEW p \in Tasks, NEW r \in Recs, NEW v \in Models, NEW w, NEW s,
           Fading(p, w), SlotsFor(p, s), w[v].state # "none",
           p \in LoadTasks \cup Unloaders => r.model \in Models,
           Stop(p, r, v, w, s)
    PROVE  /\ InPlace(p) /\ Fading(p, child')
           /\ \A n \in Models : child'[n].state = "loading" => w[n].state = "loading"
           /\ \A c \in Cards : OnCard(child', c) \subseteq OnCard(w, c)
           /\ \E pc \in {"stop", "stopping"} :
                 task'[p] = [r EXCEPT !.victim = v, !.todo = @ \ {v}, !.pc = pc]
<1> DEFINE q == [r EXCEPT !.victim = v, !.todo = @ \ {v}]
<1>1. q \in Recs /\ [q EXCEPT !.pc = "stop"] \in Recs /\ [q EXCEPT !.pc = "stopping"] \in Recs
  BY ZenonT(60) DEF Recs, InFlightPCs
<1>2. /\ slot' = Join(s, v, p)
      /\ \/ /\ Inside(s, v, p)
            /\ child' = [w EXCEPT ![v].state = IF @ = "failed" THEN @ ELSE "unloading"]
            /\ task' = [Severed(v) EXCEPT ![p] = [q EXCEPT !.pc = "stop"]]
         \/ /\ ~Inside(s, v, p) /\ child' = w
            /\ task' = [task EXCEPT ![p] = [q EXCEPT !.pc = "stopping"]]
  BY DEF Stop
<1> HIDE DEF q
<1>3. /\ task \in [Tasks -> Recs] /\ child \in [Models -> Children] /\ w \in [Models -> Children]
  BY TypedFacts DEF Fading
<1>4. Severed(v) \in [Tasks -> Recs] /\ \A x \in Tasks : 
         \/ Severed(v)[x] = task[x]
         \/ x \in Requests /\ task[x].pc = "stream" /\ Severed(v)[x] = [task[x] EXCEPT !.pc = "cut"]
  <2>1. ASSUME NEW x \in Tasks PROVE [task[x] EXCEPT !.pc = "cut"] \in Recs
    BY <1>3 DEF Recs
  <2> QED BY <1>3, <2>1 DEF Severed, Streams
<1>5. OthersRest(p) /\ task'[p] = [q EXCEPT !.pc = task'[p].pc] /\ task'[p].pc \in {"stop", "stopping"}
  <2>1. [q EXCEPT !.pc = "stop"].pc = "stop" /\ [q EXCEPT !.pc = "stopping"].pc = "stopping"
    BY <1>1 DEF Recs
  <2>2. CASE Inside(s, v, p)
    <3>1. task' = [Severed(v) EXCEPT ![p] = [q EXCEPT !.pc = "stop"]]
      BY <1>2, <2>2
    <3>2. task'[p] = [q EXCEPT !.pc = "stop"] /\ \A x \in Tasks \ {p} : task'[x] = Severed(v)[x]
      BY <1>4, <3>1
    <3>3. task' \in [Tasks -> Recs]
      BY <1>1, <1>4, <3>1
    <3> QED BY <1>4, <2>1, <3>2, <3>3 DEF OthersRest
  <2>3. CASE ~Inside(s, v, p)
    BY <1>1, <1>2, <1>3, <2>1, <2>3 DEF OthersRest
  <2> QED BY <2>2, <2>3
<1>6. /\ task'[p].victim = v /\ task'[p].model = r.model /\ task'[p].todo = r.todo \ {v}
  BY <1>5 DEF q, Recs
<1>7. KindOf(p, task'[p])
  BY <1>5, <1>6 DEF KindOf, PastGate
<1>8. SlotsFor(p, slot') /\ InSlot(p, task'[p], slot')
  <2>1. /\ SlotsFor(p, Join(s, v, p))
        /\ \E i \in 1..Len(Join(s, v, p)[v]) : Join(s, v, p)[v][i] = p
        /\ Inside(s, v, p) => Join(s, v, p)[v] # <<>> /\ Head(Join(s, v, p)[v]) = p
    BY Joins
  <2>2. task'[p].pc = "stop" => Inside(s, v, p)
    <3>1. [q EXCEPT !.pc = "stopping"].pc = "stopping"
      BY <1>1 DEF Recs
    <3> QED BY <1>2, <1>3, <3>1
  <2> QED BY <1>2, <1>5, <1>6, <2>1, <2>2 DEF InSlot
<1>9. /\ Fading(p, child')
      /\ \A n \in Models : child'[n].state = "loading" => w[n].state = "loading"
      /\ \A c \in Cards : OnCard(child', c) \subseteq OnCard(w, c)
  <2>1. CASE ~Inside(s, v, p)
    BY <1>2, <2>1
  <2>2. CASE Inside(s, v, p)
    <3>1. Alone(p, v)
      BY <2>2, InsideIsAlone
    <3>2. child' = [w EXCEPT ![v].state = IF @ = "failed" THEN @ ELSE "unloading"]
      BY <1>2, <2>2
    <3>3. \A n \in Models \ {v} : child'[n] = w[n]
      BY <1>3, <3>2
    <3>4. child'[v] = IF w[v].state = "failed" THEN w[v] ELSE [w[v] EXCEPT !.state = "unloading"]
      BY <1>3, <3>2 DEF Children
    <3>5. child' \in [Models -> Children]
      <4>1. [w[v] EXCEPT !.state = "unloading"] \in Children
        BY <1>3 DEF Children
      <4>2. child'[v] \in Children
        BY <1>3, <3>4, <4>1
      <4>3. DOMAIN child' = Models /\ child' = [n \in Models |-> child'[n]]
        BY <1>3, <3>2
      <4> QED BY <1>3, <3>3, <4>2, <4>3
    <3>6. Faded(p, v, child'[v])
      <4>1. CASE w[v] = child[v]
        BY <3>1, <3>4, <4>1 DEF Faded
      <4>2. CASE w[v] = [child[v] EXCEPT !.state = "unloading"] /\ child[v].state \notin {"none", "failed"}
        <5>1. child'[v] = [child[v] EXCEPT !.state = "unloading"]
          BY <1>3, <3>4, <4>2 DEF Children
        <5> QED BY <3>1, <4>2, <5>1 DEF Faded
      <4> QED BY <4>1, <4>2, NoChildIs DEF Fading, Faded
    <3>7. Fading(p, child')
      BY <3>3, <3>5, <3>6 DEF Fading
    <3>8. \A n \in Models : child'[n].state = "loading" => w[n].state = "loading"
      BY <1>3, <3>3, <3>4 DEF Children
    <3>9. \A c \in Cards : OnCard(child', c) \subseteq OnCard(w, c)
      <4>1. child'[v].card = w[v].card
        BY <1>3, <3>4 DEF Children
      <4>2. child'[v].state \in {"loading", "ready", "unloading"} => w[v].state \in {"loading", "ready", "unloading"}
        BY <1>3, <3>4 DEF Children
      <4> QED BY <3>3, <4>1, <4>2 DEF OnCard
    <3> QED BY <3>7, <3>8, <3>9
  <2> QED BY <2>1, <2>2
<1> QED BY <1>5, <1>7, <1>8, <1>9 DEF InPlace, q

\* The load of p ends.
LEMMA Ends ==
    ASSUME Typed, NEW p \in LoadTasks, NEW next \in Recs, KindOf(p, next),
           next.pc \in {"idle", "admitted", "down"}, p \in Requests \/ next.pc # "admitted",
           SlotsFor(p, slot'), Fading(p, child'), Left(p, child'),
           entries' \subseteq Models, suppressed' \subseteq Models,
           LeaveAs(p, next)
    PROVE  Acts(p) /\ task'[p] = next
<1>1. p \in Tasks /\ task' = [task EXCEPT ![p] = next]
  BY DEF LeaveAs, Tasks
<1>2. task'[p] = next /\ OthersRest(p)
  BY <1>1, TypedFacts DEF OthersRest
<1>3. InPlace(p)
  BY <1>2 DEF InPlace, InSlot
<1>4. ChildActs(p)
  BY <1>2 DEF ChildActs
<1>5. GateActs(p)
  BY <1>2 DEF GateActs, LeaveAs, InFlightPCs
<1>6. RestoreActs(p) /\ restoring' \in BOOLEAN
  <2>1. restoring' = (restoring \/ entries' # {})
    BY DEF LeaveAs
  <2> QED BY <2>1, TypedFacts DEF RestoreActs
<1>7. PlanHolds(task'[p], child')
  BY <1>2 DEF PlanHolds, Planned
<1>8. MoverOK(task'[p]) \/ p \notin Rebalancer
  BY <1>2 DEF MoverOK, InFlightPCs
<1> QED BY <1>2, <1>3, <1>4, <1>5, <1>6, <1>7, <1>8 DEF Acts

LEMMA Records ==
    ASSUME NEW p \in LoadTasks, NEW r \in Recs, r.model \in Models
    PROVE  /\ Rest(r) \in Recs /\ Rest(r).pc = "idle" /\ KindOf(p, Rest(r))
           /\ Served(p, r) \in Recs /\ KindOf(p, Served(p, r))
           /\ Served(p, r).pc \in {"idle", "admitted"} /\ (p \in Requests \/ Served(p, r).pc # "admitted")
BY ZenonT(60) DEF Rest, Served, Idle, Recs, KindOf, InFlightPCs, PastGate

LEMMA EntriesAre ==
    ASSUME Typed, NEW p, NEW r
    PROVE  Entries(p, r) \subseteq entries /\ Entries(p, r) \subseteq Models
BY TypedFacts DEF Entries

LEMMA RefusedActs ==
    ASSUME Typed, NEW p, NEW r, NEW w, NEW s, Set(p, r, w, s), Refused(p, r, w, s)
    PROVE  Acts(p) /\ task'[p] = Rest(r)
<1>1. p \in LoadTasks /\ r \in Recs /\ r.model \in Models
  BY DEF Set
<1>2. SlotsFor(p, slot') /\ Fading(p, child') /\ Left(p, child') /\ LeaveAs(p, Rest(r))
  BY DEF Set, Refused
<1>3. entries' \subseteq Models /\ suppressed' \subseteq Models
  BY EntriesAre, TypedFacts DEF Refused
<1> QED BY <1>1, <1>2, <1>3, Records, Ends

LEMMA LoadedActs ==
    ASSUME Typed, NEW p, NEW r, NEW w, NEW s, Set(p, r, w, s), Loaded(p, r, w, s)
    PROVE  Acts(p) /\ task'[p] = Served(p, r)
<1>1. p \in LoadTasks /\ r \in Recs /\ r.model \in Models
  BY DEF Set
<1>2. SlotsFor(p, slot') /\ Fading(p, child') /\ Left(p, child') /\ LeaveAs(p, Served(p, r))
  BY DEF Set, Loaded
<1>3. entries' \subseteq Models /\ suppressed' \subseteq Models
  BY TypedFacts DEF Loaded
<1> QED BY <1>1, <1>2, <1>3, Records, Ends

\* A load that has a card with room calls start().
LEMMA StartActs ==
    ASSUME Typed, NEW p, NEW r, NEW w, NEW s, Set(p, r, w, s), task[p].pc # "start",
           r.card \in Cards, ~Blocked(r.card, r.model), Fits(w, r, {}), MayPass(p),
           Start(p, r, w, s)
    PROVE  Acts(p) /\ task'[p].pc # "queue"
<1> DEFINE m == r.model
           up == w[m].state \in {"ready", "loading"}
           j == Join(s, m, p)
<1>1. p \in LoadTasks /\ p \in Tasks /\ r \in Recs /\ m \in Models /\ Fading(p, w) /\ Left(p, w) /\ SlotsFor(p, s)
  BY DEF Set, Tasks
<1>2. /\ SlotsFor(p, j) /\ \E i \in 1..Len(j[m]) : j[m][i] = p
      /\ Inside(s, m, p) => j[m] # <<>> /\ Head(j[m]) = p
  BY <1>1, Joins
<1>3. CASE Inside(s, m, p) /\ up
  <2>1. Loaded(p, r, w, Leave(j, m))
    BY <1>3 DEF Start
  <2>2. SlotsFor(p, Leave(j, m))
    BY <1>1, <1>2, <1>3, Leaves
  <2>3. Set(p, r, w, Leave(j, m))
    BY <1>1, <2>2 DEF Set
  <2>4. Acts(p) /\ task'[p] = Served(p, r)
    BY <2>1, <2>3, LoadedActs
  <2> QED BY <1>1, <2>4, Records
<1>4. CASE ~(Inside(s, m, p) /\ up)
  <2> DEFINE q == [r EXCEPT !.pc = IF Inside(s, m, p) THEN "start" ELSE "starting"]
  <2>1. /\ slot' = j /\ KeepGate(p) /\ entries' = Entries(p, r)
        /\ restoring' = restoring /\ suppressed' = suppressed
        /\ task' = [task EXCEPT ![p] = q]
        /\ IF Inside(s, m, p) THEN child' = [w EXCEPT ![m] = LaunchOf(r)] ELSE child' = w
    BY <1>4 DEF Start, LaunchOf
  <2>2. /\ q \in Recs /\ q.model = m /\ q.card = r.card /\ q.mode = r.mode /\ q.wanted = r.wanted /\ q.todo = r.todo
        /\ q.pc = IF Inside(s, m, p) THEN "start" ELSE "starting"
    BY <1>1 DEF Recs, InFlightPCs
  <2> HIDE DEF q, j
  <2>3. task'[p] = q /\ OthersRest(p)
    BY <1>1, <2>1, <2>2, TypedFacts DEF OthersRest
  <2>4. InPlace(p)
    <3>1. KindOf(p, q)
      BY <1>1, <2>2 DEF KindOf
    <3>2. InSlot(p, q, j)
      BY <1>2, <2>2 DEF InSlot
    <3> QED BY <1>2, <2>1, <2>3, <3>1, <3>2 DEF InPlace
  <2>5. ChildActs(p)
    <3>1. CASE Inside(s, m, p)
      <4>1. Alone(p, m)
        BY <1>1, <3>1, InsideIsAlone
      <4>2. LaunchOf(q) = LaunchOf(r) /\ (Fits(w, q, {}) <=> Fits(w, r, {}))
        BY <2>2 DEF LaunchOf, Fits
      <4> QED BY <1>1, <2>1, <2>2, <2>3, <3>1, <4>1, <4>2 DEF ChildActs
    <3>2. CASE ~Inside(s, m, p)
      BY <1>1, <2>1, <2>2, <2>3, <3>2 DEF ChildActs
    <3> QED BY <3>1, <3>2
  <2>6. GateActs(p)
    BY <2>1, <2>2, <2>3 DEF GateActs, PastGate, InFlightPCs
  <2>7. RestoreActs(p)
    BY <2>2, <2>3 DEF RestoreActs, InFlightPCs
  <2>8. PlanHolds(q, child')
    <3>1. Fits(w, q, {}) <=> Fits(w, r, {})
      BY <2>2 DEF Fits
    <3> QED BY <2>1, <2>2, <3>1 DEF PlanHolds, Planned, Spared
  <2>9. p \in Rebalancer => MoverOK(q)
    <3>1. p \in Rebalancer => Mover(r)
      BY DEF Set
    <3> QED BY <2>2, <3>1 DEF Mover, MoverOK
  <2>10. entries' \subseteq Models /\ suppressed' \subseteq Models /\ restoring' \in BOOLEAN
    BY <2>1, EntriesAre, TypedFacts
  <2>11. Acts(p)
    BY <2>3, <2>4, <2>5, <2>6, <2>7, <2>8, <2>9, <2>10 DEF Acts
  <2> QED BY <2>2, <2>3, <2>11
<1> QED BY <1>3, <1>4

\* The stop of a load: the plan, if there is one, still fits.
LEMMA StopActs ==
    ASSUME Typed, NEW p, NEW r, NEW v \in Models, NEW w, NEW s, Set(p, r, w, s), w[v].state # "none",
           Stop(p, r, v, w, s), MayPass(p), KeepGate(p),
           entries' \subseteq Models, suppressed' \subseteq Models, restoring' \in BOOLEAN,
           r.stage # "retry" => /\ r.card \in Cards /\ ~Blocked(r.card, r.model)
                                /\ Fits(w, r, r.todo \cup {v}),
           p \in Rebalancer => v = r.model /\ r.mode = "move"
    PROVE  Acts(p) /\ task'[p].pc \in {"stop", "stopping"}
<1>1. p \in LoadTasks /\ p \in Tasks /\ r \in Recs /\ r.model \in Models /\ Fading(p, w) /\ Left(p, w) /\ SlotsFor(p, s)
  BY DEF Set, Tasks
<1>2. /\ InPlace(p) /\ Fading(p, child')
      /\ \A n \in Models : child'[n].state = "loading" => w[n].state = "loading"
      /\ \A c \in Cards : OnCard(child', c) \subseteq OnCard(w, c)
      /\ \E pc \in {"stop", "stopping"} :
            task'[p] = [r EXCEPT !.victim = v, !.todo = @ \ {v}, !.pc = pc]
  BY <1>1, Stops
<1> DEFINE q == task'[p]
<1>3. /\ q.pc \in {"stop", "stopping"} /\ q.victim = v /\ q.todo = r.todo \ {v} /\ q.model = r.model
      /\ q.card = r.card /\ q.stage = r.stage /\ q.mode = r.mode /\ q.wanted = r.wanted
  BY <1>1, <1>2 DEF Recs
<1> HIDE DEF q
<1>4. ChildActs(p)
  <2>1. task[p].pc = "start" => task[p].model \in Models
    BY <1>1, SlotNames
  <2>2. Left(p, child')
    BY <1>1, <1>2, <2>1 DEF Left
  <2> QED BY <1>2, <1>3, <2>2 DEF ChildActs, q
<1>5. GateActs(p)
  BY <1>3 DEF GateActs, PastGate, InFlightPCs, q
<1>6. RestoreActs(p)
  BY <1>3 DEF RestoreActs, InFlightPCs, q
<1>7. PlanHolds(q, child')
  <2> SUFFICES ASSUME r.stage # "retry" PROVE Fits(child', q, Spared(q)) /\ q.card \in Cards /\ ~Blocked(q.card, q.model)
    BY <1>3 DEF PlanHolds, Planned
  <2>1. Spared(q) = r.todo \cup {v}
    BY <1>3 DEF Spared
  <2>2. OnCard(child', r.card) \ (r.todo \cup {v}) \subseteq OnCard(w, r.card) \ (r.todo \cup {v})
    BY <1>2
  <2>3. Taken(child', r.card, r.todo \cup {v}) <= Taken(w, r.card, r.todo \cup {v})
    BY <2>2, TakenLess
  <2>4. Taken(child', r.card, r.todo \cup {v}) \in Nat /\ Taken(w, r.card, r.todo \cup {v}) \in Nat
    BY TakenIs
  <2>5. SizeOf[r.model] \in Nat /\ Room \in Nat
    BY <1>1, LoadManagerAssumption
  <2> QED BY <1>3, <2>1, <2>3, <2>4, <2>5 DEF Fits
<1>8. p \in Rebalancer => MoverOK(q)
  <2>1. p \in Rebalancer => Mover(r)
    BY DEF Set
  <2> QED BY <1>3, <2>1 DEF Mover, MoverOK
<1> QED BY <1>2, <1>3, <1>4, <1>5, <1>6, <1>7, <1>8 DEF Acts, q

LEMMA NotedIs ==
    ASSUME Typed, NEW p, NEW r, NEW v \in Models, NEW w, NoteDisplaced(p, r, v, w)
    PROVE  entries' \subseteq Models
BY EntriesAre, TypedFacts DEF NoteDisplaced

\* The eviction loop, with a plan that fits.
LEMMA EvictActs ==
    ASSUME Typed, NEW p, NEW r, NEW w, NEW s, Set(p, r, w, s), task[p].pc # "start",
           r.card \in Cards, ~Blocked(r.card, r.model), Fits(w, r, r.todo), MayPass(p),
           Evict(p, r, w, s)
    PROVE  Acts(p) /\ task'[p].pc # "queue"
<1> DEFINE left == {v \in r.todo : w[v].state # "none"}
           next == IF r.model \in left THEN {r.model} ELSE left
           busy(v) == w[v].active > 0 /\ r.mode # "force" /\ r.stage = "first" /\ v # r.model
<1>1. p \in LoadTasks /\ r \in Recs /\ r.model \in Models /\ r.todo \subseteq Models
  BY DEF Set, Recs
<1>2. CASE left = {} /\ Start(p, r, w, s)
  <2>1. OnCard(w, r.card) \ {} \subseteq OnCard(w, r.card) \ r.todo
    BY <1>2 DEF OnCard
  <2>2. Taken(w, r.card, {}) <= Taken(w, r.card, r.todo)
    BY <2>1, TakenLess
  <2>3. Taken(w, r.card, {}) \in Nat /\ Taken(w, r.card, r.todo) \in Nat
    BY TakenIs
  <2>4. SizeOf[r.model] \in Nat /\ Room \in Nat
    BY <1>1, LoadManagerAssumption
  <2>5. Fits(w, r, {})
    BY <2>2, <2>3, <2>4 DEF Fits
  <2> QED BY <1>2, <2>5, StartActs
<1>3. CASE \E v \in next : \/ busy(v) /\ Refused(p, r, w, s)
                           \/ /\ ~busy(v) /\ Stop(p, r, v, w, s) /\ NoteDisplaced(p, r, v, w)
                              /\ KeepGate(p) /\ UNCHANGED <<restoring, suppressed>>
  <2>1. PICK v \in next : \/ busy(v) /\ Refused(p, r, w, s)
                          \/ /\ ~busy(v) /\ Stop(p, r, v, w, s) /\ NoteDisplaced(p, r, v, w)
                             /\ KeepGate(p) /\ UNCHANGED <<restoring, suppressed>>
    BY <1>3
  <2>2. v \in left /\ v \in Models /\ w[v].state # "none" /\ v \in r.todo
    BY <1>1, <2>1
  <2>3. CASE Refused(p, r, w, s)
    <3>1. Acts(p) /\ task'[p] = Rest(r)
      BY <2>3, RefusedActs
    <3> QED BY <1>1, <3>1, Records
  <2>4. CASE Stop(p, r, v, w, s) /\ NoteDisplaced(p, r, v, w) /\ KeepGate(p) /\ UNCHANGED <<restoring, suppressed>>
    <3>1. entries' \subseteq Models /\ suppressed' \subseteq Models /\ restoring' \in BOOLEAN
      BY <2>2, <2>4, NotedIs, TypedFacts
    <3>2. r.todo \cup {v} = r.todo
      BY <2>2
    <3>3. p \in Rebalancer => v = r.model /\ r.mode = "move"
      BY <2>2 DEF Set, Mover, Placed
    <3>4. Fits(w, r, r.todo \cup {v})
      BY <3>2
    <3>5. Acts(p) /\ task'[p].pc \in {"stop", "stopping"}
      BY <2>2, <2>4, <3>1, <3>3, <3>4, StopActs
    <3> QED BY <3>5
  <2> QED BY <2>1, <2>3, <2>4
<1> QED BY <1>2, <1>3 DEF Evict

\* Nobody else launches while p has the gate, or finds it open.
LEMMA NoneLoading ==
    ASSUME Typed, GateHeld, Launches, NEW p \in LoadTasks, task[p].pc # "start", MayPass(p), ~Crashes
    PROVE  {n \in Models : child[n].state = "loading"} = {}
<1> SUFFICES ASSUME NEW n \in Models, Launching(n) PROVE FALSE
  BY DEF Launches
<1>1. PICK q \in LoadTasks : task[q].pc = "start"
  BY DEF Launching
<1>2. q \in owners /\ q # p
  BY <1>1 DEF GateHeld, PastGate, InFlightPCs
<1> QED BY <1>2 DEF GateHeld, MayPass

LEMMA PlanActs ==
    ASSUME Typed, GateHeld, Launches, NEW p, NEW r, Set(p, r, child, slot), task[p].pc # "start", MayPass(p),
           NEW gone, gone \subseteq Models, gone \subseteq r.todo, NEW anyway,
           Plan(p, r, gone, anyway)
    PROVE  Acts(p) /\ task'[p].pc # "queue"
<1>1. p \in LoadTasks /\ r \in Recs /\ r.model \in Models
  BY DEF Set
<1>2. PICK hidden \in SUBSET {n \in Models : child[n].state = "loading"} :
        LET placements == Placements(r, child, gone, anyway, hidden) IN
        \/ placements = {} /\ Refused(p, r, child, slot)
        \/ \E pl \in placements :
              Evict(p, [r EXCEPT !.card = pl[1], !.todo = pl[2] \cup gone], child, slot)
  BY DEF Plan
<1>3. CASE Refused(p, r, child, slot)
  <2>1. Acts(p) /\ task'[p] = Rest(r)
    BY <1>3, RefusedActs
  <2> QED BY <1>1, <2>1, Records
<1>4. CASE \E pl \in Placements(r, child, gone, anyway, hidden) :
              Evict(p, [r EXCEPT !.card = pl[1], !.todo = pl[2] \cup gone], child, slot)
  <2>1. PICK pl \in Placements(r, child, gone, anyway, hidden) :
              Evict(p, [r EXCEPT !.card = pl[1], !.todo = pl[2] \cup gone], child, slot)
    BY <1>4
  <2> DEFINE V == IF r.mode \in NoEvict THEN {} ELSE Evictable(r, child, anyway) \ gone
             q == [r EXCEPT !.card = pl[1], !.todo = pl[2] \cup gone]
  <2>2. /\ pl \in Cards \X SUBSET V /\ V \subseteq Models
        /\ ~Blocked(pl[1], r.model)
        /\ Taken(child, pl[1], pl[2] \cup gone \cup hidden) + SizeOf[r.model] <= Room
    BY DEF Placements, Evictable
  <2>3. pl[1] \in Cards /\ pl[2] \subseteq V
    BY <2>2
  <2>4. /\ q \in Recs /\ q.card = pl[1] /\ q.todo = pl[2] \cup gone /\ q.model = r.model
        /\ q.mode = r.mode /\ q.wanted = r.wanted
    BY <1>1, <2>2, <2>3 DEF Recs
  <2>5. ~Crashes => hidden = {}
    BY <1>1, NoneLoading
  <2>6. Fits(child, q, q.todo)
    <3>1. ~Crashes => pl[2] \cup gone \cup hidden = q.todo
      BY <2>4, <2>5
    <3> QED BY <2>2, <2>4, <3>1 DEF Fits
  <2>7. Set(p, q, child, slot)
    <3>1. p \in Rebalancer => Mover(r)
      BY DEF Set
    <3>2. p \in Rebalancer => Mover(q)
      <4>1. ASSUME p \in Rebalancer PROVE pl[2] = {}
        BY <2>3, <3>1, <4>1 DEF Mover, Placed, NoEvict
      <4> QED BY <2>4, <3>1, <4>1 DEF Mover
    <3> QED BY <1>1, <2>4, <3>2 DEF Set
  <2>8. Evict(p, q, child, slot)
    BY <2>1
  <2> HIDE DEF q
  <2> QED BY <2>2, <2>3, <2>4, <2>6, <2>7, <2>8, EvictActs
<1> QED BY <1>2, <1>3, <1>4

\* What a load does once it has the gate.
LEMMA GatedActs ==
    ASSUME Typed, GateHeld, Launches, NEW p, NEW r, Set(p, r, child, slot), task[p].pc # "start", MayPass(p),
           Gated(p, r)
    PROVE  Acts(p) /\ task'[p].pc # "queue"
<1> DEFINE m == r.model
           gone == IF child[m].state = "ready" THEN r.todo ELSE {}
           q == [r EXCEPT !.pc = "settle"]
<1>1. p \in LoadTasks /\ p \in Tasks /\ r \in Recs /\ r.model \in Models /\ Fading(p, child) /\ Left(p, child)
      /\ SlotsFor(p, slot) /\ gone \subseteq Models /\ gone \subseteq r.todo
  BY DEF Set, Recs, Tasks
<1>2. CASE Refused(p, r, child, slot)
  <2>1. Acts(p) /\ task'[p] = Rest(r)
    BY <1>2, RefusedActs
  <2> QED BY <1>1, <2>1, Records
<1>3. CASE Plan(p, r, gone, r.mode = "force")
  <2> HIDE DEF gone
  <2> QED BY <1>1, <1>3, PlanActs
<1>4. CASE /\ task' = [task EXCEPT ![p] = q]
           /\ KeepGate(p) /\ entries' = Entries(p, r)
           /\ UNCHANGED <<child, slot, restoring, suppressed>>
  <2>1. q \in Recs /\ q.pc = "settle" /\ q.model = m /\ q.mode = r.mode /\ q.wanted = r.wanted /\ q.todo = r.todo
    BY <1>1 DEF Recs, InFlightPCs
  <2> HIDE DEF q
  <2>2. task'[p] = q /\ OthersRest(p)
    BY <1>1, <1>4, <2>1, TypedFacts DEF OthersRest
  <2>3. InPlace(p)
    BY <1>1, <1>4, <2>1, <2>2 DEF InPlace, KindOf, InSlot
  <2>4. ChildActs(p)
    BY <1>1, <1>4, <2>1, <2>2 DEF ChildActs
  <2>5. GateActs(p) /\ RestoreActs(p)
    BY <1>4, <2>1, <2>2 DEF GateActs, RestoreActs, PastGate, InFlightPCs
  <2>6. PlanHolds(q, child')
    BY <2>1 DEF PlanHolds, Planned
  <2>7. p \in Rebalancer => MoverOK(q)
    <3>1. p \in Rebalancer => Mover(r)
      BY DEF Set
    <3> QED BY <2>1, <3>1 DEF Mover, MoverOK
  <2>8. entries' \subseteq Models /\ suppressed' \subseteq Models /\ restoring' \in BOOLEAN
    BY <1>4, EntriesAre, TypedFacts
  <2> QED BY <2>1, <2>2, <2>3, <2>4, <2>5, <2>6, <2>7, <2>8 DEF Acts
<1> QED BY <1>2, <1>3, <1>4 DEF Gated

\* What a load does once it has its model's lock.
LEMMA LockedActs ==
    ASSUME Typed, GateHeld, Launches, NEW p, NEW r, Set(p, r, child, slot),
           task[p].pc \notin InFlightPCs, NEW queued, Locked(p, r, queued)
    PROVE  Acts(p) /\ task'[p].pc # "queue"
<1> DEFINE m == r.model
           ready == child[m].state = "ready"
           forced == r.mode \in {"force", "reload", "move"}
           q == [r EXCEPT !.todo = IF ready THEN {m} ELSE {}]
           z == [q EXCEPT !.pc = "gate"]
<1>1. p \in LoadTasks /\ p \in Tasks /\ r \in Recs /\ r.model \in Models /\ Fading(p, child) /\ Left(p, child)
      /\ SlotsFor(p, slot) /\ task[p].pc # "start"
  BY DEF Set, Tasks, InFlightPCs
<1>2. CASE /\ task' = [task EXCEPT ![p] = Served(p, r)]
           /\ entries' = Entries(p, r)
           /\ UNCHANGED <<child, slot, owners, line, restoring, suppressed>>
  <2> DEFINE x == Served(p, r)
  <2>1. x \in Recs /\ KindOf(p, x) /\ x.pc \in {"idle", "admitted"}
    BY <1>1, Records
  <2> HIDE DEF x
  <2>2. task'[p] = x /\ OthersRest(p)
    BY <1>1, <1>2, <2>1, TypedFacts DEF OthersRest, x
  <2>3. InPlace(p)
    BY <1>1, <1>2, <2>1, <2>2 DEF InPlace, InSlot
  <2>4. ChildActs(p)
    BY <1>1, <1>2, <2>1, <2>2 DEF ChildActs
  <2>5. GateActs(p)
    BY <1>2, <2>1, <2>2 DEF GateActs, InFlightPCs, gateVars
  <2>6. RestoreActs(p)
    BY <1>2, <2>1, <2>2, EntriesAre DEF RestoreActs
  <2>7. PlanHolds(x, child') /\ MoverOK(x)
    BY <2>1 DEF PlanHolds, Planned, MoverOK, InFlightPCs
  <2>8. entries' \subseteq Models /\ suppressed' \subseteq Models /\ restoring' \in BOOLEAN
    BY <1>2, EntriesAre, TypedFacts
  <2> QED BY <2>1, <2>2, <2>3, <2>4, <2>5, <2>6, <2>7, <2>8 DEF Acts
<1>3. ASSUME ~ready \/ forced
      PROVE  Set(p, q, child, slot) /\ q \in Recs /\ q.model = m
  <2>1. q \in Recs /\ q.model = m /\ q.mode = r.mode /\ q.wanted = r.wanted /\ q.todo = IF ready THEN {m} ELSE {}
    BY <1>1 DEF Recs
  <2>2. p \in Rebalancer => Mover(r)
    BY DEF Set
  <2>3. p \in Rebalancer => Mover(q)
    BY <1>3, <2>1, <2>2 DEF Mover, Placed
  <2> QED BY <1>1, <2>1, <2>3 DEF Set
<1>4. CASE (~ready \/ forced) /\ owners = {} /\ Gated(p, q)
  <2>1. Set(p, q, child, slot) /\ MayPass(p)
    BY <1>3, <1>4 DEF MayPass
  <2> HIDE DEF q
  <2> QED BY <1>1, <1>4, <2>1, GatedActs
<1>5. CASE /\ (~ready \/ forced) /\ owners # {}
           /\ Gate!Queue(p, ModelTier[m])
           /\ task' = [task EXCEPT ![p] = z]
           /\ entries' = Entries(p, r)
           /\ UNCHANGED <<child, slot, restoring, suppressed>>
  <2>1. Set(p, q, child, slot) /\ q \in Recs /\ q.model = m
    BY <1>3, <1>5
  <2>2. z \in Recs /\ z.pc = "gate" /\ z.model = m /\ z.mode = q.mode /\ z.wanted = q.wanted /\ z.todo = q.todo
    BY <2>1, ZenonT(60) DEF Recs, InFlightPCs
  <2> HIDE DEF z, q
  <2>3. task'[p] = z /\ OthersRest(p)
    BY <1>1, <1>5, <2>2, TypedFacts DEF OthersRest
  <2>4. InPlace(p)
    BY <1>1, <1>5, <2>2, <2>3 DEF InPlace, KindOf, InSlot
  <2>5. ChildActs(p)
    BY <1>1, <1>5, <2>2, <2>3 DEF ChildActs
  <2>6. GateActs(p) /\ RestoreActs(p)
    BY <1>5, <2>2, <2>3 DEF GateActs, RestoreActs, InFlightPCs
  <2>7. PlanHolds(z, child')
    BY <2>2 DEF PlanHolds, Planned
  <2>8. p \in Rebalancer => MoverOK(z)
    <3>1. p \in Rebalancer => Mover(q)
      BY <2>1 DEF Set
    <3> QED BY <2>1, <2>2, <3>1 DEF Mover, MoverOK
  <2>9. entries' \subseteq Models /\ suppressed' \subseteq Models /\ restoring' \in BOOLEAN
    BY <1>5, EntriesAre, TypedFacts
  <2> QED BY <2>2, <2>3, <2>4, <2>5, <2>6, <2>7, <2>8, <2>9 DEF Acts
<1> QED BY <1>2, <1>4, <1>5 DEF Locked

\* The queue of a model's lock: p joins it, or its head p leaves it.
QueueActs(p) ==
    LET r == task'[p] IN
    \/ r.pc # "queue" /\ queue' = queue
    \/ r.pc = "queue" /\ queue' = [queue EXCEPT ![r.model] = Append(@, p)]
    \/ r.pc # "queue" /\ \E m \in Models : queue[m] # <<>> /\ Head(queue[m]) = p
                                           /\ queue' = [queue EXCEPT ![m] = Tail(@)]

\* The step of a load, all of it.
LoadActs(p) ==
    /\ p \in LoadTasks /\ task[p].pc \notin {"admitted", "stream", "cut"}
    /\ task[p].pc = "gate" => p \in owners
    /\ Acts(p) /\ QueueActs(p)
    /\ lease' = lease /\ skewed' = skewed /\ downed' \subseteq Models

\* A task asks for its model's lock.
LEMMA AskLockActs ==
    ASSUME Typed, GateHeld, Launches, NEW p \in LoadTasks, NEW r \in Recs, r.model \in Models,
           p \in Rebalancer => Mover(r),
           task[p].pc \notin InFlightPCs, AskLock(p, r)
    PROVE  Acts(p) /\ QueueActs(p)
<1> DEFINE m == r.model
           q == [r EXCEPT !.pc = "queue"]
<1>1. p \in Tasks /\ Fading(p, child) /\ SlotsFor(p, slot) /\ Left(p, child)
  BY FadingAsIs, SlotsAsTheyAre DEF Tasks, Left, InFlightPCs
<1>2. Set(p, r, child, slot)
  BY <1>1 DEF Set
<1>3. CASE Locked(p, r, FALSE) /\ UNCHANGED queue
  BY <1>2, <1>3, LockedActs DEF QueueActs
<1>4. CASE /\ queue' = [queue EXCEPT ![m] = Append(@, p)]
           /\ task' = [task EXCEPT ![p] = q]
           /\ entries' = Entries(p, r)
           /\ UNCHANGED <<child, slot, owners, line, restoring, suppressed>>
  <2>1. q \in Recs /\ q.pc = "queue" /\ q.model = m /\ q.mode = r.mode /\ q.wanted = r.wanted /\ q.todo = r.todo
    BY DEF Recs
  <2> HIDE DEF q
  <2>2. task'[p] = q /\ OthersRest(p)
    BY <1>1, <1>4, <2>1, TypedFacts DEF OthersRest
  <2>3. InPlace(p)
    BY <1>1, <1>4, <2>1, <2>2 DEF InPlace, KindOf, InSlot
  <2>4. ChildActs(p)
    BY <1>1, <1>4, <2>1, <2>2 DEF ChildActs
  <2>5. GateActs(p)
    BY <1>4, <2>1, <2>2 DEF GateActs, InFlightPCs, gateVars
  <2>6. RestoreActs(p)
    BY <1>4, EntriesAre DEF RestoreActs
  <2>7. PlanHolds(q, child')
    BY <2>1 DEF PlanHolds, Planned
  <2>8. p \in Rebalancer => MoverOK(q)
    BY <2>1 DEF Mover, MoverOK
  <2>9. entries' \subseteq Models /\ suppressed' \subseteq Models /\ restoring' \in BOOLEAN
    BY <1>4, EntriesAre, TypedFacts
  <2>10. Acts(p)
    BY <2>2, <2>3, <2>4, <2>5, <2>6, <2>7, <2>8, <2>9 DEF Acts
  <2>11. QueueActs(p)
    BY <1>4, <2>1, <2>2 DEF QueueActs
  <2> QED BY <2>10, <2>11
<1> QED BY <1>3, <1>4 DEF AskLock

LEMMA AsksForIs ==
    ASSUME Typed, NEW p \in LoadTasks, NEW m \in Models, NEW mode \in {"load", "force", "reload", "restore"}
    PROVE  AsksFor(p, m, mode) \in Recs /\ AsksFor(p, m, mode).model = m
<1>1. Pass(p) \ {m} \subseteq Models
  <2>1. task[p].wanted \subseteq Models
    BY TypedFacts DEF Recs, Tasks
  <2>2. Pinned \subseteq Models
    BY LoadManagerAssumption
  <2> QED BY <2>1, <2>2 DEF Pass, Needed
<1> QED BY <1>1 DEF AsksFor, Idle, Recs

\* A load that is planned, or plans again, is past the gate.
LEMMA PastIsOwner ==
    ASSUME GateHeld, NEW p \in LoadTasks, task[p].pc \in PastGate
    PROVE  p \in owners /\ MayPass(p) /\ (UNCHANGED gateVars => KeepGate(p))
BY DEF GateHeld, MayPass, KeepGate

\* A load as it stands, its launch apart.
LEMMA SetAsIs ==
    ASSUME Typed, Moving, NEW p \in LoadTasks, task[p].pc \in InFlightPCs \cup {"queue"}, task[p].pc # "start"
    PROVE  Set(p, task[p], child, slot)
<1>1. p \in Tasks /\ task[p] \in Recs /\ task[p].model \in Models
  BY TypedFacts DEF Typed, KindOf, Tasks, InFlightPCs
<1>2. Fading(p, child) /\ SlotsFor(p, slot)
  BY FadingAsIs, SlotsAsTheyAre
<1>3. p \in Rebalancer => Mover(task[p])
  BY DEF Moving, MoverOK
<1> QED BY <1>1, <1>2, <1>3 DEF Set, Left

LEMMA LockTakenActs ==
    ASSUME LoadInv, NEW p, LockTaken(p)
    PROVE  LoadActs(p)
<1> USE DEF LoadInv
<1>1. p \in LoadTasks /\ task[p].pc = "queue"
  BY DEF LockTaken
<1>2. Set(p, task[p], child, slot)
  BY <1>1, SetAsIs
<1>3. task[p].pc \notin InFlightPCs
  BY <1>1 DEF InFlightPCs
<1>4. Locked(p, task[p], TRUE) /\ Head(queue[task[p].model]) = p
      /\ queue' = [queue EXCEPT ![task[p].model] = Tail(@)] /\ UNCHANGED <<lease, skewed, downed>>
  BY DEF LockTaken
<1>5. Acts(p) /\ task'[p].pc # "queue"
  BY <1>2, <1>3, <1>4, LockedActs
<1>6. task[p].model \in Models /\ queue[task[p].model] # <<>>
  <2>1. task[p].model \in Models
    BY <1>2 DEF Set
  <2>2. PICK i \in 1..Len(queue[task[p].model]) : queue[task[p].model][i] = p
    BY <1>1 DEF Typed, Queued
  <2>3. queue[task[p].model] \in Seq(LoadTasks)
    BY <2>1, TypedFacts
  <2> QED BY <2>1, <2>2, <2>3
<1>7. QueueActs(p)
  BY <1>4, <1>5, <1>6 DEF QueueActs
<1> QED BY <1>1, <1>4, <1>5, <1>7 DEF LoadActs, Typed, TypeOK

LEMMA GateTakenActs ==
    ASSUME LoadInv, NEW p, GateTaken(p)
    PROVE  LoadActs(p)
<1> USE DEF LoadInv
<1>1. p \in owners /\ task[p].pc = "gate" /\ p \in LoadTasks /\ task[p].pc \in InFlightPCs
  BY TypedFacts DEF GateTaken, InFlightPCs
<1>2. Set(p, task[p], child, slot)
  BY <1>1, SetAsIs
<1>3. Acts(p) /\ task'[p].pc # "queue"
  BY <1>1, <1>2, GatedActs DEF GateTaken, MayPass
<1> QED BY <1>1, <1>3 DEF LoadActs, QueueActs, GateTaken, Typed, TypeOK

LEMMA SettledActs ==
    ASSUME LoadInv, NEW p, Settled(p)
    PROVE  LoadActs(p)
<1> USE DEF LoadInv
<1>1. p \in LoadTasks /\ p \in Tasks /\ task[p].pc = "settle" /\ task[p].pc \in InFlightPCs /\ task[p].pc \in PastGate
  BY DEF Settled, InFlightPCs, PastGate, Tasks
<1>2. Set(p, task[p], child, slot) /\ MayPass(p)
  BY <1>1, SetAsIs, PastIsOwner
<1>3. task[p] \in Recs /\ task[p].model \in Models
  BY <1>2 DEF Set
<1>4. CASE UNCHANGED <<child, slot, entries, suppressed>> /\ LeaveAs(p, Served(p, task[p]))
  <2>1. SlotsFor(p, slot') /\ Fading(p, child') /\ Left(p, child')
    BY <1>2, <1>4 DEF Set
  <2>2. entries' \subseteq Models /\ suppressed' \subseteq Models
    BY <1>4, TypedFacts
  <2>3. Acts(p) /\ task'[p] = Served(p, task[p])
    BY <1>1, <1>3, <1>4, <2>1, <2>2, Records, Ends
  <2>4. task'[p].pc # "queue"
    BY <1>1, <1>3, <2>3, Records
  <2> QED BY <1>1, <2>3, <2>4 DEF LoadActs, QueueActs, Settled, Typed, TypeOK
<1>5. CASE Plan(p, task[p], {}, task[p].mode = "force")
  <2>1. Acts(p) /\ task'[p].pc # "queue"
    BY <1>1, <1>2, <1>5, PlanActs
  <2> QED BY <1>1, <2>1 DEF LoadActs, QueueActs, Settled, Typed, TypeOK
<1> QED BY <1>4, <1>5 DEF Settled

LEMMA ReplanActs ==
    ASSUME LoadInv, NEW p, Replan(p)
    PROVE  LoadActs(p)
<1> USE DEF LoadInv
<1> DEFINE r == [task[p] EXCEPT !.stage = "second"]
<1>1. p \in LoadTasks /\ task[p].pc = "beat" /\ task[p].pc \in InFlightPCs /\ task[p].pc \in PastGate
  BY DEF Replan, InFlightPCs, PastGate
<1>2. Set(p, task[p], child, slot) /\ MayPass(p)
  BY <1>1, SetAsIs, PastIsOwner
<1>3. Set(p, r, child, slot)
  <2>1. task[p] \in Recs
    BY <1>2 DEF Set
  <2>2. r \in Recs /\ r.model = task[p].model /\ r.mode = task[p].mode /\ r.wanted = task[p].wanted /\ r.todo = task[p].todo
    BY <2>1 DEF Recs
  <2> HIDE DEF r
  <2> QED BY <1>2, <2>2 DEF Set, Mover
<1>4. Plan(p, r, {}, FALSE)
  BY DEF Replan
<1> HIDE DEF r
<1>5. Acts(p) /\ task'[p].pc # "queue"
  BY <1>1, <1>2, <1>3, <1>4, PlanActs
<1> QED BY <1>1, <1>5 DEF LoadActs, QueueActs, Replan, Typed, TypeOK

LEMMA StartTurnActs ==
    ASSUME LoadInv, NEW p, StartTurn(p)
    PROVE  LoadActs(p)
<1> USE DEF LoadInv
<1>1. p \in LoadTasks /\ task[p].pc = "starting" /\ task[p].pc \in InFlightPCs /\ task[p].pc \in PastGate
  BY DEF StartTurn, InFlightPCs, PastGate
<1>2. Set(p, task[p], child, slot) /\ MayPass(p)
  BY <1>1, SetAsIs, PastIsOwner
<1>3. task[p].card \in Cards /\ ~Blocked(task[p].card, task[p].model) /\ Fits(child, task[p], {})
  BY <1>1 DEF PlansHold, PlanHolds, Planned, Spared
<1>4. Acts(p) /\ task'[p].pc # "queue"
  BY <1>1, <1>2, <1>3, StartActs DEF StartTurn
<1> QED BY <1>1, <1>4 DEF LoadActs, QueueActs, StartTurn, Typed, TypeOK

\* The launch of p fails: its child is gone, and the slot is left.
LEMMA LaunchGone ==
    ASSUME LoadInv, NEW p \in LoadTasks, task[p].pc = "start"
    PROVE  LET r == task[p] IN
           /\ Set(p, r, [child EXCEPT ![r.model] = NoChild], Leave(slot, r.model))
           /\ MayPass(p) /\ (UNCHANGED gateVars => KeepGate(p))
<1> USE DEF LoadInv
<1> DEFINE m == task[p].model
           w == [child EXCEPT ![m] = NoChild]
<1>1. p \in Tasks /\ task[p] \in Recs /\ m \in Models /\ InSlot(p, task[p], slot)
  BY SlotNames, TypedFacts DEF Typed, InLine, Tasks
<1>2. slot[m] # <<>> /\ Head(slot[m]) = p
  BY <1>1 DEF InSlot
<1>3. SlotsFor(p, slot) /\ Inside(slot, m, p)
  BY <1>2, SlotsAsTheyAre DEF Inside
<1>4. SlotsFor(p, Leave(slot, m)) /\ Alone(p, m)
  BY <1>1, <1>2, <1>3, Leaves, InsideIsAlone
<1>5. Fading(p, w)
  BY <1>1, <1>4, FadingGone
<1>6. Left(p, w)
  BY <1>1, TypedFacts, NoChildIs DEF Left
<1>7. p \in Rebalancer => Mover(task[p])
  BY DEF Moving, MoverOK, InFlightPCs
<1>8. task[p].pc \in PastGate
  BY DEF PastGate, InFlightPCs
<1> HIDE DEF w
<1>9. Set(p, task[p], w, Leave(slot, m))
  BY <1>1, <1>4, <1>5, <1>6, <1>7 DEF Set
<1> QED BY <1>8, <1>9, PastIsOwner DEF w

LEMMA StartFailsActs ==
    ASSUME LoadInv, NEW p, StartFails(p)
    PROVE  LoadActs(p)
<1> USE DEF LoadInv
<1> DEFINE r == task[p]
           w == [child EXCEPT ![r.model] = NoChild]
           s == Leave(slot, r.model)
           victims == Evictable(r, w, FALSE)
           q == [r EXCEPT !.stage = "retry"]
<1>1. p \in LoadTasks /\ r.pc = "start" /\ queue' = queue /\ lease' = lease /\ skewed' = skewed /\ downed' = downed
  BY DEF StartFails
<1>2. Set(p, r, w, s) /\ MayPass(p) /\ (UNCHANGED gateVars => KeepGate(p))
  BY <1>1, LaunchGone
<1>3. r \in Recs /\ r.model \in Models /\ Fading(p, w) /\ SlotsFor(p, s) /\ Left(p, w)
  BY <1>2 DEF Set
<1> DEFINE x == [Idle EXCEPT !.pc = "down", !.model = r.model, !.home = r.home]
<1>4. \/ Refused(p, r, w, s)
      \/ /\ child' = w /\ slot' = s /\ UNCHANGED <<entries, suppressed>>
         /\ LeaveAs(p, x)
      \/ /\ r.stage = "first" /\ r.mode \notin NoEvict
         /\ \E v \in victims : Stop(p, q, v, w, s) /\ NoteDisplaced(p, r, v, w)
         /\ UNCHANGED <<owners, line, restoring, suppressed>>
  BY DEF StartFails, Failed
<1> HIDE DEF w, s
<1>5. CASE Refused(p, r, w, s)
  <2>1. Acts(p) /\ task'[p] = Rest(r)
    BY <1>2, <1>5, RefusedActs
  <2> QED BY <1>1, <1>3, <2>1, Records DEF LoadActs, QueueActs, Typed, TypeOK
<1>6. CASE /\ child' = w /\ slot' = s /\ UNCHANGED <<entries, suppressed>>
           /\ LeaveAs(p, x)
  <2>1. x \in Recs /\ x.pc = "down" /\ KindOf(p, x)
    BY <1>1, <1>3 DEF Idle, Recs, KindOf
  <2> HIDE DEF x
  <2>2. entries' \subseteq Models /\ suppressed' \subseteq Models
    BY <1>6, TypedFacts
  <2>3. Acts(p) /\ task'[p] = x
    BY <1>1, <1>3, <1>6, <2>1, <2>2, Ends
  <2> QED BY <1>1, <2>1, <2>3 DEF LoadActs, QueueActs, Typed, TypeOK
<1>7. ASSUME /\ r.mode \notin NoEvict
             /\ \E v \in victims : Stop(p, q, v, w, s) /\ NoteDisplaced(p, r, v, w)
             /\ UNCHANGED <<owners, line, restoring, suppressed>>
      PROVE  LoadActs(p)
  <2>1. PICK v \in victims : Stop(p, q, v, w, s) /\ NoteDisplaced(p, r, v, w)
    BY <1>7
  <2>2. v \in Models /\ w[v].state # "none"
    BY DEF Evictable
  <2>3. q \in Recs /\ q.model = r.model /\ q.mode = r.mode /\ q.stage = "retry"
    BY <1>3 DEF Recs
  <2>4. p \notin Rebalancer
    BY <1>2, <1>7 DEF Set, Mover, Placed, NoEvict
  <2> HIDE DEF q
  <2>5. Set(p, q, w, s)
    BY <1>2, <2>3, <2>4 DEF Set
  <2>6. entries' \subseteq Models /\ suppressed' \subseteq Models /\ restoring' \in BOOLEAN
    BY <1>7, <2>1, <2>2, NotedIs, TypedFacts
  <2>7. KeepGate(p)
    BY <1>2, <1>7 DEF gateVars
  <2>8. Acts(p) /\ task'[p].pc \in {"stop", "stopping"}
    BY <1>2, <2>1, <2>2, <2>3, <2>4, <2>5, <2>6, <2>7, StopActs
  <2> QED BY <1>1, <2>8 DEF LoadActs, QueueActs, Typed, TypeOK
<1> QED BY <1>4, <1>5, <1>6, <1>7

\* stop() returned to a load: the pause of a retry, or the rest of the eviction loop.
LEMMA AfterStopActs ==
    ASSUME LoadInv, NEW p \in LoadTasks, task[p].pc \in {"stop", "stopping"}, NEW w, NEW s,
           Fading(p, w), SlotsFor(p, s), w[task[p].victim].state = "none",
           AfterStop(p, w, s), queue' = queue, skewed' = skewed
    PROVE  LoadActs(p)
<1> USE DEF LoadInv
<1> DEFINE r == task[p]
           x == [r EXCEPT !.pc = "beat"]
<1>1. p \in Tasks /\ r \in Recs /\ r.model \in Models /\ r.victim \in Models /\ r.pc \in PastGate /\ r.pc # "start"
  BY SlotNames, TypedFacts DEF Typed, KindOf, Tasks, PastGate, InFlightPCs
<1>2. MayPass(p) /\ (UNCHANGED gateVars => KeepGate(p))
  BY <1>1, PastIsOwner
<1>3. p \in Rebalancer => Mover(r)
  BY <1>1 DEF Moving, MoverOK, PastGate
<1>4. Left(p, w)
  BY <1>1 DEF Left
<1>5. Set(p, r, w, s)
  BY <1>1, <1>3, <1>4 DEF Set
<1>6. p \notin Grants /\ p \notin Unloaders \cup Sweeper
  BY LoadManagerAssumption
<1>7. CASE /\ child' = w /\ slot' = s
           /\ task' = [task EXCEPT ![p].pc = "beat"]
           /\ UNCHANGED <<owners, line, lease, entries, restoring, suppressed, downed>>
  <2>1. x \in Recs /\ x.pc = "beat" /\ x.model = r.model /\ x.mode = r.mode /\ x.wanted = r.wanted /\ x.todo = r.todo
    BY <1>1 DEF Recs, InFlightPCs
  <2>2. task'[p] = x /\ OthersRest(p)
    <3>1. task' = [task EXCEPT ![p] = x]
      BY <1>7
    <3> HIDE DEF x
    <3> QED BY <1>1, <2>1, <3>1, TypedFacts DEF OthersRest
  <2> HIDE DEF x
  <2>3. InPlace(p)
    BY <1>1, <1>7, <2>1, <2>2 DEF InPlace, KindOf, InSlot
  <2>4. ChildActs(p)
    BY <1>4, <1>7, <2>1, <2>2 DEF ChildActs
  <2>5. GateActs(p) /\ RestoreActs(p)
    BY <1>2, <1>7, <2>1, <2>2 DEF GateActs, RestoreActs, PastGate, InFlightPCs, gateVars
  <2>6. PlanHolds(x, child')
    BY <2>1 DEF PlanHolds, Planned
  <2>7. p \in Rebalancer => MoverOK(x)
    BY <1>3, <2>1 DEF Mover, MoverOK
  <2>8. entries' \subseteq Models /\ suppressed' \subseteq Models /\ restoring' \in BOOLEAN
    BY <1>7, TypedFacts
  <2>9. Acts(p)
    BY <2>2, <2>3, <2>4, <2>5, <2>6, <2>7, <2>8 DEF Acts
  <2> QED BY <1>7, <2>1, <2>2, <2>9 DEF LoadActs, QueueActs, Typed, TypeOK
<1>8. CASE r.stage # "retry" /\ Evict(p, r, w, s) /\ UNCHANGED <<lease, downed>>
  <2>1. r.card \in Cards /\ ~Blocked(r.card, r.model) /\ Fits(child, r, r.todo \cup {r.victim})
    BY <1>8 DEF PlansHold, PlanHolds, Planned, Spared
  <2>2. OnCard(w, r.card) \ r.todo \subseteq OnCard(child, r.card) \ (r.todo \cup {r.victim})
    <3>1. OnCard(w, r.card) \subseteq OnCard(child, r.card)
      BY <2>1, FadingTakes
    <3>2. r.victim \notin OnCard(w, r.card)
      BY DEF OnCard
    <3> QED BY <3>1, <3>2
  <2>3. Fits(w, r, r.todo)
    <3>1. Taken(w, r.card, r.todo) <= Taken(child, r.card, r.todo \cup {r.victim})
      BY <2>2, TakenLess
    <3>2. Taken(w, r.card, r.todo) \in Nat /\ Taken(child, r.card, r.todo \cup {r.victim}) \in Nat
      BY TakenIs
    <3>3. SizeOf[r.model] \in Nat /\ Room \in Nat
      BY <1>1, LoadManagerAssumption
    <3> QED BY <2>1, <3>1, <3>2, <3>3 DEF Fits
  <2>4. Acts(p) /\ task'[p].pc # "queue"
    BY <1>1, <1>2, <1>5, <1>8, <2>1, <2>3, EvictActs
  <2> QED BY <1>8, <2>4 DEF LoadActs, QueueActs, Typed, TypeOK
<1> QED BY <1>6, <1>7, <1>8 DEF AfterStop

\* What stop() leaves to the task that called it.
LEMMA StopsDone ==
    ASSUME LoadInv, NEW p \in Tasks, Stopped(p) \/ StopTurn(p)
    PROVE  /\ task[p].pc \in {"stop", "stopping"} /\ task[p].victim \in Models
           /\ queue' = queue /\ skewed' = skewed
           /\ \/ \E w, s : /\ Fading(p, w) /\ SlotsFor(p, s) /\ w[task[p].victim].state = "none"
                           /\ AfterStop(p, w, s)
              \/ /\ task[p].pc = "stopping" /\ child[task[p].victim].state # "none"
                 /\ Stop(p, task[p], task[p].victim, child, slot)
                 /\ UNCHANGED <<owners, line, lease, entries, restoring, suppressed, downed>>
<1> USE DEF LoadInv
<1> DEFINE v == task[p].victim
<1>1. task[p].pc \in {"stop", "stopping"} /\ v \in Models /\ queue' = queue /\ skewed' = skewed
  BY SlotNames DEF Stopped, StopTurn
<1>2. SlotsFor(p, slot) /\ InSlot(p, task[p], slot) /\ slot[v] \in Seq(Tasks)
  BY <1>1, SlotsAsTheyAre, TypedFacts DEF Typed, InLine
<1>3. CASE Stopped(p)
  <2>1. task[p].pc = "stop" /\ AfterStop(p, [child EXCEPT ![v] = NoChild], Leave(slot, v))
    BY <1>3 DEF Stopped
  <2>2. slot[v] # <<>> /\ Head(slot[v]) = p
    BY <1>2, <2>1 DEF InSlot
  <2>3. SlotsFor(p, Leave(slot, v)) /\ Alone(p, v)
    BY <1>1, <1>2, <2>2, Leaves, InsideIsAlone DEF Inside
  <2>4. Fading(p, [child EXCEPT ![v] = NoChild])
    BY <1>1, <2>3, FadingGone
  <2>5. [child EXCEPT ![v] = NoChild][v].state = "none"
    BY <1>1, TypedFacts, NoChildIs
  <2> QED BY <1>1, <2>1, <2>3, <2>4, <2>5
<1>4. CASE StopTurn(p)
  <2>1. task[p].pc = "stopping" /\ Head(slot[v]) = p
    BY <1>4 DEF StopTurn
  <2>2. slot[v] # <<>>
    <3>1. PICK i \in 1..Len(slot[v]) : slot[v][i] = p
      BY <1>2, <2>1 DEF InSlot
    <3> QED BY <1>2, <3>1
  <2>3. SlotsFor(p, Leave(slot, v)) /\ Fading(p, child)
    BY <1>1, <1>2, <2>1, <2>2, Leaves, FadingAsIs
  <2>4. CASE child[v].state = "none" /\ AfterStop(p, child, Leave(slot, v))
    BY <1>1, <2>3, <2>4
  <2> QED BY <1>1, <1>4, <2>1, <2>4 DEF StopTurn
<1> QED BY <1>3, <1>4

LEMMA StopsDoneActs ==
    ASSUME LoadInv, NEW p \in LoadTasks, Stopped(p) \/ StopTurn(p)
    PROVE  LoadActs(p)
<1> USE DEF LoadInv
<1> DEFINE r == task[p]
           v == r.victim
<1>1. p \in Tasks
  BY DEF Tasks
<1>2. CASE \E w, s : /\ Fading(p, w) /\ SlotsFor(p, s) /\ w[v].state = "none"
                     /\ AfterStop(p, w, s)
  BY <1>1, <1>2, StopsDone, AfterStopActs
<1>3. CASE /\ r.pc = "stopping" /\ child[v].state # "none"
           /\ Stop(p, r, v, child, slot)
           /\ UNCHANGED <<owners, line, lease, entries, restoring, suppressed, downed>>
  <2>1. v \in Models /\ queue' = queue /\ skewed' = skewed
    BY <1>1, StopsDone
  <2>2. r.pc \in InFlightPCs /\ r.pc # "start" /\ r.pc \in PastGate
    BY <1>3 DEF InFlightPCs, PastGate
  <2>3. Set(p, r, child, slot) /\ MayPass(p) /\ KeepGate(p)
    BY <1>3, <2>2, SetAsIs, PastIsOwner DEF gateVars
  <2>4. r.stage # "retry" => /\ r.card \in Cards /\ ~Blocked(r.card, r.model)
                             /\ Fits(child, r, r.todo \cup {v})
    BY <1>3 DEF PlansHold, PlanHolds, Planned, Spared
  <2>5. p \in Rebalancer => v = r.model /\ r.mode = "move"
    BY <1>3 DEF Moving, MoverOK
  <2>6. entries' \subseteq Models /\ suppressed' \subseteq Models /\ restoring' \in BOOLEAN
    BY <1>3, TypedFacts
  <2>7. Acts(p) /\ task'[p].pc \in {"stop", "stopping"}
    BY <1>3, <2>1, <2>3, <2>4, <2>5, <2>6, StopActs
  <2> QED BY <1>3, <2>1, <2>7 DEF LoadActs, QueueActs, Typed, TypeOK
<1> QED BY <1>1, <1>2, <1>3, StopsDone

-----------------------------------------------------------------------------
\* The steps of the tasks off the load path.

AwayActs(p) ==
    /\ p \in Tasks \ LoadTasks
    /\ InPlace(p) /\ Fading(p, child')
    /\ UNCHANGED <<queue, owners, line, restoring>>
    /\ entries' \subseteq entries /\ suppressed' \subseteq Models
    /\ skewed' \subseteq Models /\ downed' \subseteq Models

\* The task goes idle.
LEMMA AwayIdles ==
    ASSUME Typed, NEW p \in Tasks \ LoadTasks, task' = [task EXCEPT ![p] = Idle], SlotsFor(p, slot')
    PROVE  InPlace(p) /\ task'[p] = Idle
<1>1. Idle \in Recs /\ Idle.pc = "idle"
  BY DEF Idle, Recs
<1>2. OthersRest(p) /\ task'[p] = Idle
  BY <1>1, TypedFacts DEF OthersRest
<1> QED BY <1>1, <1>2 DEF InPlace, KindOf, InSlot

LEMMA GrantEvictsActs ==
    ASSUME Typed, NEW g \in Grants, NEW r \in Recs, NEW w, NEW s, Fading(g, w), SlotsFor(g, s),
           GrantEvicts(g, r, w, s)
    PROVE  /\ InPlace(g) /\ Fading(g, child')
           /\ \A c \in Cards : OnCard(child', c) \subseteq OnCard(w, c)
           /\ \/ /\ task'[g] = Idle /\ child' = w
                 /\ (\A v \in r.todo : w[v].state = "none") \/ (\E v \in r.todo : w[v].active > 0 /\ w[v].state # "none")
              \/ /\ task'[g].pc \in {"stop", "stopping"}
                 /\ task'[g].todo \cup {task'[g].victim} = r.todo
<1>1. g \in Tasks \ LoadTasks /\ g \notin Unloaders
  BY LoadManagerAssumption DEF Tasks
<1>2. r.todo \subseteq Models
  BY DEF Recs
<1>3. CASE /\ child' = w /\ slot' = s /\ task' = [task EXCEPT ![g] = Idle]
           /\ (\A v \in r.todo : w[v].state = "none") \/ (\E v \in r.todo : w[v].active > 0 /\ w[v].state # "none")
  <2>1. InPlace(g) /\ task'[g] = Idle
    BY <1>1, <1>3, AwayIdles
  <2> QED BY <1>3, <2>1
<1>4. CASE \E v \in r.todo : w[v].state # "none" /\ Stop(g, r, v, w, s)
  <2>1. PICK v \in r.todo : w[v].state # "none" /\ Stop(g, r, v, w, s)
    BY <1>4
  <2>2. v \in Models /\ g \in Tasks /\ g \notin LoadTasks \cup Unloaders
    BY <1>1, <1>2
  <2>3. /\ InPlace(g) /\ Fading(g, child')
        /\ \A c \in Cards : OnCard(child', c) \subseteq OnCard(w, c)
        /\ \E pc \in {"stop", "stopping"} :
              task'[g] = [r EXCEPT !.victim = v, !.todo = @ \ {v}, !.pc = pc]
    BY <2>2, <2>1, Stops, ZenonT(60)
  <2>4. task'[g].pc \in {"stop", "stopping"} /\ task'[g].todo = r.todo \ {v} /\ task'[g].victim = v
    BY <2>3 DEF Recs
  <2> QED BY <2>1, <2>3, <2>4
<1> QED BY <1>3, <1>4 DEF GrantEvicts

\* A lease is entered only while no load is in flight, and lets no model onto its card.
LeaseActs ==
    /\ lease' \in [Cards -> Grants \cup {None}]
    /\ \A c \in Cards : lease'[c] # None => CardOf[lease'[c]] = c
    /\ (\A c \in Cards : lease'[c] \in {lease[c], None}) \/ Loading = {}
    /\ LeaseHonoured'

LEMMA LeaseKept ==
    ASSUME LoadInv, NEW p, OthersRest(p), Shrinks,
           NEW c \in Cards, lease[c] # p, NEW n \in OnCard(child', c), Blocked(c, n)
    PROVE  child'[n].state = "unloading" \/ n \in task'[lease[c]].todo \cup {task'[lease[c]].victim}
<1> USE DEF LoadInv
<1>1. n \in OnCard(child, c) /\ (child[n].state = "unloading" => child'[n].state = "unloading")
  BY DEF Shrinks
<1>2. lease[c] \in Tasks \ {p}
  BY TypedFacts DEF Blocked, Tasks
<1>3. task[lease[c]] \in Recs
  BY <1>2, TypedFacts
<1>4. task'[lease[c]].todo = task[lease[c]].todo /\ task'[lease[c]].victim = task[lease[c]].victim
  BY <1>2, <1>3 DEF OthersRest, Recs
<1> QED BY <1>1, <1>4 DEF LeaseHonoured

\* Whoever is no grant leaves the leases as they are.
LEMMA LeasesAsTheyAre ==
    ASSUME LoadInv, NEW p, p \notin Grants, OthersRest(p), Shrinks, lease' = lease
    PROVE  LeaseActs
<1> USE DEF LoadInv
<1>1. lease \in [Cards -> Grants \cup {None}]
  BY TypedFacts
<1>2. LeaseHonoured'
  <2> SUFFICES ASSUME NEW c \in Cards, NEW n \in OnCard(child', c), Blocked(c, n)
               PROVE  child'[n].state = "unloading" \/ n \in task'[lease[c]].todo \cup {task'[lease[c]].victim}
    BY DEF LeaseHonoured, Blocked
  <2>1. lease[c] # p
    BY <1>1 DEF Blocked
  <2> QED BY <2>1, LeaseKept
<1> QED BY <1>1, <1>2 DEF LeaseActs, Typed

LEMMA StopsDoneAway ==
    ASSUME LoadInv, NEW p \in Tasks \ LoadTasks, Stopped(p) \/ StopTurn(p)
    PROVE  AwayActs(p) /\ LeaseActs
<1> USE DEF LoadInv
<1> DEFINE r == task[p]
           v == r.victim
<1>1. p \in Tasks /\ r.pc \in {"stop", "stopping"} /\ v \in Models /\ queue' = queue /\ skewed' = skewed /\ r \in Recs
  BY StopsDone, TypedFacts
<1>2. p \in Unloaders => r.model \in Models
  BY <1>1 DEF Typed, KindOf
<1>3. ASSUME /\ r.pc = "stopping" /\ child[v].state # "none"
             /\ Stop(p, r, v, child, slot)
             /\ UNCHANGED <<owners, line, lease, entries, restoring, suppressed, downed>>
      PROVE  AwayActs(p) /\ LeaseActs
  <2>1. Fading(p, child) /\ SlotsFor(p, slot)
    BY FadingAsIs, SlotsAsTheyAre
  <2>2. /\ InPlace(p) /\ Fading(p, child')
        /\ \A c \in Cards : OnCard(child', c) \subseteq OnCard(child, c)
        /\ \E pc \in {"stop", "stopping"} :
              task'[p] = [r EXCEPT !.victim = v, !.todo = @ \ {v}, !.pc = pc]
    <3>1. p \in LoadTasks \cup Unloaders => r.model \in Models
      BY <1>2
    <3>2. Stop(p, r, v, child, slot) /\ child[v].state # "none"
      BY <1>3
    <3> HIDE DEF r, v
    <3> QED BY <1>1, <2>1, <3>1, <3>2, Stops
  <2>3. AwayActs(p)
    BY <1>1, <1>3, <2>2, TypedFacts DEF AwayActs, Typed, TypeOK
  <2>4. CASE p \notin Grants
    BY <1>3, <2>2, <2>3, <2>4, FadingShrinks, LeasesAsTheyAre DEF InPlace
  <2>5. CASE p \in Grants
    <3>1. LeaseHonoured'
      <4> SUFFICES ASSUME NEW c \in Cards, NEW n \in OnCard(child', c), Blocked(c, n)
                   PROVE  child'[n].state = "unloading" \/ n \in task'[lease[c]].todo \cup {task'[lease[c]].victim}
        BY <1>3 DEF LeaseHonoured, Blocked
      <4>1. CASE lease[c] # p
        BY <2>2, <4>1, FadingShrinks, LeaseKept DEF InPlace
      <4>2. CASE lease[c] = p
        <5>1. task'[p].todo \cup {task'[p].victim} = r.todo \cup {v}
          BY <1>1, <2>2 DEF Recs
        <5>2. n \in OnCard(child, c) /\ n \in Models
          BY <2>2 DEF OnCard
        <5>3. child[n].state = "unloading" => child'[n].state = "unloading"
          BY <2>2, FadingShrinks DEF Shrinks
        <5> QED BY <4>2, <5>1, <5>2, <5>3 DEF LeaseHonoured
      <4> QED BY <4>1, <4>2
    <3> QED BY <1>3, <2>3, <3>1, TypedFacts DEF LeaseActs, Typed
  <2> QED BY <2>4, <2>5, <2>3
<1>4. ASSUME NEW w, NEW s, Fading(p, w), SlotsFor(p, s), w[v].state = "none", AfterStop(p, w, s)
      PROVE  AwayActs(p) /\ LeaseActs
  <2>1. CASE p \in Unloaders \cup Sweeper
    <3>1. p \notin Grants
      BY <2>1, LoadManagerAssumption
    <3>2. /\ child' = w /\ slot' = s
          /\ task' = [task EXCEPT ![p] = Idle]
          /\ downed' = IF p \in Unloaders /\ Unasked(task[p].model)
                       THEN downed \cup {task[p].model} ELSE downed
          /\ UNCHANGED <<owners, line, lease, entries, restoring, suppressed>>
      BY <1>4, <2>1, <3>1 DEF AfterStop
    <3>3. InPlace(p)
      BY <1>4, <3>2, AwayIdles
    <3>4. downed' \subseteq Models
      BY <1>2, <3>2 DEF Typed, TypeOK
    <3>5. AwayActs(p)
      BY <1>1, <1>4, <3>2, <3>3, <3>4, TypedFacts DEF AwayActs, Typed, TypeOK
    <3> QED BY <1>4, <3>1, <3>2, <3>3, <3>5, FadingShrinks, LeasesAsTheyAre DEF InPlace
  <2>2. CASE p \in Grants
    <3>1. p \notin Unloaders \cup Sweeper
      BY <2>2, LoadManagerAssumption
    <3>2. /\ GrantEvicts(p, r, w, s)
          /\ IF GrantLost(p, r, w) THEN Unlease(p) ELSE UNCHANGED lease
          /\ UNCHANGED <<owners, line, entries, restoring, suppressed, downed>>
      BY <1>4, <2>2, <3>1 DEF AfterStop
    <3>3. /\ InPlace(p) /\ Fading(p, child')
          /\ \A c \in Cards : OnCard(child', c) \subseteq OnCard(w, c)
          /\ \/ /\ task'[p] = Idle /\ child' = w
                /\ (\A x \in r.todo : w[x].state = "none") \/ (\E x \in r.todo : w[x].active > 0 /\ w[x].state # "none")
             \/ /\ task'[p].pc \in {"stop", "stopping"}
                /\ task'[p].todo \cup {task'[p].victim} = r.todo
      BY <1>1, <1>4, <2>2, <3>2, GrantEvictsActs
    <3>4. AwayActs(p)
      BY <1>1, <3>2, <3>3, TypedFacts DEF AwayActs, Typed, TypeOK
    <3>5. \A c \in Cards : lease'[c] \in {lease[c], None} /\ (lease[c] # p => lease'[c] = lease[c])
      BY <3>2, TypedFacts DEF Unlease
    <3>6. lease' \in [Cards -> Grants \cup {None}]
      BY <3>2, TypedFacts DEF Unlease
    <3>7. LeaseHonoured'
      <4> SUFFICES ASSUME NEW c \in Cards, NEW n \in OnCard(child', c), lease'[c] # None, n \notin OwnersOf[lease'[c]]
                   PROVE  child'[n].state = "unloading" \/ n \in task'[lease'[c]].todo \cup {task'[lease'[c]].victim}
        BY DEF LeaseHonoured, Blocked
      <4>1. lease'[c] = lease[c] /\ Blocked(c, n)
        BY <3>5 DEF Blocked
      <4>2. CASE lease[c] # p
        BY <3>3, <4>1, <4>2, FadingShrinks, LeaseKept DEF InPlace
      <4>3. CASE lease[c] = p
        <5>1. ~GrantLost(p, r, w)
          BY <3>2, <4>1, <4>3, TypedFacts DEF Unlease
        <5>2. (\A x \in r.todo : w[x].state = "none") \/ r.todo = task'[p].todo \cup {task'[p].victim}
            <6>1. ASSUME task'[p] = Idle PROVE \A x \in r.todo : w[x].state = "none"
            BY <5>1, <6>1 DEF GrantLost
          <6> HIDE DEF r
          <6> QED BY <3>3, <6>1
        <5>3. n \in Models /\ n \in OnCard(w, c) /\ n \in OnCard(child, c) /\ n # v /\ w[n].state # "none"
          BY <1>4, <3>3, FadingTakes DEF OnCard
        <5>4. child[n].state = "unloading" \/ n \in r.todo
          BY <4>1, <4>3, <5>3 DEF LeaseHonoured
        <5>5. child[n].state = "unloading" => child'[n].state = "unloading"
          BY <3>3, FadingShrinks DEF Shrinks
        <5> QED BY <4>1, <4>3, <5>2, <5>3, <5>4, <5>5
      <4> QED BY <4>2, <4>3
    <3>8. \A c \in Cards : lease'[c] # None => CardOf[lease'[c]] = c
      BY <3>5 DEF Typed
    <3> QED BY <3>4, <3>5, <3>6, <3>7, <3>8 DEF LeaseActs
  <2> QED BY <2>1, <2>2 DEF Tasks
<1> QED BY <1>1, <1>3, <1>4, StopsDone

LEMMA GrantActs ==
    ASSUME LoadInv, NEW g \in Grants, Grant(g)
    PROVE  AwayActs(g) /\ LeaseActs
<1> USE DEF LoadInv
<1> DEFINE claimed == CardOf[g]
           there == {n \in Models \ OwnersOf[g] : child[n].card = claimed /\ child[n].state # "none"}
           r == [Idle EXCEPT !.card = claimed, !.todo = there]
<1>1. /\ lease[claimed] = None /\ Loading = {}
      /\ \A n \in there : child[n].state # "loading" /\ child[n].active = 0
      /\ GrantEvicts(g, r, child, slot)
      /\ lease' = [lease EXCEPT ![claimed] = g]
      /\ UNCHANGED <<queue, owners, line, entries, restoring, suppressed, skewed, downed>>
  BY DEF Grant, Lease
<1>2. g \in Tasks \ LoadTasks /\ claimed \in Cards /\ g # None
  BY LoadManagerAssumption DEF Tasks
<1>3. r \in Recs /\ r.todo = there
  BY <1>2 DEF Idle, Recs
<1> HIDE DEF r
<1>4. Fading(g, child) /\ SlotsFor(g, slot)
  BY FadingAsIs, SlotsAsTheyAre
<1>5. /\ InPlace(g) /\ Fading(g, child')
      /\ \A c \in Cards : OnCard(child', c) \subseteq OnCard(child, c)
      /\ \/ /\ task'[g] = Idle /\ child' = child
            /\ (\A v \in there : child[v].state = "none") \/ (\E v \in there : child[v].active > 0 /\ child[v].state # "none")
         \/ /\ task'[g].pc \in {"stop", "stopping"}
            /\ task'[g].todo \cup {task'[g].victim} = there
  <2>1. GrantEvicts(g, r, child, slot)
    BY <1>1
  <2> QED BY <1>3, <1>4, <2>1, GrantEvictsActs
<1>6. AwayActs(g)
  BY <1>1, <1>2, <1>5, TypedFacts DEF AwayActs, Typed, TypeOK
<1>7. /\ lease' \in [Cards -> Grants \cup {None}] /\ lease'[claimed] = g
      /\ \A c \in Cards \ {claimed} : lease'[c] = lease[c]
  BY <1>1, <1>2, TypedFacts
<1>8. \A c \in Cards : lease'[c] # None => CardOf[lease'[c]] = c
  BY <1>7 DEF Typed
<1>9. LeaseHonoured'
  <2> SUFFICES ASSUME NEW c \in Cards, NEW n \in OnCard(child', c), lease'[c] # None, n \notin OwnersOf[lease'[c]]
               PROVE  child'[n].state = "unloading" \/ n \in task'[lease'[c]].todo \cup {task'[lease'[c]].victim}
    BY DEF LeaseHonoured, Blocked
  <2>1. CASE c # claimed
    <3>1. lease'[c] = lease[c] /\ lease[c] # g /\ Blocked(c, n)
      BY <1>2, <1>7, <2>1 DEF Typed, Blocked
    <3> QED BY <1>5, <3>1, FadingShrinks, LeaseKept DEF InPlace
  <2>2. CASE c = claimed
    <3>1. n \in OnCard(child, c) /\ n \in Models /\ lease'[c] = g
      BY <1>5, <1>7, <2>2 DEF OnCard
    <3>2. n \in there /\ child[n].state # "none" /\ child[n].active = 0
      BY <1>1, <2>2, <3>1 DEF OnCard
    <3>3. \A v \in there : child[v].active = 0
      BY <1>1
    <3>4. task'[g].todo \cup {task'[g].victim} = there
      BY <1>5, <3>2, <3>3
    <3> QED BY <3>1, <3>2, <3>4
  <2> QED BY <2>1, <2>2
<1> QED BY <1>1, <1>6, <1>7, <1>8, <1>9 DEF LeaseActs

LEMMA UnloadActs ==
    ASSUME LoadInv, NEW p, NEW m \in Models, Unload(p, m)
    PROVE  \/ AwayActs(p) /\ LeaseActs
           \/ UNCHANGED <<child, slot, queue, owners, line, task, lease, restoring, suppressed, skewed, downed>>
              /\ entries' \subseteq entries
<1> USE DEF LoadInv
<1> DEFINE r == [Idle EXCEPT !.model = m]
<1>1. p \in Tasks \ LoadTasks /\ p \notin Grants
  BY LoadManagerAssumption DEF Unload, Tasks
<1>2. entries' = entries \ {m} /\ UNCHANGED <<queue, owners, line, lease, restoring, skewed, downed>>
  BY DEF Unload
<1>3. CASE UNCHANGED <<child, slot, task, suppressed>>
  BY <1>2, <1>3
<1>4. CASE /\ child[m].state # "none" /\ suppressed' = suppressed \cup {m}
           /\ Stop(p, r, m, child, slot)
  <2>1. r \in Recs /\ r.model = m
    BY DEF Idle, Recs
  <2> HIDE DEF r
  <2>2. Fading(p, child) /\ SlotsFor(p, slot)
    BY FadingAsIs, SlotsAsTheyAre
  <2>3. InPlace(p) /\ Fading(p, child')
    BY <1>1, <1>4, <2>1, <2>2, Stops
  <2>4. AwayActs(p)
    BY <1>1, <1>2, <1>4, <2>3, TypedFacts DEF AwayActs, Typed, TypeOK
  <2> QED BY <1>1, <1>2, <2>3, <2>4, FadingShrinks, LeasesAsTheyAre DEF InPlace
<1> QED BY <1>3, <1>4 DEF Unload

LEMMA SweepActs ==
    ASSUME LoadInv, NEW p, NEW m \in Models, Sweep(p, m)
    PROVE  AwayActs(p) /\ LeaseActs
<1> USE DEF LoadInv
<1>1. p \in Tasks \ LoadTasks /\ p \notin Grants /\ p \notin Unloaders
  BY LoadManagerAssumption DEF Sweep, Tasks
<1>2. UNCHANGED <<queue, owners, line, lease, entries, restoring, suppressed, skewed, downed>>
      /\ Stop(p, Idle, m, child, slot) /\ child[m].state # "none"
  BY DEF Sweep
<1>3. Idle \in Recs
  BY DEF Idle, Recs
<1>4. Fading(p, child) /\ SlotsFor(p, slot)
  BY FadingAsIs, SlotsAsTheyAre
<1>5. InPlace(p) /\ Fading(p, child')
  BY <1>1, <1>2, <1>3, <1>4, Stops
<1>6. AwayActs(p)
  BY <1>1, <1>2, <1>5, TypedFacts DEF AwayActs, Typed, TypeOK
<1> QED BY <1>1, <1>2, <1>5, <1>6, FadingShrinks, LeasesAsTheyAre DEF InPlace

-----------------------------------------------------------------------------
\* Where loads come from.

\* A task off the load path that stays off it.
LEMMA Rests ==
    ASSUME LoadInv, NEW p \in LoadTasks, NEW x \in Recs, KindOf(p, x), x.pc \in {"idle", "admitted", "move"},
           p \in Rebalancer => MoverOK(x),
           task[p].pc \notin InFlightPCs, task' = [task EXCEPT ![p] = x],
           UNCHANGED <<child, slot, owners, line, suppressed>>,
           entries' \subseteq entries, restoring' \in BOOLEAN, restoring' = restoring \/ entries' = {}
    PROVE  Acts(p) /\ task'[p] = x
<1> USE DEF LoadInv
<1>1. p \in Tasks /\ Fading(p, child) /\ SlotsFor(p, slot)
  BY FadingAsIs, SlotsAsTheyAre DEF Tasks
<1>2. task'[p] = x /\ OthersRest(p)
  BY <1>1, TypedFacts DEF OthersRest
<1>3. InPlace(p)
  BY <1>1, <1>2 DEF InPlace, InSlot
<1>4. ChildActs(p)
  BY <1>1, <1>2 DEF ChildActs, Left, InFlightPCs
<1>5. GateActs(p)
  BY <1>2 DEF GateActs, InFlightPCs, gateVars
<1>6. RestoreActs(p)
  BY DEF RestoreActs
<1>7. PlanHolds(x, child')
  BY DEF PlanHolds, Planned
<1>8. entries' \subseteq Models /\ suppressed' \subseteq Models
  BY TypedFacts
<1> QED BY <1>2, <1>3, <1>4, <1>5, <1>6, <1>7, <1>8 DEF Acts

LEMMA AskActs ==
    ASSUME LoadInv, NEW p, NEW m \in Models, Ask(p, m)
    PROVE  LoadActs(p)
<1> USE DEF LoadInv
<1>1. /\ p \in LoadTasks /\ p \in Requests /\ p \notin Rebalancer /\ task[p].pc = "idle" /\ task[p].pc \notin InFlightPCs
      /\ lease' = lease /\ skewed' = skewed /\ downed' \subseteq Models
  BY LoadManagerAssumption DEF Ask, LoadTasks, InFlightPCs, Typed, TypeOK
<1>2. CASE /\ task' = [task EXCEPT ![p] = Served(p, [Idle EXCEPT !.model = m])]
           /\ UNCHANGED <<child, slot, queue, owners, line, entries, restoring, suppressed>>
  <2> DEFINE r == [Idle EXCEPT !.model = m]
             x == Served(p, r)
  <2>1. r \in Recs /\ r.model = m
    BY DEF Idle, Recs
  <2>2. x \in Recs /\ KindOf(p, x) /\ x.pc \in {"idle", "admitted"}
    BY <1>1, <2>1, Records
  <2>3. task' = [task EXCEPT ![p] = x]
    BY <1>2
  <2> HIDE DEF x
  <2>4. Acts(p) /\ task'[p] = x
    BY <1>1, <1>2, <2>2, <2>3, TypedFacts, Rests
  <2> QED BY <1>1, <1>2, <2>2, <2>4 DEF LoadActs, QueueActs
<1>3. CASE AskLock(p, AsksFor(p, m, "load"))
  BY <1>1, <1>3, AsksForIs, AskLockActs DEF LoadActs
<1> QED BY <1>2, <1>3 DEF Ask

LEMMA LoadsActs ==
    ASSUME LoadInv, NEW p, NEW m \in Models, NEW mode \in Modes, Load(p, m, mode)
    PROVE  LoadActs(p)
<1> USE DEF LoadInv
<1>1. /\ p \in LoadTasks /\ p \notin Rebalancer /\ task[p].pc = "idle" /\ task[p].pc \notin InFlightPCs
      /\ lease' = lease /\ skewed' = skewed /\ downed' \subseteq Models
      /\ AskLock(p, AsksFor(p, m, mode))
  BY LoadManagerAssumption DEF Load, LoadTasks, InFlightPCs, Typed, TypeOK
<1>2. mode \in {"load", "force", "reload", "restore"}
  BY LoadManagerAssumption
<1> QED BY <1>1, <1>2, AsksForIs, AskLockActs DEF LoadActs

LEMMA RestoreStepActs ==
    ASSUME LoadInv, NEW p, NEW m \in Models, Restore(p, m)
    PROVE  LoadActs(p)
<1> USE DEF LoadInv
<1>1. /\ p \in LoadTasks /\ p \in Tasks /\ p \notin Rebalancer /\ task[p].pc = "idle" /\ task[p].pc \notin InFlightPCs
      /\ lease' = lease /\ skewed' = skewed /\ downed' \subseteq Models
  BY LoadManagerAssumption DEF Restore, LoadTasks, Tasks, InFlightPCs, Typed, TypeOK
<1>2. CASE /\ entries' = entries \ {m}
           /\ UNCHANGED <<child, slot, queue, owners, line, task, restoring, suppressed>>
  <2>1. task[p] \in Recs /\ KindOf(p, task[p]) /\ task' = [task EXCEPT ![p] = task[p]]
    BY <1>1, <1>2, TypedFacts DEF Typed
  <2>2. Acts(p) /\ task'[p] = task[p]
    BY <1>1, <1>2, <2>1, TypedFacts, Rests
  <2> QED BY <1>1, <1>2, <2>2 DEF LoadActs, QueueActs
<1>3. CASE AskLock(p, AsksFor(p, m, "restore"))
  BY <1>1, <1>3, AsksForIs, AskLockActs DEF LoadActs
<1> QED BY <1>2, <1>3 DEF Restore

LEMMA RestoreEndsActs ==
    ASSUME LoadInv, NEW p, RestoreEnds(p)
    PROVE  LoadActs(p)
<1> USE DEF LoadInv
<1>1. /\ p \in LoadTasks /\ p \in Tasks /\ p \notin Rebalancer /\ task[p].pc = "idle" /\ task[p].pc \notin InFlightPCs
      /\ restoring' = FALSE /\ entries' = {} /\ downed' \subseteq Models
      /\ UNCHANGED <<child, slot, queue, owners, line, task, lease, suppressed, skewed>>
  BY LoadManagerAssumption DEF RestoreEnds, LoadTasks, Tasks, InFlightPCs, Typed, TypeOK
<1>2. task[p] \in Recs /\ KindOf(p, task[p]) /\ task' = [task EXCEPT ![p] = task[p]]
  BY <1>1, TypedFacts DEF Typed
<1>3. Acts(p) /\ task'[p] = task[p]
  BY <1>1, <1>2, Rests
<1> QED BY <1>1, <1>3 DEF LoadActs, QueueActs

LEMMA ReconcileActs ==
    ASSUME LoadInv, NEW p, NEW m \in Models, Reconcile(p, m)
    PROVE  LoadActs(p)
<1> USE DEF LoadInv
<1>1. /\ p \in LoadTasks /\ p \notin Rebalancer /\ task[p].pc = "idle" /\ task[p].pc \notin InFlightPCs
      /\ lease' = lease /\ skewed' = skewed /\ downed' \subseteq Models
      /\ AskLock(p, AsksFor(p, m, "load"))
  BY LoadManagerAssumption DEF Reconcile, LoadTasks, InFlightPCs, Typed, TypeOK
<1> QED BY <1>1, AsksForIs, AskLockActs DEF LoadActs

\* The rebalancer's tasks.
LEMMA SpotActs ==
    ASSUME LoadInv, NEW p, NEW m \in Models, NEW c \in Cards, Spot(p, m, c)
    PROVE  LoadActs(p)
<1> USE DEF LoadInv
<1> DEFINE x == [Idle EXCEPT !.pc = "move", !.model = m, !.mode = "move", !.card = c, !.home = child[m].card]
<1>1. /\ p \in LoadTasks /\ task[p].pc = "idle" /\ task[p].pc \notin InFlightPCs /\ downed' \subseteq Models
      /\ task' = [task EXCEPT ![p] = x]
      /\ UNCHANGED <<child, slot, queue, owners, line, lease, entries, restoring, suppressed, skewed>>
  BY DEF Spot, LoadTasks, InFlightPCs, Typed, TypeOK
<1>2. child[m].card \in Cards \cup {None}
  BY TypedFacts DEF Children
<1>3. x \in Recs /\ KindOf(p, x) /\ x.pc = "move" /\ MoverOK(x)
  BY <1>1, <1>2 DEF Idle, Recs, KindOf, MoverOK, Mover, Placed, InFlightPCs
<1> HIDE DEF x
<1>4. Acts(p) /\ task'[p] = x
  BY <1>1, <1>3, TypedFacts, Rests
<1> QED BY <1>1, <1>3, <1>4 DEF LoadActs, QueueActs

LEMMA MoveActs ==
    ASSUME LoadInv, NEW p, Move(p)
    PROVE  LoadActs(p)
<1> USE DEF LoadInv
<1>1. /\ p \in LoadTasks /\ p \in Rebalancer /\ p \in Tasks /\ task[p].pc = "move" /\ task[p].pc \notin InFlightPCs
      /\ lease' = lease /\ skewed' = skewed /\ downed' \subseteq Models
  BY DEF Move, LoadTasks, Tasks, InFlightPCs, Typed, TypeOK
<1>2. task[p] \in Recs /\ task[p].model \in Models /\ Mover(task[p])
  BY <1>1, TypedFacts DEF Typed, KindOf, Moving, MoverOK
<1>3. CASE /\ task' = [task EXCEPT ![p] = Idle]
           /\ UNCHANGED <<child, slot, queue, owners, line, entries, restoring, suppressed>>
  <2>1. Idle \in Recs /\ KindOf(p, Idle) /\ Idle.pc = "idle" /\ MoverOK(Idle)
    BY <1>1 DEF Idle, Recs, KindOf, MoverOK, InFlightPCs
  <2>2. Acts(p) /\ task'[p] = Idle
    BY <1>1, <1>3, <2>1, TypedFacts, Rests
  <2> QED BY <1>1, <1>3, <2>1, <2>2 DEF LoadActs, QueueActs
<1>4. CASE AskLock(p, task[p])
  BY <1>1, <1>2, <1>4, AskLockActs DEF LoadActs
<1> QED BY <1>3, <1>4 DEF Move

LEMMA BackActs ==
    ASSUME LoadInv, NEW p, Back(p)
    PROVE  LoadActs(p)
<1> USE DEF LoadInv
<1> DEFINE r == [Idle EXCEPT !.model = task[p].model, !.mode = "back", !.card = task[p].home]
<1>1. /\ p \in LoadTasks /\ p \in Rebalancer /\ p \in Tasks /\ task[p].pc = "down" /\ task[p].pc \notin InFlightPCs
      /\ lease' = lease /\ skewed' = skewed /\ downed' \subseteq Models
      /\ AskLock(p, r)
  BY DEF Back, LoadTasks, Tasks, InFlightPCs, Typed, TypeOK
<1>2. task[p] \in Recs /\ task[p].model \in Models
  BY <1>1, TypedFacts DEF Typed, KindOf
<1>3. r \in Recs /\ r.model \in Models /\ Mover(r)
  BY <1>2 DEF Idle, Recs, Mover, Placed
<1> HIDE DEF r
<1> QED BY <1>1, <1>3, AskLockActs DEF LoadActs

-----------------------------------------------------------------------------
\* The parts of the invariant, one by one.  p is the task that acts, or nobody.

\* The slots and the kinds of task.
LEMMA TasksKept ==
    ASSUME LoadInv, NEW p, OthersRest(p), SlotsFor(p, slot'), p \in Tasks => InPlace(p)
    PROVE  /\ task' \in [Tasks -> Recs] /\ \A q \in Tasks : KindOf(q, task'[q])
           /\ InLine' /\ slot' \in [Models -> Seq(Tasks)]
           /\ \A q \in Tasks : task'[q].pc \in InFlightPCs \cup {"idle", "queue", "admitted", "stream", "cut", "move", "down"}
<1> USE DEF LoadInv
<1>1. task' \in [Tasks -> Recs] /\ slot' \in [Models -> Seq(Tasks)] /\ task \in [Tasks -> Recs]
  BY TypedFacts DEF OthersRest, SlotsFor
<1>2. ASSUME NEW q \in Tasks, q # p PROVE KindOf(q, task'[q]) /\ InSlot(q, task'[q], slot')
  <2>1. KindOf(q, task[q]) /\ InSlot(q, task[q], slot')
    BY <1>2 DEF Typed, SlotsFor
  <2>2. CASE task'[q] = task[q]
    BY <2>1, <2>2
  <2>3. CASE q \in Requests /\ task[q].pc = "stream" /\ task'[q] = [task[q] EXCEPT !.pc = "cut"]
    <3>1. task'[q].pc = "cut" /\ task'[q].model = task[q].model
      BY <1>1, <2>3 DEF Recs
    <3> QED BY <2>1, <2>3, <3>1 DEF KindOf, InSlot, LoadTasks
  <2> QED BY <1>2, <2>2, <2>3 DEF OthersRest
<1>3. ASSUME p \in Tasks PROVE KindOf(p, task'[p]) /\ InSlot(p, task'[p], slot')
  BY <1>3 DEF InPlace
<1>4. \A q \in Tasks : KindOf(q, task'[q]) /\ InSlot(q, task'[q], slot')
  BY <1>2, <1>3
<1>5. InLine'
  <2> SUFFICES ASSUME NEW q \in Tasks PROVE InSlot(q, task'[q], slot')
    BY DEF InLine, InSlot
  <2> QED BY <1>4
<1>6. \A q \in Tasks : task'[q].pc \in InFlightPCs \cup {"idle", "queue", "admitted", "stream", "cut", "move", "down"}
  BY <1>1 DEF Recs
<1> QED BY <1>1, <1>4, <1>5, <1>6

\* The queues of the models' locks.
LEMMA QueuesKept ==
    ASSUME LoadInv, NEW p, OthersRest(p),
           p \in LoadTasks => QueueActs(p) /\ KindOf(p, task'[p]),
           p \notin LoadTasks => queue' = queue
    PROVE  queue' \in [Models -> Seq(LoadTasks)] /\ Queued'
<1> USE DEF LoadInv
<1>1. queue \in [Models -> Seq(LoadTasks)] /\ task \in [Tasks -> Recs] /\ LoadTasks \subseteq Tasks
  BY TypedFacts
<1>2. ASSUME NEW q \in LoadTasks, q # p, task'[q].pc = "queue"
      PROVE  /\ task'[q] = task[q] /\ task[q].model \in Models
             /\ \E i \in 1..Len(queue[task[q].model]) : queue[task[q].model][i] = q
  <2>1. task'[q] = task[q]
    BY <1>1, <1>2 DEF OthersRest, Recs
  <2> QED BY <1>1, <1>2, <2>1, SlotNames DEF Typed, Queued
<1>3. CASE queue' = queue /\ (p \in LoadTasks => task'[p].pc # "queue")
  <2> SUFFICES ASSUME NEW q \in LoadTasks, task'[q].pc = "queue"
               PROVE  \E i \in 1..Len(queue[task'[q].model]) : queue[task'[q].model][i] = q
    BY <1>1, <1>3 DEF Queued
  <2> QED BY <1>2, <1>3
<1>4. ASSUME p \in LoadTasks, task'[p].pc = "queue", queue' = [queue EXCEPT ![task'[p].model] = Append(@, p)]
      PROVE  queue' \in [Models -> Seq(LoadTasks)] /\ Queued'
  <2> DEFINE m == task'[p].model
             t == Append(queue[m], p)
  <2>1. m \in Models
    BY <1>4 DEF KindOf
  <2>2. /\ t \in Seq(LoadTasks) /\ Len(t) = Len(queue[m]) + 1 /\ Len(queue[m]) \in Nat
        /\ \A i \in 1..Len(queue[m]) : t[i] = queue[m][i]
        /\ t[Len(queue[m]) + 1] = p
    BY <1>1, <1>4, <2>1, AppendProperties, LenProperties
  <2>3. queue' = [queue EXCEPT ![m] = t]
    BY <1>4
  <2> HIDE DEF t, m
  <2>4. queue' \in [Models -> Seq(LoadTasks)] /\ queue'[m] = t /\ \A n \in Models \ {m} : queue'[n] = queue[n]
    BY <1>1, <2>1, <2>2, <2>3
  <2>5. ASSUME NEW q \in LoadTasks, task'[q].pc = "queue"
        PROVE  \E i \in 1..Len(queue'[task'[q].model]) : queue'[task'[q].model][i] = q
    <3>1. CASE q = p
      <4>1. Len(queue[m]) + 1 \in 1..Len(t)
        BY <2>2
      <4>2. task'[q].model = m
        BY <3>1 DEF m
      <4> QED BY <2>2, <2>4, <3>1, <4>1, <4>2
    <3>2. CASE q # p
      <4>1. PICK i \in 1..Len(queue[task[q].model]) : queue[task[q].model][i] = q
        BY <1>2, <2>5, <3>2
      <4>2. task'[q] = task[q] /\ task[q].model \in Models
        BY <1>2, <2>5, <3>2
      <4>3. CASE task[q].model = m
        <5>1. i \in 1..Len(t) /\ t[i] = q
          BY <2>2, <4>1, <4>3
        <5> QED BY <2>4, <4>2, <4>3, <5>1
      <4>4. CASE task[q].model # m
        BY <2>4, <4>1, <4>2, <4>4
      <4> QED BY <4>3, <4>4
    <3> QED BY <3>1, <3>2
  <2> QED BY <2>4, <2>5 DEF Queued
<1>5. ASSUME p \in LoadTasks, task'[p].pc # "queue",
             NEW m \in Models, queue[m] # <<>>, Head(queue[m]) = p, queue' = [queue EXCEPT ![m] = Tail(@)]
      PROVE  queue' \in [Models -> Seq(LoadTasks)] /\ Queued'
  <2> DEFINE t == Tail(queue[m])
  <2>1. queue[m] \in Seq(LoadTasks)
    BY <1>1
  <2>2. /\ t \in Seq(LoadTasks) /\ Len(t) = Len(queue[m]) - 1 /\ Len(queue[m]) \in Nat
        /\ \A i \in 1..Len(t) : t[i] = queue[m][i + 1]
        /\ queue[m][1] = p
    BY <1>5, <2>1, HeadTailProperties, LenProperties
  <2>3. queue' = [queue EXCEPT ![m] = t]
    BY <1>5
  <2> HIDE DEF t
  <2>4. queue' \in [Models -> Seq(LoadTasks)] /\ queue'[m] = t /\ \A n \in Models \ {m} : queue'[n] = queue[n]
    BY <1>1, <2>2, <2>3
  <2>5. ASSUME NEW q \in LoadTasks, task'[q].pc = "queue"
        PROVE  \E i \in 1..Len(queue'[task'[q].model]) : queue'[task'[q].model][i] = q
    <3>1. q # p
      BY <1>5, <2>5
    <3>2. PICK i \in 1..Len(queue[task[q].model]) : queue[task[q].model][i] = q
      BY <1>2, <2>5, <3>1
    <3>3. task'[q] = task[q] /\ task[q].model \in Models
      BY <1>2, <2>5, <3>1
    <3>4. CASE task[q].model = m
      <4>1. i # 1 /\ i \in Nat /\ i <= Len(queue[m])
        BY <2>2, <3>1, <3>2, <3>4
      <4>2. i - 1 \in 1..Len(t) /\ t[i - 1] = queue[m][(i - 1) + 1] /\ (i - 1) + 1 = i
        BY <2>2, <3>2, <4>1
      <4>3. t[i - 1] = q
        BY <3>2, <3>4, <4>2
      <4> QED BY <2>4, <3>3, <3>4, <4>2, <4>3
    <3>5. CASE task[q].model # m
      BY <2>4, <3>2, <3>3, <3>5
    <3> QED BY <3>4, <3>5
  <2> QED BY <2>4, <2>5 DEF Queued
<1> QED BY <1>1, <1>3, <1>4, <1>5 DEF QueueActs

\* The counts of the children: none grows, and nobody's request is forgotten.
LEMMA CountsKept ==
    ASSUME LoadInv, NEW p, OthersRest(p), child' \in [Models -> Children],
           p \in Tasks => task[p].pc \notin {"stream", "cut"},
           \A n \in Models : child'[n].active <= child[n].active \/ child'[n].active = 0
    PROVE  Counted'
<1> USE DEF LoadInv
<1> SUFFICES ASSUME NEW m \in Models PROVE child'[m].active <= Cardinality(Begun(m)')
  BY DEF Counted
<1> DEFINE S == Begun(m)
           T == Begun(m)'
<1>1. S \subseteq T
  <2> SUFFICES ASSUME NEW r \in Requests, task[r].pc \in {"stream", "cut"}, task[r].model = m
               PROVE  task'[r].pc \in {"stream", "cut"} /\ task'[r].model = m
    BY DEF Begun
  <2>1. r \in Tasks /\ r # p /\ task[r] \in Recs
    BY TypedFacts DEF Tasks, LoadTasks
  <2> QED BY <2>1 DEF OthersRest, Recs
<1>2. IsFiniteSet(Requests) /\ S \subseteq Requests /\ T \subseteq Requests
  BY LoadManagerAssumption DEF Begun
<1>3. child[m].active <= Cardinality(S)
  BY DEF Typed, Counted
<1> HIDE DEF S, T
<1>4. IsFiniteSet(T)
  BY <1>2, FS_Subset
<1>5. Cardinality(S) <= Cardinality(T) /\ IsFiniteSet(S)
  BY <1>1, <1>4, FS_Subset
<1>6. Cardinality(S) \in Nat /\ Cardinality(T) \in Nat
  BY <1>4, <1>5, FS_CardinalityType
<1>7. Cardinality(Requests) \in Nat
  BY <1>2, FS_CardinalityType
<1>8. child[m].active \in Nat /\ child'[m].active \in Nat
  BY <1>7, TypedFacts DEF Children
<1>9. child'[m].active <= Cardinality(T)
  BY <1>3, <1>5, <1>6, <1>8
<1> QED BY <1>9 DEF T

\* The gate.
LEMMA GateKept ==
    ASSUME LoadInv, NEW p, OthersRest(p),
           p \in LoadTasks => /\ GateActs(p) /\ KindOf(p, task'[p])
                              /\ task[p].pc = "gate" => p \in owners,
           p \notin LoadTasks => UNCHANGED <<owners, line>>
    PROVE  GateHeld' /\ owners' \subseteq LoadTasks /\ line' \subseteq LoadTasks \X (1..3)
<1> USE DEF LoadInv
<1>1. /\ owners \subseteq LoadTasks /\ line \subseteq LoadTasks \X (1..3) /\ LoadTasks \subseteq Tasks
      /\ \A w \in line : w[1] \in LoadTasks
  BY TypedFacts DEF Typed, TypeOK
<1>2. \A q \in LoadTasks \ {p} : /\ task'[q].pc \in InFlightPCs \/ task[q].pc \in InFlightPCs => task'[q] = task[q]
  BY <1>1, TypedFacts DEF OthersRest, Recs, InFlightPCs
<1>3. p \in LoadTasks /\ task[p].pc \in InFlightPCs => p \in owners
  BY DEF GateHeld, PastGate
<1>4. CASE UNCHANGED <<owners, line>> /\ (p \in LoadTasks => task[p].pc \notin InFlightPCs /\ task'[p].pc \notin InFlightPCs)
  <2>1. p \notin owners /\ \A w \in line : w[1] # p
    BY <1>1, <1>4 DEF GateHeld, InFlightPCs
  <2>2. \A q \in LoadTasks : task'[q].pc \in PastGate => q \in owners
    BY <1>2, <1>4 DEF GateHeld, PastGate
  <2>3. \A q \in owners : task'[q].pc \in InFlightPCs
    BY <1>1, <1>2, <2>1 DEF GateHeld
  <2>4. \A w \in line : task'[w[1]].pc = "gate" /\ w[1] \notin owners
    BY <1>1, <1>2, <2>1 DEF GateHeld, InFlightPCs
  <2> QED BY <1>1, <1>4, <2>2, <2>3, <2>4 DEF GateHeld
<1>5. ASSUME p \in LoadTasks, task'[p].pc \in PastGate, MayPass(p), KeepGate(p)
      PROVE  GateHeld' /\ owners' \subseteq LoadTasks /\ line' \subseteq LoadTasks \X (1..3)
  <2>1. owners' = {p} /\ line' = line
    BY <1>5 DEF MayPass, KeepGate, GateHeld, Gate!Enter, gateVars
  <2>2. \A w \in line : w[1] # p
    BY <1>3, <1>5 DEF GateHeld, InFlightPCs
  <2>3. \A q \in LoadTasks \ {p} : task'[q].pc \notin PastGate
    BY <1>2, <1>5 DEF GateHeld, PastGate, MayPass
  <2>4. \A w \in line : task'[w[1]].pc = "gate"
    BY <1>1, <1>2, <2>2 DEF GateHeld, InFlightPCs
  <2> QED BY <1>1, <1>5, <2>1, <2>2, <2>3, <2>4 DEF GateHeld, PastGate
<1>6. ASSUME p \in LoadTasks, task'[p].pc = "gate", task[p].pc \notin InFlightPCs, Gate!Queue(p, ModelTier[task'[p].model])
      PROVE  GateHeld' /\ owners' \subseteq LoadTasks /\ line' \subseteq LoadTasks \X (1..3)
  <2> DEFINE x == <<p, ModelTier[task'[p].model]>>
  <2>1. owners' = owners /\ line' = line \cup {x} /\ p \notin owners /\ \A w \in line : w[1] # p
    BY <1>6 DEF Gate!Queue
  <2>2. task'[p].model \in Models
    BY <1>6 DEF KindOf
  <2>3. x \in LoadTasks \X (1..3) /\ x[1] = p
    BY <1>6, <2>2, LoadManagerAssumption
  <2> HIDE DEF x
  <2>4. \A q \in LoadTasks : task'[q].pc \in PastGate => q \in owners
    BY <1>2, <1>6 DEF GateHeld, PastGate
  <2>5. \A q \in owners : task'[q].pc \in InFlightPCs
    BY <1>1, <1>2, <2>1 DEF GateHeld
  <2>6. \A w \in line' : task'[w[1]].pc = "gate" /\ w[1] \notin owners
    BY <1>1, <1>2, <1>6, <2>1, <2>3 DEF GateHeld, InFlightPCs
  <2>7. \A v, w \in line' : v[1] = w[1] => v = w
    BY <2>1, <2>3 DEF GateHeld
  <2> QED BY <1>1, <2>1, <2>3, <2>4, <2>5, <2>6, <2>7 DEF GateHeld
<1>7. ASSUME p \in LoadTasks, task'[p].pc \notin InFlightPCs, Gate!Pass(p)
      PROVE  GateHeld' /\ owners' \subseteq LoadTasks /\ line' \subseteq LoadTasks \X (1..3)
  <2>1. owners = {p}
    BY <1>7 DEF Gate!Pass
  <2>2. \A q \in LoadTasks : task'[q].pc \notin PastGate
    BY <1>2, <1>7, <2>1 DEF GateHeld, PastGate
  <2>3. \A w \in line : w[1] # p /\ task'[w[1]].pc = "gate"
    BY <1>1, <1>2, <2>1 DEF GateHeld, InFlightPCs
  <2>4. CASE line = {} /\ owners' = {} /\ line' = line
    BY <2>2, <2>4 DEF GateHeld
  <2>5. ASSUME NEW w \in line, owners' = {w[1]}, line' = line \ {w}
        PROVE  GateHeld' /\ owners' \subseteq LoadTasks /\ line' \subseteq LoadTasks \X (1..3)
    <3>1. \A v \in line' : v[1] # w[1]
      BY <2>5 DEF GateHeld
    <3>2. \A v, z \in line' : v[1] = z[1] => v = z
      BY <2>5 DEF GateHeld
    <3>3. task'[w[1]].pc \in InFlightPCs
      BY <2>3 DEF InFlightPCs
    <3>4. \A v \in line' : task'[v[1]].pc = "gate"
      BY <2>3, <2>5
    <3>5. /\ \A a, b \in owners' : a = b
          /\ \A q \in LoadTasks : task'[q].pc \in PastGate => q \in owners'
          /\ \A q \in owners' : task'[q].pc \in InFlightPCs
          /\ \A v \in line' : task'[v[1]].pc = "gate" /\ v[1] \notin owners'
      BY <2>2, <2>5, <3>1, <3>3, <3>4
    <3> QED BY <1>1, <2>5, <3>2, <3>5 DEF GateHeld
  <2> QED BY <1>7, <2>4, <2>5 DEF Gate!Pass
<1>8. ASSUME p \in LoadTasks, task'[p].pc \notin InFlightPCs, owners = {}, UNCHANGED gateVars
      PROVE  GateHeld' /\ owners' \subseteq LoadTasks /\ line' \subseteq LoadTasks \X (1..3)
  BY <1>3, <1>4, <1>8 DEF gateVars
<1> QED BY <1>4, <1>5, <1>6, <1>7, <1>8 DEF GateActs, gateVars

\* The room of the card and the plans that count on it.
LEMMA RoomKept ==
    ASSUME LoadInv, Shrinks
    PROVE  RoomHolds'
<1> USE DEF LoadInv
<1> SUFFICES ASSUME ~Crashes, NEW c \in Cards PROVE Taken(child', c, {}) <= Room
  BY DEF RoomHolds, RoomEnough, Taken, OnCard
<1>1. OnCard(child', c) \ {} \subseteq OnCard(child, c) \ {}
  BY DEF Shrinks
<1>2. Taken(child', c, {}) <= Taken(child, c, {})
  BY <1>1, TakenLess
<1>3. Taken(child, c, {}) <= Room
  BY DEF RoomHolds, RoomEnough
<1>4. Taken(child', c, {}) \in Nat /\ Taken(child, c, {}) \in Nat /\ Room \in Nat
  BY TakenIs, LoadManagerAssumption
<1> QED BY <1>2, <1>3, <1>4

LEMMA LaunchRoom ==
    ASSUME LoadInv, NEW p, NEW r \in Recs, r.model \in Models, r.card \in Cards, NEW w, Fading(p, w), Fits(w, r, {}),
           child' = [w EXCEPT ![r.model] = LaunchOf(r)]
    PROVE  RoomHolds'
<1> USE DEF LoadInv
<1> DEFINE m == r.model
<1> SUFFICES ASSUME ~Crashes, NEW c \in Cards PROVE Taken(child', c, {}) <= Room
  BY DEF RoomHolds, RoomEnough, Taken, OnCard
<1>1. /\ w \in [Models -> Children] /\ child'[m] = LaunchOf(r) /\ LaunchOf(r).card = r.card
      /\ \A n \in Models \ {m} : child'[n] = w[n]
  BY DEF Fading, LaunchOf
<1>2. Taken(child', c, {}) \in Nat /\ Taken(child, c, {}) \in Nat /\ Taken(w, c, {}) \in Nat
      /\ Room \in Nat /\ SizeOf[m] \in Nat
  BY TakenIs, LoadManagerAssumption
<1>3. CASE c = r.card
  <2>1. OnCard(child', c) \subseteq OnCard(w, c) \cup {m}
    BY <1>1 DEF OnCard
  <2>2. Taken(child', c, {}) <= Taken(w, c, {}) + SizeOf[m]
    BY <2>1, TakenMore
  <2>3. Taken(w, c, {}) + SizeOf[m] <= Room
    BY <1>3 DEF Fits
  <2> QED BY <1>2, <2>2, <2>3
<1>4. CASE c # r.card
  <2>1. OnCard(child', c) \subseteq OnCard(w, c)
    BY <1>1, <1>4 DEF OnCard
  <2>2. OnCard(child', c) \ {} \subseteq OnCard(child, c) \ {}
    BY <2>1, FadingTakes
  <2>3. Taken(child', c, {}) <= Taken(child, c, {}) /\ Taken(child, c, {}) <= Room
    BY <2>2, TakenLess DEF RoomHolds, RoomEnough
  <2> QED BY <1>2, <2>3
<1> QED BY <1>3, <1>4

\* Who launches has the gate, so no plan of another counts on the room it takes.
LEMMA PlansKept ==
    ASSUME LoadInv, NEW p, OthersRest(p), Shrinks \/ (p \in LoadTasks /\ MayPass(p)),
           p \in LoadTasks => PlanHolds(task'[p], child'),
           (\A c \in Cards : lease'[c] \in {lease[c], None}) \/ (p \notin LoadTasks /\ Loading = {})
    PROVE  PlansHold'
<1> USE DEF LoadInv
<1>1. task \in [Tasks -> Recs] /\ LoadTasks \subseteq Tasks
  BY TypedFacts
<1> SUFFICES ASSUME NEW q \in LoadTasks, Planned(task'[q])
             PROVE  LET r == task'[q] IN
                    /\ r.card \in Cards /\ ~(lease'[r.card] # None /\ r.model \notin OwnersOf[lease'[r.card]])
                    /\ r.pc # "start" => Fits(child', r, Spared(r))
  BY DEF PlansHold, PlanHolds, Planned, Fits, Spared, Blocked, Taken, OnCard
<1> DEFINE r == task'[q]
<1>2. r.pc \in PastGate
  BY DEF Planned, PastGate, InFlightPCs
<1>3. r.card \in Cards /\ ~Blocked(r.card, r.model) /\ (r.pc # "start" => Fits(child', r, Spared(r)))
  <2>1. CASE q = p
    BY <2>1 DEF PlanHolds
  <2>2. CASE q # p
    <3>1. task'[q] = task[q]
      BY <1>1, <1>2, <2>2 DEF OthersRest, Recs, PastGate, InFlightPCs
    <3>2. q \in owners
      BY <1>2, <3>1 DEF GateHeld
    <3>3. Shrinks
      BY <2>2, <3>2 DEF MayPass, GateHeld
    <3>4. r.card \in Cards /\ ~Blocked(r.card, r.model) /\ (r.pc # "start" => Fits(child, r, Spared(r)))
      BY <3>1 DEF PlansHold, PlanHolds
    <3>5. OnCard(child', r.card) \ Spared(r) \subseteq OnCard(child, r.card) \ Spared(r)
      BY <3>3, <3>4 DEF Shrinks
    <3>6. Taken(child', r.card, Spared(r)) <= Taken(child, r.card, Spared(r))
      BY <3>5, TakenLess
    <3>7. Taken(child', r.card, Spared(r)) \in Nat /\ Taken(child, r.card, Spared(r)) \in Nat
      BY TakenIs
    <3>8. SizeOf[r.model] \in Nat /\ Room \in Nat
      <4>1. r.model \in Models
        BY <1>1, <1>2, <3>1 DEF Typed, KindOf, PastGate, InFlightPCs
      <4> QED BY <4>1, LoadManagerAssumption
    <3> HIDE DEF r
    <3>9. r.pc # "start" => Fits(child', r, Spared(r))
      BY <3>4, <3>6, <3>7, <3>8 DEF Fits
    <3> QED BY <3>4, <3>9
  <2> QED BY <2>1, <2>2
<1>4. lease'[r.card] \in {lease[r.card], None}
  <2>1. CASE p \notin LoadTasks /\ Loading = {}
    <3>1. task'[q] = task[q]
      BY <1>1, <1>2, <2>1 DEF OthersRest, Recs, PastGate, InFlightPCs
    <3> QED BY <1>2, <2>1, <3>1 DEF Loading, PastGate
  <2> QED BY <1>3, <2>1
<1> QED BY <1>3, <1>4 DEF Blocked

\* Launches.
LEMMA LaunchesKept ==
    ASSUME LoadInv, NEW p, OthersRest(p), Fading(p, child'),
           p \in LoadTasks => Left(p, child') /\ task'[p].pc # "start"
    PROVE  Launches'
<1> USE DEF LoadInv
<1>1. task \in [Tasks -> Recs] /\ LoadTasks \subseteq Tasks /\ child \in [Models -> Children]
  BY TypedFacts
<1>2. ASSUME NEW q \in LoadTasks, task[q].pc = "start", q # p
      PROVE  task'[q] = task[q] /\ task[q].model \in Models /\ child'[task[q].model] = child[task[q].model]
  <2>1. q \in Tasks \ {p} /\ task[q].model \in Models
    BY <1>1, <1>2, SlotNames
  <2>2. ~Alone(p, task[q].model)
    BY <1>2, <2>1 DEF Alone
  <2> QED BY <1>1, <1>2, <2>1, <2>2 DEF OthersRest, Fading, Faded
<1>3. ASSUME NEW q \in LoadTasks, task'[q].pc = "start"
      PROVE  child'[task'[q].model].state = "loading" /\ child'[task'[q].model].card = task'[q].card
  <2>1. q # p /\ task[q].pc = "start"
    BY <1>1, <1>3 DEF OthersRest, Recs
  <2> QED BY <1>2, <1>3, <2>1 DEF Launches
<1>4. ASSUME ~Crashes, NEW m \in Models, child'[m].state = "loading"
      PROVE  \E q \in LoadTasks : task'[q].pc = "start" /\ task'[q].model = m
  <2>1. child[m].state = "loading"
    BY <1>1, <1>4, NoChildIs DEF Fading, Faded, Children
  <2>2. PICK q \in LoadTasks : task[q].pc = "start" /\ task[q].model = m
    BY <1>4, <2>1 DEF Launches, Launching
  <2>3. q # p
    BY <1>4, <2>2 DEF Left
  <2> QED BY <1>2, <2>2, <2>3
<1> QED BY <1>3, <1>4 DEF Launches, Launching

LEMMA LaunchLaunches ==
    ASSUME LoadInv, NEW p \in LoadTasks, OthersRest(p), MayPass(p), task[p].pc # "start", task'[p].pc = "start",
           task'[p].model \in Models, NEW w, Fading(p, w), child' = [w EXCEPT ![task'[p].model] = LaunchOf(task'[p])]
    PROVE  Launches'
<1> USE DEF LoadInv
<1> DEFINE r == task'[p]
<1>1. task \in [Tasks -> Recs] /\ LoadTasks \subseteq Tasks /\ child \in [Models -> Children]
  BY TypedFacts
<1>2. ASSUME NEW q \in LoadTasks PROVE task[q].pc # "start"
  BY <1>2 DEF GateHeld, MayPass, PastGate, InFlightPCs
<1>3. /\ w \in [Models -> Children] /\ child'[r.model] = LaunchOf(r)
      /\ \A n \in Models \ {r.model} : child'[n] = w[n]
  BY DEF Fading
<1>4. LaunchOf(r).state = "loading" /\ LaunchOf(r).card = r.card
  BY DEF LaunchOf
<1>5. ASSUME NEW q \in LoadTasks, task'[q].pc = "start"
      PROVE  child'[task'[q].model].state = "loading" /\ child'[task'[q].model].card = task'[q].card
  <2>1. q = p
    BY <1>1, <1>2, <1>5 DEF OthersRest, Recs
  <2> QED BY <1>3, <1>4, <2>1
<1>6. ASSUME ~Crashes, NEW m \in Models, child'[m].state = "loading"
      PROVE  \E q \in LoadTasks : task'[q].pc = "start" /\ task'[q].model = m
  <2>1. CASE m = r.model
    BY <2>1
  <2>2. CASE m # r.model
    <3>1. child[m].state = "loading"
      BY <1>1, <1>3, <1>6, <2>2, NoChildIs DEF Fading, Faded, Children
    <3> QED BY <1>2, <1>6, <3>1 DEF Launches, Launching
  <2> QED BY <2>1, <2>2
<1> QED BY <1>5, <1>6 DEF Launches, Launching

\* A launch goes to no card that is leased away.
LEMMA LaunchLeases ==
    ASSUME LoadInv, NEW p \in LoadTasks, OthersRest(p), lease' = lease, NEW w, Fading(p, w),
           NEW r, r.model \in Models, ~Blocked(r.card, r.model),
           child' = [w EXCEPT ![r.model] = LaunchOf(r)]
    PROVE  LeaseHonoured'
<1> USE DEF LoadInv
<1> SUFFICES ASSUME NEW c \in Cards, NEW n \in OnCard(child', c), Blocked(c, n)
             PROVE  child'[n].state = "unloading" \/ n \in task'[lease[c]].todo \cup {task'[lease[c]].victim}
  BY DEF LeaseHonoured, Blocked
<1>1. /\ w \in [Models -> Children] /\ child'[r.model] = LaunchOf(r) /\ LaunchOf(r).card = r.card
      /\ \A x \in Models \ {r.model} : child'[x] = w[x]
  BY DEF Fading, LaunchOf
<1>2. n \in Models /\ n # r.model
  BY <1>1 DEF OnCard
<1>3. n \in OnCard(w, c) /\ n \in OnCard(child, c)
  BY <1>1, <1>2, FadingTakes DEF OnCard
<1>4. lease[c] \in Grants /\ lease[c] \in Tasks /\ lease[c] # p /\ task[lease[c]] \in Recs
  BY TypedFacts, LoadManagerAssumption DEF Blocked, Tasks
<1>5. task'[lease[c]].todo = task[lease[c]].todo /\ task'[lease[c]].victim = task[lease[c]].victim
  BY <1>4 DEF OthersRest, Recs
<1>6. child[n].state = "unloading" => child'[n].state = "unloading"
  <2>1. w[n] = child[n] \/ w[n] = NoChild \/ w[n] = [child[n] EXCEPT !.state = "unloading"]
    BY <1>2 DEF Fading, Faded
  <2>2. w[n].state # "none" /\ child[n] \in Children
    BY <1>2, <1>3, TypedFacts DEF OnCard
  <2> QED BY <1>1, <1>2, <2>1, <2>2, NoChildIs DEF Children
<1> QED BY <1>3, <1>5, <1>6 DEF LeaseHonoured

\* The rebalancer's loads.
LEMMA MovingKept ==
    ASSUME LoadInv, NEW p, OthersRest(p), p \in Rebalancer => MoverOK(task'[p])
    PROVE  Moving'
<1> USE DEF LoadInv
<1> SUFFICES ASSUME NEW q \in Rebalancer PROVE MoverOK(task'[q])
  BY DEF Moving, MoverOK, Mover
<1>1. q \in Tasks /\ q \notin Requests
  BY LoadManagerAssumption DEF Tasks, LoadTasks
<1>2. q # p => task'[q] = task[q]
  BY <1>1 DEF OthersRest
<1> QED BY <1>2 DEF Moving

\* The kick of the restore pass.
LEMMA RestoreKept ==
    ASSUME LoadInv, NEW p, OthersRest(p),
           p \in LoadTasks => RestoreActs(p),
           p \notin LoadTasks => entries' \subseteq entries /\ restoring' = restoring
    PROVE  RestoreComing'
<1> USE DEF LoadInv
<1> SUFFICES ASSUME entries' # {}, ~restoring' PROVE \E q \in LoadTasks : task'[q].pc \in InFlightPCs
  BY DEF RestoreComing, Loading
<1>1. CASE p \in LoadTasks /\ task'[p].pc \in InFlightPCs
  BY <1>1
<1>2. CASE entries' \subseteq entries /\ restoring' = restoring /\ (p \in LoadTasks => task[p].pc \notin InFlightPCs)
  <2>1. Loading # {}
    BY <1>2 DEF RestoreComing
  <2>2. PICK q \in LoadTasks : task[q].pc \in InFlightPCs
    BY <2>1 DEF Loading
  <2>3. q \in Tasks /\ q # p /\ task[q].pc # "stream"
    BY <1>2, <2>2 DEF Tasks, InFlightPCs
  <2> QED BY <2>2, <2>3 DEF OthersRest
<1> QED BY <1>1, <1>2 DEF RestoreActs

-----------------------------------------------------------------------------
\* Every step keeps the invariant.

\* Children that were not launched are counted as they were.
LEMMA FadingCounts ==
    ASSUME Typed, NEW p, NEW w, Fading(p, w), NEW n \in Models
    PROVE  w[n].active <= child[n].active \/ w[n].active = 0
<1>1. child[n] \in Children
  BY TypedFacts
<1>2. child[n].active \in Nat
  <2>1. Cardinality(Requests) \in Nat
    BY LoadManagerAssumption, FS_CardinalityType
  <2> QED BY <1>1, <2>1 DEF Children
<1>3. w[n] = child[n] \/ w[n] = NoChild \/ w[n] = [child[n] EXCEPT !.state = "unloading"]
  BY DEF Fading, Faded
<1> QED BY <1>1, <1>2, <1>3, NoChildIs DEF Children

\* The parts put together.
LEMMA Together ==
    ASSUME LoadInv, NEW p, OthersRest(p), SlotsFor(p, slot'), p \in Tasks => InPlace(p),
           p \in LoadTasks => /\ QueueActs(p) /\ GateActs(p) /\ RestoreActs(p)
                              /\ task[p].pc = "gate" => p \in owners,
           p \notin LoadTasks => UNCHANGED <<queue, owners, line, restoring>> /\ entries' \subseteq entries,
           p \in Rebalancer => MoverOK(task'[p]),
           child' \in [Models -> Children], Counted', PlansHold', Launches', RoomHolds', LeaseHonoured',
           lease' \in [Cards -> Grants \cup {None}], \A c \in Cards : lease'[c] # None => CardOf[lease'[c]] = c,
           entries' \cup suppressed' \cup skewed' \cup downed' \subseteq Models, restoring' \in BOOLEAN
    PROVE  LoadInv'
<1> USE DEF LoadInv
<1>1. p \in LoadTasks => KindOf(p, task'[p])
  BY DEF InPlace, Tasks
<1>2. /\ task' \in [Tasks -> Recs] /\ \A q \in Tasks : KindOf(q, task'[q])
      /\ InLine' /\ slot' \in [Models -> Seq(Tasks)]
      /\ \A q \in Tasks : task'[q].pc \in InFlightPCs \cup {"idle", "queue", "admitted", "stream", "cut", "move", "down"}
  BY TasksKept
<1>3. queue' \in [Models -> Seq(LoadTasks)] /\ Queued'
  BY <1>1, QueuesKept
<1>4. GateHeld' /\ owners' \subseteq LoadTasks /\ line' \subseteq LoadTasks \X (1..3)
  BY <1>1, GateKept
<1>5. Moving' /\ RestoreComing'
  BY MovingKept, RestoreKept
<1>6. TypeOK'
  BY <1>2, <1>3, <1>4 DEF TypeOK, Children
<1>7. Typed'
  <2>1. \A q \in Tasks : KindOf(q, task[q])'
    BY <1>2 DEF KindOf
  <2> QED BY <1>2, <1>3, <1>6, <2>1 DEF Typed, Children, Recs
<1> QED BY <1>4, <1>5, <1>7

LEMMA LoadActsKeep ==
    ASSUME LoadInv, NEW p, LoadActs(p)
    PROVE  LoadInv'
<1> USE DEF LoadInv
<1>1. /\ p \in LoadTasks /\ p \in Tasks /\ p \notin Grants /\ task[p].pc \notin {"admitted", "stream", "cut"}
      /\ task[p].pc = "gate" => p \in owners
      /\ Acts(p) /\ QueueActs(p) /\ lease' = lease /\ skewed' = skewed /\ downed' \subseteq Models
  BY LoadManagerAssumption DEF LoadActs, Tasks
<1>2. /\ OthersRest(p) /\ InPlace(p) /\ KindOf(p, task'[p]) /\ SlotsFor(p, slot')
      /\ ChildActs(p) /\ GateActs(p) /\ RestoreActs(p) /\ PlanHolds(task'[p], child')
      /\ p \in Rebalancer => MoverOK(task'[p])
      /\ entries' \subseteq Models /\ suppressed' \subseteq Models /\ restoring' \in BOOLEAN
  BY <1>1 DEF Acts, InPlace
<1>3. \A c \in Cards : lease'[c] \in {lease[c], None}
  BY <1>1
<1>4. /\ child' \in [Models -> Children] /\ RoomHolds' /\ Launches' /\ LeaseHonoured' /\ PlansHold'
      /\ \A n \in Models : child'[n].active <= child[n].active \/ child'[n].active = 0
  <2>1. CASE task'[p].pc # "start" /\ Fading(p, child') /\ Left(p, child')
    <3>1. Shrinks
      BY <2>1, FadingShrinks
    <3>2. RoomHolds' /\ Launches' /\ PlansHold'
      BY <1>1, <1>2, <1>3, <2>1, <3>1, RoomKept, LaunchesKept, PlansKept
    <3>3. LeaseHonoured'
      BY <1>1, <1>2, <3>1, LeasesAsTheyAre DEF LeaseActs
    <3> QED BY <2>1, <3>2, <3>3, FadingCounts DEF Fading
  <2>2. ASSUME task[p].pc # "start", task'[p].pc = "start", task'[p].model \in Models,
               NEW w, Fading(p, w), Fits(w, task'[p], {}), child' = [w EXCEPT ![task'[p].model] = LaunchOf(task'[p])]
        PROVE  /\ child' \in [Models -> Children] /\ RoomHolds' /\ Launches' /\ LeaseHonoured' /\ PlansHold'
               /\ \A n \in Models : child'[n].active <= child[n].active \/ child'[n].active = 0
    <3> DEFINE r == task'[p]
    <3>1. MayPass(p)
      BY <1>2, <2>2 DEF GateActs, InFlightPCs
    <3>2. r.card \in Cards /\ ~Blocked(r.card, r.model) /\ r \in Recs
      BY <1>1, <1>2, <2>2 DEF PlanHolds, Planned, OthersRest
    <3>3. RoomHolds' /\ Launches' /\ PlansHold' /\ LeaseHonoured'
      BY <1>1, <1>2, <1>3, <2>2, <3>1, <3>2, LaunchRoom, LaunchLaunches, PlansKept, LaunchLeases
    <3>4. LaunchOf(r) \in Children /\ LaunchOf(r).active = 0
      BY <3>2, NoChildIs DEF LaunchOf, Children, NoChild
    <3>5. child' \in [Models -> Children] /\ \A n \in Models : child'[n] = w[n] \/ child'[n].active = 0
      BY <2>2, <3>4 DEF Fading
    <3> QED BY <2>2, <3>3, <3>5, FadingCounts
  <2> QED BY <1>2, <2>1, <2>2 DEF ChildActs
<1>5. Counted'
  BY <1>1, <1>2, <1>4, CountsKept
<1>6. /\ lease' \in [Cards -> Grants \cup {None}]
      /\ \A c \in Cards : lease'[c] # None => CardOf[lease'[c]] = c
      /\ entries' \cup suppressed' \cup skewed' \cup downed' \subseteq Models
  BY <1>1, <1>2, TypedFacts DEF Typed, TypeOK
<1> QED BY <1>1, <1>2, <1>4, <1>5, <1>6, Together

LEMMA AwayActsKeep ==
    ASSUME LoadInv, NEW p, AwayActs(p), LeaseActs
    PROVE  LoadInv'
<1> USE DEF LoadInv
<1>1. /\ p \in Tasks \ LoadTasks /\ p \notin Rebalancer /\ InPlace(p) /\ Fading(p, child')
      /\ UNCHANGED <<queue, owners, line, restoring>>
      /\ entries' \subseteq entries /\ suppressed' \subseteq Models
      /\ skewed' \subseteq Models /\ downed' \subseteq Models
  BY DEF AwayActs, LoadTasks
<1>2. OthersRest(p) /\ KindOf(p, task'[p]) /\ SlotsFor(p, slot') /\ Shrinks /\ child' \in [Models -> Children]
  BY <1>1, FadingShrinks DEF InPlace, Fading
<1>3. task[p].pc \notin {"stream", "cut"}
  BY <1>1 DEF Typed, KindOf
<1>4. RoomHolds' /\ Launches' /\ PlansHold' /\ LeaseHonoured'
  BY <1>1, <1>2, RoomKept, LaunchesKept, PlansKept DEF LeaseActs
<1>5. Counted'
  BY <1>1, <1>2, <1>3, FadingCounts, CountsKept
<1>6. /\ lease' \in [Cards -> Grants \cup {None}]
      /\ \A c \in Cards : lease'[c] # None => CardOf[lease'[c]] = c
      /\ entries' \cup suppressed' \cup skewed' \cup downed' \subseteq Models /\ restoring' \in BOOLEAN
  BY <1>1, TypedFacts DEF LeaseActs
<1> QED BY <1>1, <1>2, <1>4, <1>5, <1>6, Together

\* A child that was up or coming up is relabelled: its card and its count stay.
Relabels(m, x) ==
    /\ m \in Models /\ child[m].state \in {"ready", "loading"} /\ x \in {"ready", "loading", "failed"}
    /\ child' = [child EXCEPT ![m].state = x]

LEMMA RelabelsFacts ==
    ASSUME Typed, NEW m, NEW x, Relabels(m, x)
    PROVE  /\ Shrinks /\ child'[m].state = x
           /\ \A n \in Models : child'[n].active = child[n].active
           /\ \A n \in Models \ {m} : child'[n] = child[n]
<1>1. /\ child \in [Models -> Children] /\ m \in Models
      /\ child' = [child EXCEPT ![m].state = x] /\ x \in {"ready", "loading", "failed"}
      /\ child[m].state \in {"ready", "loading"}
  BY TypedFacts DEF Relabels
<1> DEFINE y == [child[m] EXCEPT !.state = x]
<1>2. y \in Children /\ y.state = x /\ y.card = child[m].card /\ y.active = child[m].active
  BY <1>1 DEF Children
<1>3. child' = [child EXCEPT ![m] = y]
  BY <1>1
<1> HIDE DEF y
<1>4. child' \in [Models -> Children] /\ child'[m] = y /\ \A n \in Models \ {m} : child'[n] = child[n]
  BY <1>1, <1>2, <1>3
<1>5. \A c \in Cards : OnCard(child', c) \subseteq OnCard(child, c)
  BY <1>1, <1>2, <1>4 DEF OnCard
<1>6. \A c \in Cards : \A n \in OnCard(child', c) : child[n].state = "unloading" => child'[n].state = "unloading"
  BY <1>1, <1>4 DEF OnCard
<1> QED BY <1>2, <1>4, <1>5, <1>6 DEF Shrinks

\* The children themselves: an exit, a relaunch, a relaunch given up.
LEMMA ChildStepKeeps ==
    ASSUME LoadInv, NEW m \in Models, Crash(m) \/ Relaunched(m) \/ GivenUp(m)
    PROVE  LoadInv'
<1> USE DEF LoadInv
<1>1. /\ UNCHANGED <<slot, queue, owners, line, lease, entries, restoring, suppressed, skewed, downed>>
      /\ \E x \in {"ready", "loading", "failed"} : Relabels(m, x)
  BY DEF Crash, Relaunched, GivenUp, Relabels
<1>2. PICK x \in {"ready", "loading", "failed"} : Relabels(m, x)
  BY <1>1
<1>3. /\ Shrinks /\ \A n \in Models : child'[n].active = child[n].active
      /\ \A n \in Models \ {m} : child'[n] = child[n]
  BY <1>2, RelabelsFacts
<1>4. None \notin Tasks /\ None \notin LoadTasks /\ None \notin Rebalancer /\ None \notin Grants
  BY LoadManagerAssumption DEF Tasks, LoadTasks
<1>5. OthersRest(None) /\ \A q \in Tasks : task'[q].pc = "start" \/ task[q].pc = "start" => task'[q] = task[q]
  <2>1. CASE task' = task
    BY <2>1, TypedFacts DEF OthersRest
  <2>2. CASE task' = Severed(m)
    <3>1. \A q \in Tasks : [task[q] EXCEPT !.pc = "cut"] \in Recs /\ [task[q] EXCEPT !.pc = "cut"].pc = "cut"
      <4> SUFFICES ASSUME NEW q \in Tasks
                   PROVE  [task[q] EXCEPT !.pc = "cut"] \in Recs /\ [task[q] EXCEPT !.pc = "cut"].pc = "cut"
        OBVIOUS
      <4>1. task[q] \in Recs
        BY TypedFacts
      <4> QED BY <4>1 DEF Recs
    <3>2. \A q \in Tasks : \/ task'[q] = task[q]
                           \/ q \in Requests /\ task[q].pc = "stream" /\ task'[q] = [task[q] EXCEPT !.pc = "cut"]
      BY <2>2 DEF Severed, Streams
    <3>3. task' \in [Tasks -> Recs]
      BY <2>2, <3>1, TypedFacts DEF Severed
    <3> QED BY <3>1, <3>2, <3>3 DEF OthersRest
  <2> QED BY <2>1, <2>2 DEF Crash, Relaunched, GivenUp
<1>6. \A q \in LoadTasks : task[q].pc = "start" => task[q].model # m
  BY DEF Crash, Relaunched, GivenUp, Launching, Launches
<1>7. ~Crashes => \A n \in Models : child'[n].state = "loading" => n # m
  <2> SUFFICES ASSUME ~Crashes PROVE child'[m].state # "loading"
    OBVIOUS
  <2>1. child[m].state # "loading"
    BY <1>6 DEF Launches, Launching
  <2> QED BY <2>1 DEF Crash, Relaunched, GivenUp
<1>8. Launches'
  <2>1. ASSUME NEW q \in LoadTasks, task'[q].pc = "start"
        PROVE  child'[task'[q].model].state = "loading" /\ child'[task'[q].model].card = task'[q].card
    <3>1. task'[q] = task[q] /\ task[q].model \in Models
      BY <1>5, <2>1, SlotNames DEF Tasks
    <3> QED BY <1>3, <1>6, <2>1, <3>1 DEF Launches
  <2>2. ASSUME ~Crashes, NEW n \in Models, child'[n].state = "loading"
        PROVE  \E q \in LoadTasks : task'[q].pc = "start" /\ task'[q].model = n
    <3>1. child[n].state = "loading"
      BY <1>3, <1>7, <2>2
    <3>2. PICK q \in LoadTasks : task[q].pc = "start" /\ task[q].model = n
      BY <2>2, <3>1 DEF Launches, Launching
    <3> QED BY <1>5, <3>2 DEF Tasks
  <2> QED BY <2>1, <2>2 DEF Launches, Launching
<1>9. SlotsFor(None, slot')
  BY <1>1, SlotsAsTheyAre
<1>10. child' \in [Models -> Children]
  BY <1>3 DEF Shrinks
<1>11. Counted'
  <2>1. \A n \in Models : child[n].active \in Nat
    BY LoadManagerAssumption, FS_CardinalityType, TypedFacts DEF Children
  <2>2. \A n \in Models : child'[n].active <= child[n].active \/ child'[n].active = 0
    BY <1>3, <2>1
  <2> QED BY <1>4, <1>5, <1>10, <2>2, CountsKept
<1>12. RoomHolds' /\ PlansHold'
  <2>1. \A c \in Cards : lease'[c] \in {lease[c], None}
    BY <1>1
  <2> QED BY <1>3, <1>4, <1>5, <2>1, RoomKept, PlansKept
<1>13. LeaseHonoured'
  BY <1>1, <1>3, <1>4, <1>5, LeasesAsTheyAre DEF LeaseActs
<1>14. /\ lease' \in [Cards -> Grants \cup {None}] /\ \A c \in Cards : lease'[c] # None => CardOf[lease'[c]] = c
       /\ entries' \cup suppressed' \cup skewed' \cup downed' \subseteq Models /\ restoring' \in BOOLEAN
  BY <1>1, TypedFacts DEF Typed, TypeOK
<1> QED BY <1>1, <1>4, <1>5, <1>8, <1>9, <1>10, <1>11, <1>12, <1>13, <1>14, Together

\* The launch of p succeeds.
LEMMA StartedKeeps ==
    ASSUME LoadInv, NEW p, Started(p)
    PROVE  LoadInv'
<1> USE DEF LoadInv
<1> DEFINE r == task[p]
           m == r.model
           next == Served(p, r)
<1>1. /\ p \in LoadTasks /\ p \in Tasks /\ p \notin Grants /\ r.pc = "start"
      /\ slot' = Leave(slot, m) /\ child' = [child EXCEPT ![m].state = "ready"]
      /\ suppressed' = suppressed \ {m} /\ entries' = entries \ {m} /\ LeaveAs(p, next)
      /\ queue' = queue /\ lease' = lease /\ skewed' = skewed /\ downed' = downed
  BY LoadManagerAssumption DEF Started, Loaded, Tasks
<1>2. r \in Recs /\ m \in Models /\ InSlot(p, r, slot) /\ child[m].state = "loading" /\ p \in owners
  BY <1>1, SlotNames, TypedFacts DEF Typed, InLine, Launches, GateHeld, PastGate, InFlightPCs
<1>3. next \in Recs /\ KindOf(p, next) /\ next.pc \in {"idle", "admitted"}
  BY <1>1, <1>2, Records
<1>4. task' = [task EXCEPT ![p] = next] /\ restoring' = (restoring \/ entries' # {})
      /\ IF owners = {} THEN UNCHANGED gateVars ELSE Gate!Pass(p)
  BY <1>1 DEF LeaveAs
<1> HIDE DEF next
<1>5. task'[p] = next /\ OthersRest(p) /\ \A q \in Tasks \ {p} : task'[q] = task[q]
  BY <1>1, <1>3, <1>4, TypedFacts DEF OthersRest
<1>6. SlotsFor(p, slot')
  BY <1>1, <1>2, SlotsAsTheyAre, Leaves DEF InSlot
<1>7. InPlace(p)
  BY <1>3, <1>5, <1>6 DEF InPlace, InSlot
<1>8. Relabels(m, "ready")
  BY <1>1, <1>2 DEF Relabels
<1>9. /\ Shrinks /\ child'[m].state = "ready"
      /\ \A n \in Models : child'[n].active = child[n].active
      /\ \A n \in Models \ {m} : child'[n] = child[n]
  BY <1>8, RelabelsFacts
<1>10. \A q \in LoadTasks \ {p} : task[q].pc # "start"
  BY <1>1, <1>2 DEF GateHeld, PastGate, InFlightPCs
<1>11. Launches'
  <2>1. \A q \in LoadTasks : task'[q].pc # "start"
    BY <1>3, <1>5, <1>10 DEF Tasks
  <2>2. ASSUME ~Crashes, NEW n \in Models, child'[n].state = "loading" PROVE FALSE
    <3>1. n # m /\ child[n].state = "loading"
      BY <1>9, <2>2
    <3> QED BY <1>10, <2>2, <3>1 DEF Launches, Launching
  <2> QED BY <2>1, <2>2 DEF Launches, Launching
<1>12. child' \in [Models -> Children]
  BY <1>9 DEF Shrinks
<1>13. Counted'
  <2>1. \A n \in Models : child[n].active \in Nat
    BY LoadManagerAssumption, FS_CardinalityType, TypedFacts DEF Children
  <2>2. \A n \in Models : child'[n].active <= child[n].active \/ child'[n].active = 0
    BY <1>9, <2>1
  <2> QED BY <1>1, <1>5, <1>12, <2>2, CountsKept
<1>14. RoomHolds' /\ PlansHold'
  <2>1. \A c \in Cards : lease'[c] \in {lease[c], None}
    BY <1>1
  <2>2. PlanHolds(task'[p], child')
    BY <1>3, <1>5 DEF PlanHolds, Planned
  <2> QED BY <1>5, <1>9, <2>1, <2>2, RoomKept, PlansKept
<1>15. LeaseHonoured'
  BY <1>1, <1>5, <1>9, LeasesAsTheyAre DEF LeaseActs
<1>16. /\ lease' \in [Cards -> Grants \cup {None}] /\ \A c \in Cards : lease'[c] # None => CardOf[lease'[c]] = c
       /\ entries' \cup suppressed' \cup skewed' \cup downed' \subseteq Models /\ restoring' \in BOOLEAN
  BY <1>1, <1>4, TypedFacts DEF Typed, TypeOK
<1>17. QueueActs(p) /\ GateActs(p) /\ RestoreActs(p) /\ (p \in Rebalancer => MoverOK(task'[p]))
  BY <1>1, <1>3, <1>4, <1>5 DEF QueueActs, GateActs, RestoreActs, MoverOK, InFlightPCs
<1> QED BY <1>1, <1>5, <1>6, <1>7, <1>11, <1>12, <1>13, <1>14, <1>15, <1>16, <1>17, Together

\* The requests that have begun, as one begins and as one ends.
LEMMA BegunIs ==
    ASSUME LoadInv, NEW p \in Requests, NEW m \in Models, m = task[p].model,
           NEW x \in Recs, x.model = m \/ x.pc = "idle",
           task' = [task EXCEPT ![p] = x]
    PROVE  /\ IsFiniteSet(Requests)
           /\ \A n \in Models : /\ Begun(n) \subseteq Requests /\ Begun(n)' \subseteq Requests
                                /\ n # m => Begun(n)' = Begun(n)
           /\ x.pc \in {"stream", "cut"} => Begun(m)' = Begun(m) \cup {p}
           /\ x.pc = "idle" => Begun(m)' = Begun(m) \ {p}
<1> USE DEF LoadInv
<1>1. p \in Tasks /\ task'[p] = x /\ (\A q \in Tasks \ {p} : task'[q] = task[q]) /\ Requests \subseteq Tasks
  BY TypedFacts DEF Tasks, LoadTasks
<1>2. IsFiniteSet(Requests)
  BY LoadManagerAssumption
<1>3. ASSUME NEW n \in Models, n # m PROVE Begun(n)' = Begun(n)
  BY <1>1, <1>3 DEF Begun
<1>4. x.pc \in {"stream", "cut"} => Begun(m)' = Begun(m) \cup {p}
  BY <1>1 DEF Begun
<1>5. x.pc = "idle" => Begun(m)' = Begun(m) \ {p}
  BY <1>1 DEF Begun
<1>6. \A n \in Models : Begun(n) \subseteq Requests /\ Begun(n)' \subseteq Requests
  BY DEF Begun
<1> QED BY <1>2, <1>3, <1>4, <1>5, <1>6

\* The steps of a stream touch the count of one child, and no plan.
LEMMA StreamKeeps ==
    ASSUME LoadInv, NEW p \in Requests, task[p].pc \in {"admitted", "stream", "cut"},
           NEW x \in Recs, x.pc \in {"stream", "cut", "idle"}, KindOf(p, x), task' = [task EXCEPT ![p] = x],
           NEW a \in 0..Cardinality(Requests),
           child' = [child EXCEPT ![task[p].model].active = a], Counted',
           skewed' \subseteq Models,
           UNCHANGED <<slot, queue, owners, line, lease, entries, restoring, suppressed, downed>>
    PROVE  LoadInv'
<1> USE DEF LoadInv
<1> DEFINE m == task[p].model
           y == [child[m] EXCEPT !.active = a]
<1>1. p \in LoadTasks /\ p \in Tasks /\ p \notin Grants /\ p \notin Rebalancer
  BY LoadManagerAssumption DEF Tasks, LoadTasks
<1>2. m \in Models /\ child \in [Models -> Children] /\ task \in [Tasks -> Recs]
  BY <1>1, TypedFacts DEF Typed, KindOf
<1>3. y \in Children /\ y.state = child[m].state /\ y.card = child[m].card
  BY <1>2 DEF Children
<1>4. child' = [child EXCEPT ![m] = y]
  BY <1>2
<1> HIDE DEF y
<1>5. /\ child' \in [Models -> Children]
      /\ \A n \in Models : child'[n].state = child[n].state /\ child'[n].card = child[n].card
  BY <1>2, <1>3, <1>4
<1>6. Shrinks
  BY <1>5 DEF Shrinks, OnCard
<1>7. task'[p] = x /\ OthersRest(p) /\ \A q \in Tasks \ {p} : task'[q] = task[q]
  BY <1>1, <1>2 DEF OthersRest
<1>8. SlotsFor(p, slot')
  BY SlotsAsTheyAre
<1>9. InPlace(p)
  BY <1>7, <1>8 DEF InPlace, InSlot
<1>10. Launches'
  <2>1. \A q \in LoadTasks : task[q].pc = "start" \/ task'[q].pc = "start" => task'[q] = task[q]
    BY <1>1, <1>7 DEF Tasks
  <2>2. ASSUME NEW q \in LoadTasks, task'[q].pc = "start"
        PROVE  child'[task'[q].model].state = "loading" /\ child'[task'[q].model].card = task'[q].card
    <3>1. task'[q] = task[q] /\ task[q].model \in Models
      BY <2>1, <2>2, SlotNames DEF Tasks
    <3> QED BY <1>5, <2>2, <3>1 DEF Launches
  <2>3. ASSUME ~Crashes, NEW n \in Models, child'[n].state = "loading"
        PROVE  \E q \in LoadTasks : task'[q].pc = "start" /\ task'[q].model = n
    <3>1. PICK q \in LoadTasks : task[q].pc = "start" /\ task[q].model = n
      BY <1>5, <2>3 DEF Launches, Launching
    <3> QED BY <2>1, <3>1
  <2> QED BY <2>2, <2>3 DEF Launches, Launching
<1>11. RoomHolds' /\ PlansHold'
  <2>1. \A c \in Cards : lease'[c] \in {lease[c], None}
    OBVIOUS
  <2>2. PlanHolds(task'[p], child')
    BY <1>7 DEF PlanHolds, Planned
  <2> QED BY <1>6, <1>7, <2>1, <2>2, RoomKept, PlansKept
<1>12. LeaseHonoured'
  BY <1>1, <1>6, <1>7, LeasesAsTheyAre DEF LeaseActs
<1>13. /\ lease' \in [Cards -> Grants \cup {None}] /\ \A c \in Cards : lease'[c] # None => CardOf[lease'[c]] = c
       /\ entries' \cup suppressed' \cup skewed' \cup downed' \subseteq Models /\ restoring' \in BOOLEAN
  BY TypedFacts DEF Typed, TypeOK
<1>14. QueueActs(p) /\ GateActs(p) /\ RestoreActs(p)
  BY <1>7 DEF QueueActs, GateActs, RestoreActs, InFlightPCs, gateVars
<1> QED BY <1>1, <1>5, <1>7, <1>8, <1>9, <1>10, <1>11, <1>12, <1>13, <1>14, Together

LEMMA RequestModel ==
    ASSUME LoadInv, NEW p \in Requests, task[p].pc \in {"admitted", "stream", "cut"}
    PROVE  task[p].model \in Models
BY DEF LoadInv, Typed, KindOf, LoadTasks, Tasks

LEMMA StreamStartsKeeps ==
    ASSUME LoadInv, NEW p, StreamStarts(p)
    PROVE  LoadInv'
<1> USE DEF LoadInv
<1>0. PICK m \in Models : m = task[p].model
  BY RequestModel DEF StreamStarts
<1> DEFINE x == [task[p] EXCEPT !.pc = IF child[m].state = "ready" THEN "stream" ELSE "cut"]
           a == IF child[m].state = "none" THEN child[m].active ELSE child[m].active + 1
<1>1. /\ p \in Requests /\ task[p].pc = "admitted"
      /\ child' = IF child[m].state = "none" THEN child ELSE [child EXCEPT ![m].active = @ + 1]
      /\ task' = [task EXCEPT ![p].pc = IF child[m].state = "ready" THEN "stream" ELSE "cut"]
      /\ UNCHANGED <<slot, queue, owners, line, lease, entries, restoring, suppressed, skewed, downed>>
  BY <1>0 DEF StreamStarts
<1>2. p \in Tasks /\ m \in Models /\ child \in [Models -> Children] /\ task[p] \in Recs /\ task \in [Tasks -> Recs]
  BY <1>1, TypedFacts DEF Typed, KindOf, Tasks, LoadTasks
<1>3. x \in Recs /\ x.pc \in {"stream", "cut"} /\ x.model = m
  BY <1>0, <1>2 DEF Recs
<1>4. KindOf(p, x)
  BY <1>1, <1>2, <1>3 DEF KindOf, LoadTasks
<1>5. task' = [task EXCEPT ![p] = x]
  BY <1>1, <1>2
<1>6. child' = [child EXCEPT ![m].active = a]
  BY <1>1, <1>2 DEF Children
<1>7. \A n \in Models : child'[n].active = IF n = m THEN a ELSE child[n].active
  BY <1>2, <1>6 DEF Children
<1> HIDE DEF x
<1>8. /\ IsFiniteSet(Requests) /\ Cardinality(Requests) \in Nat
      /\ \A n \in Models : Begun(n) \subseteq Requests /\ Begun(n)' \subseteq Requests /\ (n # m => Begun(n)' = Begun(n))
      /\ Begun(m)' = Begun(m) \cup {p}
  BY <1>0, <1>1, <1>3, <1>5, BegunIs, FS_CardinalityType, ZenonT(60)
<1>9. p \notin Begun(m) /\ \A n \in Models : child[n].active <= Cardinality(Begun(n)) /\ child[n].active \in Nat
  BY <1>1, <1>8, TypedFacts DEF Begun, Typed, Counted, Children
<1> DEFINE S == Begun(m)
           T == Begun(m)'
<1>10. /\ IsFiniteSet(S) /\ Cardinality(S) \in Nat /\ Cardinality(T) = Cardinality(S) + 1
       /\ Cardinality(T) <= Cardinality(Requests)
  <2>1. S \subseteq Requests /\ T \subseteq Requests /\ T = S \cup {p} /\ p \notin S
    BY <1>2, <1>8, <1>9
  <2> HIDE DEF S, T
  <2>2. IsFiniteSet(S) /\ IsFiniteSet(T)
    BY <1>8, <2>1, FS_Subset
  <2>3. Cardinality(S) \in Nat
    BY <2>2, FS_CardinalityType
  <2>4. Cardinality(S \cup {p}) = Cardinality(S) + 1
    BY <2>1, <2>2, FS_AddElement
  <2>5. Cardinality(T) <= Cardinality(Requests)
    BY <1>8, <2>1, FS_Subset
  <2> QED BY <2>1, <2>2, <2>3, <2>4, <2>5
<1>11. a \in 0..Cardinality(Requests) /\ a <= Cardinality(T)
  <2>1. child[m].active <= Cardinality(S) /\ child[m].active \in Nat
    BY <1>2, <1>9
  <2> HIDE DEF S, T
  <2> QED BY <1>8, <1>10, <2>1
<1>12. Counted'
  <2> SUFFICES ASSUME NEW n \in Models PROVE child'[n].active <= Cardinality(Begun(n)')
    BY DEF Counted
  <2>1. CASE n = m
    BY <1>7, <1>11, <2>1
  <2>2. CASE n # m
    BY <1>7, <1>8, <1>9, <2>2
  <2> QED BY <2>1, <2>2
<1>13. skewed' \subseteq Models
  BY <1>1 DEF Typed, TypeOK
<1> HIDE DEF a
<1> QED BY <1>0, <1>1, <1>3, <1>4, <1>5, <1>6, <1>11, <1>12, <1>13, StreamKeeps

LEMMA StreamEndsKeeps ==
    ASSUME LoadInv, NEW p, StreamEnds(p)
    PROVE  LoadInv'
<1> USE DEF LoadInv
<1>0. PICK m \in Models : m = task[p].model
  BY RequestModel DEF StreamEnds
<1> DEFINE a == IF child[m].active = 0 THEN 0 ELSE child[m].active - 1
<1>1. /\ p \in Requests /\ task[p].pc \in {"stream", "cut"}
      /\ child' = [child EXCEPT ![m].active = a]
      /\ task' = [task EXCEPT ![p] = Idle]
      /\ skewed' \in {skewed, skewed \cup {m}}
      /\ UNCHANGED <<slot, queue, owners, line, lease, entries, restoring, suppressed, downed>>
  BY <1>0 DEF StreamEnds
<1>2. p \in Tasks /\ m \in Models /\ child \in [Models -> Children] /\ task[p] \in Recs
  BY <1>1, TypedFacts DEF Typed, KindOf, Tasks, LoadTasks
<1>3. Idle \in Recs /\ Idle.pc = "idle" /\ KindOf(p, Idle)
  BY <1>1 DEF Idle, Recs, KindOf, LoadTasks
<1>4. \A n \in Models : child'[n].active = IF n = m THEN a ELSE child[n].active
  BY <1>1, <1>2 DEF Children
<1>5. /\ IsFiniteSet(Requests) /\ Cardinality(Requests) \in Nat
      /\ \A n \in Models : Begun(n) \subseteq Requests /\ (n # m => Begun(n)' = Begun(n))
      /\ Begun(m)' = Begun(m) \ {p}
  BY <1>0, <1>1, <1>3, BegunIs, FS_CardinalityType
<1>6. p \in Begun(m) /\ \A n \in Models : child[n].active <= Cardinality(Begun(n)) /\ child[n].active \in Nat
                                          /\ child[n].active <= Cardinality(Requests)
  BY <1>0, <1>1, <1>5, TypedFacts DEF Begun, Typed, Counted, Children
<1> DEFINE S == Begun(m)
           T == Begun(m)'
<1>7. Cardinality(S) \in Nat /\ Cardinality(T) = Cardinality(S) - 1 /\ Cardinality(T) \in Nat
  <2>1. S \subseteq Requests /\ T = S \ {p} /\ p \in S
    BY <1>2, <1>5, <1>6
  <2> HIDE DEF S, T
  <2>2. IsFiniteSet(S)
    BY <1>5, <2>1, FS_Subset
  <2>3. IsFiniteSet(S \ {p}) /\ Cardinality(S \ {p}) = Cardinality(S) - 1
    BY <2>1, <2>2, FS_RemoveElement
  <2> QED BY <2>1, <2>2, <2>3, FS_CardinalityType
<1>8. a \in 0..Cardinality(Requests) /\ a <= Cardinality(T)
  <2>1. child[m].active <= Cardinality(S) /\ child[m].active \in Nat /\ child[m].active <= Cardinality(Requests)
    BY <1>2, <1>6
  <2> HIDE DEF S, T
  <2> QED BY <1>5, <1>7, <2>1
<1>9. Counted'
  <2> SUFFICES ASSUME NEW n \in Models PROVE child'[n].active <= Cardinality(Begun(n)')
    BY DEF Counted
  <2>1. CASE n = m
    BY <1>4, <1>8, <2>1
  <2>2. CASE n # m
    BY <1>4, <1>5, <1>6, <2>2
  <2> QED BY <2>1, <2>2
<1>10. skewed' \subseteq Models
  BY <1>1, <1>2 DEF Typed, TypeOK
<1> HIDE DEF a
<1> QED BY <1>0, <1>1, <1>3, <1>8, <1>9, <1>10, StreamKeeps

\* A lease is released; an unload finds nothing to stop.
LEMMA QuietStepKeeps ==
    ASSUME LoadInv, UNCHANGED <<child, slot, queue, owners, line, task, restoring, suppressed, skewed, downed>>,
           entries' \subseteq entries, lease' \in [Cards -> Grants \cup {None}],
           \A c \in Cards : lease'[c] \in {lease[c], None}
    PROVE  LoadInv'
<1> USE DEF LoadInv
<1>1. None \notin Tasks /\ None \notin LoadTasks /\ None \notin Rebalancer /\ None \notin Grants
  BY LoadManagerAssumption DEF Tasks, LoadTasks
<1>2. OthersRest(None) /\ SlotsFor(None, slot')
  BY TypedFacts, SlotsAsTheyAre DEF OthersRest
<1>3. Shrinks /\ child' \in [Models -> Children]
  BY TypedFacts DEF Shrinks, OnCard
<1>4. Counted' /\ Launches'
  BY DEF Typed, Counted, Begun, Launches, Launching
<1>5. RoomHolds' /\ PlansHold'
  BY <1>1, <1>2, <1>3, RoomKept, PlansKept
<1>6. LeaseHonoured'
  <2> SUFFICES ASSUME NEW c \in Cards, NEW n \in OnCard(child', c), lease'[c] # None, n \notin OwnersOf[lease'[c]]
               PROVE  child'[n].state = "unloading" \/ n \in task'[lease'[c]].todo \cup {task'[lease'[c]].victim}
    BY DEF LeaseHonoured, Blocked
  <2> QED BY DEF LeaseHonoured, Blocked, OnCard
<1>7. /\ \A c \in Cards : lease'[c] # None => CardOf[lease'[c]] = c
      /\ entries' \cup suppressed' \cup skewed' \cup downed' \subseteq Models /\ restoring' \in BOOLEAN
  BY TypedFacts DEF Typed, TypeOK
<1> QED BY <1>1, <1>2, <1>3, <1>4, <1>5, <1>6, <1>7, Together

LEMMA InitHolds ==
    ASSUME Init
    PROVE  LoadInv
<1> USE DEF Init, Gate!Init
<1>1. Idle \in Recs /\ Idle.pc = "idle" /\ \A p \in Tasks : task[p] = Idle
  BY DEF Idle, Recs
<1>2. NoChild \in Children /\ \A m \in Models : child[m] = NoChild /\ child[m].state = "none" /\ child[m].active = 0
  BY NoChildIs
<1>3. /\ task \in [Tasks -> Recs] /\ child \in [Models -> Children]
      /\ slot \in [Models -> Seq(Tasks)] /\ queue \in [Models -> Seq(LoadTasks)]
  BY <1>1, <1>2
<1>4. LoadTasks \subseteq Tasks
  BY DEF Tasks
<1>5. TypeOK
  BY <1>1, <1>2, <1>3 DEF TypeOK, Children
<1>6. InLine /\ Queued /\ \A p \in Tasks : KindOf(p, task[p])
  BY <1>1, <1>4 DEF InLine, InSlot, Queued, KindOf
<1>7. Counted
  <2> SUFFICES ASSUME NEW m \in Models PROVE 0 <= Cardinality(Begun(m))
    BY <1>2 DEF Counted
  <2>1. Begun(m) \subseteq Requests
    BY DEF Begun
  <2> QED BY <2>1, LoadManagerAssumption, FS_Subset, FS_CardinalityType
<1>8. Typed
  BY <1>3, <1>5, <1>6, <1>7 DEF Typed
<1>9. GateHeld /\ PlansHold /\ Moving /\ RestoreComing
  BY <1>1, <1>4 DEF GateHeld, PlansHold, PlanHolds, Planned, Moving, MoverOK, RestoreComing, PastGate, InFlightPCs,
                    LoadTasks, Tasks
<1>10. Launches /\ LeaseHonoured
  BY <1>1, <1>2, <1>4 DEF Launches, LeaseHonoured, OnCard
<1>11. RoomHolds
  <2> SUFFICES ASSUME NEW c \in Cards PROVE Taken(child, c, {}) <= Room
    BY DEF RoomHolds, RoomEnough
  <2>1. OnCard(child, c) \ {} = {}
    BY <1>2 DEF OnCard
  <2>2. UnitsOf(OnCard(child, c) \ {}) = {}
    BY <2>1 DEF UnitsOf
  <2>3. Taken(child, c, {}) = Cardinality(UnitsOf(OnCard(child, c) \ {}))
    BY TakenIs
  <2>4. Cardinality(UnitsOf(OnCard(child, c) \ {})) = 0
    BY <2>2, FS_EmptySet
  <2> QED BY <2>3, <2>4, LoadManagerAssumption
<1> QED BY <1>8, <1>9, <1>10, <1>11 DEF LoadInv

\* Every step is one of a few kinds.
LEMMA Kinds ==
    ASSUME LoadInv, Next
    PROVE  \/ \E p \in LoadTasks : LoadActs(p)
           \/ \E p \in Tasks \ LoadTasks : AwayActs(p) /\ LeaseActs
           \/ \E p \in LoadTasks : Started(p)
           \/ \E p \in Requests : StreamStarts(p) \/ StreamEnds(p)
           \/ \E m \in Models : Crash(m) \/ Relaunched(m) \/ GivenUp(m)
           \/ /\ UNCHANGED <<child, slot, queue, owners, line, task, restoring, suppressed, skewed, downed>>
              /\ entries' \subseteq entries /\ lease' \in [Cards -> Grants \cup {None}]
              /\ \A c \in Cards : lease'[c] \in {lease[c], None}
<1>1. ASSUME NEW p \in Tasks, NEW m \in Models, Ask(p, m) PROVE \E q \in LoadTasks : LoadActs(q)
  BY <1>1, AskActs DEF LoadActs
<1>2. ASSUME NEW p \in Tasks, NEW m \in Models, NEW mode \in Modes, Load(p, m, mode) PROVE \E q \in LoadTasks : LoadActs(q)
  BY <1>2, LoadsActs DEF LoadActs
<1>3. ASSUME NEW p \in Tasks, NEW m \in Models, Unload(p, m)
      PROVE  \/ \E q \in Tasks \ LoadTasks : AwayActs(q) /\ LeaseActs
             \/ /\ UNCHANGED <<child, slot, queue, owners, line, task, restoring, suppressed, skewed, downed>>
                /\ entries' \subseteq entries /\ lease' \in [Cards -> Grants \cup {None}]
                /\ \A c \in Cards : lease'[c] \in {lease[c], None}
  <2>1. CASE AwayActs(p) /\ LeaseActs
    BY <2>1 DEF AwayActs
  <2>2. CASE UNCHANGED <<child, slot, queue, owners, line, task, lease, restoring, suppressed, skewed, downed>>
             /\ entries' \subseteq entries
    BY <2>2, TypedFacts DEF LoadInv
  <2> QED BY <1>3, <2>1, <2>2, UnloadActs
<1>4. ASSUME NEW p \in Tasks, NEW m \in Models, Sweep(p, m)
      PROVE  \E q \in Tasks \ LoadTasks : AwayActs(q) /\ LeaseActs
  BY <1>4, SweepActs DEF AwayActs
<1>5. ASSUME NEW p \in Tasks, NEW m \in Models, NEW c \in Cards, Spot(p, m, c) PROVE \E q \in LoadTasks : LoadActs(q)
  BY <1>5, SpotActs DEF LoadActs
<1>6. ASSUME NEW p \in Tasks,
             LockTaken(p) \/ GateTaken(p) \/ Settled(p) \/ StartFails(p) \/ Replan(p) \/ StartTurn(p)
             \/ RestoreEnds(p) \/ Move(p) \/ Back(p) \/ \E m \in Models : Restore(p, m) \/ Reconcile(p, m)
      PROVE  \E q \in LoadTasks : LoadActs(q)
  BY <1>6, LockTakenActs, GateTakenActs, SettledActs, StartFailsActs, ReplanActs, StartTurnActs,
     RestoreEndsActs, MoveActs, BackActs, RestoreStepActs, ReconcileActs DEF LoadActs
<1>7. ASSUME NEW p \in Tasks, Stopped(p) \/ StopTurn(p)
      PROVE  (\E q \in LoadTasks : LoadActs(q)) \/ \E q \in Tasks \ LoadTasks : AwayActs(q) /\ LeaseActs
  BY <1>7, StopsDoneActs, StopsDoneAway
<1>8. ASSUME NEW p \in Tasks, Started(p) PROVE \E q \in LoadTasks : Started(q)
  BY <1>8 DEF Started
<1>9. ASSUME NEW p \in Tasks, StreamStarts(p) \/ StreamEnds(p) PROVE \E q \in Requests : StreamStarts(q) \/ StreamEnds(q)
  BY <1>9 DEF StreamStarts, StreamEnds
<1>10. ASSUME NEW g \in Grants, Grant(g) PROVE \E q \in Tasks \ LoadTasks : AwayActs(q) /\ LeaseActs
  BY <1>10, GrantActs DEF AwayActs
<1>11. ASSUME NEW c \in Cards, Release(c)
       PROVE  /\ UNCHANGED <<child, slot, queue, owners, line, task, restoring, suppressed, skewed, downed>>
              /\ entries' \subseteq entries /\ lease' \in [Cards -> Grants \cup {None}]
              /\ \A x \in Cards : lease'[x] \in {lease[x], None}
  BY <1>11, TypedFacts DEF Release, LoadInv
<1>12. CASE \E p \in Tasks : Arrive(p)
  BY <1>1, <1>2, <1>3, <1>4, <1>5, <1>12 DEF Arrive
<1>13. CASE \E p \in Tasks : Proceed(p)
  BY <1>6, <1>7, <1>8, <1>9, <1>13 DEF Proceed
<1> QED BY <1>10, <1>11, <1>12, <1>13 DEF Next

LEMMA StepHolds ==
    ASSUME LoadInv, [Next]_vars
    PROVE  LoadInv'
<1>1. CASE Next
  <2>1. CASE \E p \in LoadTasks : LoadActs(p)
    BY <2>1, LoadActsKeep
  <2>2. CASE \E p \in Tasks \ LoadTasks : AwayActs(p) /\ LeaseActs
    BY <2>2, AwayActsKeep
  <2>3. CASE \E p \in LoadTasks : Started(p)
    BY <2>3, StartedKeeps
  <2>4. CASE \E p \in Requests : StreamStarts(p) \/ StreamEnds(p)
    BY <2>4, StreamStartsKeeps, StreamEndsKeeps
  <2>5. CASE \E m \in Models : Crash(m) \/ Relaunched(m) \/ GivenUp(m)
    BY <2>5, ChildStepKeeps
  <2>6. CASE /\ UNCHANGED <<child, slot, queue, owners, line, task, restoring, suppressed, skewed, downed>>
             /\ entries' \subseteq entries /\ lease' \in [Cards -> Grants \cup {None}]
             /\ \A c \in Cards : lease'[c] \in {lease[c], None}
    BY <2>6, QuietStepKeeps
  <2> QED BY <1>1, <2>1, <2>2, <2>3, <2>4, <2>5, <2>6, Kinds
<1>2. CASE UNCHANGED vars
  <2>1. UNCHANGED <<child, slot, queue, owners, line, task, restoring, suppressed, skewed, downed>>
        /\ entries' = entries /\ lease' = lease
    BY <1>2 DEF vars
  <2>2. lease \in [Cards -> Grants \cup {None}]
    BY TypedFacts DEF LoadInv
  <2> QED BY <2>1, <2>2, QuietStepKeeps
<1> QED BY <1>1, <1>2

-----------------------------------------------------------------------------
\* The theorems.

\* The invariant holds of every machine, crashing children or not.
THEOREM LoadInvHolds == Spec => []LoadInv
<1>1. Init => LoadInv
  BY InitHolds
<1>2. LoadInv /\ [Next]_vars => LoadInv'
  BY StepHolds
<1> QED BY <1>1, <1>2, PTL DEF Spec

\* Without children that exit by themselves, no card is given more than it holds, by
\* whoever loads, evicts, restores, retries or moves: the gate lets one load plan at a time.
THEOREM CardsStayInOrder ==
    ASSUME ~Crashes
    PROVE  Spec => []CardsInOrder
<1>1. LoadInv => CardsInOrder
  BY DEF LoadInv, Typed, RoomHolds, CardsInOrder
<1> QED BY <1>1, LoadInvHolds, PTL

\* A leased card carries the models its lease names, and what its own grant is
\* still clearing away: with crashes and relaunches in place too.
THEOREM LeasesKept == Spec => [](TypeOK /\ LeaseHonoured)
<1>1. LoadInv => TypeOK /\ LeaseHonoured
  BY DEF LoadInv, Typed
<1> QED BY <1>1, LoadInvHolds, PTL

\* A displaced model that waits to come back is never forgotten: the restore pass
\* runs, or a load does whose end will kick it.
THEOREM RestoresCome == Spec => []RestoreComing
<1>1. LoadInv => RestoreComing
  BY DEF LoadInv
<1> QED BY <1>1, LoadInvHolds, PTL

\* A move of an idle resident, and its way back, stop no other model.
THEOREM MovesEvictNobody == Spec => MoveEvictsNobody
<1>1. LoadInv /\ LoadInv' => \A p \in Rebalancer :
          task'[p].pc \in {"stop", "stopping"} => task'[p].mode = "move" /\ task'[p].victim = task'[p].model
  BY DEF LoadInv, Moving, MoverOK
<1>2. (LoadInv /\ LoadInv' => \A p \in Rebalancer :
          task'[p].pc \in {"stop", "stopping"} => task'[p].mode = "move" /\ task'[p].victim = task'[p].model)
      => (LoadInv /\ LoadInv' => [\A p \in Rebalancer :
          task'[p].pc \in {"stop", "stopping"} => task'[p].mode = "move" /\ task'[p].victim = task'[p].model]_vars)
  OBVIOUS
<1> QED BY <1>1, <1>2, LoadInvHolds, PTL DEF MoveEvictsNobody

\* What a task inside the supervisor, or on its way in, does next is a step of its own.
LEMMA OwnStep ==
    ASSUME LoadInv, Next, NEW p \in LoadTasks, task[p].pc \in {"stop", "stopping", "start", "starting"},
           task'[p] # task[p]
    PROVE  Stopped(p) \/ StopTurn(p) \/ Started(p) \/ StartFails(p) \/ StartTurn(p)
<1> USE DEF LoadInv
<1>1. p \in Tasks /\ task \in [Tasks -> Recs] /\ task[p].pc # "stream"
  BY TypedFacts DEF Tasks
<1>2. \A q : q # p => ~OthersRest(q)
  BY <1>1 DEF OthersRest
<1>3. ASSUME NEW q, LoadActs(q) \/ AwayActs(q) PROVE q = p
  BY <1>2, <1>3 DEF LoadActs, AwayActs, Acts, InPlace
<1>4. ~\E q \in Tasks : Arrive(q)
  <2>1. ASSUME NEW q \in Tasks, Arrive(q) PROVE FALSE
    <3>1. task[q].pc = "idle"
      BY <2>1 DEF Arrive, Ask, Load, Unload, Sweep, Spot
    <3>2. q = p \/ task' = task
      BY <2>1, <1>3, AskActs, LoadsActs, UnloadActs, SweepActs, SpotActs DEF Arrive
    <3> QED BY <3>1, <3>2
  <2> QED BY <2>1
<1>5. ASSUME NEW q \in Tasks, Proceed(q)
      PROVE  Stopped(p) \/ StopTurn(p) \/ Started(p) \/ StartFails(p) \/ StartTurn(p)
  <2>1. ASSUME \/ LockTaken(q) \/ GateTaken(q) \/ Settled(q) \/ Replan(q)
               \/ RestoreEnds(q) \/ Move(q) \/ Back(q)
               \/ \E m \in Models : Restore(q, m) \/ Reconcile(q, m)
        PROVE  FALSE
    <3>1. q = p
      BY <2>1, <1>3, LockTakenActs, GateTakenActs, SettledActs, ReplanActs, RestoreEndsActs, MoveActs, BackActs,
         RestoreStepActs, ReconcileActs
    <3>2. task[q].pc \in {"queue", "gate", "settle", "beat", "idle", "move", "down"}
      BY <2>1 DEF LockTaken, GateTaken, Settled, Replan, RestoreEnds, Move, Back, Restore, Reconcile
    <3> QED BY <3>1, <3>2
  <2>2. ASSUME StartFails(q) \/ StartTurn(q) PROVE q = p
    BY <2>2, <1>3, StartFailsActs, StartTurnActs
  <2>3. ASSUME Stopped(q) \/ StopTurn(q) PROVE q = p
    <3>1. LoadActs(q) \/ AwayActs(q)
      BY <2>3, StopsDoneActs, StopsDoneAway
    <3> QED BY <3>1, <1>3
  <2>4. ASSUME Started(q) PROVE q = p
    BY <2>4, <1>1 DEF Started, Loaded, LeaveAs
  <2>5. ASSUME StreamStarts(q) \/ StreamEnds(q) PROVE FALSE
    <3>1. task[q].pc \in {"admitted", "stream", "cut"} /\ \A t \in Tasks \ {q} : task'[t] = task[t]
      BY <2>5, <1>1 DEF StreamStarts, StreamEnds
    <3> QED BY <3>1, <1>1
  <2> QED BY <1>5, <2>1, <2>2, <2>3, <2>4, <2>5 DEF Proceed
<1>6. \A g \in Grants : ~Grant(g)
  BY <1>3, GrantActs, LoadManagerAssumption
<1>7. \A c \in Cards : ~Release(c)
  BY DEF Release
<1>8. \A m \in Models : ~(Crash(m) \/ Relaunched(m) \/ GivenUp(m))
  BY <1>1 DEF Crash, Relaunched, GivenUp, Severed, Streams
<1> QED BY <1>4, <1>5, <1>6, <1>7, <1>8 DEF Next

\* A move that took its model down ends with the model up, or goes on to bring it
\* home: it does not go idle in between.
LEMMA MoveGoesOn ==
    ASSUME LoadInv, Next, NEW p \in Rebalancer, task[p].mode = "move",
           task[p].pc \in {"stop", "stopping", "start", "starting"}, task'[p].pc = "idle"
    PROVE  child'[task[p].model].state # "none"
<1> USE DEF LoadInv
<1> DEFINE r == task[p]
           m == r.model
<1>1. /\ p \in LoadTasks /\ p \in Tasks /\ r \in Recs /\ m \in Models /\ Mover(r)
      /\ p \notin Grants /\ p \notin Unloaders \cup Sweeper /\ child \in [Models -> Children]
  BY TypedFacts, LoadManagerAssumption DEF Typed, KindOf, LoadTasks, Tasks, Moving, MoverOK, InFlightPCs
<1>2. Stopped(p) \/ StopTurn(p) \/ Started(p) \/ StartFails(p) \/ StartTurn(p)
  BY <1>1, OwnStep
\* start() either returns, the child up, or goes on.
<1>3. ASSUME NEW w, w \in [Models -> Children], NEW s, Start(p, r, w, s)
      PROVE  child'[m].state # "none"
  <2>1. CASE Inside(s, m, p) /\ w[m].state \in {"ready", "loading"}
    BY <1>3, <2>1 DEF Start, Loaded
  <2>2. ASSUME task' = [task EXCEPT ![p] = [r EXCEPT !.pc = "start"]] \/ task' = [task EXCEPT ![p] = [r EXCEPT !.pc = "starting"]]
        PROVE  FALSE
    <3>1. task'[p] = [r EXCEPT !.pc = "start"] \/ task'[p] = [r EXCEPT !.pc = "starting"]
      BY <2>2, <1>1, TypedFacts
    <3> QED BY <1>1, <3>1 DEF Recs
  <2> QED BY <1>3, <2>1, <2>2 DEF Start
<1>4. ASSUME NEW w, w \in [Models -> Children], NEW s, AfterStop(p, w, s), r.todo = {}
      PROVE  child'[m].state # "none"
  <2>1. CASE task' = [task EXCEPT ![p].pc = "beat"]
    <3>1. task'[p] = [r EXCEPT !.pc = "beat"]
      BY <1>1, <2>1, TypedFacts
    <3> QED BY <1>1, <3>1 DEF Recs
  <2>2. CASE Evict(p, r, w, s)
    <3>1. Start(p, r, w, s)
      BY <1>4, <2>2 DEF Evict
    <3> QED BY <1>3, <1>4, <3>1
  <2> QED BY <1>1, <1>4, <2>1, <2>2 DEF AfterStop
<1>5. CASE Stopped(p) \/ StopTurn(p)
  <2>1. r.todo = {}
    BY <1>1, <1>5 DEF Stopped, StopTurn, Moving, MoverOK
  <2>2. CASE \E w, s : /\ Fading(p, w) /\ SlotsFor(p, s) /\ w[r.victim].state = "none"
                       /\ AfterStop(p, w, s)
    BY <1>4, <2>1, <2>2 DEF Fading
  <2>3. ASSUME NEW v \in Models, Stop(p, r, v, child, slot), child[v].state # "none" PROVE FALSE
    <3>1. Fading(p, child) /\ SlotsFor(p, slot)
      BY FadingAsIs, SlotsAsTheyAre
    <3>2. \E pc \in {"stop", "stopping"} : task'[p] = [r EXCEPT !.victim = v, !.todo = @ \ {v}, !.pc = pc]
      <4>1. p \in LoadTasks \cup Unloaders => r.model \in Models
        BY <1>1
      <4>2. Typed /\ p \in Tasks /\ r \in Recs
        BY <1>1
      <4>3. Stop(p, r, v, child, slot) /\ child[v].state # "none"
        BY <2>3
      <4> HIDE DEF r, m
      <4>4. /\ InPlace(p) /\ Fading(p, child')
            /\ \E pc \in {"stop", "stopping"} :
                  task'[p] = [r EXCEPT !.victim = v, !.todo = @ \ {v}, !.pc = pc]
        BY <3>1, <4>1, <4>2, <4>3, Stops
      <4> QED BY <4>4
    <3> QED BY <1>1, <3>2 DEF Recs
  <2> QED BY <1>1, <1>5, <2>2, <2>3, StopsDone
<1>6. CASE Started(p)
  <2>1. child' = [child EXCEPT ![m].state = "ready"]
    BY <1>6 DEF Started, Loaded
  <2> QED BY <1>1, <2>1 DEF Children
<1>7. CASE StartTurn(p)
  BY <1>1, <1>3, <1>7 DEF StartTurn
<1>8. CASE StartFails(p)
  <2> DEFINE w == [child EXCEPT ![m] = NoChild]
             x == [Idle EXCEPT !.pc = "down", !.model = r.model, !.home = r.home]
  <2>1. LeaveAs(p, x)
    BY <1>1, <1>8 DEF StartFails, Failed, Mover, Placed, NoEvict
  <2>2. task' = [task EXCEPT ![p] = x] /\ x.pc = "down"
    BY <2>1 DEF LeaveAs, Idle
  <2> HIDE DEF x
  <2>3. task'[p] = x
    BY <1>1, <2>2, TypedFacts
  <2> QED BY <2>2, <2>3
<1> QED BY <1>2, <1>5, <1>6, <1>7, <1>8

\* A move that has begun to stop its model ends with it up again, or waits for the next try.
THEOREM MovesLeaveNothingDown == Spec => MoveLeavesNothingDown
<1>1. LoadInv /\ Next => \A p \in Rebalancer :
          /\ task[p].mode = "move" /\ task[p].pc \in {"stop", "stopping", "start", "starting"}
          /\ task'[p].pc = "idle"
          => child'[task[p].model].state # "none"
  BY MoveGoesOn
<1>2. LoadInv /\ [Next]_vars => [\A p \in Rebalancer :
          /\ task[p].mode = "move" /\ task[p].pc \in {"stop", "stopping", "start", "starting"}
          /\ task'[p].pc = "idle"
          => child'[task[p].model].state # "none"]_vars
  BY <1>1
<1> QED BY <1>2, LoadInvHolds, PTL DEF Spec, MoveLeavesNothingDown

=============================================================================
