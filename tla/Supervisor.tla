----------------------------- MODULE Supervisor -----------------------------
(***************************************************************************)
(* The supervisor of llama-server children (core/supervisor.py): one       *)
(* _Instance and at most one process per start, a lock per model id that   *)
(* is dropped again when its instance is gone, a port set, and one watcher *)
(* task per ready child that relaunches it when it exits.                  *)
(*                                                                         *)
(* Everything runs on one asyncio loop: a step is the code between two     *)
(* awaits.  Python objects (instances, locks) are drawn from finite pools; *)
(* an object nothing refers to is available again.                         *)
(***************************************************************************)
EXTENDS Naturals, Sequences, FiniteSets, FiniteSetsExt

CONSTANTS
    Models,         \* model ids
    Callers,        \* tasks that call start(), stop() or kill()
    ClientsOf,      \* ClientsOf[m]: the callers that may name model m
    Insts,          \* bound: instance objects, a range of numbers
    Locks,          \* bound: asyncio.Lock objects, a range of numbers
    Ports,          \* gateway.child_port_start .. child_port_end
    MaxRestarts,    \* gateway.max_restarts
    Survivors,      \* whether a process may outlive every signal
    Strangers,      \* ports that processes of others may bind and release
    None

ASSUME SupervisorAssumption ==
    /\ ClientsOf \in [Models -> SUBSET Callers]
    /\ Insts \subseteq Nat /\ Locks \subseteq Nat /\ Ports \subseteq Nat
    /\ None \notin Insts \cup Locks
    /\ IsFiniteSet(Callers) /\ IsFiniteSet(Insts)
    /\ MaxRestarts \in Nat /\ Survivors \in BOOLEAN /\ Strangers \subseteq Ports

VARIABLES
    lockOf,         \* Supervisor._locks
    lockHeld,       \* asyncio.Lock._locked
    lockLine,       \* asyncio.Lock._waiters; the first is woken if not held
    table,          \* Supervisor._instances
    portsInUse,     \* Supervisor._ports_in_use
    inst,           \* the _Instance objects and their watcher tasks
    proc,           \* the process each instance launched last
    call,           \* where each caller stands
    foreign,        \* ports bound by processes that are not ours
    stranded        \* history: models whose lock was dropped under a waiter

locks == <<lockOf, lockHeld, lockLine, stranded>>
vars == <<lockOf, lockHeld, lockLine, table, portsInUse, inst, proc, call, foreign, stranded>>

(***************************************************************************)
(* watcher: "none"; "watch" awaits the exit; "backoff" sleeps; "spawn" and *)
(* "health" relaunch.  A caller's pc: "line" waits for the lock; "spawn",  *)
(* "health", "cleanup" are start(); "kill", "verify", "nothing" are stop() *)
(* and kill(), which differ in the grace they give alone.                  *)
(***************************************************************************)
Instance == [model : Models, state : {"loading", "ready", "failed", "unloading", "stopped"},
             port : Ports, stopping : BOOLEAN, restarts : 0..MaxRestarts,
             watcher : {"none", "watch", "backoff", "spawn", "health"}]

Idle == [pc |-> "idle"]
Waiting == [pc : {"line"}, op : {"start", "stop"}, model : Models, lock : Locks]
Running == [pc : {"spawn", "health", "cleanup", "kill", "verify", "nothing"}, model : Models,
            lock : Locks, inst : Insts]

Alive(i) == proc[i] \in {"starting", "listening"}

InTable(i) == \E m \in Models : table[m] = i

\* Instance objects nothing refers to any more.
FreshInsts == {i \in Insts : /\ ~Alive(i) /\ ~InTable(i) /\ inst[i].watcher = "none"
                             /\ \A c \in Callers : call[c].pc \in {"idle", "line"} \/ call[c].inst # i}

FreshLocks == {l \in Locks : /\ ~lockHeld[l] /\ lockLine[l] = <<>>
                             /\ \A m \in Models : lockOf[m] # l}

\* Bound: a call is made while the pools hold a lock for it and an instance for
\* every start in line and its own.
ObjectsLeft(op, m) ==
    /\ lockOf[m] # None \/ FreshLocks # {}
    /\ op = "start" =>
          Cardinality(FreshInsts) >
              Cardinality({c \in Callers : call[c].pc = "line" /\ call[c].op = "start"})

-----------------------------------------------------------------------------
\* Ports

Listens(i, p) == proc[i] = "listening" /\ inst[i].port = p

\* _port_is_bindable: nobody, ours or not, listens there now.
Bindable(p) == p \notin foreign /\ \A i \in Insts : ~Listens(i, p)

FreePorts(used) == {p \in Ports \ used : Bindable(p)}

\* _allocate_port's order: the preferred port, else the lowest.
Choice(free, preferred) == IF preferred \in free THEN preferred ELSE Min(free)

-----------------------------------------------------------------------------

Init ==
    /\ lockOf = [m \in Models |-> None]
    /\ lockHeld = [l \in Locks |-> FALSE]
    /\ lockLine = [l \in Locks |-> <<>>]
    /\ table = [m \in Models |-> None]
    /\ portsInUse = {}
    /\ \E m \in Models, p \in Ports :
          inst = [i \in Insts |-> [model |-> m, state |-> "stopped", port |-> p,
                                   stopping |-> FALSE, restarts |-> 0, watcher |-> "none"]]
    /\ proc = [i \in Insts |-> "none"]
    /\ call = [c \in Callers |-> Idle]
    /\ foreign = {}
    /\ stranded = {}

\* _prune_lock, with the lock table as it stands: the lock of a model with no
\* instance is dropped if it is not held, woken waiters or not.
PruneLock(m, of) ==
    LET drop == of[m] # None /\ ~lockHeld'[of[m]] /\ table'[m] = None IN
    /\ lockOf' = IF drop THEN [of EXCEPT ![m] = None] ELSE of
    /\ stranded' = IF drop /\ lockLine'[of[m]] # <<>> THEN stranded \cup {m} ELSE stranded

Unlock(l) == lockHeld' = [lockHeld EXCEPT ![l] = FALSE]
Lock(l) == lockHeld' = [lockHeld EXCEPT ![l] = TRUE]
Return(c) == call' = [call EXCEPT ![c] = Idle]

Up(m) == IF table[m] = None THEN FALSE ELSE inst[table[m]].state \in {"ready", "loading"}

\* start() once it has the lock: a model that is up or coming up is returned
\* as it is, with no port free the load fails, else a new instance takes the
\* table entry, whatever was there, and a port.
StartBody(c, m, l) ==
    \/ /\ Up(m) \/ FreePorts(portsInUse) = {}
       /\ Unlock(l)
       /\ Return(c)
       /\ UNCHANGED <<table, portsInUse, inst, proc>>
    \/ /\ ~Up(m)
       /\ FreePorts(portsInUse) # {}
       /\ LET i == Min(FreshInsts)
              p == Min(FreePorts(portsInUse)) IN
          /\ inst' = [inst EXCEPT ![i] = [model |-> m, state |-> "loading", port |-> p,
                                          stopping |-> FALSE, restarts |-> 0, watcher |-> "none"]]
          /\ proc' = [proc EXCEPT ![i] = "none"]
          /\ table' = [table EXCEPT ![m] = i]
          /\ portsInUse' = portsInUse \cup {p}
          /\ call' = [call EXCEPT ![c] = [pc |-> "spawn", model |-> m, lock |-> l, inst |-> i]]
       /\ Lock(l)

\* Mutant: the watcher is not cancelled.
StopBodyWatched(c, m, l) ==
    \/ /\ table[m] = None
       /\ Unlock(l)
       /\ Return(c)
       /\ UNCHANGED <<table, portsInUse, inst, proc>>
    \/ /\ table[m] # None
       /\ LET i == table[m] IN
          /\ inst' = [inst EXCEPT ![i].stopping = TRUE, ![i].state = "unloading"]
          /\ call' = [call EXCEPT ![c] = [pc |-> IF proc[i] = "none" THEN "nothing" ELSE "kill",
                                          model |-> m, lock |-> l, inst |-> i]]
       /\ Lock(l)
       /\ UNCHANGED <<table, portsInUse, proc>>

\* stop() and kill() once they have the lock: nothing to do without an
\* instance; else it is marked and its watcher cancelled, and what is left is
\* to kill the process it has by now, if any.
StopBody(c, m, l) ==
    \/ /\ table[m] = None
       /\ Unlock(l)
       /\ Return(c)
       /\ UNCHANGED <<table, portsInUse, inst, proc>>
    \/ /\ table[m] # None
       /\ LET i == table[m] IN
          /\ inst' = [inst EXCEPT ![i].stopping = TRUE, ![i].state = "unloading",
                                  ![i].watcher = "none"]
          /\ call' = [call EXCEPT ![c] = [pc |-> IF proc[i] = "none" THEN "nothing" ELSE "kill",
                                          model |-> m, lock |-> l, inst |-> i]]
       /\ Lock(l)
       /\ UNCHANGED <<table, portsInUse, proc>>

Body(c, op, m, l, of) ==
    \/ op = "start" /\ StartBody(c, m, l) /\ lockOf' = of /\ UNCHANGED stranded
    \/ op = "stop" /\ StopBody(c, m, l) /\ PruneLock(m, of)

\* A call looks its model's lock up, or makes one, and takes it at once when
\* it is free and nobody is in line.
Call(c, op, m) ==
    /\ call[c].pc = "idle"
    /\ c \in ClientsOf[m]
    /\ ObjectsLeft(op, m)
    /\ LET l == IF lockOf[m] # None THEN lockOf[m] ELSE Min(FreshLocks) IN
       \/ /\ ~lockHeld[l] /\ lockLine[l] = <<>>
          /\ UNCHANGED lockLine
          /\ Body(c, op, m, l, [lockOf EXCEPT ![m] = l])
       \/ /\ lockHeld[l] \/ lockLine[l] # <<>>
          /\ lockLine' = [lockLine EXCEPT ![l] = Append(@, c)]
          /\ call' = [call EXCEPT ![c] = [pc |-> "line", op |-> op, model |-> m, lock |-> l]]
          /\ UNCHANGED <<lockOf, lockHeld, stranded, table, portsInUse, inst, proc>>
    /\ UNCHANGED foreign

\* The woken waiter runs and takes the lock it queued on, be it dropped or not.
Resume(c) ==
    /\ call[c].pc = "line"
    /\ LET l == call[c].lock IN
       /\ ~lockHeld[l] /\ Head(lockLine[l]) = c
       /\ lockLine' = [lockLine EXCEPT ![l] = Tail(@)]
       /\ Body(c, call[c].op, call[c].model, l, lockOf)
    /\ UNCHANGED foreign

\* A call cancelled in line leaves it; the next in line is woken in its place.
CancelInLine(c) ==
    /\ call[c].pc = "line"
    /\ LET l == call[c].lock IN
       \E n \in 1..Len(lockLine[l]) :
          /\ lockLine[l][n] = c
          /\ lockLine' = [lockLine EXCEPT ![l] = SubSeq(@, 1, n - 1) \o SubSeq(@, n + 1, Len(@))]
    /\ Return(c)
    /\ UNCHANGED <<lockOf, lockHeld, stranded, table, portsInUse, inst, proc, foreign>>

-----------------------------------------------------------------------------
\* The rest of start()

\* _spawn returns: the process exists.
Spawned(c) ==
    /\ call[c].pc = "spawn"
    /\ proc' = [proc EXCEPT ![call[c].inst] = "starting"]
    /\ inst' = [inst EXCEPT ![call[c].inst].state = "loading"]
    /\ call' = [call EXCEPT ![c].pc = "health"]
    /\ UNCHANGED <<locks, table, portsInUse, foreign>>

\* What answers on the child's port passes the identity check: the child, a
\* child with the same alias, or a stranger whose /props cannot be read.
Answers(i) ==
    \/ inst[i].port \in foreign
    \/ \E j \in Insts : Listens(j, inst[i].port) /\ inst[j].model = inst[i].model

\* _await_ready returns: the instance is ready and its watcher is created.  The
\* watcher of an instance being stopped ends as soon as it runs.
Healthy(c) ==
    /\ call[c].pc = "health"
    /\ LET i == call[c].inst IN
       /\ Alive(i) /\ Answers(i)
       /\ inst' = [inst EXCEPT ![i].state = "ready",
                               ![i].watcher = IF inst[i].stopping THEN "none" ELSE "watch"]
    /\ Unlock(call[c].lock)
    /\ Return(c)
    /\ UNCHANGED <<lockOf, lockLine, stranded, table, portsInUse, proc, foreign>>

\* The launch fails, the child dies or hangs, or the load is cancelled.
StartFails(c) ==
    /\ call[c].pc \in {"spawn", "health"}
    /\ inst' = [inst EXCEPT ![call[c].inst].stopping = TRUE, ![call[c].inst].state = "failed"]
    /\ call' = [call EXCEPT ![c].pc = "cleanup"]
    /\ UNCHANGED <<locks, table, portsInUse, proc, foreign>>

\* The process a kill leaves: gone, or, if processes may, still there.
Killed(i, p) ==
    \/ p = IF proc[i] = "none" THEN "none" ELSE "dead"
    \/ Survivors /\ Alive(i) /\ p = proc[i]

\* Mutant: the model leaves the table with its child still up.
StartCleanedUnkilled(c) ==
    /\ call[c].pc = "cleanup"
    /\ LET i == call[c].inst IN
       /\ table' = [table EXCEPT ![call[c].model] = None]
       /\ portsInUse' = portsInUse \ {inst[i].port}
    /\ Unlock(call[c].lock)
    /\ Return(c)
    /\ UNCHANGED <<lockOf, lockLine, stranded, inst, proc, foreign>>

\* The failed start has torn its child down: the model leaves the table, the
\* port it was given is released.
StartCleaned(c) ==
    /\ call[c].pc = "cleanup"
    /\ LET i == call[c].inst IN
       /\ \E p \in {"none", "starting", "listening", "dead"} :
             Killed(i, p) /\ proc' = [proc EXCEPT ![i] = p]
       /\ table' = [table EXCEPT ![call[c].model] = None]
       /\ portsInUse' = portsInUse \ {inst[i].port}
    /\ Unlock(call[c].lock)
    /\ Return(c)
    /\ UNCHANGED <<lockOf, lockLine, stranded, inst, foreign>>

-----------------------------------------------------------------------------
\* The rest of stop() and kill()

StopKills(c) ==
    /\ call[c].pc = "kill"
    /\ \E p \in {"starting", "listening", "dead"} :
          Killed(call[c].inst, p) /\ proc' = [proc EXCEPT ![call[c].inst] = p]
    /\ call' = [call EXCEPT ![c].pc = "verify"]
    /\ UNCHANGED <<locks, table, portsInUse, inst, foreign>>

\* _verify_unloaded asks after the process there was when the stop began, and
\* found nothing to ask after if there was none.  One that survived stays in
\* the table as failed; else the model leaves it, whatever its entry is now.
StopVerified(c) ==
    /\ call[c].pc \in {"verify", "nothing"}
    /\ LET i == call[c].inst
           gone == call[c].pc = "nothing" \/ ~Alive(i) IN
       /\ inst' = [inst EXCEPT ![i].state = IF gone THEN "stopped" ELSE "failed"]
       /\ table' = IF gone THEN [table EXCEPT ![call[c].model] = None] ELSE table
       /\ portsInUse' = IF gone THEN portsInUse \ {inst[i].port} ELSE portsInUse
    /\ Unlock(call[c].lock)
    /\ Return(c)
    /\ UNCHANGED <<lockLine, proc, foreign>>
    /\ PruneLock(call[c].model, lockOf)

-----------------------------------------------------------------------------
\* The watcher of a ready child

\* Mutant: relaunches are not counted.
WatchExitUncounted(i) ==
    /\ inst[i].watcher = "watch"
    /\ ~Alive(i)
    /\ inst' = [inst EXCEPT ![i].state = "loading", ![i].watcher = "backoff"]
    /\ UNCHANGED <<locks, table, portsInUse, proc, call, foreign>>

\* The exit is noticed: give up after MaxRestarts relaunches, else back off.
WatchExit(i) ==
    /\ inst[i].watcher = "watch"
    /\ ~Alive(i)
    /\ inst' = IF inst[i].restarts >= MaxRestarts
               THEN [inst EXCEPT ![i].state = "failed", ![i].watcher = "none"]
               ELSE [inst EXCEPT ![i].restarts = @ + 1, ![i].state = "loading",
                                 ![i].watcher = "backoff"]
    /\ UNCHANGED <<locks, table, portsInUse, proc, call, foreign>>

\* The backoff ends: the old port is released, then asked for again.  With no
\* port free the instance is failed and keeps the number it released.
WatchRelaunch(i) ==
    /\ inst[i].watcher = "backoff"
    /\ LET used == portsInUse \ {inst[i].port}
           free == FreePorts(used) IN
       \/ /\ free = {}
          /\ portsInUse' = used
          /\ inst' = [inst EXCEPT ![i].state = "failed", ![i].watcher = "none"]
       \/ /\ free # {}
          /\ LET p == Choice(free, inst[i].port) IN
             /\ portsInUse' = used \cup {p}
             /\ inst' = [inst EXCEPT ![i].port = p, ![i].watcher = "spawn"]
    /\ UNCHANGED <<locks, table, proc, call, foreign>>

WatchSpawned(i) ==
    /\ inst[i].watcher = "spawn"
    /\ proc' = [proc EXCEPT ![i] = "starting"]
    /\ inst' = [inst EXCEPT ![i].watcher = "health"]
    /\ UNCHANGED <<locks, table, portsInUse, call, foreign>>

WatchHealthy(i) ==
    /\ inst[i].watcher = "health"
    /\ Alive(i) /\ Answers(i)
    /\ inst' = [inst EXCEPT ![i].state = "ready", ![i].watcher = "watch"]
    /\ UNCHANGED <<locks, table, portsInUse, proc, call, foreign>>

\* The relaunch fails; what it left behind is torn down, and it is tried again
\* unless the restarts are used up.
WatchFails(i) ==
    /\ inst[i].watcher \in {"spawn", "health"}
    /\ \E p \in {"starting", "listening", "dead"} :
          Killed(i, p) /\ proc' = [proc EXCEPT ![i] = p]
    /\ inst' = IF inst[i].restarts >= MaxRestarts
               THEN [inst EXCEPT ![i].state = "failed", ![i].watcher = "none"]
               ELSE [inst EXCEPT ![i].watcher = "watch"]
    /\ UNCHANGED <<locks, table, portsInUse, call, foreign>>

-----------------------------------------------------------------------------
\* The processes

\* The child binds its port, or exits because another process has it.
Binds(i) ==
    /\ proc[i] = "starting"
    /\ proc' = [proc EXCEPT ![i] = IF Bindable(inst[i].port) THEN "listening" ELSE "dead"]
    /\ UNCHANGED <<locks, table, portsInUse, inst, call, foreign>>

\* A child exits unasked: a crash, an out-of-memory kill, a survivor's end.
Exits(i) ==
    /\ Alive(i)
    /\ proc' = [proc EXCEPT ![i] = "dead"]
    /\ UNCHANGED <<locks, table, portsInUse, inst, call, foreign>>

\* A process of somebody else binds a port nobody listens on, or leaves it.
Stranger(p) ==
    /\ \/ Bindable(p) /\ foreign' = foreign \cup {p}
       \/ p \in foreign /\ foreign' = foreign \ {p}
    /\ UNCHANGED <<locks, table, portsInUse, inst, proc, call>>

-----------------------------------------------------------------------------

Proceed(c) ==
    \/ Resume(c) \/ Spawned(c) \/ Healthy(c) \/ StartFails(c) \/ StartCleaned(c)
    \/ StopKills(c) \/ StopVerified(c)

Watch(i) ==
    \/ WatchExit(i) \/ WatchRelaunch(i) \/ WatchSpawned(i) \/ WatchHealthy(i) \/ WatchFails(i)

Next ==
    \/ \E c \in Callers : \E op \in {"start", "stop"}, m \in Models : Call(c, op, m)
    \/ \E c \in Callers : CancelInLine(c) \/ Proceed(c)
    \/ \E i \in Insts : Watch(i) \/ Binds(i) \/ Exits(i)
    \/ \E p \in Strangers : Stranger(p)

Spec == Init /\ [][Next]_vars

\* The loop runs every task that can run.  A launch ends, in success or in the
\* failure its timeout forces, and a backoff sleep ends; nobody has to call.
FairSpec ==
    /\ Spec
    /\ \A c \in Callers : WF_vars(Proceed(c))
    /\ \A i \in Insts : WF_vars(Watch(i))

-----------------------------------------------------------------------------

TypeOK ==
    /\ lockOf \in [Models -> Locks \cup {None}]
    /\ lockHeld \in [Locks -> BOOLEAN]
    /\ lockLine \in [Locks -> Seq(Callers)]
    /\ table \in [Models -> Insts \cup {None}]
    /\ portsInUse \subseteq Ports
    /\ inst \in [Insts -> Instance]
    /\ proc \in [Insts -> {"none", "starting", "listening", "dead"}]
    /\ call \in [Callers -> {Idle} \cup Waiting \cup Running]
    /\ foreign \subseteq Ports
    /\ stranded \subseteq Models

Children(m) == {i \in Insts : Alive(i) /\ inst[i].model = m}

\* "Two locks can never produce two children for one id" (_prune_lock).
OneChild == \A m \in Models : Cardinality(Children(m)) <= 1

\* A live child is its model's table entry, where it can be seen, stopped and
\* counted, so a model has one at most: stops, crashes, relaunches and failed
\* starts in any order keep this, unless a lock is dropped under a waiter.
ChildrenInTable == \A m \in Models \ stranded : \A i \in Children(m) : table[m] = i

\* A process stop() could not kill stays in the table while it lives ("hiding
\* it would make the leak invisible").
SurvivorsStayVisible ==
    [][\A m \in Models : \A i \in Insts :
          table[m] = i /\ inst[i].state = "failed" /\ inst[i].stopping /\ Alive(i)
          /\ (\A c \in Callers : call[c].pc \in {"idle", "line"} \/ call[c].inst # i)
          => table'[m] = i]_vars

\* No two models run on one port, and each one's port is marked as in use.
HasPort(i) == InTable(i) /\ inst[i].state \in {"loading", "ready"}

PortsApart ==
    stranded = {} => \A i, j \in Insts : HasPort(i) /\ HasPort(j) =>
        inst[i].port \in portsInUse /\ (i # j => inst[i].port # inst[j].port)

\* Every live child is in the table, on a port that is its own and set aside: no
\* start, stop or relaunch, failed halfway or not, hides a process or its port.
ChildrenAccounted == TypeOK /\ ChildrenInTable /\ PortsApart

\* "Reuse the same port when it is still ours": an instance backing off is the
\* one model its port is set aside for.
BackoffPortIsOurs ==
    \A i, j \in Insts : HasPort(i) /\ inst[i].watcher = "backoff" =>
        inst[i].port \in portsInUse /\ (HasPort(j) /\ i # j => inst[i].port # inst[j].port)

\* A port is in use only for a model in the table ("or unload models" frees it).
PortsAccounted == portsInUse \subseteq {inst[i].port : i \in {j \in Insts : InTable(j)}}

\* An instance being stopped gets no new process, however its watcher stood.
StoppedStaysDown ==
    [][\A i \in Insts : inst[i].stopping /\ ~Alive(i)
          => ~Alive(i)' \/ inst[i].model \in stranded]_vars

\* Every call returns, whatever other calls, crashes and dropped locks do.
CallsReturn == \A c \in Callers : call[c].pc # "idle" ~> call[c].pc = "idle"

\* A relaunch failed and its process outlived every signal: the watcher waits for it
\* to exit before it tries again, and the model is loading meanwhile.
AwaitsSurvivor(i) == inst[i].watcher = "watch" /\ inst[i].state = "loading" /\ Alive(i)

\* A model comes to rest: one that is loading, or whose process has exited while
\* it was ready, serves again or has been given up in the end, be its port taken,
\* its child hung or relaunch after relaunch failing.  Excepted, because the code has
\* no way on there: while the watcher awaits a survivor, and an instance set up under a
\* dropped lock, which may have lost its watcher.
Restless(i) ==
    \/ inst[i].state = "loading" /\ ~AwaitsSurvivor(i)
    \/ inst[i].state = "ready" /\ ~Alive(i) /\ inst[i].model \notin stranded

ModelRestless(m) == IF table[m] = None THEN FALSE ELSE Restless(table[m])

ModelsSettle == \A m \in Models : ModelRestless(m) ~> ~ModelRestless(m)

\* Calls return and models come to rest, with survivors and strangers about.
AllSettles == CallsReturn /\ ModelsSettle

=============================================================================
