---------------------------- MODULE LoadManager ----------------------------
(***************************************************************************)
(* The manager's load path (core/manager.py): the tasks that load, reload, *)
(* evict, restore, unload and sweep models, and the grants of GPU leases,  *)
(* around a lock per model and the machine-wide load gate.                 *)
(*                                                                         *)
(* One asyncio loop: a step is the code between two awaits.  The gate is   *)
(* the one AbstractGate promises; a child is what Supervisor makes of a    *)
(* model: start() and stop() exclude each other per model (slot).  The     *)
(* planner is any choice of a card with room; sizes are in units of room.  *)
(***************************************************************************)
EXTENDS Naturals, Sequences, FiniteSets

CONSTANTS
    Models, Cards,
    SizeOf,         \* room a model takes
    Room,           \* room of a card
    ModelTier,      \* the tier a model loads and serves at
    Pinned,         \* models with a ttl of 0
    Requests,       \* inference requests: ensure_loaded, then a stream
    Loaders,        \* explicit load() calls
    Modes,          \* of which: "load", "force", "reload" (force, no interrupt)
    Grants,         \* lease claims
    CardOf, OwnersOf, GrantTier, Forced,   \* what each claims, and with force
    Unloaders,      \* explicit unload() calls
    ClientsOf,      \* bound: ClientsOf[m] are the requests, loads and unloads that may name m
    Sweeper,        \* {the ttl sweep} or {}
    Restorer,       \* {the restore pass} or {}
    Reconciler,     \* {the pin reconciler} or {}
    Rebalancer,     \* {the task that moves idle residents} or {}
    Oom,            \* whether a launch may fail transiently
    Crashes,        \* whether a ready child may exit
    None

LoadTasks == Requests \cup Loaders \cup Restorer \cup Reconciler \cup Rebalancer
Tasks == LoadTasks \cup Grants \cup Unloaders \cup Sweeper

ASSUME LoadManagerAssumption ==
    /\ SizeOf \in [Models -> Nat \ {0}] /\ Room \in Nat
    /\ ModelTier \in [Models -> 1..3] /\ Pinned \subseteq Models
    /\ Modes \subseteq {"load", "force", "reload"}
    /\ ClientsOf \in [Models -> SUBSET (Requests \cup Loaders \cup Unloaders)]
    /\ CardOf \in [Grants -> Cards] /\ OwnersOf \in [Grants -> SUBSET Models]
    /\ GrantTier \in [Grants -> 1..3] /\ Forced \subseteq Grants
    /\ Oom \in BOOLEAN /\ Crashes \in BOOLEAN
    /\ None \notin Tasks \cup Models \cup Cards
    /\ IsFiniteSet(Models) /\ IsFiniteSet(Requests)
    /\ LoadTasks \cap (Grants \cup Unloaders \cup Sweeper) = {}
    /\ Grants \cap (Unloaders \cup Sweeper) = {} /\ Unloaders \cap Sweeper = {}
    /\ Rebalancer \cap (Requests \cup Loaders \cup Restorer \cup Reconciler) = {}

VARIABLES
    child,          \* Supervisor._instances: state, card, active_requests
    slot,           \* Supervisor._locks[m]: who is in start() or stop(), then who waits
    queue,          \* waiters of ModelManager._locks[m], FIFO
    owners, line,   \* ModelManager._load_gate
    task,           \* where each task stands
    lease,          \* LeaseBook, by card
    entries,        \* ModelManager._restore_entries
    restoring,      \* whether _restore_task runs
    suppressed,     \* ModelManager._pin_suppressed
    skewed,         \* history: models whose count another child's request cut
    downed          \* history: models unloaded on purpose, not asked for since

gateVars == <<owners, line>>
vars == <<child, slot, queue, owners, line, task, lease, entries, restoring,
          suppressed, skewed, downed>>

Gate == INSTANCE AbstractGate WITH Tasks <- LoadTasks

(***************************************************************************)
(* Load tasks: "queue" waits for the model's lock; the rest hold it: "gate"*)
(* waits for the gate, "settle" for a relaunch, "stop" and "start" are     *)
(* inside the supervisor, "stopping" and "starting" wait to get in, "beat" *)
(* is the pause before a second plan.  Requests: "admitted", then "stream",*)
(* or "cut" when the child they talk to is gone.  The rebalancer: "move"   *)
(* has its model and card, "down" lost the model on the way and brings it  *)
(* home.  stage "retry" stops the victim of a failed launch, "second"      *)
(* follows the second plan.  wanted is what is left of the reconciler's    *)
(* pass.  Modes, besides those of a client: "restore", "move", "back".     *)
(***************************************************************************)
Idle == [pc |-> "idle", model |-> None, mode |-> "load", card |-> None,
         victim |-> None, todo |-> {}, stage |-> "first", wanted |-> {}, home |-> None]

InFlightPCs == {"gate", "settle", "stop", "stopping", "start", "starting", "beat"}

\* ModelManager._loading: the load tasks past their model's lock, which they hold.
Loading == {p \in LoadTasks : task[p].pc \in InFlightPCs}

\* Loads with allow_evict=False, and of these the ones told their card.
NoEvict == {"restore", "move", "back"}
Placed == {"move", "back"}

LockHeld(m) == \E p \in Loading : task[p].model = m

NoChild == [state |-> "none", card |-> None, active |-> 0]

OnCard(w, c) == {n \in Models : w[n].card = c /\ w[n].state \in {"loading", "ready", "unloading"}}

\* The units of room a model takes.
Units(n) == {n} \X (1..SizeOf[n])

Taken(w, c, without) == Cardinality(UNION {Units(n) : n \in OnCard(w, c) \ without})

Streams(m) == {r \in Requests : task[r].pc = "stream" /\ task[r].model = m}

\* LeaseBook.blocked_for
Blocked(c, m) == lease[c] # None /\ m \notin OwnersOf[lease[c]]

\* A task the supervisor's lock was handed to runs in the loop's next turn, and
\* a reconciler or a failed move between two loads in this one, before a child's exit or relaunch,
\* or anybody outside, is heard of.
Quiet ==
    /\ \A p \in Reconciler : task[p].pc = "idle" => task[p].wanted = {}
    /\ \A p \in Rebalancer : task[p].pc # "down"
    /\ \A m \in Models : slot[m] # <<>> => task[Head(slot[m])].pc \notin {"stopping", "starting"}

-----------------------------------------------------------------------------

Init ==
    /\ child = [m \in Models |-> NoChild]
    /\ slot = [m \in Models |-> <<>>]
    /\ queue = [m \in Models |-> <<>>]
    /\ Gate!Init
    /\ task = [p \in Tasks |-> Idle]
    /\ lease = [c \in Cards |-> None]
    /\ entries = {}
    /\ restoring = FALSE
    /\ suppressed = {}
    /\ skewed = {}
    /\ downed = {}

-----------------------------------------------------------------------------
\* Parts of a step.  w and s are child and slot as the step has left them.

\* The supervisor's lock of a model: first come, first in.
Inside(s, m, p) == s[m] = <<>> \/ Head(s[m]) = p
Join(s, m, p) == IF s[m] # <<>> /\ Head(s[m]) = p THEN s ELSE [s EXCEPT ![m] = Append(@, p)]
Leave(s, m) == [s EXCEPT ![m] = Tail(@)]

\* A stop or a crash cuts every stream of the child.
Severed(m) == [p \in Tasks |-> IF p \in Streams(m) THEN [task[p] EXCEPT !.pc = "cut"] ELSE task[p]]

\* Task p, as r, calls supervisor.stop(v): at once if nobody is inside.  A failed
\* child has no process and no memory: it is shown as failed until it is gone.
Stop(p, r, v, w, s) ==
    LET q == [r EXCEPT !.victim = v, !.todo = @ \ {v}] IN
    /\ slot' = Join(s, v, p)
    /\ IF Inside(s, v, p)
       THEN /\ child' = [w EXCEPT ![v].state = IF @ = "failed" THEN @ ELSE "unloading"]
            /\ task' = [Severed(v) EXCEPT ![p] = [q EXCEPT !.pc = "stop"]]
       ELSE /\ child' = w
            /\ task' = [task EXCEPT ![p] = [q EXCEPT !.pc = "stopping"]]

\* The step of a load that has the gate, be it from an earlier step.
KeepGate(p) == IF owners = {} THEN Gate!Enter(p) ELSE UNCHANGED gateVars

\* Mutant: a load that ends kicks nobody.
LeaveUnkicked(p, next) ==
    /\ task' = [task EXCEPT ![p] = next]
    /\ IF owners = {} THEN UNCHANGED gateVars ELSE Gate!Pass(p)
    /\ UNCHANGED restoring

\* The load ends: gate and lock are released and the restore pass is kicked.
LeaveAs(p, next) ==
    /\ task' = [task EXCEPT ![p] = next]
    /\ IF owners = {} THEN UNCHANGED gateVars ELSE Gate!Pass(p)
    /\ restoring' = (restoring \/ entries' # {})

Rest(r) == [Idle EXCEPT !.wanted = r.wanted]
Served(p, r) == IF p \in Requests THEN [Idle EXCEPT !.pc = "admitted", !.model = r.model] ELSE Rest(r)

\* The restore pass takes its entry in the step that begins the load.
Entries(p, r) == IF p \in Restorer /\ task[p].pc = "idle" THEN entries \ {r.model} ELSE entries

Refused(p, r, w, s) ==
    /\ child' = w /\ slot' = s
    /\ entries' = Entries(p, r)
    /\ UNCHANGED suppressed
    /\ LeaveAs(p, Rest(r))

\* supervisor.start() returned: the model is wanted up, by a pin too, and a
\* pending restore of it is superseded.
Loaded(p, r, w, s) ==
    /\ child' = w /\ slot' = s
    /\ suppressed' = suppressed \ {r.model}
    /\ entries' = entries \ {r.model}
    /\ LeaveAs(p, Served(p, r))

\* supervisor.start(): a child that is up or coming up is returned as it is.
Start(p, r, w, s) ==
    LET m == r.model
        up == w[m].state \in {"ready", "loading"} IN
    IF Inside(s, m, p) /\ up
    THEN Loaded(p, r, w, Leave(Join(s, m, p), m))
    ELSE /\ slot' = Join(s, m, p)
         /\ IF Inside(s, m, p)
            THEN /\ child' = [w EXCEPT ![m] = [state |-> "loading", card |-> r.card, active |-> 0]]
                 /\ task' = [task EXCEPT ![p] = [r EXCEPT !.pc = "start"]]
            ELSE /\ child' = w
                 /\ task' = [task EXCEPT ![p] = [r EXCEPT !.pc = "starting"]]
         /\ KeepGate(p) /\ entries' = Entries(p, r)
         /\ UNCHANGED <<restoring, suppressed>>

\* _note_displaced: a chat or agent load's victim, if it was recently active
\* (as a busy one is), is to be brought back.
NoteDisplaced(p, r, v, w) ==
    IF ModelTier[r.model] = 3 \/ v = r.model THEN entries' = Entries(p, r)
    ELSE \/ entries' = entries \cup {v}
         \/ w[v].active = 0 /\ UNCHANGED entries

\* Mutant: the plan's victims are stopped without another look.
EvictBlindly(p, r, w, s) ==
    LET left == {v \in r.todo : w[v].state # "none"}
        next == IF r.model \in left THEN {r.model} ELSE left IN
    \/ left = {} /\ Start(p, r, w, s)
    \/ \E v \in next : /\ Stop(p, r, v, w, s)
                       /\ NoteDisplaced(p, r, v, w)
                       /\ KeepGate(p) /\ UNCHANGED <<restoring, suppressed>>

\* The eviction loop: the child to be replaced first, then the plan's victims,
\* each looked at again before it is stopped -- but not after a second plan --
\* and then the launch.
Evict(p, r, w, s) ==
    LET left == {v \in r.todo : w[v].state # "none"}
        next == IF r.model \in left THEN {r.model} ELSE left IN
    \/ left = {} /\ Start(p, r, w, s)
    \/ \E v \in next :
          LET busy == w[v].active > 0 /\ r.mode # "force" /\ r.stage = "first" /\ v # r.model IN
          \/ busy /\ Refused(p, r, w, s)
          \/ /\ ~busy
             /\ Stop(p, r, v, w, s)
             /\ NoteDisplaced(p, r, v, w)
             /\ KeepGate(p) /\ UNCHANGED <<restoring, suppressed>>

\* Planner._evictable
Evictable(r, w, anyway) ==
    {n \in Models \ Pinned : /\ w[n].state = "ready"
                             /\ w[n].active = 0 \/ anyway
                             /\ ModelTier[n] >= ModelTier[r.model]}

\* Mutant: a move may evict like any load.
PlacementsEvicting(r, w, gone, anyway, hidden) ==
    {pl \in Cards \X SUBSET (IF r.mode = "restore" THEN {} ELSE Evictable(r, w, anyway) \ gone) :
        /\ r.mode \in Placed => pl[1] = r.card
        /\ ~Blocked(pl[1], r.model)
        /\ pl[2] \subseteq OnCard(w, pl[1])
        /\ Taken(w, pl[1], pl[2] \cup gone \cup hidden) + SizeOf[r.model] <= Room}

\* plan_load: a card not leased away with room once the victims, and the child
\* being replaced, are gone; a restore and a move may evict nobody.  Room is measured,
\* and children still loading may not have taken theirs (hidden).
Placements(r, w, gone, anyway, hidden) ==
    {pl \in Cards \X SUBSET (IF r.mode \in NoEvict THEN {} ELSE Evictable(r, w, anyway) \ gone) :
        /\ r.mode \in Placed => pl[1] = r.card
        /\ ~Blocked(pl[1], r.model)
        /\ pl[2] \subseteq OnCard(w, pl[1])
        /\ Taken(w, pl[1], pl[2] \cup gone \cup hidden) + SizeOf[r.model] <= Room}

Plan(p, r, gone, anyway) ==
    \E hidden \in SUBSET {n \in Models : child[n].state = "loading"} :
        LET placements == Placements(r, child, gone, anyway, hidden) IN
        \/ placements = {} /\ Refused(p, r, child, slot)
        \/ \E pl \in placements :
              Evict(p, [r EXCEPT !.card = pl[1], !.todo = pl[2] \cup gone], child, slot)

\* _load_gated up to the first await.  A forced reload replaces the child that
\* is ready now, if one was when the lock was taken (todo names it till then).
Gated(p, r) ==
    LET m == r.model
        gone == IF child[m].state = "ready" THEN r.todo ELSE {} IN
    \/ /\ \/ r.mode = "move" /\ child[m].state # "ready"
          \/ gone # {} /\ r.mode # "force" /\ child[m].active > 0
       /\ Refused(p, r, child, slot)
    \/ /\ gone = {} /\ child[m].state = "loading" /\ r.mode # "move"
       /\ task' = [task EXCEPT ![p] = [r EXCEPT !.pc = "settle"]]
       /\ KeepGate(p) /\ entries' = Entries(p, r)
       /\ UNCHANGED <<child, slot, restoring, suppressed>>
    \/ /\ gone = {} => child[m].state # "loading"
       /\ r.mode = "move" => child[m].state = "ready"
       /\ gone # {} => r.mode = "force" \/ child[m].active = 0
       /\ Plan(p, r, gone, r.mode = "force")

\* Mutant: no gate, as before D29.
LockedUngated(p, r, queued) ==
    LET m == r.model
        ready == child[m].state = "ready" IN
    \/ /\ ready
       /\ task' = [task EXCEPT ![p] = Served(p, r)]
       /\ entries' = Entries(p, r)
       /\ UNCHANGED <<child, slot, owners, line, restoring, suppressed>>
    \/ ~ready /\ Gated(p, r)

\* The model's lock is taken: a ready model is returned; a forced reload that
\* queued behind its twin folds; else the load is in flight and asks the gate.
Locked(p, r, queued) ==
    LET m == r.model
        ready == child[m].state = "ready"
        forced == r.mode \in {"force", "reload", "move"} IN
    \/ /\ ready /\ (forced => queued) /\ (r.mode = "move" => child[m].card = r.card)
       /\ task' = [task EXCEPT ![p] = Served(p, r)]
       /\ entries' = Entries(p, r)
       /\ UNCHANGED <<child, slot, owners, line, restoring, suppressed>>
    \/ /\ ~ready \/ forced
       /\ LET q == [r EXCEPT !.todo = IF ready THEN {m} ELSE {}] IN
          \/ owners = {} /\ Gated(p, q)
          \/ /\ owners # {}
             /\ Gate!Queue(p, ModelTier[m])
             /\ task' = [task EXCEPT ![p] = [q EXCEPT !.pc = "gate"]]
             /\ entries' = Entries(p, r)
             /\ UNCHANGED <<child, slot, restoring, suppressed>>

\* Pinned models that are down and may come up.
Needed == {m \in Pinned \ suppressed : child[m].state \notin {"ready", "loading"} /\ ~LockHeld(m)}

\* What the reconciler's pass has before it: a new pass lists what is needed.
Pass(p) == IF p \in Reconciler /\ task[p].wanted = {} THEN Needed ELSE task[p].wanted

AsksFor(p, m, mode) == [Idle EXCEPT !.model = m, !.mode = mode, !.wanted = Pass(p) \ {m}]

\* A task asks for its model's lock and takes it at once if nobody holds or awaits it.
AskLock(p, r) ==
    LET m == r.model IN
    \/ /\ ~LockHeld(m) /\ queue[m] = <<>>
       /\ Locked(p, r, FALSE)
       /\ UNCHANGED queue
    \/ /\ LockHeld(m) \/ queue[m] # <<>>
       /\ queue' = [queue EXCEPT ![m] = Append(@, p)]
       /\ task' = [task EXCEPT ![p] = [r EXCEPT !.pc = "queue"]]
       /\ entries' = Entries(p, r)
       /\ UNCHANGED <<child, slot, owners, line, restoring, suppressed>>

-----------------------------------------------------------------------------
\* Who loads

\* _refuse_if_held: a chat or agent load in flight holds off worse tiers, but
\* not the traffic of a model that holds itself.
Holding == {p \in Loading \cap (Requests \cup Loaders) : ModelTier[task[p].model] < 3}

HeldOff(m) ==
    /\ \A p \in Holding : task[p].model # m
    /\ \E p \in Holding : ModelTier[task[p].model] < ModelTier[m]

\* ensure_loaded for a request.
Ask(p, m) ==
    /\ p \in Requests /\ task[p].pc = "idle"
    /\ Quiet
    /\ ~HeldOff(m)
    /\ \/ /\ child[m].state = "ready"
          /\ task' = [task EXCEPT ![p] = Served(p, [Idle EXCEPT !.model = m])]
          /\ UNCHANGED <<child, slot, queue, owners, line, entries, restoring, suppressed>>
       \/ /\ child[m].state # "ready"
          /\ AskLock(p, AsksFor(p, m, "load"))
    /\ downed' = downed \ {m}
    /\ UNCHANGED <<lease, skewed>>

\* load() for a client.
Load(p, m, mode) ==
    /\ p \in Loaders /\ task[p].pc = "idle"
    /\ Quiet
    /\ ~HeldOff(m)
    /\ AskLock(p, AsksFor(p, m, mode))
    /\ downed' = downed \ {m}
    /\ UNCHANGED <<lease, skewed>>

\* _restore_evicted: the best entry is taken; a model that is back, or was
\* unloaded on purpose, is passed over; else it is loaded.
Restore(p, m) ==
    /\ p \in Restorer /\ restoring /\ task[p].pc = "idle"
    /\ m \in entries /\ \A n \in entries : ModelTier[m] <= ModelTier[n]
    /\ IF child[m].state # "none" \/ m \in suppressed
       THEN /\ entries' = entries \ {m}
            /\ UNCHANGED <<child, slot, queue, owners, line, task, restoring, suppressed>>
       ELSE AskLock(p, AsksFor(p, m, "restore"))
    /\ UNCHANGED <<lease, skewed, downed>>

\* The restore pass ends when no entry is left.
RestoreEnds(p) ==
    /\ p \in Restorer /\ restoring /\ task[p].pc = "idle" /\ entries = {}
    /\ restoring' = FALSE
    /\ UNCHANGED <<child, slot, queue, owners, line, task, lease, entries, suppressed, skewed, downed>>

\* The reconcile pass loads one needed model after the other.
Reconcile(p, m) ==
    /\ p \in Reconciler /\ task[p].pc = "idle"
    /\ m \in Pass(p) /\ (task[p].wanted = {} => Quiet)
    /\ AskLock(p, AsksFor(p, m, "load"))
    /\ UNCHANGED <<lease, skewed, downed>>

Leased(m) == \E c \in Cards : lease[c] # None /\ m \in OwnersOf[lease[c]]

\* _maybe_rebalance on a quiet box: an idle model that shares its card, and that
\* no lease names, could have another card to itself.
Spot(p, m, c) ==
    /\ p \in Rebalancer /\ task[p].pc = "idle"
    /\ Quiet
    /\ \A q \in Reconciler : task[q].pc = "idle"
    /\ Loading = {}
    /\ \A n \in Models : child[n].active = 0 /\ child[n].state # "loading"
    /\ child[m].state = "ready" /\ ~Leased(m)
    /\ \E n \in Models \ {m} : child[n].card = child[m].card
    /\ \A n \in Models : child[n].card # c
    /\ ~Blocked(c, m) /\ SizeOf[m] <= Room
    /\ task' = [task EXCEPT ![p] = [Idle EXCEPT !.pc = "move", !.model = m, !.mode = "move",
                                               !.card = c, !.home = child[m].card]]
    /\ UNCHANGED <<child, slot, queue, owners, line, lease, entries, restoring,
                   suppressed, skewed, downed>>

\* _rebalance: a forced reload onto the card, unless the model was leased since.
Move(p) ==
    /\ p \in Rebalancer /\ task[p].pc = "move"
    /\ IF Leased(task[p].model)
       THEN /\ task' = [task EXCEPT ![p] = Idle]
            /\ UNCHANGED <<child, slot, queue, owners, line, entries, restoring, suppressed>>
       ELSE AskLock(p, task[p])
    /\ UNCHANGED <<lease, skewed, downed>>

\* _restore_after_failed_rebalance: the previous plan on the previous card.
Back(p) ==
    /\ p \in Rebalancer /\ task[p].pc = "down"
    /\ AskLock(p, [Idle EXCEPT !.model = task[p].model, !.mode = "back", !.card = task[p].home])
    /\ UNCHANGED <<lease, skewed, downed>>

LockTaken(p) ==
    /\ p \in LoadTasks /\ task[p].pc = "queue"
    /\ LET m == task[p].model IN
       /\ ~LockHeld(m) /\ Head(queue[m]) = p
       /\ queue' = [queue EXCEPT ![m] = Tail(@)]
       /\ Locked(p, task[p], TRUE)
    /\ UNCHANGED <<lease, skewed, downed>>

GateTaken(p) ==
    /\ p \in owners /\ task[p].pc = "gate"
    /\ Gated(p, task[p])
    /\ UNCHANGED <<queue, lease, skewed, downed>>

\* Mutant: the wait for a relaunch has no deadline and no eye for failure.
SettledOrWaits(p) ==
    /\ p \in LoadTasks /\ task[p].pc = "settle"
    /\ IF child[task[p].model].state = "ready"
       THEN /\ UNCHANGED <<child, slot, queue, entries, suppressed, lease, skewed, downed>>
            /\ LeaveAs(p, Served(p, task[p]))
       ELSE UNCHANGED vars

\* _await_settled: a fresh plan if the relaunch failed, or never settled.
Settled(p) ==
    /\ p \in LoadTasks /\ task[p].pc = "settle"
    /\ IF child[task[p].model].state = "ready"
       THEN /\ UNCHANGED <<child, slot, entries, suppressed>>
            /\ LeaveAs(p, Served(p, task[p]))
       ELSE Plan(p, task[p], {}, task[p].mode = "force")
    /\ UNCHANGED <<queue, lease, skewed, downed>>

Started(p) ==
    /\ p \in LoadTasks /\ task[p].pc = "start"
    /\ LET m == task[p].model IN
       Loaded(p, task[p], [child EXCEPT ![m].state = "ready"], Leave(slot, m))
    /\ UNCHANGED <<queue, lease, skewed, downed>>

\* Mutant: a move that fails is a load that fails, as before D70.
FailedAsAny(p, r, w, s) == Refused(p, r, w, s)

\* The launch is given up: a move that had stopped its model is "down".
Failed(p, r, w, s) ==
    \/ r.mode # "move" /\ Refused(p, r, w, s)
    \/ /\ r.mode = "move"
       /\ child' = w /\ slot' = s
       /\ UNCHANGED <<entries, suppressed>>
       /\ LeaveAs(p, [Idle EXCEPT !.pc = "down", !.model = r.model, !.home = r.home])

\* The launch fails.  A transient failure of a first attempt that may evict
\* frees the worst-tier victim and tries once more.
StartFails(p) ==
    /\ p \in LoadTasks /\ task[p].pc = "start"
    /\ LET r == task[p]
           w == [child EXCEPT ![r.model] = NoChild]
           s == Leave(slot, r.model)
           victims == Evictable(r, w, FALSE) IN
       \/ Failed(p, r, w, s)
       \/ /\ Oom /\ r.stage = "first" /\ r.mode \notin NoEvict
          /\ \E v \in victims :
                /\ \A n \in victims : ModelTier[n] <= ModelTier[v]
                /\ Stop(p, [r EXCEPT !.stage = "retry"], v, w, s)
                /\ NoteDisplaced(p, r, v, w)
          /\ UNCHANGED <<owners, line, restoring, suppressed>>
    /\ UNCHANGED <<queue, lease, skewed, downed>>

\* After the pause, the second plan.
Replan(p) ==
    /\ p \in LoadTasks /\ task[p].pc = "beat"
    /\ Plan(p, [task[p] EXCEPT !.stage = "second"], {}, FALSE)
    /\ UNCHANGED <<queue, lease, skewed, downed>>

StartTurn(p) ==
    /\ p \in LoadTasks /\ task[p].pc = "starting"
    /\ Head(slot[task[p].model]) = p
    /\ Start(p, task[p], child, slot)
    /\ UNCHANGED <<queue, lease, skewed, downed>>

-----------------------------------------------------------------------------
\* Leases, unloads and the sweep

\* The grant's own loop over its victims: one that is busy by now ends the
\* grant, and the lease with it.
GrantEvicts(g, r, w, s) ==
    LET left == {v \in r.todo : w[v].state # "none"} IN
    \/ /\ left = {}
       /\ child' = w /\ slot' = s
       /\ task' = [task EXCEPT ![g] = Idle]
    \/ \E v \in left :
          IF w[v].active > 0
          THEN /\ child' = w /\ slot' = s
               /\ task' = [task EXCEPT ![g] = Idle]
          ELSE Stop(g, r, v, w, s)

\* Whether that loop ends here without its lease.
GrantLost(g, r, w) ==
    /\ task'[g] = Idle
    /\ \E v \in r.todo : w[v].state # "none"

Lease(g, c) == lease' = [lease EXCEPT ![c] = g]
Unlease(g) == lease' = [c \in Cards |-> IF lease[c] = g THEN None ELSE lease[c]]

\* acquire_lease: refused while the card is leased, any load is in flight, or a
\* resident is busy, pinned or of a better tier; else entered, then evicting.
Grant(g) ==
    /\ g \in Grants /\ task[g].pc = "idle"
    /\ Quiet
    /\ LET claimed == CardOf[g]
           there == {n \in Models \ OwnersOf[g] : child[n].card = claimed /\ child[n].state # "none"}
           r == [Idle EXCEPT !.card = claimed, !.todo = there] IN
       /\ lease[claimed] = None
       /\ Loading = {}
       /\ \A n \in there : /\ child[n].state # "loading" /\ child[n].active = 0
                           /\ g \in Forced \/ (n \notin Pinned /\ ModelTier[n] >= GrantTier[g])
       /\ GrantEvicts(g, r, child, slot)
       /\ Lease(g, claimed)
    /\ UNCHANGED <<queue, owners, line, entries, restoring, suppressed, skewed, downed>>

\* The holder releases the lease, or the sweep does, the grant done or not.
Release(c) ==
    /\ lease[c] # None
    /\ Quiet
    /\ lease' = [lease EXCEPT ![c] = None]
    /\ UNCHANGED <<child, slot, queue, owners, line, task, entries, restoring, suppressed, skewed, downed>>

\* unload(): refused for a model a lease holds; cancels a pending restore, and
\* marks a model that is there so that the reconciler leaves it down.
Unload(p, m) ==
    /\ p \in Unloaders /\ task[p].pc = "idle"
    /\ Quiet
    /\ \A c \in Cards : lease[c] # None => m \notin OwnersOf[lease[c]] /\ child[m].card # c
    /\ entries' = entries \ {m}
    /\ IF child[m].state = "none"
       THEN UNCHANGED <<child, slot, task, suppressed>>
       ELSE /\ suppressed' = suppressed \cup {m}
            /\ Stop(p, [Idle EXCEPT !.model = m], m, child, slot)
    /\ UNCHANGED <<queue, owners, line, lease, restoring, skewed, downed>>

\* The ttl sweep stops a model it finds idle.
Sweep(p, m) ==
    /\ p \in Sweeper /\ task[p].pc = "idle"
    /\ child[m].state = "ready" /\ child[m].active = 0 /\ m \notin Pinned
    /\ Quiet
    /\ Stop(p, Idle, m, child, slot)
    /\ UNCHANGED <<queue, owners, line, lease, entries, restoring, suppressed, skewed, downed>>

\* Nobody who may ask for m is about to bring it up.
Unasked(m) == \A q \in Requests \cup Loaders : task[q].model # m \/ task[q].pc \in {"idle", "cut"}

\* What follows the return of stop(), by whoever called it.
AfterStop(p, w, s) ==
    \/ /\ p \in LoadTasks /\ task[p].stage = "retry"
       /\ child' = w /\ slot' = s
       /\ task' = [task EXCEPT ![p].pc = "beat"]
       /\ UNCHANGED <<owners, line, lease, entries, restoring, suppressed, downed>>
    \/ /\ p \in LoadTasks /\ task[p].stage # "retry"
       /\ Evict(p, task[p], w, s)
       /\ UNCHANGED <<lease, downed>>
    \/ /\ p \in Grants
       /\ GrantEvicts(p, task[p], w, s)
       /\ IF GrantLost(p, task[p], w) THEN Unlease(p) ELSE UNCHANGED lease
       /\ UNCHANGED <<owners, line, entries, restoring, suppressed, downed>>
    \/ /\ p \in Unloaders \cup Sweeper
       /\ child' = w /\ slot' = s
       /\ task' = [task EXCEPT ![p] = Idle]
       /\ downed' = IF p \in Unloaders /\ Unasked(task[p].model)
                    THEN downed \cup {task[p].model} ELSE downed
       /\ UNCHANGED <<owners, line, lease, entries, restoring, suppressed>>

Stopped(p) ==
    /\ task[p].pc = "stop"
    /\ LET v == task[p].victim IN
       AfterStop(p, [child EXCEPT ![v] = NoChild], Leave(slot, v))
    /\ UNCHANGED <<queue, skewed>>

\* Its turn inside the supervisor: the model may be gone by now.
StopTurn(p) ==
    /\ task[p].pc = "stopping"
    /\ LET v == task[p].victim IN
       /\ Head(slot[v]) = p
       /\ \/ child[v].state = "none" /\ AfterStop(p, child, Leave(slot, v))
          \/ /\ child[v].state # "none"
             /\ Stop(p, task[p], v, child, slot)
             /\ UNCHANGED <<owners, line, lease, entries, restoring, suppressed, downed>>
    /\ UNCHANGED <<queue, skewed>>

-----------------------------------------------------------------------------
\* Requests and children

\* mark_request_start, once the answer is being written: it counts on the child
\* the model has by then, and is cut if that one no longer serves.
StreamStarts(p) ==
    /\ p \in Requests /\ task[p].pc = "admitted"
    /\ LET m == task[p].model IN
       /\ child' = IF child[m].state = "none" THEN child ELSE [child EXCEPT ![m].active = @ + 1]
       /\ task' = [task EXCEPT ![p].pc = IF child[m].state = "ready" THEN "stream" ELSE "cut"]
    /\ UNCHANGED <<slot, queue, owners, line, lease, entries, restoring, suppressed, skewed, downed>>

\* mark_request_end counts down on the child the model has now.
StreamEnds(p) ==
    /\ p \in Requests /\ task[p].pc \in {"stream", "cut"}
    /\ LET m == task[p].model
           n == child[m].active
           live == Cardinality(Streams(m) \ {p}) IN
       /\ child' = [child EXCEPT ![m].active = IF n = 0 THEN 0 ELSE n - 1]
       /\ skewed' = IF child'[m].active < live THEN skewed \cup {m} ELSE skewed
    /\ task' = [task EXCEPT ![p] = Idle]
    /\ UNCHANGED <<slot, queue, owners, line, lease, entries, restoring, suppressed, downed>>

\* A ready child exits and its watcher relaunches it in place, or gives up.
Crash(m) ==
    /\ Crashes /\ child[m].state = "ready"
    /\ Quiet
    /\ child' = [child EXCEPT ![m].state = "loading"]
    /\ task' = Severed(m)
    /\ UNCHANGED <<slot, queue, owners, line, lease, entries, restoring, suppressed, skewed, downed>>

Launching(m) == \E p \in LoadTasks : task[p].pc = "start" /\ task[p].model = m

Relaunched(m) ==
    /\ child[m].state = "loading" /\ ~Launching(m)
    /\ Quiet
    /\ child' = [child EXCEPT ![m].state = "ready"]
    /\ UNCHANGED <<slot, queue, owners, line, task, lease, entries, restoring, suppressed, skewed, downed>>

GivenUp(m) ==
    /\ child[m].state = "loading" /\ ~Launching(m)
    /\ Quiet
    /\ child' = [child EXCEPT ![m].state = "failed"]
    /\ UNCHANGED <<slot, queue, owners, line, task, lease, entries, restoring, suppressed, skewed, downed>>

-----------------------------------------------------------------------------

Arrive(p) ==
    \E m \in Models :
        \/ /\ p \in ClientsOf[m]
           /\ Ask(p, m) \/ (\E mode \in Modes : Load(p, m, mode)) \/ Unload(p, m)
        \/ Sweep(p, m) \/ \E c \in Cards : Spot(p, m, c)

\* What the loop, the supervisor and the clients owe a task that has begun.
Proceed(p) ==
    \/ LockTaken(p) \/ GateTaken(p) \/ Settled(p) \/ Started(p) \/ StartFails(p) \/ Replan(p)
    \/ StartTurn(p) \/ Stopped(p) \/ StopTurn(p) \/ StreamStarts(p) \/ StreamEnds(p)
    \/ RestoreEnds(p) \/ Move(p) \/ Back(p) \/ \E m \in Models : Restore(p, m) \/ Reconcile(p, m)

Next ==
    \/ \E p \in Tasks : Arrive(p) \/ Proceed(p)
    \/ \E g \in Grants : Grant(g)
    \/ \E c \in Cards : Release(c)
    \/ \E m \in Models : Crash(m) \/ Relaunched(m) \/ GivenUp(m)

Spec == Init /\ [][Next]_vars

\* Launches, teardowns and relaunches are bounded by their timeouts.
FairSpec ==
    /\ Spec
    /\ \A p \in Tasks : WF_vars(Proceed(p))
    /\ \A m \in Models : WF_vars(Relaunched(m) \/ GivenUp(m))

-----------------------------------------------------------------------------

TypeOK ==
    /\ child \in [Models -> [state : {"none", "loading", "ready", "unloading", "failed"},
                             card : Cards \cup {None}, active : 0..Cardinality(Requests)]]
    /\ slot \in [Models -> Seq(Tasks)]
    /\ queue \in [Models -> Seq(LoadTasks)]
    /\ owners \subseteq LoadTasks /\ line \subseteq LoadTasks \X (1..3)
    /\ \A p \in Tasks : task[p].pc \in InFlightPCs \cup {"idle", "queue", "admitted", "stream", "cut", "move", "down"}
    /\ lease \in [Cards -> Grants \cup {None}]
    /\ entries \cup suppressed \cup skewed \cup downed \subseteq Models
    /\ restoring \in BOOLEAN

\* "Each was planned as if the other did not exist" (D29) never happens: no card
\* is given more than it has room for, whoever loads, evicts, restores or retries.
RoomEnough == \A c \in Cards : Taken(child, c, {}) <= Room

\* While a lease stands, only models it names are on its card, or ones its own
\* grant is still clearing away (D43).
LeaseHonoured ==
    \A c \in Cards : \A n \in OnCard(child, c) :
        Blocked(c, n) => \/ child[n].state = "unloading"
                         \/ n \in task[lease[c]].todo \cup {task[lease[c]].victim}

\* Every card carries no more than it holds, and nothing its lease keeps out.
CardsInOrder == TypeOK /\ RoomEnough /\ LeaseHonoured

TakesDown(p, m) == task'[p].pc = "stop" /\ task'[p].victim = m

\* What may cut a stream: a crash, an explicit unload, force.
Licensed(m) ==
    \/ child'[m].state = "loading"
    \/ \E p \in Tasks : TakesDown(p, m) /\ (p \in Unloaders \/ task'[p].mode = "force")

\* Where the code does not look again: the victims of the plan that follows a failed
\* launch (_start_with_retry), and a child whose stop, after the look, had to wait
\* for the supervisor's lock.
Unseen(m) ==
    \E p \in Tasks : TakesDown(p, m) /\ (task'[p].stage = "second" \/ task[p].pc = "stopping")

IsCut(m) == \E r \in Streams(m) : task'[r].pc = "cut"

\* "A model serving a request is never evicted to make room" (D36), unless its count
\* lost the request.  Excepted, because the code does not keep it there: Unseen.
StreamsSafe == [][\A m \in Models \ skewed : IsCut(m) => Licensed(m) \/ Unseen(m)]_vars

\* The same without the exception.
NeverEvictedServing == [][\A m \in Models \ skewed : IsCut(m) => Licensed(m)]_vars

\* "Idle residents on those cards are unloaded": a grant stops no other child.
GrantKeepsToItsCard ==
    [][\A g \in Grants :
          task'[g].pc = "stop" /\ <<task'[g].pc, task'[g].victim>> # <<task[g].pc, task[g].victim>>
          => child[task'[g].victim].card = CardOf[g]]_vars

\* "The count is the leak-proof truth": a ready child counts the streams it has.
CountsStreams ==
    \A m \in Models : child[m].state = "ready" => child[m].active >= Cardinality(Streams(m))

\* A load whose model is already up evicts nobody ("planning again would launch
\* nothing but could evict bystanders").
NoIdleEviction ==
    [][\A p \in LoadTasks :
          task'[p].pc = "stop" /\ task[p].pc # "stop" /\ task'[p].victim # task'[p].model
          => child[task'[p].model].state # "ready"]_vars

\* "The stopped id is marked so the pin reconciler leaves it down": no restore,
\* reconcile or move launches a model unloaded on purpose and not asked for since.
DownStaysDown ==
    [][\A p \in Restorer \cup Reconciler \cup Rebalancer :
          task'[p].pc = "start" => task'[p].model \notin downed]_vars

\* The same words of the reconciler alone: it never asks for a model that is
\* marked as it does so.
MarkHeeded ==
    [][\A p \in Reconciler :
          task[p].pc = "idle" /\ task'[p].pc # "idle" => task'[p].model \notin suppressed]_vars

\* The kick is never lost: while a displaced model waits to come back, the
\* restore pass runs, or a load does whose end will start it.
RestoreComing == entries # {} => restoring \/ Loading # {}

\* "The candidate plan must evict nothing": a move, or its way back, stops no
\* other model, and the way back stops none.
MoveEvictsNobody ==
    [][\A p \in Rebalancer :
          task'[p].pc \in {"stop", "stopping"}
          => task'[p].mode = "move" /\ task'[p].victim = task'[p].model]_vars

\* "The log said 'the model keeps its placement' while the model was down" (D70):
\* a move whose model is gone does not end before it has tried to bring it home.
MoveLeavesNothingDown ==
    [][\A p \in Rebalancer :
          /\ task[p].mode = "move" /\ task[p].pc \in {"stop", "stopping", "start", "starting"}
          /\ task'[p].pc = "idle"
          => child'[task[p].model].state # "none"]_vars

\* Per-model lock, gate, then supervisor: whoever has the gate passes it on, so the gate is
\* free or changes hands again and again.
GatePassedOn == []<>(owners = {}) \/ []<><<owners' # owners>>_owners

=============================================================================
