----------------------------- MODULE Benchmarks -----------------------------
(***************************************************************************)
(* One model measured: the placement benchmark (core/benchmark.py), the    *)
(* slot sweep (core/parallel_bench.py) and the smoke test (test_model),    *)
(* among the requests, unloads, settings saves, pin changes, library scans *)
(* and the pin reconciler that meet them.                                  *)
(*                                                                         *)
(* The placement run steers each mode through the settings of the model's  *)
(* registry record and puts them back at its end; the sweep and the test   *)
(* pass arguments instead.  Of a load the module keeps the model's lock,   *)
(* the plan, the stop of the child replaced and the launch; the gate and   *)
(* the cards are LoadManager's.  Who measures, asks, unloads, saves, pins  *)
(* or scans does so once.                                                  *)
(***************************************************************************)
EXTENDS Naturals, FiniteSets

CONSTANTS
    Modes,          \* the placements the GPUs offer
    Placers,        \* placement runs
    Sweepers,       \* slot sweeps
    Testers,        \* callers of test_model
    Clients,        \* requests for the model
    Unloaders,      \* callers of unload
    Savers,         \* PUT or PATCH of the model's settings
    Pinners,        \* calls of set_pinned
    Scanners,       \* library scans
    Reaper,         \* the one detached unload
    Reconciler,     \* the one pass over pinned models
    Levels,         \* levels of concurrency a sweep measures
    MaxFails,       \* bound: refused leases and plans, failed launches
    MaxCancels,     \* bound: tasks of runs that are cancelled
    MaxCalls,       \* bound: calls other than the runs, cancellations included
    None

Runs == Placers \cup Sweepers
Loaders == Runs \cup Testers \cup Clients \cup {Reconciler}
Actors == Loaders \cup Unloaders \cup Savers \cup Pinners \cup Scanners \cup {Reaper}

ASSUME BenchmarksAssumption ==
    /\ Levels \in Nat /\ MaxFails \in Nat /\ MaxCancels \in Nat /\ MaxCalls \in Nat
    /\ None \notin Modes \cup Actors

VARIABLES
    owner,          \* the run inside Benchmarker._lock, or None
    marker,         \* whether _benchmarking names the model
    testing,        \* whether _testing does
    live,           \* settings of the registry's record
    saved,          \* settings in the database
    orphaned,       \* whether the run's record is no longer the registry's
    child,          \* the model's child
    on,             \* whose requests it serves
    suppressed,     \* whether the pin is suppressed
    leased,         \* whether a benchmark's lease stands
    asked,          \* runs whose cancel_event is set
    task,           \* where each actor stands
    result,         \* what was measured: per mode, and per sweep
    strewn,         \* history: what a run or a test could not clean up: "lease", "child", "test"
    crossed,        \* history: a save overtook a placement run's or a scan's look
    overtaken,      \* history: a save that had looked before the run replaced what it steers
    fails, cancels  \* how many so far

benchVars == <<owner, marker, orphaned, leased, asked, result, strewn>>
childVars == <<child, on>>
setVars == <<live, saved, crossed, overtaken>>
counts == <<fails, cancels>>
vars == <<benchVars, testing, setVars, childVars, suppressed, task, counts>>

Settings == [user : 0..Cardinality(Savers), mode : Modes \cup {None}, pinned : BOOLEAN]

\* What a child was launched with: a mode's settings, those of a sweep or a
\* smoke test, or (None) the model's own.
Shapes == [mode : Modes \cup {"sweep", "small", None}, user : 0..Cardinality(Savers)]

NoChild == [state |-> "none", shape |-> None, by |-> None]

\* pc of a load: "lock", "clear" (the child it replaces is being stopped, or room
\* made), "launch".  pc of an unload: "unload", "stopping".
\* was: whether the model was up before; prev: its shape then; fresh: whether the
\* run loaded it; plan: the shape to launch; held: settings to put back, or to save.
Idle == [pc |-> "idle", todo |-> {}, mode |-> None, held |-> None, was |-> FALSE,
         prev |-> None, plan |-> None, fresh |-> FALSE, left |-> 0]

Go(a, r) == task' = [task EXCEPT ![a] = r]
At(r, pc) == [r EXCEPT !.pc = pc]
Done == At(Idle, "done")

LockHeld == \E a \in Loaders : task[a].pc \in {"clear", "launch"}

\* busy_snapshot: requests served, loads in flight.
Busy == on # {} \/ LockHeld \/ child.state = "loading"

-----------------------------------------------------------------------------

Init ==
    /\ owner = None /\ marker = FALSE /\ testing = FALSE
    /\ \E p \in BOOLEAN : live = [user |-> 0, mode |-> None, pinned |-> p]
    /\ saved = live
    /\ orphaned = FALSE
    /\ child \in {NoChild, [state |-> "ready", shape |-> [mode |-> None, user |-> 0], by |-> None]}
    /\ on = {}
    /\ suppressed = FALSE /\ leased = FALSE
    /\ asked = {}
    /\ task = [a \in Actors |-> Idle]
    /\ result = [x \in Modes \cup Sweepers |-> None]
    /\ strewn = {} /\ crossed = FALSE /\ overtaken = FALSE
    /\ fails = 0 /\ cancels = 0

-----------------------------------------------------------------------------
\* The child: unloads and loads

\* manager.unload, from the look at the table on: a child that is coming up or
\* being stopped holds the supervisor's lock.
Unload(a, r, next) ==
    \/ child.state = "none" /\ Go(a, next) /\ UNCHANGED childVars
    \/ child.state = "loading" /\ Go(a, At(r, "unload")) /\ UNCHANGED childVars
    \/ child.state = "stopping" /\ Go(a, At(r, "stopping")) /\ UNCHANGED childVars
    \/ /\ child.state = "ready"
       /\ child' = [child EXCEPT !.state = "stopping"] /\ on' = {}
       /\ Go(a, At(r, "stopping"))

\* What follows an unload.
Unloaded(a) ==
    CASE a \in Placers -> At(task[a], "lease")
      [] a \in Sweepers -> At(task[a], "over")
      [] a \in Testers -> At(task[a], "tested")
      [] a = Reaper -> Idle
      [] OTHER -> At(task[a], "done")

\* The supervisor's lock is free again for a stop that waits for it.
UnloadTurn(a) ==
    /\ task[a].pc = "unload" /\ child.state # "loading"
    /\ Unload(a, task[a], Unloaded(a))
    /\ UNCHANGED <<benchVars, testing, setVars, suppressed, counts>>

\* The process is gone: whoever stopped it goes on.
StopEnds ==
    /\ child.state = "stopping"
    /\ child' = NoChild
    /\ task' = [a \in Actors |-> IF task[a].pc = "stopping" THEN Unloaded(a) ELSE task[a]]
    /\ UNCHANGED <<on, benchVars, testing, setVars, suppressed, counts>>

\* What a load launches: arguments outrank the settings its plan reads.
ShapeFor(a) ==
    IF a \in Sweepers THEN IF task[a].fresh THEN task[a].prev ELSE [mode |-> "sweep", user |-> live.user]
    ELSE IF a \in Testers THEN [mode |-> "small", user |-> live.user]
    ELSE [mode |-> live.mode, user |-> live.user]

\* The run or test whose own child a launch makes: not a sweep that puts back what
\* was there.
Launcher(a) == IF a \in Runs \cup Testers /\ ~task[a].fresh THEN a ELSE None

Strewn(things) == strewn' = strewn \cup things

\* The lease ends and the slot is freed.
Over(a) ==
    /\ owner' = None /\ marker' = FALSE /\ leased' = FALSE
    /\ UNCHANGED <<orphaned, asked, result>>

\* load() raised.
LoadFails(a) ==
    LET r == [task[a] EXCEPT !.plan = None] IN
    CASE a \in Placers ->
             /\ Go(a, [At(r, "next") EXCEPT !.todo = @ \ {r.mode}, !.mode = None])
             /\ result' = [result EXCEPT ![r.mode] = None]
             /\ leased' = FALSE
             /\ UNCHANGED <<owner, marker, orphaned, asked, strewn, testing>>
      [] a \in Sweepers ->
             /\ Go(a, Done) /\ Over(a)
             /\ Strewn(IF r.fresh THEN {"child"} ELSE {})
             /\ UNCHANGED testing
      [] a \in Testers ->
             /\ Go(a, Done) /\ testing' = FALSE
             /\ UNCHANGED benchVars
      [] a = Reconciler -> Go(a, Idle) /\ UNCHANGED <<benchVars, testing>>
      [] OTHER -> Go(a, Done) /\ UNCHANGED <<benchVars, testing>>

\* load() returned: a measurement or a request begins in the same step.
Got(a) ==
    LET r == [task[a] EXCEPT !.plan = None] IN
    CASE a \in Placers \cup Testers ->
             /\ Go(a, At(r, "measure")) /\ on' = on \cup {a}
             /\ UNCHANGED benchVars
      [] a \in Sweepers ->
             /\ IF r.fresh THEN Go(a, Done) /\ Over(a)
                ELSE Go(a, [At(r, "level") EXCEPT !.fresh = TRUE]) /\ UNCHANGED <<owner, marker, leased, orphaned, asked, result>>
             /\ UNCHANGED <<on, strewn>>
      [] a \in Clients ->
             /\ Go(a, At(r, "stream")) /\ on' = on \cup {a}
             /\ UNCHANGED benchVars
      [] OTHER -> Go(a, Idle) /\ UNCHANGED <<on, benchVars>>

\* Mutant: a benchmark's load takes the child that is there.
LockTakenAsAny(a) ==
    /\ task[a].pc = "lock" /\ ~LockHeld
    /\ IF child.state = "ready"
       THEN Got(a) /\ suppressed' = FALSE /\ UNCHANGED <<child, testing, fails>>
       ELSE /\ Go(a, [At(task[a], "clear") EXCEPT !.plan = ShapeFor(a)])
            /\ UNCHANGED <<benchVars, childVars, testing, suppressed, fails>>
    /\ UNCHANGED <<setVars, cancels>>

\* The model's lock is taken: a ready child is handed out, but a benchmark's load
\* is a forced one, which replaces it unless it serves; the rest is planned.
LockTaken(a) ==
    /\ task[a].pc = "lock" /\ ~LockHeld
    /\ LET ready == child.state = "ready"
           reload == ready /\ a \in Runs IN
       \/ /\ ready /\ a \notin Runs
          /\ Got(a) /\ suppressed' = FALSE
          /\ UNCHANGED <<child, testing, fails>>
       \/ /\ reload /\ on # {}
          /\ LoadFails(a)
          /\ UNCHANGED <<childVars, suppressed, fails>>
       \/ /\ ready => reload /\ on = {}
          /\ Go(a, [At(task[a], "clear") EXCEPT !.plan = ShapeFor(a)])
          /\ child' = IF reload THEN [child EXCEPT !.state = "stopping"] ELSE child
          /\ UNCHANGED <<on, benchVars, testing, suppressed, fails>>
       \/ /\ ready => reload /\ on = {}
          /\ fails < MaxFails /\ fails' = fails + 1
          /\ LoadFails(a)
          /\ UNCHANGED <<childVars, suppressed>>
    /\ UNCHANGED <<setVars, cancels>>

\* supervisor.start, once no child is in the way.
Launch(a) ==
    /\ task[a].pc = "clear" /\ child.state = "none"
    /\ child' = [state |-> "loading", shape |-> task[a].plan, by |-> Launcher(a)]
    /\ Go(a, At(task[a], "launch"))
    /\ UNCHANGED <<on, benchVars, testing, setVars, suppressed, counts>>

LaunchEnds(a) ==
    /\ task[a].pc = "launch"
    /\ \/ /\ child' = [child EXCEPT !.state = "ready"]
          /\ Got(a) /\ suppressed' = FALSE
          /\ UNCHANGED <<testing, fails>>
       \/ /\ fails < MaxFails /\ fails' = fails + 1
          /\ child' = NoChild
          /\ LoadFails(a)
          /\ UNCHANGED <<on, suppressed>>
    /\ UNCHANGED <<setVars, cancels>>

-----------------------------------------------------------------------------
\* The placement benchmark

\* record.settings of the record the run holds, seen by others unless a scan has
\* put another in its place.
Steer(settings) == live' = IF orphaned THEN live ELSE settings

\* run(): one at a time, on an idle server.
StartPlacement(p) ==
    /\ p \in Placers /\ task[p].pc = "idle"
    /\ owner = None /\ ~testing /\ ~Busy
    /\ \E applicable \in SUBSET Modes :
           Go(p, [Idle EXCEPT !.pc = "next", !.todo = applicable, !.held = live])
    /\ owner' = p /\ marker' = TRUE /\ orphaned' = FALSE
    /\ overtaken' = FALSE
    /\ UNCHANGED <<leased, asked, result, strewn, testing, live, saved, crossed, childVars, suppressed, counts>>

\* The outer finally: settings back, marker off, and the unload detached.
TearDown(p, r) ==
    /\ Steer(r.held)
    /\ marker' = FALSE
    /\ task' = [task EXCEPT ![p] = At(Idle, "teardown"), ![Reaper] = At(Idle, "due")]

\* Cancelled or out of modes, the run ends; else the next mode begins with the
\* model down.
NextMode(p) ==
    /\ p \in Placers /\ task[p].pc = "next"
    /\ LET r == task[p] IN
       \/ /\ p \in asked \/ r.todo = {}
          /\ TearDown(p, r)
          /\ UNCHANGED <<owner, leased, result, childVars>>
       \/ /\ p \notin asked
          /\ \E m \in r.todo : LET s == [r EXCEPT !.mode = m] IN Unload(p, s, At(s, "lease"))
          /\ UNCHANGED <<owner, marker, leased, result, live>>
    /\ UNCHANGED <<orphaned, asked, strewn, testing, saved, crossed, overtaken, suppressed, counts>>

\* The mode's settings, and its load.
SteerAndLoad(p) ==
    /\ Steer([task[p].held EXCEPT !.mode = task[p].mode])
    /\ Go(p, At(task[p], "lock"))

\* acquire_lease_awaiting_vacate, perhaps stopping others and then waiting for the
\* memory to settle; or refused.
TakeLease(a) ==
    /\ a \in Runs /\ task[a].pc = "lease"
    /\ \/ /\ leased' = TRUE
          /\ Go(a, At(task[a], "settle"))
          /\ UNCHANGED <<owner, marker, orphaned, asked, result, strewn, testing, fails>>
       \/ /\ fails < MaxFails /\ fails' = fails + 1
          /\ LoadFails(a)
    /\ UNCHANGED <<setVars, childVars, suppressed, cancels>>

LeaseSettled(p) ==
    /\ p \in Placers /\ task[p].pc = "settle"
    /\ SteerAndLoad(p)
    /\ UNCHANGED <<benchVars, testing, saved, crossed, overtaken, childVars, suppressed, counts>>

\* The answer is timed, unless it fails, as it does when its child was stopped; the
\* mode's lease ends.
MeasureEnds(p) ==
    /\ p \in Placers /\ task[p].pc = "measure"
    /\ LET r == task[p] IN
       /\ \/ result' = [result EXCEPT ![r.mode] = None]
          \/ /\ p \in on
             /\ result' = [result EXCEPT ![r.mode] = [of |-> child.shape, steered |-> ~orphaned /\ ~overtaken]]
       /\ Go(p, [At(r, "next") EXCEPT !.todo = @ \ {r.mode}, !.mode = None])
    /\ on' = on \ {p} /\ leased' = FALSE
    /\ UNCHANGED <<owner, marker, orphaned, asked, strewn, testing, setVars, child, suppressed, counts>>

\* Mutant: the teardown is an unload like any.
ReapDeliberately ==
    /\ task[Reaper].pc = "due"
    /\ Unload(Reaper, task[Reaper], Idle)
    /\ suppressed' = (suppressed \/ child.state # "none")
    /\ UNCHANGED <<benchVars, testing, setVars, counts>>

\* _restore_unloaded: the unload, detached, which leaves the pin as it is.
Reap ==
    /\ task[Reaper].pc = "due"
    /\ Unload(Reaper, task[Reaper], Idle)
    /\ UNCHANGED <<benchVars, testing, setVars, suppressed, counts>>

PlacementEnds(p) ==
    /\ p \in Placers /\ task[p].pc = "teardown" /\ task[Reaper].pc = "idle"
    /\ Go(p, Done)
    /\ owner' = None
    /\ UNCHANGED <<marker, orphaned, leased, asked, result, strewn, testing, setVars, childVars,
                   suppressed, counts>>

-----------------------------------------------------------------------------
\* The slot sweep

StartSweep(q) ==
    /\ q \in Sweepers /\ task[q].pc = "idle"
    /\ owner = None /\ ~testing /\ ~Busy
    /\ Go(q, [Idle EXCEPT !.pc = "lease", !.left = Levels,
                          !.was = child.state = "ready", !.prev = child.shape])
    /\ owner' = q /\ marker' = TRUE /\ orphaned' = FALSE
    /\ UNCHANGED <<leased, asked, result, strewn, testing, setVars, childVars, suppressed, counts>>

\* A resident of the shape wanted is measured as it is, if it is still there.
LoadForSweep(q) ==
    /\ q \in Sweepers /\ task[q].pc = "settle"
    /\ \/ /\ Go(q, At(task[q], "lock"))
          /\ UNCHANGED <<owner, marker, leased>>
       \/ /\ task[q].was /\ child.state = "ready"
          /\ Go(q, At(task[q], "level"))
          /\ UNCHANGED <<owner, marker, leased>>
       \/ /\ task[q].was /\ child.state # "ready"
          /\ Go(q, Done)
          /\ owner' = None /\ marker' = FALSE /\ leased' = FALSE
    /\ UNCHANGED <<orphaned, asked, result, strewn, testing, setVars, childVars, suppressed, counts>>

\* One level: its requests go where the child was.
Level(q) ==
    /\ q \in Sweepers /\ task[q].pc = "level"
    /\ q \notin asked /\ task[q].left > 0
    /\ Go(q, [At(task[q], "answers") EXCEPT !.left = @ - 1])
    /\ on' = IF child.state = "ready" THEN on \cup {q} ELSE on
    /\ UNCHANGED <<benchVars, testing, setVars, child, suppressed, counts>>

\* A level whose streams failed is a number, not the end of the sweep.
LevelEnds(q) ==
    /\ q \in Sweepers /\ task[q].pc = "answers"
    /\ result' = [result EXCEPT ![q] =
                     IF q \in on THEN [of |-> child.shape, steered |-> TRUE] ELSE None]
    /\ on' = on \ {q}
    /\ Go(q, At(task[q], "level"))
    /\ UNCHANGED <<owner, marker, orphaned, leased, asked, strewn, testing, setVars, child,
                   suppressed, counts>>

\* _leave_as_found: what the run loaded is unloaded, or gives way to what it displaced.
LeaveAsFound(q, r) ==
    \/ ~r.fresh /\ Go(q, At(r, "over")) /\ UNCHANGED childVars
    \/ r.fresh /\ ~r.was /\ Unload(q, r, At(r, "over"))
    \/ r.fresh /\ r.was /\ Go(q, At(r, "lock")) /\ UNCHANGED childVars

SweepMeasured(q) ==
    /\ q \in Sweepers /\ task[q].pc = "level"
    /\ q \in asked \/ task[q].left = 0
    /\ LeaveAsFound(q, task[q])
    /\ UNCHANGED <<benchVars, testing, setVars, suppressed, counts>>

SweepEnds(q) ==
    /\ q \in Sweepers /\ task[q].pc = "over"
    /\ Go(q, Done) /\ Over(q)
    /\ UNCHANGED <<strewn, testing, setVars, childVars, suppressed, counts>>

\* The task of a placement run is cancelled: the finallys run, the unload detached.
\* A lease whose grant was not yet returned is nobody's to release.
CancelPlacement(p) ==
    /\ p \in Placers /\ cancels < MaxCancels /\ cancels' = cancels + 1
    /\ LET r == task[p] IN
       \/ /\ r.pc \in {"unload", "stopping", "lease", "settle", "lock", "clear", "launch", "measure"}
          /\ TearDown(p, r)
          /\ child' = IF r.pc = "launch" THEN NoChild ELSE child
          /\ on' = on \ {p}
          /\ leased' = (leased /\ r.pc = "settle")
          /\ Strewn(IF r.pc = "settle" THEN {"lease"} ELSE {})
          /\ UNCHANGED owner
       \/ /\ r.pc = "teardown"
          /\ Go(p, Done) /\ owner' = None
          /\ UNCHANGED <<marker, live, childVars, leased, strewn>>
    /\ UNCHANGED <<orphaned, asked, result, testing, saved, crossed, overtaken, suppressed, fails>>

\* The task of a sweep is cancelled.  While it measures, what it loaded is cleaned
\* up still; while it cleans up, it is not.
CancelSweep(q) ==
    /\ q \in Sweepers /\ cancels < MaxCancels /\ cancels' = cancels + 1
    /\ LET r == task[q] IN
       \/ /\ r.pc \in {"level", "answers"}
          /\ Go(q, [At(r, "level") EXCEPT !.left = 0])
          /\ on' = on \ {q}
          /\ UNCHANGED <<child, benchVars>>
       \/ /\ r.pc \in {"lease", "settle", "lock", "clear", "launch", "unload", "stopping"}
          /\ Go(q, Done)
          /\ child' = IF r.pc = "launch" THEN NoChild ELSE child
          /\ owner' = None /\ marker' = FALSE
          /\ leased' = (leased /\ r.pc = "settle")
          /\ Strewn((IF r.pc = "settle" THEN {"lease"} ELSE {}) \cup (IF r.fresh THEN {"child"} ELSE {}))
          /\ UNCHANGED <<on, orphaned, asked, result>>
    /\ UNCHANGED <<testing, setVars, suppressed, fails>>

\* DELETE of the job: its event is looked at between two modes or levels.
AskCancel(a) ==
    /\ a \in Runs \ asked /\ task[a].pc \notin {"idle", "done"}
    /\ asked' = asked \cup {a}
    /\ UNCHANGED <<owner, marker, orphaned, leased, result, strewn, testing, setVars, childVars,
                   suppressed, task, counts>>

-----------------------------------------------------------------------------
\* The smoke test

\* test_model: one at a time, on an idle server, and not during a benchmark.
StartTest(t) ==
    /\ t \in Testers /\ task[t].pc = "idle"
    /\ ~testing /\ ~Busy /\ ~marker
    /\ testing' = TRUE
    /\ LET up == child.state = "ready" IN
       /\ Go(t, [Idle EXCEPT !.pc = IF up THEN "measure" ELSE "lock", !.was = up])
       /\ on' = IF up THEN on \cup {t} ELSE on
    /\ UNCHANGED <<child, benchVars, setVars, suppressed, counts>>

\* Answered, the test unloads what it loaded; failed, it just ends.
TestAnswered(t) ==
    /\ t \in Testers /\ task[t].pc = "measure"
    /\ LET r == task[t] IN
       \/ /\ r.was
          /\ on' = on \ {t} /\ Go(t, At(r, "tested"))
          /\ UNCHANGED <<child, strewn>>
       \/ /\ ~r.was
          /\ on' = on \ {t} /\ Go(t, At(r, "tested"))
          /\ Strewn({"test"})
          /\ UNCHANGED child
       \/ /\ ~r.was /\ t \in on
          /\ Unload(t, r, At(r, "tested"))
          /\ UNCHANGED strewn
    /\ UNCHANGED <<owner, marker, orphaned, leased, asked, result, testing, setVars, suppressed, counts>>

TestEnds(t) ==
    /\ t \in Testers /\ task[t].pc = "tested"
    /\ Go(t, Done) /\ testing' = FALSE
    /\ UNCHANGED <<benchVars, setVars, childVars, suppressed, counts>>

-----------------------------------------------------------------------------
\* The others

\* ensure_loaded for a request; its answer.
Ask(c) ==
    /\ c \in Clients /\ task[c].pc = "idle"
    /\ IF child.state = "ready"
       THEN Go(c, At(Idle, "stream")) /\ on' = on \cup {c}
       ELSE Go(c, At(Idle, "lock")) /\ UNCHANGED on
    /\ UNCHANGED <<child, benchVars, testing, setVars, suppressed, counts>>

StreamEnds(c) ==
    /\ c \in Clients /\ task[c].pc = "stream"
    /\ Go(c, Done) /\ on' = on \ {c}
    /\ UNCHANGED <<child, benchVars, testing, setVars, suppressed, counts>>

\* A deliberate unload leaves the model down, pin or no pin.
TakeDown(u) ==
    /\ u \in Unloaders /\ task[u].pc = "idle"
    /\ Unload(u, Idle, Done)
    /\ suppressed' = (suppressed \/ child.state # "none")
    /\ UNCHANGED <<benchVars, testing, setVars, counts>>

\* The reconciler's look at a pinned model, and the load of its task.
Spot ==
    /\ task[Reconciler].pc = "idle"
    /\ live.pinned /\ child.state \notin {"ready", "loading"}
    /\ ~suppressed /\ ~marker /\ ~testing /\ ~LockHeld
    /\ Go(Reconciler, At(Idle, "lock"))
    /\ UNCHANGED <<childVars, benchVars, testing, setVars, suppressed, counts>>

Scanning == \E x \in Scanners : task[x].pc = "read"

\* Mutant: the save does not ask for a benchmark.
SaveAskedAnyhow(s) ==
    /\ s \in Savers /\ task[s].pc = "idle"
    /\ Go(s, [At(Idle, "checked") EXCEPT !.held = [live EXCEPT !.user = @ + 1], !.was = ~marker])
    /\ UNCHANGED <<childVars, benchVars, testing, setVars, suppressed, counts>>

\* _validated_settings_save: refused while the model is benchmarked; then the
\* engine is asked about the flags.
SaveAsked(s) ==
    /\ s \in Savers /\ task[s].pc = "idle"
    /\ Go(s, IF marker THEN Done
             ELSE [At(Idle, "checked") EXCEPT !.held = [live EXCEPT !.user = @ + 1], !.was = TRUE])
    /\ UNCHANGED <<childVars, benchVars, testing, setVars, suppressed, counts>>

\* registry.save_settings.
SaveLands(s) ==
    /\ s \in Savers /\ task[s].pc = "checked"
    /\ saved' = task[s].held /\ live' = task[s].held
    /\ LET late == marker /\ task[s].was IN
       /\ crossed' = (crossed \/ (late /\ owner \in Placers) \/ Scanning)
       /\ overtaken' = (overtaken \/ late)
    /\ Go(s, Done)
    /\ UNCHANGED <<childVars, benchVars, testing, suppressed, counts>>

\* set_pinned, which does not ask.
SetPinned(x) ==
    /\ x \in Pinners /\ task[x].pc = "idle"
    /\ LET new == [live EXCEPT !.pinned = ~live.pinned] IN
       /\ saved' = new /\ live' = new
       /\ suppressed' = (suppressed /\ ~new.pinned)
    /\ crossed' = (crossed \/ (marker /\ owner \in Placers) \/ Scanning)
    /\ Go(x, Done)
    /\ UNCHANGED <<overtaken, childVars, benchVars, testing, counts>>

\* registry.scan reads the saved settings, then puts new records in place.
ScanReads(x) ==
    /\ x \in Scanners /\ task[x].pc = "idle"
    /\ Go(x, [At(Idle, "read") EXCEPT !.held = saved])
    /\ UNCHANGED <<childVars, benchVars, testing, setVars, suppressed, counts>>

ScanSwaps(x) ==
    /\ x \in Scanners /\ task[x].pc = "read"
    /\ live' = task[x].held
    /\ orphaned' = (owner # None)
    /\ Go(x, Done)
    /\ UNCHANGED <<owner, marker, leased, asked, result, strewn, childVars, testing, saved,
                   crossed, overtaken, suppressed, counts>>

-----------------------------------------------------------------------------

\* What the server does of itself.
Moves(a) ==
    \/ UnloadTurn(a) \/ LockTaken(a) \/ Launch(a) \/ LaunchEnds(a) \/ TakeLease(a)
    \/ NextMode(a) \/ LeaseSettled(a) \/ MeasureEnds(a) \/ PlacementEnds(a)
    \/ LoadForSweep(a) \/ Level(a) \/ LevelEnds(a) \/ SweepMeasured(a) \/ SweepEnds(a)
    \/ TestAnswered(a) \/ TestEnds(a) \/ StreamEnds(a) \/ SaveLands(a) \/ ScanSwaps(a)

Others == Testers \cup Clients \cup Unloaders \cup Savers \cup Pinners \cup Scanners

CallsMade == Cardinality({a \in Others : task[a].pc # "idle"} \cup asked) + cancels

\* What its clients do.
Calls(a) ==
    \/ StartTest(a) \/ Ask(a) \/ TakeDown(a) \/ SaveAsked(a) \/ SetPinned(a) \/ ScanReads(a)
    \/ CancelPlacement(a) \/ CancelSweep(a) \/ AskCancel(a)

Next ==
    \/ StopEnds \/ Reap \/ Spot
    \/ \E a \in Actors : Moves(a) \/ StartPlacement(a) \/ StartSweep(a)
    \/ CallsMade < MaxCalls /\ \E a \in Actors : Calls(a)

Spec == Init /\ [][Next]_vars

FairSpec ==
    /\ Spec
    /\ WF_vars(StopEnds) /\ WF_vars(Reap) /\ WF_vars(Spot)
    /\ \A a \in Loaders \cup {Reaper} : WF_vars(Moves(a))

-----------------------------------------------------------------------------
\* Properties

\* Every variable keeps its type.
TypeOK ==
    /\ owner \in Runs \cup {None}
    /\ {marker, testing, orphaned, suppressed, leased, crossed, overtaken} \subseteq BOOLEAN
    /\ strewn \subseteq {"lease", "child", "test"}
    /\ live \in Settings /\ saved \in Settings
    /\ child = NoChild \/ /\ child.state \in {"loading", "ready", "stopping"}
                          /\ child.shape \in Shapes /\ child.by \in Runs \cup Testers \cup {None}
    /\ on \subseteq Loaders /\ asked \subseteq Runs
    /\ DOMAIN task = Actors
    /\ \A x \in DOMAIN result : result[x] = None \/ result[x].of \in Shapes
    /\ fails \in 0..MaxFails /\ cancels \in 0..MaxCancels

\* A run rewrites the settings of the record and puts them back
\* (_restore_unloaded): when none owns the model, what the registry serves is what
\* was saved last.  Excepted, because the code does not keep it there: once a save
\* that had looked before a placement run landed in it, once a pin was changed in
\* one (set_pinned does not look), and once either came between a scan's read and
\* its swap.
SettingsPutBack == ~marker /\ ~crossed => live = saved

\* The hazard benchmark.py names: "A benchmark that left a model pinned to one GPU
\* would silently degrade every later load".  No exception but a scan: it reads
\* back what a pin change saved in the middle of a run.
NotLeftSteered ==
    ~marker /\ live.mode # None => \E x \in Scanners : task[x].pc # "idle"

\* A mode's numbers are those of a child launched on that mode's placement, whoever
\* asked for the model, pinned it or unloaded it meanwhile.  Excepted, because the
\* code measures another placement then: the run in which a scan replaced the
\* record it steers, or in which a save landed that had looked before it began.
NumbersAreOfTheirMode ==
    \A m \in Modes : result[m] # None /\ result[m].steered => result[m].of.mode = m

\* A level's numbers are those of the sweep's own launch, or of the resident it
\* found.  Excepted once somebody unloads the model, on purpose or as the detached
\* unload of a placement run that was cancelled: the sweep does not look whose child
\* answers.
LevelsAreOfTheirLaunch ==
    \A q \in Sweepers : result[q] # None /\ task[q].pc = "level" =>
        \/ IF task[q].fresh THEN result[q].of.mode = "sweep" ELSE result[q].of = task[q].prev
        \/ \E u \in Unloaders : task[u].pc # "idle"
        \/ cancels > 0 /\ \E p \in Placers : task[p].pc = "done"

\* Benchmarks and smoke tests measure one at a time (D36).
OneAtATime ==
    /\ ~(testing /\ marker)
    /\ Cardinality({a \in Runs \cup Testers : task[a].pc \in {"measure", "level", "answers"}}) <= 1

\* What is measured is what the report says it is.
MeasuresTrue == TypeOK /\ NumbersAreOfTheirMode /\ LevelsAreOfTheirLaunch /\ OneAtATime

\* What a run or a test that is over leaves behind.  A lease only if the run was
\* cancelled while its grant settled; a sweep's child only if putting things back
\* failed or was cancelled; a test's child only if its question failed.
NothingLeftBehind ==
    /\ owner = None /\ task[Reaper].pc = "idle" =>
           /\ leased => "lease" \in strewn
           /\ child.by \in Runs => "child" \in strewn
    /\ ~testing /\ child.by \in Testers => "test" \in strewn

\* Runs and tests clean up after themselves: settings, leases and children.
LeftAsFound == SettingsPutBack /\ NotLeftSteered /\ NothingLeftBehind

\* A pinned model comes back after it was measured or tested (D41), if nobody
\* took it down on purpose.
PinnedComesBack ==
    live.pinned ~> \/ child.state = "ready" \/ ~live.pinned
                   \/ \E u \in Unloaders : task[u].pc # "idle"

-----------------------------------------------------------------------------
\* What the documentation says and the code does not keep (README)

\* A save that was accepted is what the registry serves (Benchmarker.benchmarking:
\* "Callers use this to refuse the write instead").
SavesStick == ~marker => live = saved

\* A run that is over leaves no lease, cancelled or not (acquire_lease:
\* "CancelledError included").
NoLeaseLeft == owner = None => ~leased

\* A model a smoke test loaded is unloaded again (test_model, "left as found").
TestLeavesAsFound ==
    [][\A t \in Testers : task[t].pc = "measure" /\ ~task[t].was /\ task'[t].pc = "tested"
           => child'.state # "ready"]_vars

\* A sweep that fails to load puts back what it displaced (parallel_bench,
\* "a model that was resident when the run began is resident ... when it ends").
PutBackWhatItDisplaced ==
    [][\A q \in Sweepers : task[q].pc \in {"clear", "launch"} /\ task[q].was /\ task'[q].pc = "done"
           => child'.state = "ready"]_vars

\* A benchmark cuts no client's stream (_refuse_if_busy).
StreamsStand == \A c \in Clients : task[c].pc = "stream" => c \in on

=============================================================================
