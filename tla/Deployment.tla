----------------------------- MODULE Deployment -----------------------------
(***************************************************************************)
(* The processes of one install: the servers (__main__.py, api/app.py,     *)
(* api/admin_routes.py), the tray (tray/tray_app.py) that launches one and *)
(* respawns it, and the watchdog (watchdog/server.py) that a server        *)
(* launches, that outlives it and that restarts it.  Who brings a server   *)
(* back, who waits for whose port (core/ports.py), who owns the data       *)
(* directory (core/instance_lock.py), and who dies with whom.              *)
(*                                                                         *)
(* The API and the GUI port are taken and released together: one port.     *)
(***************************************************************************)
EXTENDS Naturals, FiniteSets

CONSTANTS
    Procs,          \* identities of server processes
    Jobs,           \* restarts the watchdog can have under way at once
    MaxOps,         \* bound: what users and clients ask
    MaxFaults,      \* bound: crashes and wedges
    MaxRestarts,    \* tray_app.py: MAX_RESTARTS
    MaxRetries,     \* tray_app.py: MAX_PORT_CONFLICT_RESPAWNS
    None

ASSUME DeploymentAssumption ==
    /\ None \notin Procs \cup {"wd", "tray", "primary", "killed"} /\ {"wd", "tray"} \cap Procs = {}
    /\ {MaxOps, MaxFaults, MaxRestarts, MaxRetries} \subseteq Nat

VARIABLES
    proc,           \* the server processes
    wd,             \* the watchdog process, and who launched it
    job,            \* its restart_server() calls
    restarting,     \* its restart_in_progress, as /health shows it
    tray,           \* the TrayApp
    wanted,         \* history: a server is meant to run, and something looks after it
    ops, faults

vars == <<proc, wd, job, restarting, tray, wanted, ops, faults>>

(***************************************************************************)
(* A server's pc: "check" and "await" the preflight, "claim" create_app,   *)
(* "bind" uvicorn; "serve"; "wedged"; "leave", "handoff", "handed", "drain" *)
(* and "settle" its restart by the tray, the watchdog or itself; "close"   *)
(* its ports are closed and the lifespan shuts down; "dead" until the      *)
(* process that launched it has seen its exit code.                        *)
(***************************************************************************)
NoProc == [pc |-> "none", from |-> None, waits |-> FALSE, role |-> None, heir |-> None,
           handing |-> FALSE, code |-> None]

NoJob == [pc |-> "none", target |-> None, tray |-> FALSE]

Serving(p) == proc[p].pc \in {"serve", "leave", "handoff", "handed", "drain", "settle"}

HasPort(p) == Serving(p) \/ proc[p].pc = "wedged"

Holders == {p \in Procs : HasPort(p)}

\* /health answers, also while the models are drained for a restart.
Answering == \E p \in Procs : Serving(p)

Alive(p) == proc[p].pc \notin {"none", "dead"}

\* Mutant: the data directory is given up with the ports.
OwnsDataEarly(p) == proc[p].role = "primary" /\ (proc[p].pc = "bind" \/ HasPort(p))

\* InstanceLock: from create_app to the last step of the lifespan.
OwnsData(p) == proc[p].role = "primary" /\ (proc[p].pc \in {"bind", "close"} \/ HasPort(p))

Starting == {p \in Procs : proc[p].pc \in {"check", "await", "claim", "bind"}}

\* A process id that is about to be killed is not given to another process.
Unused(p) == proc[p].pc = "none" /\ \A j \in Jobs : job[j].pc = "kill" => job[j].target # p
Fresh == {p \in Procs : Unused(p) /\ p = CHOOSE q \in Procs : Unused(q)}

\* A new process in the place of a free identity.
Launched(from, waits) == [NoProc EXCEPT !.pc = "check", !.from = from, !.waits = waits]

-----------------------------------------------------------------------------
\* Process trees

From(n) == IF n = "wd" THEN (IF wd.up THEN wd.from ELSE None) ELSE proc[n].from

\* kill_process_tree(): a process and what it launched, and what that launched.
Tree(root) ==
    LET Grow(S) == S \cup {n \in Procs \cup {"wd"} : From(n) \in S}
    IN  Grow(Grow(Grow(Grow({root}))))

\* Somebody who survives S still reads the exit code of p.
Read(p, S) == tray.proc = p \/ \E q \in Procs \ S : proc[q].heir = p

\* The processes after those of S have died: their children have no parent.
Without(S, code) ==
    [p \in Procs |->
       IF ~Alive(p) THEN (IF Read(p, S) THEN proc[p] ELSE NoProc)
       ELSE IF p \in S THEN (IF Read(p, S) THEN [NoProc EXCEPT !.pc = "dead", !.code = code] ELSE NoProc)
       ELSE [proc[p] EXCEPT !.from = IF @ \in S THEN None ELSE @]]

\* The watchdog when the processes of S die; its calls go with it.
WdAfter(S) ==
    IF "wd" \in S
    THEN /\ wd' = [up |-> FALSE, from |-> None]
         /\ job' = [j \in Jobs |-> NoJob] /\ restarting' = FALSE
    ELSE /\ wd' = [wd EXCEPT !.from = IF @ \in S THEN None ELSE @]
         /\ UNCHANGED <<job, restarting>>

\* Nobody waits for a restart by a watchdog that goes with S.
Unheard(S) == "wd" \in S /\ \E j \in Jobs : job[j].pc # "none"

Op == ops < MaxOps /\ ops' = ops + 1
NoOp == ops' = ops

-----------------------------------------------------------------------------
\* A server process: studioforge serve

\* _preflight_ports(): a running watchdog of ours is adopted; a port in use ends the
\* process, or is waited for by one that replaces its holder.
Preflight(p) ==
    /\ proc[p].pc = "check"
    /\ IF Holders = {} THEN proc' = [proc EXCEPT ![p].pc = "claim"]
       ELSE IF proc[p].waits THEN proc' = [proc EXCEPT ![p].pc = "await"]
       ELSE proc' = Without({p}, "port taken")
    /\ UNCHANGED <<wd, job, restarting, tray, wanted, ops, faults>>

\* wait_for_ports(): its time is not up while the holder is about to leave.
Awaited(p) ==
    /\ proc[p].pc = "await"
    /\ \/ Holders = {} /\ proc' = [proc EXCEPT ![p].pc = "claim"]
       \/ /\ Holders # {} /\ \A q \in Holders : proc[q].pc # "settle"
          /\ proc' = Without({p}, "port taken")
    /\ UNCHANGED <<wd, job, restarting, tray, wanted, ops, faults>>

\* _claim_data_dir() in create_app, once; then _spawn_watchdog() unless one runs.
Claim(p) ==
    /\ proc[p].pc = "claim"
    /\ proc' = [proc EXCEPT ![p].pc = "bind",
                            ![p].role = IF \E q \in Procs \ {p} : OwnsData(q) THEN "secondary" ELSE "primary"]
    /\ wd' = IF wd.up THEN wd ELSE [up |-> TRUE, from |-> p]
    /\ UNCHANGED <<job, restarting, tray, wanted, ops, faults>>

\* uvicorn takes the port, or the process ends and stops the watchdog it launched.
Bind(p) ==
    /\ proc[p].pc = "bind"
    /\ LET S == {p} \cup IF wd.up /\ wd.from = p THEN {"wd"} ELSE {}
       IN  \/ /\ Holders = {}
              /\ proc' = [proc EXCEPT ![p].pc = "serve"] /\ UNCHANGED <<wd, job, restarting, wanted>>
           \/ /\ Holders # {}
              /\ proc' = Without(S, "failed") /\ WdAfter(S) /\ wanted' = (wanted /\ ~Unheard(S))
    /\ UNCHANGED <<tray, ops, faults>>

\* POST /api/restart/server: by the tray that launched us, else the watchdog, else ourselves.
AskRestart(p) ==
    /\ proc[p].pc = "serve" /\ Op
    /\ proc' = [proc EXCEPT ![p].pc = IF proc[p].from = "tray" /\ tray.up THEN "leave"
                                      ELSE IF wd.up THEN "handoff" ELSE "drain"]
    /\ UNCHANGED <<wd, job, restarting, tray, wanted, faults>>

\* _exit_for_supervisor(): drained, it exits with 75 and leaves the watchdog running.
Leave(p) ==
    /\ proc[p].pc = "leave"
    /\ proc' = [proc EXCEPT ![p].pc = "close", ![p].handing = TRUE, ![p].code = "restart me"]
    /\ UNCHANGED <<wd, job, restarting, tray, wanted, ops, faults>>

NewJob(j, p) == [job EXCEPT ![j] = [pc |-> "kill", target |-> p,
                                    tray |-> p # None /\ proc[p].from = "tray" /\ tray.up]]

\* _ask_watchdog_to_restart(): without an answer it restarts itself.
Handoff(p) ==
    /\ \/ /\ proc[p].pc = "handoff" /\ wd.up
          /\ \E j \in Jobs : job[j].pc = "none" /\ job' = NewJob(j, p)
          /\ restarting' = TRUE
          /\ proc' = [proc EXCEPT ![p].pc = "handed"]
       \/ /\ proc[p].pc \in {"handoff", "handed"} /\ ~wd.up
          /\ proc' = [proc EXCEPT ![p].pc = "drain"]
          /\ UNCHANGED <<job, restarting>>
    /\ UNCHANGED <<wd, tray, wanted, ops, faults>>

\* _self_restart(): models drained, the replacement is launched, told whom it replaces.
Respawn(p) ==
    /\ proc[p].pc = "drain"
    /\ \E q \in Fresh :
          proc' = [proc EXCEPT ![p].pc = "settle", ![p].heir = q, ![q] = Launched(p, TRUE)]
    /\ UNCHANGED <<wd, job, restarting, tray, wanted, ops, faults>>

\* Three seconds later: a replacement that died at once leaves us serving.
Settled(p) ==
    /\ proc[p].pc = "settle"
    /\ LET q == proc[p].heir
       IN  IF proc[q].pc = "dead"
           THEN proc' = [proc EXCEPT ![p].pc = "serve", ![p].heir = None, ![q] = NoProc]
           ELSE proc' = [proc EXCEPT ![p].pc = "close", ![p].heir = None, ![p].handing = TRUE,
                                     ![p].code = "ended"]
    /\ UNCHANGED <<wd, job, restarting, tray, wanted, ops, faults>>

\* POST /api/server/stop, Ctrl+C, a service stop.
AskStop(p) ==
    /\ Serving(p) /\ Op
    /\ proc' = [proc EXCEPT ![p].pc = "close", ![p].code = "ended"]
    /\ wanted' = (wanted /\ tray.proc = p)
    /\ UNCHANGED <<wd, job, restarting, tray, faults>>

\* The lifespan has shut down; unless it hands over, the watchdog it launched stops too.
Closed(p) ==
    /\ proc[p].pc = "close"
    /\ LET S == {p} \cup IF wd.up /\ wd.from = p /\ ~proc[p].handing THEN {"wd"} ELSE {}
       IN  proc' = Without(S, proc[p].code) /\ WdAfter(S) /\ wanted' = (wanted /\ ~Unheard(S))
    /\ UNCHANGED <<tray, ops, faults>>

\* studioforge serve by hand, or server start, which refuses while something answers.
UserStart ==
    /\ ~Answering /\ Op
    /\ \E p \in Fresh : proc' = [proc EXCEPT ![p] = Launched(None, FALSE)]
    /\ UNCHANGED <<wd, job, restarting, tray, wanted, faults>>

-----------------------------------------------------------------------------
\* The watchdog's restart_server()

\* find_main_process(): who listens on the port.  The tray that launched it respawns it.
AskWatchdog ==
    /\ wd.up /\ Op
    /\ \E j \in Jobs, p \in IF Holders = {} THEN {None} ELSE Holders :
          job[j].pc = "none" /\ job' = NewJob(j, p)
    /\ restarting' = TRUE /\ wanted' = TRUE
    /\ UNCHANGED <<proc, wd, tray, faults>>

\* Mutant: the watchdog stands in the tree it kills.
WholeTree(p) == IF p = None THEN {} ELSE Tree(p)

\* own_launcher_chain(): the old server and all it launched, except the watchdog itself.
Victims(p) == IF p = None THEN {} ELSE Tree(p) \ {"wd"}

\* A watchdog among them takes its calls along.
Kill(j) ==
    /\ job[j].pc = "kill"
    /\ LET S == Victims(job[j].target)
       IN  /\ proc' = Without(S, "killed")
           /\ IF "wd" \in S THEN WdAfter(S)
              ELSE /\ wd' = [wd EXCEPT !.from = IF @ \in S THEN None ELSE @]
                   /\ job' = [job EXCEPT ![j].pc = "free"] /\ UNCHANGED restarting
    /\ UNCHANGED <<tray, wanted, ops, faults>>

\* _wait_port_free(), for ten seconds; then the tray respawns, or the watchdog does.
PortFree(j) ==
    /\ job[j].pc = "free"
    /\ IF job[j].tray
       THEN job' = [job EXCEPT ![j].pc = "health"] /\ UNCHANGED proc
       ELSE /\ job' = [job EXCEPT ![j].pc = "health"]
            /\ \E p \in Fresh : proc' = [proc EXCEPT ![p] = Launched("wd", FALSE)]
    /\ UNCHANGED <<wd, restarting, tray, wanted, ops, faults>>

\* _wait_for_health(): its two minutes are not up while a server starts or the tray acts.
Restarted(j) ==
    /\ job[j].pc = "health"
    /\ Answering \/ (Starting = {} /\ tray.pc = "poll" /\ (tray.proc # None => proc[tray.proc].pc # "dead"))
    /\ job' = [job EXCEPT ![j] = NoJob] /\ restarting' = FALSE
    /\ UNCHANGED <<proc, wd, tray, wanted, ops, faults>>

-----------------------------------------------------------------------------
\* The tray.  Its pc: "poll", "classify" an exit it has seen, "backoff" before a respawn.

NoTray == [up |-> FALSE, state |-> "stopped", proc |-> None, adopted |-> FALSE, stopped |-> FALSE,
           restarts |-> 0, retries |-> 0, wait |-> FALSE, pc |-> "poll", code |-> None]

Adopted == [tray EXCEPT !.state = "running", !.adopted = TRUE, !.stopped = FALSE, !.wait = FALSE,
                        !.pc = "poll"]

\* _spawn(): the record t of the tray with its new child p.
Spawn(t, p) ==
    /\ proc' = [proc EXCEPT ![p] = Launched("tray", FALSE)]
    /\ tray' = [t EXCEPT !.proc = p, !.adopted = FALSE, !.wait = FALSE, !.state = "starting", !.pc = "poll"]

\* _setup(): it attaches to a server that answers, or launches one.
TrayLaunch ==
    /\ ~tray.up /\ Op
    /\ \/ /\ Answering
          /\ tray' = [NoTray EXCEPT !.up = TRUE, !.state = "running", !.adopted = TRUE]
          /\ UNCHANGED <<proc, wanted>>
       \/ /\ ~Answering /\ wanted' = TRUE
          /\ \E p \in Fresh : Spawn([NoTray EXCEPT !.up = TRUE], p)
    /\ UNCHANGED <<wd, job, restarting, faults>>

\* _supervise(): its child answers, has lived long enough, or has exited.
TrayPoll ==
    /\ tray.up /\ tray.pc = "poll" /\ tray.proc # None
    /\ LET c == proc[tray.proc]
       IN  \/ /\ Alive(tray.proc) /\ tray.state = "starting" /\ Answering
              /\ tray' = [tray EXCEPT !.state = "running", !.retries = 0] /\ UNCHANGED proc
           \/ /\ Alive(tray.proc) /\ tray.restarts > 0
              /\ tray' = [tray EXCEPT !.restarts = 0] /\ UNCHANGED proc
           \/ /\ c.pc = "dead"
              /\ tray' = [tray EXCEPT !.proc = None, !.pc = "classify", !.code = c.code]
              /\ proc' = [proc EXCEPT ![tray.proc] = NoProc]
    /\ UNCHANGED <<wd, job, restarting, wanted, ops, faults>>

\* The exit code says so, or the watchdog does.
AskedFor == tray.code = "restart me" \/ (wd.up /\ restarting)

MayRetry == tray.restarts < MaxRestarts

\* classify_exit() and _child_exited_locked(): a taken port is waited out, a restart somebody
\* asked for is free, and a crash spends one of the attempts.
Classify ==
    /\ tray.up /\ tray.pc = "classify"
    /\ tray' = IF tray.stopped THEN [tray EXCEPT !.state = "stopped", !.pc = "poll"]
               ELSE IF tray.code = "port taken"
               THEN [tray EXCEPT !.state = "starting", !.wait = TRUE, !.pc = "poll"]
               ELSE IF AskedFor THEN [tray EXCEPT !.state = "starting", !.pc = "backoff"]
               ELSE IF MayRetry
               THEN [tray EXCEPT !.restarts = @ + 1, !.state = "starting", !.pc = "backoff"]
               ELSE [tray EXCEPT !.state = "crashed", !.stopped = TRUE, !.pc = "poll"]
    /\ wanted' = (wanted /\ tray'.state = "starting")
    /\ UNCHANGED <<proc, wd, job, restarting, ops, faults>>

\* Mutant: a Stop during the backoff is not seen.
RespawnsAnyway == tray.proc = None

StillDown == tray.proc = None /\ ~tray.stopped

\* _respawn_or_adopt(), after the backoff.
RespawnOrAdopt ==
    /\ tray.up /\ tray.pc = "backoff"
    /\ IF ~StillDown THEN tray' = [tray EXCEPT !.pc = "poll"] /\ UNCHANGED proc
       ELSE IF Answering THEN tray' = Adopted /\ UNCHANGED proc
       ELSE \E p \in Fresh : Spawn(tray, p)
    /\ UNCHANGED <<wd, job, restarting, wanted, ops, faults>>

\* _poll_unowned_locked(): who has the port its child did not get; a server it attached to.
PollUnowned ==
    /\ tray.up /\ tray.pc = "poll" /\ tray.proc = None
    /\ \/ tray.wait /\ Answering /\ tray' = Adopted /\ UNCHANGED <<proc, wanted>>
       \/ /\ tray.wait /\ ~Answering /\ Holders = {} /\ tray.retries < MaxRetries
          /\ \E p \in Fresh : Spawn([tray EXCEPT !.retries = @ + 1], p)
          /\ UNCHANGED wanted
       \/ /\ tray.wait /\ ~Answering /\ (Holders # {} \/ tray.retries = MaxRetries) /\ Starting = {}
          /\ tray' = [tray EXCEPT !.state = "crashed", !.stopped = TRUE, !.wait = FALSE]
          /\ wanted' = FALSE /\ UNCHANGED proc
       \/ /\ ~tray.wait /\ tray.state = "running" /\ ~Answering
          /\ tray' = [tray EXCEPT !.state = "stopped", !.adopted = FALSE] /\ UNCHANGED <<proc, wanted>>
    /\ UNCHANGED <<wd, job, restarting, ops, faults>>

\* The menu's Start, and the second half of its Restart.
TrayStart ==
    /\ tray.up /\ tray.state \in {"stopped", "crashed"} /\ tray.proc = None /\ Op
    /\ \E p \in Fresh : Spawn([tray EXCEPT !.stopped = FALSE, !.restarts = 0], p)
    /\ wanted' = TRUE
    /\ UNCHANGED <<wd, job, restarting, faults>>

\* stop_server(): its child's tree, and with a child any watchdog of this install; a server
\* it attached to keeps running.
StopTree ==
    IF tray.proc # None /\ Alive(tray.proc)
    THEN Tree(tray.proc) \cup (IF wd.up THEN Tree("wd") ELSE {}) ELSE {}

Stopped ==
    [tray EXCEPT !.stopped = TRUE, !.proc = None, !.wait = FALSE,
                 !.state = IF tray.proc = None /\ tray.adopted /\ tray.state = "running"
                           THEN @ ELSE "stopped"]

\* Nothing waits for the exit code of its child any more.
Gone(root, P) == [p \in Procs |-> IF p = root THEN NoProc ELSE P[p]]

TrayStop ==
    /\ tray.up /\ tray.state \in {"running", "starting"} /\ Op
    /\ tray.proc # None \/ ~tray.adopted
    /\ proc' = Gone(tray.proc, Without(StopTree, "ended"))
    /\ WdAfter(StopTree)
    /\ tray' = Stopped /\ wanted' = FALSE
    /\ UNCHANGED faults

TrayRestart ==
    /\ tray.up /\ tray.proc # None /\ Op
    /\ proc' = [Gone(tray.proc, Without(StopTree, "ended")) EXCEPT ![tray.proc] = Launched("tray", FALSE)]
    /\ tray' = [tray EXCEPT !.restarts = 0, !.state = "starting", !.wait = FALSE]
    /\ WdAfter(StopTree) /\ wanted' = TRUE
    /\ UNCHANGED faults

\* The tray is gone: nobody launched its child any more, nobody reads its exit code.
Orphaned(P) ==
    [p \in Procs |-> IF P[p].from = "tray" THEN (IF P[p].pc = "dead" THEN NoProc ELSE [P[p] EXCEPT !.from = None])
                     ELSE P[p]]

TrayQuit ==
    /\ tray.up /\ Op
    /\ proc' = Orphaned(Without(StopTree, "ended"))
    /\ WdAfter(StopTree)
    /\ tray' = NoTray /\ wanted' = (wanted /\ tray.adopted)
    /\ UNCHANGED faults

-----------------------------------------------------------------------------
\* Faults

Fault == faults < MaxFaults /\ faults' = faults + 1

\* A server dies: a tray that launched it notices, nobody else does.
Crash(p) ==
    /\ Alive(p) /\ Fault
    /\ proc' = Without({p}, "failed") /\ WdAfter({p})
    /\ wanted' = (wanted /\ tray.proc = p)
    /\ UNCHANGED <<tray, ops>>

\* It hangs with its port: only somebody who asks the watchdog brings it back.
Wedge(p) ==
    /\ proc[p].pc = "serve" /\ Fault
    /\ proc' = [proc EXCEPT ![p].pc = "wedged"] /\ wanted' = FALSE
    /\ UNCHANGED <<wd, job, restarting, tray, ops>>

WdCrash ==
    /\ wd.up /\ Fault
    /\ WdAfter({"wd"})
    /\ proc' = [p \in Procs |-> IF proc[p].from = "wd" THEN [proc[p] EXCEPT !.from = None] ELSE proc[p]]
    /\ wanted' = (wanted /\ ~Unheard({"wd"}))
    /\ UNCHANGED <<tray, ops>>

TrayCrash ==
    /\ tray.up /\ Fault
    /\ proc' = Orphaned(proc) /\ tray' = NoTray /\ wanted' = (wanted /\ tray.adopted)
    /\ UNCHANGED <<wd, job, restarting, ops>>

-----------------------------------------------------------------------------
Init ==
    /\ \E p \in Procs, from \in {"tray", None} :
          /\ p = CHOOSE q \in Procs : TRUE
          /\ proc = [q \in Procs |-> IF q = p THEN Launched(from, FALSE) ELSE NoProc]
          /\ tray = IF from = None THEN NoTray
                    ELSE [NoTray EXCEPT !.up = TRUE, !.state = "starting", !.proc = p]
    /\ wd = [up |-> FALSE, from |-> None]
    /\ job = [j \in Jobs |-> NoJob] /\ restarting = FALSE
    /\ wanted = TRUE /\ ops = 0 /\ faults = 0

ServerStep(p) ==
    \/ Preflight(p) \/ Awaited(p) \/ Claim(p) \/ Bind(p) \/ Leave(p) \/ Handoff(p) \/ Respawn(p)
    \/ Settled(p) \/ Closed(p)

JobStep(j) == Kill(j) \/ PortFree(j) \/ Restarted(j)

TrayStep == TrayPoll \/ Classify \/ RespawnOrAdopt \/ PollUnowned

Next ==
    \/ \E p \in Procs : ServerStep(p)
    \/ \E p \in Procs : AskRestart(p) \/ AskStop(p)
    \/ \E j \in Jobs : JobStep(j)
    \/ TrayStep
    \/ UserStart \/ AskWatchdog \/ TrayLaunch \/ TrayStart \/ TrayStop \/ TrayRestart \/ TrayQuit
    \/ \E p \in Procs : Crash(p) \/ Wedge(p)
    \/ WdCrash \/ TrayCrash

\* The steps of live processes happen; users, clients and faults need not.
Fairness ==
    /\ \A p \in Procs : WF_vars(ServerStep(p))
    /\ \A j \in Jobs : WF_vars(JobStep(j))
    /\ WF_vars(TrayStep)

Spec == Init /\ [][Next]_vars /\ Fairness

-----------------------------------------------------------------------------
\* Properties

TypeOK ==
    /\ proc \in [Procs -> [pc : {"none", "check", "await", "claim", "bind", "serve", "wedged", "leave", "handoff",
                                 "handed", "drain", "settle", "close", "dead"},
                           from : Procs \cup {"wd", "tray", None}, waits : BOOLEAN,
                           role : {"primary", "secondary", None}, heir : Procs \cup {None},
                           handing : BOOLEAN,
                           code : {"restart me", "port taken", "failed", "killed", "ended", None}]]
    /\ wd \in [up : BOOLEAN, from : Procs \cup {None}]
    /\ job \in [Jobs -> [pc : {"none", "kill", "free", "health"}, target : Procs \cup {None}, tray : BOOLEAN]]
    /\ restarting \in BOOLEAN
    /\ tray \in [up : BOOLEAN, state : {"stopped", "starting", "running", "crashed"},
                 proc : Procs \cup {None}, adopted : BOOLEAN, stopped : BOOLEAN,
                 restarts : 0..MaxRestarts, retries : 0..MaxRetries, wait : BOOLEAN,
                 pc : {"poll", "classify", "backoff"},
                 code : {"restart me", "port taken", "failed", "killed", "ended", None}]
    /\ wanted \in BOOLEAN /\ ops \in 0..MaxOps /\ faults \in 0..MaxFaults

\* The background workers of two servers never run over one data directory: the lock is kept
\* until the lifespan has shut down, long after the ports are free for a replacement.
WorkersApart ==
    \A p, q \in Procs : p # q =>
        ~(proc[p].role = "primary" /\ Alive(p) /\ proc[q].role = "primary" /\ Alive(q))

\* The servers of one install, whoever launched them, stay out of each other's way.
ServersApart == TypeOK /\ WorkersApart

\* A server that is meant to run is running again after every restart, crash and stop that
\* somebody looks after: the watchdog outlives the server it restarts, a replacement waits for
\* the ports it is to take, a port conflict is waited out.
ServesAgain == wanted ~> (Answering \/ ~wanted)

\* The tray takes the watchdog's kill for a crash only when something crashed, when nobody means
\* the server to run any more, or when another one answers or is coming up by then.
AskedForIsNoCrash ==
    [][tray'.restarts > tray.restarts =>
          tray.code # "killed" \/ faults > 0 \/ ~wanted \/ Answering \/ Starting # {}]_vars

\* What the user stopped in the tray stays stopped, whatever the tray was about to do.
StopSticks == [][tray.up /\ tray.stopped /\ tray'.stopped => tray'.proc \in {tray.proc, None}]_vars

\* The tray does what its user and the watchdog meant, and counts no more crashes than there are.
TrayHeeds == AskedForIsNoCrash /\ StopSticks

\* A server that replaced another does its work: the data directory is its own, or some other
\* server's whose workers run.
ReplacementWorks ==
    \A p \in Procs : Serving(p) /\ proc[p].waits /\ proc[p].role = "secondary" =>
        \E q \in Procs : OwnsData(q)

\* Exactly one process brings the server back.
OneRespawns == Cardinality({p \in Starting : proc[p].from # None}) <= 1

\* A server that exits for the tray to bring it back has a tray that will.
ExitHasHeir ==
    \A p \in Procs : proc[p].pc \in {"leave", "close"} /\ proc[p].code = "restart me" =>
        tray.up /\ tray.proc = p

\* A restart of the watchdog is shown to those who ask for as long as it lasts.
RestartsShown == \A j \in Jobs : job[j].pc # "none" => restarting

=============================================================================
