-------------------------- MODULE DeploymentProofs --------------------------
(***************************************************************************)
(* Proofs about Deployment, for any processes, operations, faults, respawn *)
(* and retry budgets.                                                      *)
(*                                                                         *)
(* Two servers never work over one data directory (ServersStayApart): who  *)
(* has the role of its owner has it from the claim to the end of its       *)
(* lifespan, so a claim that sees no owner is alone.  What the user        *)
(* stopped stays stopped, and where the watchdog has one restart under way *)
(* at a time, its kill is not counted as a crash (TrayIsHeeded).           *)
(***************************************************************************)
EXTENDS Deployment, TLAPS

Codes == {"restart me", "port taken", "failed", "killed", "ended", None}

Pcs == {"none", "check", "await", "claim", "bind", "serve", "wedged", "leave", "handoff",
        "handed", "drain", "settle", "close", "dead"}

ProcRec == [pc : Pcs, from : Procs \cup {"wd", "tray", None}, waits : BOOLEAN,
            role : {"primary", "secondary", None}, heir : Procs \cup {None},
            handing : BOOLEAN, code : Codes]

JobRec == [pc : {"none", "kill", "free", "health"}, target : Procs \cup {None}, tray : BOOLEAN]

TrayRec == [up : BOOLEAN, state : {"stopped", "starting", "running", "crashed"},
            proc : Procs \cup {None}, adopted : BOOLEAN, stopped : BOOLEAN,
            restarts : 0..MaxRestarts, retries : 0..MaxRetries, wait : BOOLEAN,
            pc : {"poll", "classify", "backoff"}, code : Codes]

-----------------------------------------------------------------------------
\* The invariants.

\* From the claim of the data directory to the end of the lifespan.
Keepers == {"bind", "serve", "wedged", "leave", "handoff", "handed", "drain", "settle", "close"}

RolesKnown == \A p \in Procs : proc[p].role = "primary" /\ Alive(p) => proc[p].pc \in Keepers

\* With a child the tray polls it; it waits for a port only without one, and not when stopped.
TrayInStep ==
    /\ tray.proc # None => tray.up /\ tray.pc = "poll"
    /\ tray.proc # None \/ tray.pc # "poll" \/ tray.stopped => ~tray.wait

\* /health shows a restart as long as one is under way.
Shown ==
    /\ \A j \in Jobs : job[j].pc # "none" => restarting
    /\ restarting => wd.up /\ \E j \in Jobs : job[j].pc # "none"

\* The tray's child is its own until its exit code is read, and it has no other.
ChildOfTray ==
    /\ tray.proc # None => /\ proc[tray.proc].pc # "none"
                           /\ Alive(tray.proc) => proc[tray.proc].from = "tray"
    /\ \A p \in Procs : proc[p].from = "tray" => tray.proc = p /\ Alive(p)

\* Who exits for the tray is its child; who closes by itself was not killed.
Exits ==
    \A p \in Procs :
       /\ proc[p].pc = "leave" => proc[p].from = "tray" \/ faults > 0
       /\ proc[p].pc = "wedged" => faults > 0
       /\ proc[p].pc = "close" => proc[p].code # "killed"

\* A replacement is of one server, not the tray's, and waits until that server lets go.
HeirsWait ==
    /\ \A p \in Procs : proc[p].heir # None =>
          /\ proc[p].pc \in {"settle", "close"}
          /\ proc[p].heir \notin {p, tray.proc}
          /\ proc[proc[p].heir].pc # "none"
    /\ \A p \in Procs : proc[p].pc = "settle" =>
          /\ proc[p].heir # None
          /\ \/ proc[proc[p].heir].pc = "dead"
             \/ proc[proc[p].heir].pc \in {"check", "await"} /\ proc[proc[p].heir].waits
    /\ \A p, q \in Procs : proc[p].heir = proc[q].heir /\ proc[p].heir # None => p = q

\* The tray has an exit to read, or has read one, that was a kill.
KillSeen ==
    /\ tray.up
    /\ \/ tray.proc # None /\ proc[tray.proc].pc = "dead" /\ proc[tray.proc].code = "killed"
       \/ tray.pc = "classify" /\ tray.code = "killed"

Excused == faults > 0 \/ ~wanted \/ Answering \/ Starting # {} \/ restarting

\* A kill is by a restart that is still shown, unless something else explains it.
KillAsked == KillSeen => Excused

Family == ChildOfTray /\ Exits /\ HeirsWait

ApartInv == TypeOK /\ RolesKnown /\ WorkersApart

HeedInv == TypeOK /\ TrayInStep /\ Shown /\ Family /\ KillAsked

-----------------------------------------------------------------------------
\* Lemmas about process trees.

\* A process tree is of processes; its root is in it.
LEMMA TreeOfProcesses ==
    ASSUME NEW root \in Procs \cup {"wd"}
    PROVE  Tree(root) \subseteq Procs \cup {"wd"} /\ root \in Tree(root)
PROOF
<1> DEFINE Grow(S) == S \cup {n \in Procs \cup {"wd"} : From(n) \in S}
<1>1. \A S : S \subseteq Procs \cup {"wd"} => Grow(S) \subseteq Procs \cup {"wd"} /\ S \subseteq Grow(S)
  OBVIOUS
<1>2. {root} \subseteq Procs \cup {"wd"}
  OBVIOUS
<1>3. Tree(root) = Grow(Grow(Grow(Grow({root}))))
  BY DEF Tree
<1> HIDE DEF Grow
<1>4. Grow({root}) \subseteq Procs \cup {"wd"} /\ root \in Grow({root})
  BY <1>1, <1>2
<1>5. Grow(Grow({root})) \subseteq Procs \cup {"wd"} /\ root \in Grow(Grow({root}))
  BY <1>1, <1>4
<1>6. Grow(Grow(Grow({root}))) \subseteq Procs \cup {"wd"} /\ root \in Grow(Grow(Grow({root})))
  BY <1>1, <1>5
<1> QED  BY <1>1, <1>3, <1>6

\* Neither the tray nor nobody is among what a kill takes along.
Plain(S) == S \subseteq Procs \cup {"wd"}

LEMMA VictimsPlain ==
    ASSUME NEW p \in Procs \cup {None}
    PROVE  Plain(Victims(p)) /\ "wd" \notin Victims(p)
BY TreeOfProcesses DEF Victims, Plain

LEMMA StopTreePlain ==
    ASSUME tray \in TrayRec
    PROVE  Plain(StopTree) /\ (tray.proc # None /\ Alive(tray.proc) => tray.proc \in StopTree)
BY TreeOfProcesses DEF StopTree, Plain, TrayRec

\* What the death of S does to one process.
Died(code) == [NoProc EXCEPT !.pc = "dead", !.code = code]

LEMMA WithoutAt ==
    ASSUME NEW S, NEW code \in Codes, proc \in [Procs -> ProcRec], Plain(S)
    PROVE  /\ Without(S, code) \in [Procs -> ProcRec]
           /\ \A p \in Procs :
                /\ ~Alive(p) => Without(S, code)[p] = IF Read(p, S) THEN proc[p] ELSE NoProc
                /\ Alive(p) /\ p \in S => Without(S, code)[p] = IF Read(p, S) THEN Died(code) ELSE NoProc
                /\ Alive(p) /\ p \notin S =>
                      /\ Without(S, code)[p].pc = proc[p].pc
                      /\ Without(S, code)[p].role = proc[p].role
                      /\ Without(S, code)[p].heir = proc[p].heir
                      /\ Without(S, code)[p].waits = proc[p].waits
                      /\ Without(S, code)[p].code = proc[p].code
                      /\ Without(S, code)[p].from = "tray" <=> proc[p].from = "tray"
PROOF
<1>1. NoProc \in ProcRec /\ Died(code) \in ProcRec
  BY DEF NoProc, Died, ProcRec, Pcs, Codes
<1>2. ASSUME NEW p \in Procs
      PROVE  /\ [proc[p] EXCEPT !.from = IF @ \in S THEN None ELSE @] \in ProcRec
             /\ LET r == [proc[p] EXCEPT !.from = IF @ \in S THEN None ELSE @]
                IN  /\ r.pc = proc[p].pc /\ r.role = proc[p].role /\ r.heir = proc[p].heir
                    /\ r.waits = proc[p].waits /\ r.code = proc[p].code
                    /\ r.from = "tray" <=> proc[p].from = "tray"
  BY DeploymentAssumption, <1>2 DEF ProcRec, Plain
<1>3. \A p \in Procs : Without(S, code)[p] =
          IF ~Alive(p) THEN (IF Read(p, S) THEN proc[p] ELSE NoProc)
          ELSE IF p \in S THEN (IF Read(p, S) THEN Died(code) ELSE NoProc)
          ELSE [proc[p] EXCEPT !.from = IF @ \in S THEN None ELSE @]
  BY DEF Without, Died
<1>4. Without(S, code) \in [Procs -> ProcRec]
  BY <1>1, <1>2 DEF Without, Died
<1> QED  BY <1>2, <1>3, <1>4-----------------------------------------------------------------------------
\* Types

LEMMA Numbers ==
    /\ 0 \in 0..MaxRestarts /\ 0 \in 0..MaxRetries
    /\ \A n \in 0..MaxRestarts : n < MaxRestarts => n + 1 \in 0..MaxRestarts
    /\ \A n \in 0..MaxRetries : n < MaxRetries => n + 1 \in 0..MaxRetries
    /\ \A n \in 0..MaxOps : n < MaxOps => n + 1 \in 0..MaxOps
    /\ \A n \in 0..MaxFaults : n < MaxFaults => n + 1 \in 0..MaxFaults /\ n + 1 > 0
PROOF
<1>1. MaxOps \in Nat /\ MaxFaults \in Nat /\ MaxRestarts \in Nat /\ MaxRetries \in Nat
  BY DeploymentAssumption
<1> QED  BY <1>1

LEMMA RecTypes ==
    ASSUME NEW from \in Procs \cup {"wd", "tray", None}, NEW waits \in BOOLEAN
    PROVE  /\ NoProc \in ProcRec /\ NoJob \in JobRec /\ Launched(from, waits) \in ProcRec
           /\ NoTray \in TrayRec /\ [NoTray EXCEPT !.up = TRUE] \in TrayRec
PROOF
<1>1. NoProc \in ProcRec /\ NoJob \in JobRec
  BY DEF NoProc, ProcRec, Pcs, Codes, NoJob, JobRec
<1>2. Launched(from, waits) \in ProcRec
  BY <1>1 DEF Launched, ProcRec, Pcs
<1>3. NoTray \in TrayRec
  BY Numbers DEF NoTray, TrayRec, Codes
<1>4. [NoTray EXCEPT !.up = TRUE] \in TrayRec
  BY <1>3 DEF TrayRec
<1> QED  BY <1>1, <1>2, <1>3, <1>4

\* The record of a process that was just launched.
LEMMA LaunchedIs ==
    ASSUME NEW from, NEW waits
    PROVE  /\ Launched(from, waits).pc = "check" /\ Launched(from, waits).from = from
           /\ Launched(from, waits).waits = waits /\ Launched(from, waits).role = None
           /\ Launched(from, waits).heir = None /\ Launched(from, waits).code = None
BY DEF Launched, NoProc

WdTypes == /\ wd \in [up : BOOLEAN, from : Procs \cup {None}]
           /\ job \in [Jobs -> JobRec] /\ restarting \in BOOLEAN

RestTypes == /\ tray \in TrayRec
             /\ wanted \in BOOLEAN /\ ops \in 0..MaxOps /\ faults \in 0..MaxFaults

ProcTypes == proc \in [Procs -> ProcRec]

\* The parts of the types.
LEMMA TypeParts == TypeOK <=> ProcTypes /\ WdTypes /\ RestTypes
BY DEF TypeOK, ProcRec, Pcs, Codes, JobRec, TrayRec, WdTypes, RestTypes, ProcTypes

LEMMA TypePartsNext == ProcTypes' /\ WdTypes' /\ RestTypes' => TypeOK'
BY DEF TypeOK, ProcRec, Pcs, Codes, JobRec, TrayRec, WdTypes, RestTypes, ProcTypes

LEMMA WdTyped ==
    ASSUME WdTypes, NEW S, WdAfter(S)
    PROVE  WdTypes'
PROOF
<1>1. NoJob \in JobRec
  BY DEF NoJob, JobRec
<1>2. CASE "wd" \in S
  <2>1. wd' = [up |-> FALSE, from |-> None] /\ job' = [j \in Jobs |-> NoJob] /\ restarting' = FALSE
    BY <1>2 DEF WdAfter
  <2>2. wd' \in [up : BOOLEAN, from : Procs \cup {None}]
    BY <2>1
  <2>3. job' \in [Jobs -> JobRec]
    BY <1>1, <2>1
  <2> QED  BY <2>1, <2>2, <2>3 DEF WdTypes
<1>3. CASE "wd" \notin S
  <2>1. wd' = [wd EXCEPT !.from = IF @ \in S THEN None ELSE @] /\ job' = job /\ restarting' = restarting
    BY <1>3 DEF WdAfter
  <2> QED  BY <2>1 DEF WdTypes
<1> QED  BY <1>2, <1>3

LEMMA WdUnchanged == ASSUME WdTypes, UNCHANGED <<wd, job, restarting>> PROVE WdTypes'
BY DEF WdTypes

LEMMA Counted ==
    ASSUME RestTypes
    PROVE  /\ Op => ops' \in 0..MaxOps
           /\ Fault => faults' \in 0..MaxFaults /\ faults' > 0
BY Numbers DEF Op, Fault, RestTypes

LEMMA WithoutTyped ==
    ASSUME ProcTypes, NEW S, NEW code \in Codes, Plain(S), proc' = Without(S, code)
    PROVE  ProcTypes'
BY WithoutAt DEF ProcTypes

LEMMA PcTyped ==
    ASSUME ProcTypes, NEW p, NEW c \in Pcs, proc' = [proc EXCEPT ![p].pc = c]
    PROVE  ProcTypes'
BY DEF ProcTypes, ProcRec

LEMMA RecTyped ==
    ASSUME ProcTypes, NEW p, NEW r \in ProcRec, proc' = [proc EXCEPT ![p] = r]
    PROVE  ProcTypes'
BY DEF ProcTypes

LEMMA SpawnTypes ==
    ASSUME ProcTypes, NEW t \in TrayRec, NEW p \in Procs, Spawn(t, p)
    PROVE  ProcTypes' /\ tray' \in TrayRec
PROOF
<1>1. ProcTypes'
  BY RecTypes, RecTyped DEF Spawn
<1>2. tray' \in TrayRec
  BY DEF Spawn, TrayRec
<1> QED  BY <1>1, <1>2

LEMMA ServerTypes ==
    ASSUME TypeOK, NEW p \in Procs, ServerStep(p)
    PROVE  TypeOK'
PROOF
<1> USE DEF RestTypes
<1>0. ProcTypes /\ WdTypes /\ RestTypes
  BY TypeParts
<1>a. Plain({p}) /\ proc[p] \in ProcRec /\ \A q \in Procs : proc[q] \in ProcRec
  BY <1>0 DEF Plain, ProcTypes
<1>b. SUFFICES ProcTypes' /\ WdTypes' /\ RestTypes'
  BY TypePartsNext
<1>1. CASE Preflight(p)
  <2>1. ProcTypes'
    BY <1>0, <1>1, <1>a, WithoutTyped, PcTyped DEF Preflight, Pcs, Codes
  <2> QED  BY <1>0, <1>1, <2>1, WdUnchanged DEF Preflight
<1>2. CASE Awaited(p)
  <2>1. ProcTypes'
    BY <1>0, <1>2, <1>a, WithoutTyped, PcTyped DEF Awaited, Pcs, Codes
  <2> QED  BY <1>0, <1>2, <2>1, WdUnchanged DEF Awaited
<1>3. CASE Claim(p)
  <2>1. PICK r \in {"primary", "secondary"} : proc' = [proc EXCEPT ![p].pc = "bind", ![p].role = r]
    BY <1>3 DEF Claim
  <2>2. [[proc[p] EXCEPT !.pc = "bind"] EXCEPT !.role = r] \in ProcRec
    BY <1>a DEF ProcRec, Pcs
  <2>3. proc' = [proc EXCEPT ![p] = [[proc[p] EXCEPT !.pc = "bind"] EXCEPT !.role = r]]
    BY <1>0, <2>1 DEF ProcTypes
  <2>4. ProcTypes'
    BY <1>0, <2>2, <2>3, RecTyped
  <2>5. WdTypes'
    BY <1>0, <1>3 DEF Claim, WdTypes
  <2> QED  BY <1>0, <1>3, <2>4, <2>5 DEF Claim
<1>4. CASE Bind(p)
  <2>1. CASE proc' = [proc EXCEPT ![p].pc = "serve"] /\ UNCHANGED <<wd, job, restarting, wanted>>
    <3>1. ProcTypes'
      BY <1>0, <2>1, PcTyped DEF Pcs
    <3> QED  BY <1>0, <1>4, <2>1, <3>1, WdUnchanged DEF Bind
  <2>2. CASE \E S \in SUBSET (Procs \cup {"wd"}) :
                proc' = Without(S, "failed") /\ WdAfter(S) /\ wanted' = (wanted /\ ~Unheard(S))
    <3>1. ProcTypes' /\ WdTypes'
      BY <1>0, <2>2, WithoutTyped, WdTyped DEF Plain, Codes
    <3> QED  BY <1>0, <1>4, <2>2, <3>1 DEF Bind
  <2> QED  BY <1>4, <2>1, <2>2 DEF Bind
<1>5. CASE Leave(p)
  <2>1. proc' = [proc EXCEPT ![p] = [[[proc[p] EXCEPT !.pc = "close"] EXCEPT !.handing = TRUE]
                                                              EXCEPT !.code = "restart me"]]
    BY <1>0, <1>5 DEF Leave, ProcTypes
  <2>2. [[[proc[p] EXCEPT !.pc = "close"] EXCEPT !.handing = TRUE] EXCEPT !.code = "restart me"] \in ProcRec
    BY <1>a DEF ProcRec, Pcs, Codes
  <2>3. ProcTypes'
    BY <1>0, <2>1, <2>2, RecTyped
  <2> QED  BY <1>0, <1>5, <2>3, WdUnchanged DEF Leave
<1>6. CASE Handoff(p)
  <2>1. \A j \in Jobs : NewJob(j, p) \in [Jobs -> JobRec]
    BY <1>0 DEF NewJob, JobRec, TrayRec, WdTypes
  <2>2. ProcTypes'
    BY <1>0, <1>6, PcTyped DEF Handoff, Pcs
  <2>3. WdTypes'
    BY <1>0, <1>6, <2>1 DEF Handoff, WdTypes
  <2> QED  BY <1>0, <1>6, <2>2, <2>3 DEF Handoff
<1>7. CASE Respawn(p)
  <2>1. PICK q \in Fresh : proc' = [proc EXCEPT ![p].pc = "settle", ![p].heir = q, ![q] = Launched(p, TRUE)]
    BY <1>7 DEF Respawn
  <2>2. q \in Procs /\ Launched(p, TRUE) \in ProcRec
    BY RecTypes DEF Fresh, Unused
  <2>3. [[proc[p] EXCEPT !.pc = "settle"] EXCEPT !.heir = q] \in ProcRec
    BY <1>a, <2>2 DEF ProcRec, Pcs
  <2>4. proc' = [[proc EXCEPT ![p] = [[proc[p] EXCEPT !.pc = "settle"] EXCEPT !.heir = q]]
                      EXCEPT ![q] = Launched(p, TRUE)]
    BY <1>0, <2>1 DEF ProcTypes
  <2>5. ProcTypes'
    BY <1>0, <2>2, <2>3, <2>4 DEF ProcTypes
  <2> QED  BY <1>0, <1>7, <2>5, WdUnchanged DEF Respawn
<1>8. CASE Settled(p)
  <2> DEFINE A == [[proc[p] EXCEPT !.pc = "serve"] EXCEPT !.heir = None]
             B == [[[[proc[p] EXCEPT !.pc = "close"] EXCEPT !.heir = None] EXCEPT !.handing = TRUE]
                       EXCEPT !.code = "ended"]
  <2>1. A \in ProcRec /\ B \in ProcRec /\ NoProc \in ProcRec
    BY <1>a, RecTypes DEF ProcRec, Pcs, Codes
  <2>2. \/ proc' = [[proc EXCEPT ![p] = A] EXCEPT ![proc[p].heir] = NoProc]
        \/ proc' = [proc EXCEPT ![p] = B]
    BY <1>0, <1>8 DEF Settled, ProcTypes
  <2> HIDE DEF A, B
  <2>3. ProcTypes'
    BY <1>0, <2>1, <2>2 DEF ProcTypes
  <2> QED  BY <1>0, <1>8, <2>3, WdUnchanged DEF Settled
<1>9. CASE Closed(p)
  <2>1. proc[p].code \in Codes
    BY <1>a DEF ProcRec
  <2>2. PICK S \in SUBSET (Procs \cup {"wd"}) :
                proc' = Without(S, proc[p].code) /\ WdAfter(S) /\ wanted' = (wanted /\ ~Unheard(S))
    BY <1>9 DEF Closed
  <2>3. ProcTypes' /\ WdTypes'
    BY <1>0, <2>1, <2>2, WithoutTyped, WdTyped DEF Plain
  <2> QED  BY <1>0, <1>9, <2>2, <2>3 DEF Closed
<1> QED  BY <1>1, <1>2, <1>3, <1>4, <1>5, <1>6, <1>7, <1>8, <1>9 DEF ServerStep

LEMMA AskedTypes ==
    ASSUME TypeOK, NEW p \in Procs, AskRestart(p) \/ AskStop(p) \/ Crash(p) \/ Wedge(p)
    PROVE  TypeOK'
PROOF
<1>0. ProcTypes /\ WdTypes /\ RestTypes
  BY TypeParts
<1>a. proc[p] \in ProcRec
  BY <1>0 DEF ProcTypes
<1>b. SUFFICES ProcTypes' /\ WdTypes' /\ RestTypes'
  BY TypePartsNext
<1>1. CASE AskRestart(p)
  <2>1. ProcTypes'
    BY <1>0, <1>1, PcTyped DEF AskRestart, Pcs
  <2> QED  BY <1>0, <1>1, <2>1, WdUnchanged, Counted DEF AskRestart, RestTypes
<1>2. CASE AskStop(p)
  <2>1. proc' = [proc EXCEPT ![p] = [[proc[p] EXCEPT !.pc = "close"] EXCEPT !.code = "ended"]]
    BY <1>0, <1>2 DEF AskStop, ProcTypes
  <2>2. [[proc[p] EXCEPT !.pc = "close"] EXCEPT !.code = "ended"] \in ProcRec
    BY <1>a DEF ProcRec, Pcs, Codes
  <2>3. ProcTypes'
    BY <1>0, <2>1, <2>2, RecTyped
  <2> QED  BY <1>0, <1>2, <2>3, WdUnchanged, Counted DEF AskStop, RestTypes
<1>3. CASE Crash(p)
  <2>1. ProcTypes' /\ WdTypes'
    BY <1>0, <1>3, WithoutTyped, WdTyped DEF Crash, Plain, Codes
  <2> QED  BY <1>0, <1>3, <2>1, Counted DEF Crash, RestTypes
<1>4. CASE Wedge(p)
  <2>1. ProcTypes'
    BY <1>0, <1>4, PcTyped DEF Wedge, Pcs
  <2> QED  BY <1>0, <1>4, <2>1, WdUnchanged, Counted DEF Wedge, RestTypes
<1> QED  BY <1>1, <1>2, <1>3, <1>4

LEMMA WatchdogTypes ==
    ASSUME TypeOK, (\E j \in Jobs : JobStep(j)) \/ AskWatchdog \/ UserStart \/ WdCrash
    PROVE  TypeOK'
PROOF
<1>0. ProcTypes /\ WdTypes /\ RestTypes
  BY TypeParts
<1>a. NoJob \in JobRec /\ \A j \in Jobs : job[j] \in JobRec
  BY <1>0 DEF WdTypes, NoJob, JobRec
<1>b. SUFFICES ProcTypes' /\ WdTypes' /\ RestTypes'
  BY TypePartsNext
<1>c. \A from \in Procs \cup {"wd", "tray", None}, waits \in BOOLEAN : Launched(from, waits) \in ProcRec
  BY RecTypes
<1>1. ASSUME NEW j \in Jobs, Kill(j) PROVE ProcTypes' /\ WdTypes' /\ RestTypes'
  <2> DEFINE S == Victims(job[j].target)
  <2>1. Plain(S) /\ "wd" \notin S
    BY <1>a, VictimsPlain DEF JobRec
  <2>2. /\ proc' = Without(S, "killed") /\ wd' = [wd EXCEPT !.from = IF @ \in S THEN None ELSE @]
        /\ job' = [job EXCEPT ![j].pc = "free"] /\ restarting' = restarting
        /\ UNCHANGED <<tray, wanted, ops, faults>>
    BY <1>1, <2>1 DEF Kill
  <2> HIDE DEF S
  <2>3. ProcTypes'
    BY <1>0, <2>1, <2>2, WithoutTyped DEF Codes
  <2>4. WdTypes'
    BY <1>0, <2>2 DEF WdTypes, JobRec
  <2> QED  BY <1>0, <2>2, <2>3, <2>4 DEF RestTypes
<1>2. ASSUME NEW j \in Jobs, PortFree(j) PROVE ProcTypes' /\ WdTypes' /\ RestTypes'
  <2>1. ProcTypes'
    BY <1>0, <1>2, <1>c, RecTyped DEF PortFree, Fresh, Unused, ProcTypes
  <2>2. WdTypes'
    <3>1. job' = [job EXCEPT ![j].pc = "health"] /\ UNCHANGED <<wd, restarting>>
      BY <1>2 DEF PortFree
    <3> QED  BY <1>0, <3>1 DEF WdTypes, JobRec
  <2> QED  BY <1>0, <1>2, <2>1, <2>2 DEF PortFree, RestTypes
<1>3. ASSUME NEW j \in Jobs, Restarted(j) PROVE ProcTypes' /\ WdTypes' /\ RestTypes'
  <2>1. WdTypes'
    BY <1>0, <1>3, <1>a DEF Restarted, WdTypes
  <2> QED  BY <1>0, <1>3, <2>1 DEF Restarted, RestTypes, ProcTypes
<1>4. CASE AskWatchdog
  <2>1. \A j \in Jobs, p \in Procs \cup {None} : NewJob(j, p) \in [Jobs -> JobRec]
    BY <1>0 DEF NewJob, JobRec, TrayRec, WdTypes, RestTypes
  <2>2. PICK j \in Jobs, p \in Procs \cup {None} : job' = NewJob(j, p)
    BY <1>4 DEF AskWatchdog, Holders
  <2>3. WdTypes'
    BY <1>0, <1>4, <2>1, <2>2 DEF AskWatchdog, WdTypes
  <2> QED  BY <1>0, <1>4, <2>3, Counted DEF AskWatchdog, RestTypes, ProcTypes
<1>5. CASE UserStart
  <2>1. ProcTypes'
    BY <1>0, <1>5, <1>c, RecTyped DEF UserStart, Fresh, Unused
  <2> QED  BY <1>0, <1>5, <2>1, WdUnchanged, Counted DEF UserStart, RestTypes
<1>6. CASE WdCrash
  <2>1. WdTypes'
    BY <1>0, <1>6, WdTyped DEF WdCrash
  <2>2. ProcTypes'
    BY <1>0, <1>6 DEF WdCrash, ProcTypes, ProcRec
  <2> QED  BY <1>0, <1>6, <2>1, <2>2, Counted DEF WdCrash, RestTypes
<1> QED  BY <1>1, <1>2, <1>3, <1>4, <1>5, <1>6 DEF JobStep

LEMMA OrphanedTyped ==
    ASSUME NEW P \in [Procs -> ProcRec]
    PROVE  Orphaned(P) \in [Procs -> ProcRec]
PROOF
<1>1. NoProc \in ProcRec /\ \A p \in Procs : [P[p] EXCEPT !.from = None] \in ProcRec
  BY RecTypes DEF ProcRec
<1> QED  BY <1>1 DEF Orphaned

LEMMA TrayTypes ==
    ASSUME TypeOK,
           TrayStep \/ TrayLaunch \/ TrayStart \/ TrayStop \/ TrayRestart \/ TrayQuit \/ TrayCrash
    PROVE  TypeOK'
PROOF
<1>0. ProcTypes /\ WdTypes /\ RestTypes /\ tray \in TrayRec
  BY TypeParts DEF RestTypes
<1>a. NoProc \in ProcRec /\ NoTray \in TrayRec /\ [NoTray EXCEPT !.up = TRUE] \in TrayRec
  BY RecTypes
<1>b. SUFFICES ProcTypes' /\ WdTypes' /\ RestTypes'
  BY TypePartsNext
<1>c. tray' \in TrayRec /\ wanted' \in BOOLEAN /\ UNCHANGED <<ops, faults>> => RestTypes'
  BY <1>0 DEF RestTypes
<1>d. tray' \in TrayRec /\ wanted' \in BOOLEAN /\ Op /\ UNCHANGED faults => RestTypes'
  BY <1>0, Counted DEF RestTypes
<1>e. wanted \in BOOLEAN
  BY <1>0 DEF RestTypes
<1>f. Adopted \in TrayRec
  BY <1>0 DEF Adopted, TrayRec
<1>1. CASE TrayPoll
  <2>1. tray' \in TrayRec
    BY <1>0, <1>1, Numbers DEF TrayPoll, TrayRec, ProcTypes, ProcRec
  <2>2. ProcTypes'
    BY <1>0, <1>1, <1>a, RecTyped DEF TrayPoll, ProcTypes
  <2> QED  BY <1>0, <1>1, <1>c, <1>e, <2>1, <2>2, WdUnchanged DEF TrayPoll
<1>2. CASE Classify
  <2>1. tray.restarts < MaxRestarts => tray.restarts + 1 \in 0..MaxRestarts
    BY <1>0, Numbers DEF TrayRec
  <2>2. tray' \in TrayRec
    BY <1>0, <1>2, <2>1 DEF Classify, MayRetry, TrayRec
  <2>3. ProcTypes'
    BY <1>0, <1>2 DEF Classify, ProcTypes
  <2> QED  BY <1>0, <1>2, <1>c, <1>e, <2>2, <2>3, WdUnchanged DEF Classify
<1>3. CASE RespawnOrAdopt
  <2>1. CASE \E p \in Fresh : Spawn(tray, p)
    <3>1. ProcTypes' /\ tray' \in TrayRec
      BY <1>0, <2>1, SpawnTypes DEF Fresh, Unused
    <3> QED  BY <1>0, <1>3, <1>c, <1>e, <3>1, WdUnchanged DEF RespawnOrAdopt
  <2>2. CASE UNCHANGED proc /\ (tray' = Adopted \/ tray' = [tray EXCEPT !.pc = "poll"])
    <3>1. tray' \in TrayRec
      BY <1>0, <1>f, <2>2 DEF TrayRec
    <3>2. ProcTypes'
      BY <1>0, <2>2 DEF ProcTypes
    <3> QED  BY <1>0, <1>3, <1>c, <1>e, <3>1, <3>2, WdUnchanged DEF RespawnOrAdopt
  <2> QED  BY <1>3, <2>1, <2>2 DEF RespawnOrAdopt
<1>4. CASE PollUnowned
  <2>1. CASE tray.retries < MaxRetries /\ \E p \in Fresh : Spawn([tray EXCEPT !.retries = @ + 1], p)
    <3>1. tray.retries + 1 \in 0..MaxRetries
      BY <1>0, <2>1, Numbers DEF TrayRec
    <3>2. [tray EXCEPT !.retries = @ + 1] \in TrayRec
      BY <1>0, <3>1 DEF TrayRec
    <3>3. ProcTypes' /\ tray' \in TrayRec
      BY <1>0, <2>1, <3>2, SpawnTypes DEF Fresh, Unused
    <3> QED  BY <1>0, <1>4, <1>c, <1>e, <3>3, WdUnchanged DEF PollUnowned
  <2>2. CASE /\ UNCHANGED proc
             /\ \/ tray' = Adopted
                \/ tray' = [tray EXCEPT !.state = "crashed", !.stopped = TRUE, !.wait = FALSE]
                \/ tray' = [tray EXCEPT !.state = "stopped", !.adopted = FALSE]
    <3>1. tray' \in TrayRec
      BY <1>0, <1>f, <2>2 DEF TrayRec
    <3>2. ProcTypes'
      BY <1>0, <2>2 DEF ProcTypes
    <3> QED  BY <1>0, <1>4, <1>c, <1>e, <3>1, <3>2, WdUnchanged DEF PollUnowned
  <2> QED  BY <1>4, <2>1, <2>2 DEF PollUnowned
<1>5. CASE TrayLaunch
  <2>1. CASE \E p \in Fresh : Spawn([NoTray EXCEPT !.up = TRUE], p)
    <3>1. ProcTypes' /\ tray' \in TrayRec
      BY <1>0, <1>a, <2>1, SpawnTypes DEF Fresh, Unused
    <3> QED  BY <1>0, <1>5, <1>d, <1>e, <3>1, WdUnchanged DEF TrayLaunch
  <2>2. CASE UNCHANGED proc /\ tray' = [NoTray EXCEPT !.up = TRUE, !.state = "running", !.adopted = TRUE]
    <3>1. tray' \in TrayRec
      BY <1>a, <2>2 DEF TrayRec
    <3>2. ProcTypes'
      BY <1>0, <2>2 DEF ProcTypes
    <3> QED  BY <1>0, <1>5, <1>d, <1>e, <3>1, <3>2, WdUnchanged DEF TrayLaunch
  <2> QED  BY <1>5, <2>1, <2>2 DEF TrayLaunch
<1>6. CASE TrayStart
  <2>1. [tray EXCEPT !.stopped = FALSE, !.restarts = 0] \in TrayRec
    BY <1>0, Numbers DEF TrayRec
  <2>2. ProcTypes' /\ tray' \in TrayRec
    BY <1>0, <1>6, <2>1, SpawnTypes DEF TrayStart, Fresh, Unused
  <2> QED  BY <1>0, <1>6, <1>d, <2>2, WdUnchanged DEF TrayStart
<1>g. ASSUME NEW P, P = Without(StopTree, "ended")
      PROVE  P \in [Procs -> ProcRec] /\ Gone(tray.proc, P) \in [Procs -> ProcRec]
             /\ Orphaned(P) \in [Procs -> ProcRec]
  <2>1. P \in [Procs -> ProcRec]
    BY <1>0, <1>g, WithoutAt, StopTreePlain DEF ProcTypes, Codes
  <2> QED  BY <2>1, <1>a, OrphanedTyped DEF Gone
<1>7. CASE TrayStop
  <2>1. tray' \in TrayRec
    BY <1>0, <1>7 DEF TrayStop, Stopped, TrayRec
  <2>2. ProcTypes'
    BY <1>7, <1>g DEF TrayStop, ProcTypes
  <2>3. WdTypes'
    BY <1>0, <1>7, WdTyped DEF TrayStop
  <2> QED  BY <1>7, <1>d, <2>1, <2>2, <2>3 DEF TrayStop
<1>8. CASE TrayRestart
  <2>1. tray' \in TrayRec
    BY <1>0, <1>8, Numbers DEF TrayRestart, TrayRec
  <2>2. Launched("tray", FALSE) \in ProcRec
    BY RecTypes
  <2>3. ProcTypes'
    BY <1>8, <1>g, <2>2 DEF TrayRestart, ProcTypes
  <2>4. WdTypes'
    BY <1>0, <1>8, WdTyped DEF TrayRestart
  <2> QED  BY <1>8, <1>d, <2>1, <2>3, <2>4 DEF TrayRestart
<1>9. CASE TrayQuit
  <2>1. ProcTypes'
    BY <1>9, <1>g DEF TrayQuit, ProcTypes
  <2>2. WdTypes'
    BY <1>0, <1>9, WdTyped DEF TrayQuit
  <2>3. wanted' \in BOOLEAN /\ tray' \in TrayRec
    BY <1>0, <1>9, <1>a, <1>e DEF TrayQuit, TrayRec
  <2> QED  BY <1>9, <1>d, <2>1, <2>2, <2>3 DEF TrayQuit
<1>10. CASE TrayCrash
  <2>1. ProcTypes'
    BY <1>0, <1>10, OrphanedTyped DEF TrayCrash, ProcTypes
  <2>2. wanted' \in BOOLEAN /\ tray' \in TrayRec
    BY <1>0, <1>10, <1>a, <1>e DEF TrayCrash, TrayRec
  <2> QED  BY <1>0, <1>10, <2>1, <2>2, WdUnchanged, Counted DEF TrayCrash, RestTypes
<1> QED  BY <1>1, <1>2, <1>3, <1>4, <1>5, <1>6, <1>7, <1>8, <1>9, <1>10 DEF TrayStep

LEMMA TypeInit == Init => TypeOK
PROOF
<1> SUFFICES ASSUME Init PROVE TypeOK
  OBVIOUS
<1>1. PICK p \in Procs, from \in {"tray", None} :
          /\ proc = [q \in Procs |-> IF q = p THEN Launched(from, FALSE) ELSE NoProc]
          /\ tray = IF from = None THEN NoTray
                    ELSE [NoTray EXCEPT !.up = TRUE, !.state = "starting", !.proc = p]
  BY DEF Init
<1>2. ProcTypes
  BY <1>1, RecTypes DEF ProcTypes
<1>3. NoTray \in TrayRec
  BY RecTypes
<1>4. tray \in TrayRec
  BY <1>1, <1>3 DEF TrayRec
<1>5. WdTypes
  BY RecTypes DEF Init, WdTypes
<1>6. RestTypes
  BY <1>4, DeploymentAssumption DEF Init, RestTypes
<1> QED  BY <1>2, <1>5, <1>6, TypeParts

LEMMA TypeStep == ASSUME TypeOK, [Next]_vars PROVE TypeOK'
PROOF
<1>1. CASE UNCHANGED vars
  <2>1. ProcTypes /\ WdTypes /\ RestTypes
    BY TypeParts
  <2>2. ProcTypes' /\ WdTypes' /\ RestTypes'
    BY <1>1, <2>1 DEF vars, ProcTypes, WdTypes, RestTypes
  <2> QED  BY <2>2, TypePartsNext
<1>2. CASE Next
  BY <1>2, ServerTypes, AskedTypes, WatchdogTypes, TrayTypes DEF Next
<1> QED  BY <1>1, <1>2

-----------------------------------------------------------------------------
\* One owner of the data directory

\* No process becomes an owner, and an owner keeps the directory until it is gone.
OwnersStay ==
    \A p \in Procs : proc'[p].role = "primary" /\ proc'[p].pc \notin {"none", "dead"} =>
        proc[p].role = "primary" /\ Alive(p) /\ proc'[p].pc \in Keepers

LEMMA NoNewOwner ==
    ASSUME WorkersApart, OwnersStay
    PROVE  RolesKnown' /\ WorkersApart'
BY DEF RolesKnown, WorkersApart, OwnersStay, Alive

LEMMA WithoutOwners ==
    ASSUME ProcTypes, RolesKnown, NEW S, NEW code \in Codes, Plain(S), proc' = Without(S, code)
    PROVE  OwnersStay
PROOF
<1> SUFFICES ASSUME NEW p \in Procs, proc'[p].role = "primary", proc'[p].pc \notin {"none", "dead"}
             PROVE  proc[p].role = "primary" /\ Alive(p) /\ proc'[p].pc \in Keepers
  BY DEF OwnersStay
<1>1. NoProc.pc = "none" /\ Died(code).pc = "dead"
  BY DEF NoProc, Died
<1>2. Alive(p) /\ p \notin S
  BY <1>1, WithoutAt DEF ProcTypes, Alive
<1>3. proc'[p].pc = proc[p].pc /\ proc'[p].role = proc[p].role
  BY <1>2, WithoutAt DEF ProcTypes
<1> QED  BY <1>2, <1>3 DEF RolesKnown

LEMMA RecOwners ==
    ASSUME ProcTypes, RolesKnown, NEW p \in Procs, NEW r, proc' = [proc EXCEPT ![p] = r],
           \/ r.role # "primary" \/ r.pc \in {"none", "dead"}
           \/ proc[p].role = "primary" /\ Alive(p) /\ r.pc \in Keepers
    PROVE  OwnersStay
BY DEF ProcTypes, RolesKnown, OwnersStay, Alive

LEMMA PcOwners ==
    ASSUME ProcTypes, RolesKnown, NEW p \in Procs, NEW c, proc' = [proc EXCEPT ![p].pc = c],
           Alive(p), proc[p].pc \in Keepers => c \in Keepers
    PROVE  OwnersStay
BY DEF ProcTypes, RolesKnown, OwnersStay, Alive, ProcRec

LEMMA SameOwners ==
    ASSUME RolesKnown, UNCHANGED proc PROVE OwnersStay
BY DEF RolesKnown, OwnersStay, Alive

LEMMA NobodyApart == None # "primary" /\ None # "killed" /\ None # "tray" /\ None # "wd" /\ None \notin Procs
BY DeploymentAssumption

\* A launch starts without a role.
LEMMA LaunchOwners ==
    ASSUME ProcTypes, RolesKnown, NEW p \in Procs, NEW from, NEW waits,
           proc' = [proc EXCEPT ![p] = Launched(from, waits)]
    PROVE  OwnersStay
PROOF
<1>1. Launched(from, waits).role # "primary"
  BY LaunchedIs, NobodyApart
<1> QED  BY <1>1, RecOwners

LEMMA ServerOwners ==
    ASSUME TypeOK, RolesKnown, NEW p \in Procs,
           ServerStep(p), ~Claim(p)
    PROVE  OwnersStay
PROOF
<1>0. ProcTypes /\ p \in Procs /\ Plain({p}) /\ proc[p] \in ProcRec
  BY TypeParts DEF Plain, ProcTypes
<1>1. CASE Preflight(p)
  BY <1>0, <1>1, WithoutOwners, PcOwners DEF Preflight, Alive, Keepers, Codes
<1>2. CASE Awaited(p)
  BY <1>0, <1>2, WithoutOwners, PcOwners DEF Awaited, Alive, Keepers, Codes
<1>4. CASE Bind(p)
  <2>1. CASE proc' = [proc EXCEPT ![p].pc = "serve"]
    BY <1>0, <1>4, <2>1, PcOwners DEF Bind, Alive, Keepers
  <2>2. CASE \E S \in SUBSET (Procs \cup {"wd"}) : proc' = Without(S, "failed")
    BY <1>0, <2>2, WithoutOwners DEF Plain, Codes
  <2> QED  BY <1>4, <2>1, <2>2 DEF Bind
<1>5. CASE Leave(p)
  <2>1. PICK r : /\ proc' = [proc EXCEPT ![p] = r]
                 /\ r = [[[proc[p] EXCEPT !.pc = "close"] EXCEPT !.handing = TRUE] EXCEPT !.code = "restart me"]
    BY <1>0, <1>5 DEF Leave, ProcTypes
  <2>2. r.pc = "close" /\ r.role = proc[p].role
    BY <1>0, <2>1 DEF ProcRec
  <2> QED  BY <1>0, <1>5, <2>1, <2>2, RecOwners DEF Leave, Alive, Keepers
<1>6. CASE Handoff(p)
  BY <1>0, <1>6, PcOwners DEF Handoff, Alive, Keepers
<1>7. CASE Respawn(p)
  <2>1. PICK q \in Fresh : proc' = [proc EXCEPT ![p].pc = "settle", ![p].heir = q, ![q] = Launched(p, TRUE)]
    BY <1>7 DEF Respawn
  <2>2. q \in Procs /\ q # p
    BY <1>7 DEF Fresh, Unused, Respawn
  <2>3. proc'[p].pc = "settle" /\ proc'[p].role = proc[p].role /\ proc'[q] = Launched(p, TRUE)
        /\ \A s \in Procs \ {p, q} : proc'[s] = proc[s]
    BY <1>0, <2>1, <2>2 DEF ProcTypes, ProcRec
  <2>4. Launched(p, TRUE).role # "primary"
    BY NobodyApart DEF Launched, NoProc
  <2> QED  BY <1>7, <2>3, <2>4 DEF OwnersStay, Alive, Keepers, Respawn, RolesKnown
<1>8. CASE Settled(p)
  <2>1. /\ \A s \in Procs : s = p \/ proc'[s] = proc[s] \/ proc'[s] = NoProc
        /\ \/ proc'[p] = NoProc
           \/ proc'[p].pc \in {"serve", "close"} /\ proc'[p].role = proc[p].role
    BY <1>0, <1>8 DEF Settled, ProcTypes, ProcRec
  <2>2. NoProc.pc = "none"
    BY DEF NoProc
  <2> QED  BY <1>8, <2>1, <2>2 DEF OwnersStay, Alive, Keepers, Settled, RolesKnown
<1>9. CASE Closed(p)
  <2>1. proc[p].code \in Codes
    BY <1>0 DEF ProcRec
  <2>2. PICK S \in SUBSET (Procs \cup {"wd"}) : proc' = Without(S, proc[p].code)
    BY <1>9 DEF Closed
  <2> QED  BY <1>0, <2>1, <2>2, WithoutOwners DEF Plain
<1> QED  BY <1>1, <1>2, <1>4, <1>5, <1>6, <1>7, <1>8, <1>9 DEF ServerStep

\* A claim that makes an owner saw no other; by RolesKnown there was none.
LEMMA ClaimApart ==
    ASSUME TypeOK, RolesKnown, WorkersApart, NEW p \in Procs, Claim(p)
    PROVE  RolesKnown' /\ WorkersApart'
PROOF
<1>1. ProcTypes
  BY TypeParts
<1>2. /\ proc'[p].pc = "bind" /\ \A q \in Procs \ {p} : proc'[q] = proc[q]
      /\ proc'[p].role = IF \E q \in Procs \ {p} : OwnsData(q) THEN "secondary" ELSE "primary"
  BY <1>1 DEF Claim, ProcTypes, ProcRec
<1>3. ASSUME NEW q \in Procs \ {p}, proc[q].role = "primary", Alive(q) PROVE OwnsData(q)
  BY <1>3 DEF RolesKnown, OwnsData, Keepers, HasPort, Serving
<1>4. \A q \in Procs \ {p} : proc'[q].role = "primary" /\ Alive(q)' /\ proc'[p].role = "primary" => FALSE
  BY <1>2, <1>3 DEF Alive
<1>5. RolesKnown'
  BY <1>2 DEF RolesKnown, Alive, Keepers
<1>6. WorkersApart'
  BY <1>2, <1>4 DEF WorkersApart, Alive
<1> QED  BY <1>5, <1>6

LEMMA OtherOwners ==
    ASSUME TypeOK, RolesKnown,
           \/ \E p \in Procs : AskRestart(p) \/ AskStop(p) \/ Crash(p) \/ Wedge(p)
           \/ \E j \in Jobs : JobStep(j)
           \/ AskWatchdog \/ UserStart \/ WdCrash
    PROVE  OwnersStay
PROOF
<1>0. ProcTypes /\ WdTypes
  BY TypeParts
<1>a. \A p \in Fresh : p \in Procs
  BY DEF Fresh, Unused
<1>1. ASSUME NEW p \in Procs, AskRestart(p) PROVE OwnersStay
  BY <1>0, <1>1, PcOwners DEF AskRestart, Alive, Keepers
<1>2. ASSUME NEW p \in Procs, AskStop(p) PROVE OwnersStay
  <2>1. /\ proc'[p].pc = "close" /\ proc'[p].role = proc[p].role
        /\ \A q \in Procs \ {p} : proc'[q] = proc[q]
    BY <1>0, <1>2 DEF AskStop, ProcTypes, ProcRec
  <2> QED  BY <1>2, <2>1 DEF OwnersStay, RolesKnown, Alive, Keepers, AskStop, Serving
<1>3. ASSUME NEW p \in Procs, Crash(p) PROVE OwnersStay
  BY <1>0, <1>3, WithoutOwners DEF Crash, Plain, Codes
<1>4. ASSUME NEW p \in Procs, Wedge(p) PROVE OwnersStay
  BY <1>0, <1>4, PcOwners DEF Wedge, Alive, Keepers
<1>5. ASSUME NEW j \in Jobs, Kill(j) PROVE OwnersStay
  <2>1. job[j].target \in Procs \cup {None}
    BY <1>0 DEF WdTypes, JobRec
  <2>2. Plain(Victims(job[j].target)) /\ proc' = Without(Victims(job[j].target), "killed")
    BY <1>5, <2>1, VictimsPlain DEF Kill
  <2> QED  BY <1>0, <2>2, WithoutOwners DEF Codes
<1>6. ASSUME NEW j \in Jobs, PortFree(j) PROVE OwnersStay
  <2>1. PICK r : r = Launched("wd", FALSE)
    OBVIOUS
  <2>2. r.role # "primary"
    BY <2>1, NobodyApart DEF Launched, NoProc
  <2> QED  BY <1>0, <1>6, <1>a, <2>1, <2>2, RecOwners, SameOwners DEF PortFree
<1>7. CASE UserStart
  BY <1>0, <1>7, <1>a, LaunchOwners DEF UserStart
<1>8. CASE WdCrash
  <2>1. \A p \in Procs : proc'[p].pc = proc[p].pc /\ proc'[p].role = proc[p].role
    BY <1>0, <1>8 DEF WdCrash, ProcTypes, ProcRec
  <2> QED  BY <2>1 DEF OwnersStay, RolesKnown, Alive
<1>9. UNCHANGED proc => OwnersStay
  BY SameOwners
<1> QED  BY <1>1, <1>2, <1>3, <1>4, <1>5, <1>6, <1>7, <1>8, <1>9 DEF JobStep, Restarted, AskWatchdog

LEMMA TrayOwners ==
    ASSUME TypeOK, RolesKnown,
           TrayStep \/ TrayLaunch \/ TrayStart \/ TrayStop \/ TrayRestart \/ TrayQuit \/ TrayCrash
    PROVE  OwnersStay
PROOF
<1>0. ProcTypes /\ tray \in TrayRec
  BY TypeParts DEF RestTypes
<1>a. \A p \in Fresh : p \in Procs
  BY DEF Fresh, Unused
<1>b. NoProc.pc = "none"
  BY DEF NoProc
<1>c. UNCHANGED proc => OwnersStay
  BY SameOwners
<1>d. \A t : (\E p \in Fresh : Spawn(t, p)) => OwnersStay
  BY <1>0, <1>a, LaunchOwners DEF Spawn
<1>e. ASSUME NEW P, P = Without(StopTree, "ended"), NEW p \in Procs,
             P[p].role = "primary", P[p].pc \notin {"none", "dead"}
      PROVE  proc[p].role = "primary" /\ Alive(p) /\ P[p].pc \in Keepers
  <2>1. Plain(StopTree)
    BY <1>0, StopTreePlain

  <2>3. PICK code \in Codes : code = "ended"
    BY DEF Codes
  <2>4. P = Without(StopTree, code) /\ Died(code).pc = "dead"
    BY <1>e, <2>3 DEF Died
  <2>5. Alive(p) /\ p \notin StopTree
    BY <1>0, <1>b, <1>e, <2>1, <2>4, WithoutAt DEF ProcTypes, Alive
  <2>6. P[p].pc = proc[p].pc /\ P[p].role = proc[p].role
    BY <1>0, <2>1, <2>4, <2>5, WithoutAt DEF ProcTypes
  <2> QED  BY <1>e, <2>5, <2>6 DEF RolesKnown
<1>f. ASSUME NEW P \in [Procs -> ProcRec], NEW p \in Procs
      PROVE  Orphaned(P)[p] = NoProc \/ (Orphaned(P)[p].pc = P[p].pc /\ Orphaned(P)[p].role = P[p].role)
  BY DEF Orphaned, ProcRec
<1>g. Without(StopTree, "ended") \in [Procs -> ProcRec]
  BY <1>0, WithoutAt, StopTreePlain DEF ProcTypes, Codes
<1>1. CASE TrayPoll
  BY <1>0, <1>1, <1>b, <1>c, RecOwners DEF TrayPoll, TrayRec
<1>2. CASE Classify \/ RespawnOrAdopt \/ PollUnowned \/ TrayLaunch \/ TrayStart
  BY <1>2, <1>c, <1>d DEF Classify, RespawnOrAdopt, PollUnowned, TrayLaunch, TrayStart
<1>3. CASE TrayStop
  <2>1. \A p \in Procs : proc'[p] = NoProc \/ proc'[p] = Without(StopTree, "ended")[p]
    BY <1>3 DEF TrayStop, Gone
  <2> QED  BY <1>b, <1>e, <2>1 DEF OwnersStay
<1>4. CASE TrayRestart
  <2>1. \A p \in Procs : \/ proc'[p] = NoProc \/ proc'[p] = Without(StopTree, "ended")[p]
                         \/ proc'[p] = Launched("tray", FALSE)
    BY <1>4 DEF TrayRestart, Gone
  <2>2. Launched("tray", FALSE).role # "primary"
    BY NobodyApart DEF Launched, NoProc
  <2> QED  BY <1>b, <1>e, <2>1, <2>2 DEF OwnersStay
<1>5. CASE TrayQuit
  <2>1. proc' = Orphaned(Without(StopTree, "ended"))
    BY <1>5 DEF TrayQuit
  <2> QED  BY <1>b, <1>e, <1>f, <1>g, <2>1 DEF OwnersStay
<1>6. CASE TrayCrash
  <2>1. proc' = Orphaned(proc)
    BY <1>6 DEF TrayCrash
  <2> QED  BY <1>0, <1>b, <1>f, <2>1 DEF OwnersStay, RolesKnown, Alive, ProcTypes
<1> QED  BY <1>1, <1>2, <1>3, <1>4, <1>5, <1>6 DEF TrayStep

LEMMA ApartInit == Init => ApartInv
PROOF
<1> SUFFICES ASSUME Init PROVE ApartInv
  OBVIOUS
<1>1. PICK p \in Procs, from \in {"tray", None} :
          proc = [q \in Procs |-> IF q = p THEN Launched(from, FALSE) ELSE NoProc]
  BY DEF Init
<1>2. NoProc.role # "primary" /\ Launched(from, FALSE).role # "primary"
  BY NobodyApart DEF NoProc, Launched
<1>3. \A q \in Procs : proc[q].role # "primary"
  BY <1>1, <1>2
<1> QED  BY <1>3, TypeInit DEF ApartInv, RolesKnown, WorkersApart

LEMMA ApartStep == ASSUME ApartInv, [Next]_vars PROVE ApartInv'
PROOF
<1>1. TypeOK'
  BY TypeStep DEF ApartInv
<1>a. SUFFICES RolesKnown' /\ WorkersApart'
  BY <1>1 DEF ApartInv
<1>2. CASE UNCHANGED vars
  BY <1>2, SameOwners, NoNewOwner DEF vars, ApartInv
<1>3. CASE \E p \in Procs : Claim(p)
  BY <1>3, ClaimApart DEF ApartInv
<1>4. CASE Next /\ ~\E p \in Procs : Claim(p)
  <2>1. OwnersStay
    BY <1>4, ServerOwners, OtherOwners, TrayOwners DEF Next, ApartInv
  <2> QED  BY <2>1, NoNewOwner DEF ApartInv
<1> QED  BY <1>2, <1>3, <1>4

\* The servers of an install never work over one data directory: the lock taken in
\* create_app is kept to the end of the lifespan, and who takes it looks first
\* (core/instance_lock.py, api/app.py).
THEOREM ServersStayApart == Spec => []ServersApart
PROOF
<1>1. Init => ApartInv
  BY ApartInit
<1>2. ApartInv /\ [Next]_vars => ApartInv'
  BY ApartStep
<1>3. ApartInv => ServersApart
  BY DEF ApartInv, ServersApart
<1> QED  BY <1>1, <1>2, <1>3, PTL DEF Spec

-----------------------------------------------------------------------------
\* The tray's child, replacements, and how processes exit

\* The premises a step meets that leaves the tray alone.
Quietly == TypeOK /\ Family /\ tray' = tray /\ (faults > 0 => faults' > 0)

\* The same of the processes as they may be after a kill.
ChildOf(P) ==
    /\ tray.proc # None => /\ P[tray.proc].pc # "none"
                           /\ P[tray.proc].pc # "dead" => P[tray.proc].from = "tray"
    /\ \A p \in Procs : P[p].from = "tray" => tray.proc = p /\ P[p].pc \notin {"none", "dead"}

ExitsOf(P) ==
    \A p \in Procs :
       /\ P[p].pc = "leave" => P[p].from = "tray" \/ faults > 0
       /\ P[p].pc = "wedged" => faults > 0
       /\ P[p].pc = "close" => P[p].code # "killed"

HeirsOf(P) ==
    /\ \A p \in Procs : P[p].heir # None =>
          /\ P[p].pc \in {"settle", "close"}
          /\ P[p].heir \notin {p, tray.proc}
          /\ P[P[p].heir].pc # "none"
    /\ \A p \in Procs : P[p].pc = "settle" =>
          /\ P[p].heir # None
          /\ \/ P[P[p].heir].pc = "dead"
             \/ P[P[p].heir].pc \in {"check", "await"} /\ P[P[p].heir].waits
    /\ \A p, q \in Procs : P[p].heir = P[q].heir /\ P[p].heir # None => p = q

FamilyOf(P) == ChildOf(P) /\ ExitsOf(P) /\ HeirsOf(P)

LEMMA FamilyNow == Family <=> FamilyOf(proc)
BY DEF Family, FamilyOf, ChildOf, ExitsOf, HeirsOf, ChildOfTray, Exits, HeirsWait, Alive

LEMMA WithoutKeeps ==
    ASSUME TypeOK, Family, NEW S, NEW code \in Codes, Plain(S)
    PROVE  FamilyOf(Without(S, code))
PROOF
<1> DEFINE P == Without(S, code)
<1>0. ProcTypes /\ tray \in TrayRec /\ ChildOfTray /\ Exits /\ HeirsWait
  BY TypeParts DEF RestTypes, Family
<1>1. /\ NoProc.pc = "none" /\ NoProc.from = None /\ NoProc.heir = None
      /\ Died(code).pc = "dead" /\ Died(code).from = None /\ Died(code).heir = None
  BY DEF NoProc, Died
<1>2. \A p \in Procs :
         /\ ~Alive(p) => P[p] = IF Read(p, S) THEN proc[p] ELSE NoProc
         /\ Alive(p) /\ p \in S => P[p] = IF Read(p, S) THEN Died(code) ELSE NoProc
         /\ Alive(p) /\ p \notin S =>
               /\ P[p].pc = proc[p].pc /\ P[p].heir = proc[p].heir
               /\ P[p].waits = proc[p].waits /\ P[p].code = proc[p].code
               /\ P[p].from = "tray" <=> proc[p].from = "tray"
  BY <1>0, WithoutAt DEF ProcTypes
<1> HIDE DEF P
<1>3. ChildOf(P)
  <2>1. ASSUME tray.proc # None
        PROVE  P[tray.proc].pc # "none" /\ (P[tray.proc].pc \notin {"none", "dead"} => P[tray.proc].from = "tray")
    BY <1>0, <1>1, <1>2, <2>1 DEF Read, TrayRec, Alive, ChildOfTray
  <2>2. ASSUME NEW p \in Procs, P[p].from = "tray"
        PROVE  tray.proc = p /\ P[p].pc \notin {"none", "dead"}
    BY <1>0, <1>1, <1>2, <2>2, NobodyApart DEF Alive, ChildOfTray
  <2> QED  BY <1>0, <2>1, <2>2 DEF ChildOf
<1>4. ExitsOf(P)
  <2>1. ASSUME NEW p \in Procs, P[p].pc \notin {"none", "dead"}
        PROVE  Alive(p) /\ p \notin S
    BY <1>1, <1>2, <2>1 DEF Alive
  <2>2. ASSUME NEW p \in Procs, Alive(p), p \notin S
        PROVE  /\ P[p].pc = "leave" => P[p].from = "tray" \/ faults > 0
               /\ P[p].pc = "wedged" => faults > 0
               /\ P[p].pc = "close" => P[p].code # "killed"
    BY <1>0, <1>2, <2>2 DEF Exits
  <2> QED  BY <2>1, <2>2 DEF ExitsOf
<1>5. HeirsOf(P)
  <2>1. ASSUME NEW p \in Procs, P[p].heir # None \/ P[p].pc = "settle"
        PROVE  Alive(p) /\ p \notin S
    BY <1>0, <1>1, <1>2, <2>1 DEF Alive, HeirsWait
  <2>2. ASSUME NEW p \in Procs, Alive(p), p \notin S, NEW q \in Procs, proc[p].heir = q
        PROVE  /\ proc[q].pc # "none" => P[q].pc # "none"
               /\ proc[q].pc = "dead" => P[q].pc = "dead"
               /\ proc[q].pc \in {"check", "await"} =>
                     P[q].pc = "dead" \/ (P[q].pc = proc[q].pc /\ P[q].waits = proc[q].waits)
    <3>1. Read(q, S)
      BY <2>2 DEF Read
    <3> QED  BY <1>1, <1>2, <3>1 DEF Alive
  <2>3. \A p \in Procs : proc[p].heir \in Procs \cup {None}
    BY <1>0 DEF ProcTypes, ProcRec
  <2>4. \A p \in Procs : Alive(p) /\ p \notin S => P[p].pc = proc[p].pc /\ P[p].heir = proc[p].heir
    BY <1>2
  <2>5. \A p \in Procs : P[p].heir # None =>
          /\ P[p].pc \in {"settle", "close"}
          /\ P[p].heir \notin {p, tray.proc}
          /\ P[P[p].heir].pc # "none"
    BY <1>0, <2>1, <2>2, <2>3, <2>4 DEF HeirsWait
  <2>6. \A p \in Procs : P[p].pc = "settle" =>
          /\ P[p].heir # None
          /\ \/ P[P[p].heir].pc = "dead"
             \/ P[P[p].heir].pc \in {"check", "await"} /\ P[P[p].heir].waits
    <3> SUFFICES ASSUME NEW p \in Procs, P[p].pc = "settle"
                 PROVE  /\ P[p].heir # None
                        /\ \/ P[P[p].heir].pc = "dead"
                           \/ P[P[p].heir].pc \in {"check", "await"} /\ P[P[p].heir].waits
      OBVIOUS
    <3>1. proc[p].pc = "settle" /\ P[p].heir = proc[p].heir /\ Alive(p) /\ p \notin S
      BY <2>1, <2>4
    <3>2. proc[p].heir \in Procs
      BY <1>0, <2>3, <3>1 DEF HeirsWait
    <3> QED  BY <1>0, <2>2, <3>1, <3>2 DEF HeirsWait
  <2>7. \A p, q \in Procs : P[p].heir = P[q].heir /\ P[p].heir # None => p = q
    BY <1>0, <2>1, <2>4 DEF HeirsWait
  <2> QED  BY <2>5, <2>6, <2>7 DEF HeirsOf
<1> QED  BY <1>3, <1>4, <1>5 DEF FamilyOf, P

LEMMA WithoutFamily ==
    ASSUME Quietly, NEW S, NEW code \in Codes, Plain(S), proc' = Without(S, code)
    PROVE  Family'
PROOF
<1>1. PICK P : P = Without(S, code)
  OBVIOUS
<1>2. FamilyOf(P) /\ proc' = P /\ tray' = tray /\ (faults > 0 => faults' > 0)
  BY <1>1, WithoutKeeps DEF Quietly
<1>3. ChildOfTray'
  BY <1>2 DEF FamilyOf, ChildOf, ChildOfTray, Alive
<1>4. Exits'
  BY <1>2 DEF FamilyOf, ExitsOf, Exits
<1>5. HeirsWait'
  BY <1>2 DEF FamilyOf, HeirsOf, HeirsWait
<1> QED  BY <1>3, <1>4, <1>5 DEF Family

\* A process that lives on, in a new place.
LEMMA MoveFamily ==
    ASSUME Quietly, NEW p \in Procs, NEW r \in ProcRec, Alive(p), proc' = [proc EXCEPT ![p] = r],
           r.pc \notin {"none", "dead"},
           r.from = proc[p].from, r.heir = proc[p].heir, r.waits = proc[p].waits,
           r.pc = "leave" => proc[p].from = "tray" \/ faults' > 0,
           r.pc = "wedged" => faults' > 0,
           r.pc = "close" => r.code # "killed",
           r.pc # "settle",
           proc[p].heir # None => r.pc = "close",
           r.pc \in {"check", "await"} \/ \A o \in Procs : proc[o].pc = "settle" => proc[o].heir # p
    PROVE  Family'
PROOF
<1>0. ProcTypes /\ tray \in TrayRec /\ tray' = tray /\ ChildOfTray /\ Exits /\ HeirsWait
  BY TypeParts DEF Quietly, RestTypes, Family
<1>2. proc'[p] = r /\ \A q \in Procs \ {p} : proc'[q] = proc[q]
  BY <1>0 DEF ProcTypes
<1>3. ChildOfTray'
  BY <1>0, <1>2 DEF ChildOfTray, Alive, TrayRec
<1>4. Exits'
  BY <1>0, <1>2 DEF Exits, Quietly
<1>5. HeirsWait'
  <2>1. \A q \in Procs : proc'[q].heir = proc[q].heir /\ proc[q].heir \in Procs \cup {None}
    BY <1>0, <1>2 DEF ProcTypes, ProcRec
  <2>2. \A q \in Procs : proc'[q].heir # None =>
          /\ proc'[q].pc \in {"settle", "close"}
          /\ proc'[q].heir \notin {q, tray.proc}
          /\ proc'[proc'[q].heir].pc # "none"
    BY <1>0, <1>2, <2>1 DEF HeirsWait
  <2>3. ASSUME NEW q \in Procs, proc'[q].pc = "settle"
        PROVE  /\ proc'[q].heir # None
               /\ \/ proc'[proc'[q].heir].pc = "dead"
                  \/ proc'[proc'[q].heir].pc \in {"check", "await"} /\ proc'[proc'[q].heir].waits
    <3>1. q # p /\ proc[q].pc = "settle"
      BY <1>2, <2>3
    <3>2. proc[q].heir \in Procs
      BY <1>0, <2>1, <3>1 DEF HeirsWait
    <3>3. CASE proc[q].heir = p
      BY <1>0, <1>2, <2>1, <3>1, <3>2, <3>3 DEF HeirsWait, Alive
    <3>4. CASE proc[q].heir # p
      BY <1>0, <1>2, <2>1, <3>1, <3>2, <3>4 DEF HeirsWait
    <3> QED  BY <3>3, <3>4
  <2>4. \A q, s \in Procs : proc'[q].heir = proc'[s].heir /\ proc'[q].heir # None => q = s
    BY <1>0, <2>1 DEF HeirsWait
  <2> QED  BY <1>0, <2>2, <2>3, <2>4 DEF HeirsWait
<1> QED  BY <1>3, <1>4, <1>5 DEF Family

\* A new process that the tray has not launched.
LEMMA LaunchFamily ==
    ASSUME Quietly, NEW p \in Fresh, NEW from \in Procs \cup {"wd", None}, NEW waits \in BOOLEAN,
           proc' = [proc EXCEPT ![p] = Launched(from, waits)]
    PROVE  Family'
PROOF
<1>0. ProcTypes /\ tray \in TrayRec /\ tray' = tray /\ ChildOfTray /\ Exits /\ HeirsWait
      /\ p \in Procs /\ proc[p].pc = "none"
  BY TypeParts DEF Quietly, RestTypes, Family, Fresh, Unused
<1>1. PICK r : r = Launched(from, waits)
  OBVIOUS
<1>2. r.pc = "check" /\ r.from # "tray" /\ r.heir = None
  BY <1>1, DeploymentAssumption DEF Launched, NoProc
<1>3. proc'[p] = r /\ \A q \in Procs \ {p} : proc'[q] = proc[q]
  BY <1>0, <1>1 DEF ProcTypes
<1>4. tray.proc # p /\ \A q \in Procs : proc[q].heir # p
  BY <1>0, NobodyApart DEF ChildOfTray, HeirsWait
<1>5. ChildOfTray'
  BY <1>0, <1>2, <1>3, <1>4 DEF ChildOfTray, Alive, TrayRec
<1>6. Exits'
  BY <1>0, <1>2, <1>3 DEF Exits, Quietly
<1>7. HeirsWait'
  <2>1. \A q \in Procs : proc[q].heir \in Procs \cup {None}
    BY <1>0 DEF ProcTypes, ProcRec
  <2>2. \A q \in Procs : proc'[q].heir # None => q # p /\ proc'[q] = proc[q] /\ proc'[proc[q].heir] = proc[proc[q].heir]
    BY <1>2, <1>3, <1>4, <2>1
  <2>3. \A q \in Procs : proc'[q].pc = "settle" => proc[q].pc = "settle" /\ proc'[q] = proc[q] /\ proc[q].heir # None
    BY <1>0, <1>2, <1>3 DEF HeirsWait
  <2> QED  BY <1>0, <2>2, <2>3 DEF HeirsWait
<1> QED  BY <1>5, <1>6, <1>7 DEF Family

\* Whoever is settling has the ports.
LEMMA SettlingHolds ==
    ASSUME Holders = {}, NEW o \in Procs
    PROVE  proc[o].pc # "settle"
BY DEF Holders, HasPort, Serving

\* Nobody's replacement gets past waiting while the one it replaces is settling.
LEMMA PastWaiting ==
    ASSUME HeirsWait, NEW p \in Procs, proc[p].pc \notin {"check", "await", "dead"}, NEW o \in Procs,
           proc[o].pc = "settle"
    PROVE  proc[o].heir # p
BY DEF HeirsWait

LEMMA PcFamily ==
    ASSUME Quietly, NEW p \in Procs, NEW c \in Pcs \ {"none", "dead", "settle", "close"}, Alive(p),
           proc' = [proc EXCEPT ![p].pc = c], proc[p].pc \notin {"settle", "close"},
           c = "leave" => proc[p].from = "tray" \/ faults' > 0,
           c = "wedged" => faults' > 0,
           c \in {"check", "await"} \/ \A o \in Procs : proc[o].pc = "settle" => proc[o].heir # p
    PROVE  Family'
PROOF
<1>0. ProcTypes /\ HeirsWait /\ proc[p] \in ProcRec
  BY TypeParts DEF Quietly, Family, ProcTypes
<1>1. PICK r : r = [proc[p] EXCEPT !.pc = c]
  OBVIOUS
<1>2. /\ r \in ProcRec /\ r.pc = c /\ r.from = proc[p].from /\ r.heir = proc[p].heir
      /\ r.waits = proc[p].waits
  BY <1>0, <1>1 DEF ProcRec
<1>3. proc' = [proc EXCEPT ![p] = r]
  BY <1>0, <1>1 DEF ProcTypes
<1>4. proc[p].heir = None
  BY <1>0 DEF HeirsWait
<1> QED  BY <1>2, <1>3, <1>4, MoveFamily

LEMMA ServerFamily ==
    ASSUME TypeOK, TrayInStep, Family, NEW p \in Procs, ServerStep(p)
    PROVE  Family'
PROOF
<1>0. ProcTypes /\ Plain({p}) /\ proc[p] \in ProcRec /\ HeirsWait /\ Exits
  BY TypeParts DEF Plain, ProcTypes, Family
<1>a. Quietly
  BY DEF Quietly, ServerStep, Preflight, Awaited, Claim, Bind, Leave, Handoff, Respawn, Settled, Closed
<1>c. \A c \in {"claim", "await", "serve"} :
         /\ c \in Pcs \ {"none", "dead", "settle", "close"}
         /\ c # "leave" /\ c # "wedged"
  BY DEF Pcs
<1>1. CASE Preflight(p)
  <2>1. CASE proc' = Without({p}, "port taken")
    BY <1>0, <1>a, <2>1, WithoutFamily DEF Codes
  <2>a. Alive(p) /\ proc[p].pc \notin {"settle", "close"}
    BY <1>1 DEF Preflight, Alive
  <2>2. CASE Holders = {} /\ proc' = [proc EXCEPT ![p].pc = "claim"]
    <3>1. \A o \in Procs : proc[o].pc = "settle" => proc[o].heir # p
      BY <2>2, SettlingHolds
    <3> QED  BY <1>a, <1>c, <2>a, <2>2, <3>1, PcFamily
  <2>3. CASE proc' = [proc EXCEPT ![p].pc = "await"]
    BY <1>a, <1>c, <2>a, <2>3, PcFamily
  <2> QED  BY <1>1, <2>1, <2>2, <2>3 DEF Preflight
<1>2. CASE Awaited(p)
  <2>1. CASE proc' = Without({p}, "port taken")
    BY <1>0, <1>a, <2>1, WithoutFamily DEF Codes
  <2>2. CASE Holders = {} /\ proc' = [proc EXCEPT ![p].pc = "claim"]
    <3>1. Alive(p) /\ proc[p].pc \notin {"settle", "close"}
      BY <1>2 DEF Awaited, Alive
    <3>2. \A o \in Procs : proc[o].pc = "settle" => proc[o].heir # p
      BY <2>2, SettlingHolds
    <3> QED  BY <1>a, <1>c, <2>2, <3>1, <3>2, PcFamily
  <2> QED  BY <1>2, <2>1, <2>2 DEF Awaited
<1>b. ASSUME proc[p].pc \notin {"check", "await", "none", "dead"}
      PROVE  Alive(p) /\ \A o \in Procs : proc[o].pc = "settle" => proc[o].heir # p
  BY <1>0, <1>b, PastWaiting DEF Alive
<1>3. CASE Claim(p)
  <2>1. PICK role : role \in {"primary", "secondary"}
                    /\ proc' = [proc EXCEPT ![p].pc = "bind", ![p].role = role]
    BY <1>3 DEF Claim
  <2>2. PICK r : r = [[proc[p] EXCEPT !.pc = "bind"] EXCEPT !.role = role]
    OBVIOUS
  <2>3. /\ r \in ProcRec /\ r.pc = "bind" /\ r.from = proc[p].from /\ r.heir = proc[p].heir
        /\ r.waits = proc[p].waits
    BY <1>0, <2>1, <2>2 DEF ProcRec, Pcs
  <2>4. proc' = [proc EXCEPT ![p] = r]
    BY <1>0, <2>1, <2>2 DEF ProcTypes
  <2>5. proc[p].pc = "claim" /\ proc[p].heir = None
    BY <1>0, <1>3 DEF Claim, HeirsWait
  <2> QED  BY <1>a, <1>b, <2>3, <2>4, <2>5, MoveFamily
<1>4. CASE Bind(p)
  <2>1. CASE proc' = [proc EXCEPT ![p].pc = "serve"]
    <3>1. proc[p].pc = "bind"
      BY <1>4 DEF Bind
    <3> QED  BY <1>a, <1>b, <1>c, <2>1, <3>1, PcFamily
  <2>2. CASE \E S \in SUBSET (Procs \cup {"wd"}) : proc' = Without(S, "failed")
    BY <1>a, <2>2, WithoutFamily DEF Plain, Codes
  <2> QED  BY <1>4, <2>1, <2>2 DEF Bind
<1>5. CASE Leave(p)
  <2>1. PICK r : r = [[[proc[p] EXCEPT !.pc = "close"] EXCEPT !.handing = TRUE] EXCEPT !.code = "restart me"]
    OBVIOUS
  <2>2. /\ r \in ProcRec /\ r.pc = "close" /\ r.from = proc[p].from /\ r.heir = proc[p].heir
        /\ r.waits = proc[p].waits /\ r.code = "restart me"
    BY <1>0, <2>1 DEF ProcRec, Pcs, Codes
  <2>3. proc' = [proc EXCEPT ![p] = r]
    BY <1>0, <1>5, <2>1 DEF Leave, ProcTypes
  <2>4. proc[p].pc = "leave"
    BY <1>5 DEF Leave
  <2> QED  BY <1>a, <1>b, <2>2, <2>3, <2>4, MoveFamily
<1>6. CASE Handoff(p)
  BY <1>6, <1>a, <1>b, PcFamily DEF Handoff, Pcs
<1>7. CASE Respawn(p)
  <2>1. PICK q \in Fresh : proc' = [proc EXCEPT ![p].pc = "settle", ![p].heir = q, ![q] = Launched(p, TRUE)]
    BY <1>7 DEF Respawn
  <2>2. q \in Procs /\ q # p /\ proc[q].pc = "none" /\ proc[p].pc = "drain"
    BY <1>7 DEF Fresh, Unused, Respawn
  <2>3. PICK l : l = Launched(p, TRUE)
    OBVIOUS
  <2>4. l.pc = "check" /\ l.from = p /\ l.waits = TRUE /\ l.heir = None
    BY <2>3 DEF Launched, NoProc
  <2>5. /\ proc'[p].pc = "settle" /\ proc'[p].heir = q /\ proc'[p].from = proc[p].from
        /\ proc'[q] = l /\ \A s \in Procs \ {p, q} : proc'[s] = proc[s]
    BY <1>0, <2>1, <2>2, <2>3 DEF ProcTypes, ProcRec
  <2>6. /\ tray' = tray /\ tray \in TrayRec /\ ChildOfTray /\ faults' = faults
        /\ tray.proc # q /\ p # "tray" /\ p # None /\ proc[p].heir = None
    BY <1>0, <1>7, <2>2, TypeParts, DeploymentAssumption
       DEF Respawn, RestTypes, Family, ChildOfTray, HeirsWait
  <2>7. \A s \in Procs : proc[s].heir # q /\ proc[s].heir \in Procs \cup {None}
    BY <1>0, <2>2, NobodyApart DEF HeirsWait, ProcTypes, ProcRec
  <2>8. \A s \in Procs : proc[s].pc = "settle" => proc[s].heir # p
    BY <1>b, <2>2
  <2>9. ChildOfTray'
    BY <2>2, <2>4, <2>5, <2>6 DEF ChildOfTray, Alive, TrayRec
  <2>10. Exits'
    BY <1>0, <2>4, <2>5, <2>6 DEF Exits
  <2>11. HeirsWait'
    <3>1. \A s \in Procs : proc'[s].heir # None =>
            /\ proc'[s].pc \in {"settle", "close"}
            /\ proc'[s].heir \notin {s, tray.proc}
            /\ proc'[proc'[s].heir].pc # "none"
      BY <1>0, <2>2, <2>4, <2>5, <2>6, <2>7 DEF HeirsWait
    <3>2. \A s \in Procs : proc'[s].pc = "settle" =>
            /\ proc'[s].heir # None
            /\ \/ proc'[proc'[s].heir].pc = "dead"
               \/ proc'[proc'[s].heir].pc \in {"check", "await"} /\ proc'[proc'[s].heir].waits
      BY <1>0, <2>2, <2>4, <2>5, <2>6, <2>7, <2>8, NobodyApart DEF HeirsWait
    <3>3. \A s, t \in Procs : proc'[s].heir = proc'[t].heir /\ proc'[s].heir # None => s = t
      BY <1>0, <2>4, <2>5, <2>7 DEF HeirsWait
    <3> QED  BY <2>6, <3>1, <3>2, <3>3 DEF HeirsWait
  <2> QED  BY <2>9, <2>10, <2>11 DEF Family
<1>8. CASE Settled(p)
  <2>1. PICK q \in Procs : q = proc[p].heir
    BY <1>0, <1>8 DEF Settled, HeirsWait, ProcRec
  <2>2. q # p /\ q # tray.proc /\ proc[p].pc = "settle" /\ tray' = tray /\ faults' = faults
        /\ tray \in TrayRec /\ ChildOfTray
    BY <1>0, <1>8, <2>1, TypeParts, NobodyApart DEF Settled, HeirsWait, RestTypes, Family
  <2>3. \A s \in Procs : /\ proc[s].heir = q => s = p
                         /\ proc[s].pc = "settle" => proc[s].heir # p
                         /\ proc[s].heir \in Procs \cup {None}
    BY <1>0, <2>1, <2>2, NobodyApart DEF HeirsWait, ProcTypes, ProcRec
  <2>4. \/ /\ proc'[q] = NoProc
           /\ proc'[p].pc = "serve"
        \/ /\ proc'[q] = proc[q]
           /\ proc'[p].pc = "close" /\ proc'[p].code = "ended"
    BY <1>0, <1>8, <2>1, <2>2 DEF Settled, ProcTypes, ProcRec
  <2>5. proc'[p].heir = None /\ proc'[p].from = proc[p].from /\ \A s \in Procs \ {p, q} : proc'[s] = proc[s]
    BY <1>0, <1>8, <2>1, <2>2 DEF Settled, ProcTypes, ProcRec
  <2>6. NoProc.pc = "none" /\ NoProc.heir = None /\ NoProc.from = None
    BY DEF NoProc
  <2>7. ChildOfTray'
    BY <2>2, <2>4, <2>5, <2>6, NobodyApart DEF ChildOfTray, Alive, TrayRec
  <2>8. Exits'
    BY <1>0, <2>2, <2>4, <2>5, <2>6 DEF Exits
  <2>9. HeirsWait'
    <3>1. \A s \in Procs : proc'[s].heir # None => (s # p /\ s # q) \/ (s = q /\ proc'[q] = proc[q])
      BY <2>4, <2>5, <2>6
    <3>2. \A s \in Procs : proc'[s].heir # None =>
            /\ proc'[s].pc \in {"settle", "close"}
            /\ proc'[s].heir \notin {s, tray.proc}
            /\ proc'[proc'[s].heir].pc # "none"
      BY <1>0, <2>2, <2>3, <2>4, <2>5, <2>6, <3>1 DEF HeirsWait
    <3>3. \A s \in Procs : proc'[s].pc = "settle" =>
            /\ proc'[s].heir # None
            /\ \/ proc'[proc'[s].heir].pc = "dead"
               \/ proc'[proc'[s].heir].pc \in {"check", "await"} /\ proc'[proc'[s].heir].waits
      BY <1>0, <2>2, <2>3, <2>4, <2>5, <2>6 DEF HeirsWait
    <3>4. \A s, t \in Procs : proc'[s].heir = proc'[t].heir /\ proc'[s].heir # None => s = t
      BY <1>0, <2>4, <2>5, <2>6 DEF HeirsWait
    <3> QED  BY <2>2, <3>2, <3>3, <3>4 DEF HeirsWait
  <2> QED  BY <2>7, <2>8, <2>9 DEF Family
<1>9. CASE Closed(p)
  <2>1. proc[p].code \in Codes
    BY <1>0 DEF ProcRec
  <2>2. PICK S \in SUBSET (Procs \cup {"wd"}) : proc' = Without(S, proc[p].code)
    BY <1>9 DEF Closed
  <2> QED  BY <1>a, <2>1, <2>2, WithoutFamily DEF Plain
<1> QED  BY <1>1, <1>2, <1>3, <1>4, <1>5, <1>6, <1>7, <1>8, <1>9 DEF ServerStep

LEMMA OtherFamily ==
    ASSUME TypeOK, TrayInStep, Family,
           \/ \E p \in Procs : AskRestart(p) \/ AskStop(p) \/ Crash(p) \/ Wedge(p)
           \/ \E j \in Jobs : JobStep(j)
           \/ AskWatchdog \/ UserStart \/ WdCrash
    PROVE  Family'
PROOF
<1>0. ProcTypes /\ WdTypes /\ RestTypes /\ HeirsWait /\ Exits /\ ChildOfTray
  BY TypeParts DEF Family
<1>a. Fault => faults' > 0
  BY <1>0, Counted
<1>b. ASSUME NEW p \in Procs, proc[p].pc \notin {"check", "await", "none", "dead"}
      PROVE  Alive(p) /\ \A o \in Procs : proc[o].pc = "settle" => proc[o].heir # p
  BY <1>0, <1>b, PastWaiting DEF Alive
<1>q. tray' = tray /\ (faults' = faults \/ Fault) => Quietly
  BY <1>a DEF Quietly
<1>1. ASSUME NEW p \in Procs, AskRestart(p) PROVE Family'
  <2>1. PICK c \in {"leave", "handoff", "drain"} :
            /\ proc' = [proc EXCEPT ![p].pc = c]
            /\ c = "leave" => proc[p].from = "tray"
    BY <1>1 DEF AskRestart
  <2>a. Alive(p) /\ (\A o \in Procs : proc[o].pc = "settle" => proc[o].heir # p)
        /\ proc[p].pc \notin {"settle", "close"}
    BY <1>1, <1>b DEF AskRestart
  <2>2. proc[p].pc = "serve" /\ Quietly
    BY <1>1, <1>q DEF AskRestart
  <2>3. c \in Pcs \ {"none", "dead", "settle", "close"} /\ c # "wedged"
    BY <2>1 DEF Pcs
  <2>4. proc' = [proc EXCEPT ![p].pc = c]
    BY <2>1
  <2>5. (c = "leave" => proc[p].from = "tray" \/ faults' > 0) /\ (c = "wedged" => faults' > 0)
    BY <2>1, <2>3
  <2> QED  BY <2>a, <2>2, <2>3, <2>4, <2>5, PcFamily
<1>2. ASSUME NEW p \in Procs, AskStop(p) PROVE Family'
  <2>1. PICK r : r = [[proc[p] EXCEPT !.pc = "close"] EXCEPT !.code = "ended"]
    OBVIOUS
  <2>2. /\ r \in ProcRec /\ r.pc = "close" /\ r.from = proc[p].from /\ r.heir = proc[p].heir
        /\ r.waits = proc[p].waits /\ r.code = "ended"
    BY <1>0, <2>1 DEF ProcTypes, ProcRec, Pcs, Codes
  <2>3. proc' = [proc EXCEPT ![p] = r]
    BY <1>0, <1>2, <2>1 DEF AskStop, ProcTypes
  <2>4. proc[p].pc \notin {"check", "await", "none", "dead"}
    BY <1>2 DEF AskStop, Serving
  <2>5. Quietly
    BY <1>2, <1>q DEF AskStop
  <2> QED  BY <1>b, <2>2, <2>3, <2>4, <2>5, MoveFamily
<1>3. ASSUME NEW p \in Procs, Crash(p) PROVE Family'
  <2>1. Quietly
    BY <1>3, <1>q DEF Crash
  <2> QED  BY <1>3, <2>1, WithoutFamily DEF Crash, Plain, Codes
<1>4. ASSUME NEW p \in Procs, Wedge(p) PROVE Family'
  <2>1. Quietly /\ faults' > 0 /\ proc[p].pc = "serve" /\ proc' = [proc EXCEPT ![p].pc = "wedged"]
    BY <1>4, <1>a, <1>q DEF Wedge
  <2>2. PICK c \in Pcs : c = "wedged"
    BY DEF Pcs
  <2>3. c \in Pcs \ {"none", "dead", "settle", "close"} /\ c # "leave"
    BY <2>2
  <2> QED  BY <1>b, <2>1, <2>2, <2>3, PcFamily
<1>5. ASSUME NEW j \in Jobs, Kill(j) PROVE Family'
  <2>1. job[j].target \in Procs \cup {None}
    BY <1>0 DEF WdTypes, JobRec
  <2>2. Plain(Victims(job[j].target)) /\ proc' = Without(Victims(job[j].target), "killed")
    BY <1>5, <2>1, VictimsPlain DEF Kill
  <2>3. Quietly
    BY <1>5, <1>q DEF Kill
  <2> QED  BY <2>2, <2>3, WithoutFamily DEF Codes
<1>c. ASSUME UNCHANGED <<proc, tray>>, faults' = faults PROVE Family'
  BY <1>0, <1>c DEF Family, ChildOfTray, Exits, HeirsWait, Alive
<1>6. ASSUME NEW j \in Jobs, PortFree(j) PROVE Family'
  <2>1. Quietly
    BY <1>6, <1>q DEF PortFree
  <2>2. CASE UNCHANGED proc
    BY <1>6, <2>2, <1>c DEF PortFree
  <2>3. CASE \E p \in Fresh : proc' = [proc EXCEPT ![p] = Launched("wd", FALSE)]
    <3>1. PICK from \in Procs \cup {"wd", None}, waits \in BOOLEAN : from = "wd" /\ waits = FALSE
      OBVIOUS
    <3> QED  BY <2>1, <2>3, <3>1, LaunchFamily
  <2> QED  BY <1>6, <2>2, <2>3 DEF PortFree
<1>7. CASE UserStart
  <2>1. Quietly
    BY <1>7, <1>q DEF UserStart
  <2>2. PICK from \in Procs \cup {"wd", None}, waits \in BOOLEAN : from = None /\ waits = FALSE
    OBVIOUS
  <2> QED  BY <1>7, <2>1, <2>2, LaunchFamily DEF UserStart
<1>8. CASE WdCrash
  <2>1. \A p \in Procs : /\ proc'[p].pc = proc[p].pc /\ proc'[p].heir = proc[p].heir
                         /\ proc'[p].waits = proc[p].waits /\ proc'[p].code = proc[p].code
                         /\ proc'[p].from = "tray" <=> proc[p].from = "tray"
    BY <1>0, <1>8, NobodyApart DEF WdCrash, ProcTypes, ProcRec
  <2>2. tray' = tray /\ faults' > 0
    BY <1>8, <1>a DEF WdCrash
  <2>3. /\ tray.proc \in Procs \cup {None}
        /\ \A p \in Procs : proc[p].heir \in Procs \cup {None}
    BY <1>0 DEF RestTypes, TrayRec, ProcTypes, ProcRec
  <2>4. ChildOfTray'
    BY <1>0, <2>1, <2>2, <2>3 DEF ChildOfTray, Alive
  <2>5. Exits'
    BY <1>0, <2>1, <2>2 DEF Exits
  <2>6. HeirsWait'
    BY <1>0, <2>1, <2>2, <2>3 DEF HeirsWait
  <2> QED  BY <2>4, <2>5, <2>6 DEF Family
<1>9. CASE AskWatchdog \/ \E j \in Jobs : Restarted(j)
  BY <1>9, <1>c DEF AskWatchdog, Restarted
<1> QED  BY <1>1, <1>2, <1>3, <1>4, <1>5, <1>6, <1>7, <1>8, <1>9 DEF JobStep

\* The tray launches its child when it has none.
LEMMA SpawnFamily ==
    ASSUME TypeOK, Family, tray.proc = None, NEW t, NEW p \in Fresh, Spawn(t, p), faults' = faults,
           t \in TrayRec
    PROVE  Family'
PROOF
<1>0. ProcTypes /\ HeirsWait /\ Exits /\ ChildOfTray /\ p \in Procs /\ proc[p].pc = "none"
  BY TypeParts DEF Family, Fresh, Unused
<1>1. PICK l : l = Launched("tray", FALSE)
  OBVIOUS
<1>2. l.pc = "check" /\ l.from = "tray" /\ l.heir = None
  BY <1>1 DEF Launched, NoProc
<1>3. proc'[p] = l /\ (\A q \in Procs \ {p} : proc'[q] = proc[q]) /\ tray'.proc = p
  BY <1>0, <1>1 DEF Spawn, ProcTypes, TrayRec
<1>4. \A q \in Procs : proc[q].heir # p /\ proc[q].heir \in Procs \cup {None}
  BY <1>0, NobodyApart DEF HeirsWait, ProcTypes, ProcRec
<1>5. ChildOfTray'
  BY <1>0, <1>2, <1>3, NobodyApart DEF ChildOfTray, Alive
<1>6. Exits'
  BY <1>0, <1>2, <1>3 DEF Exits
<1>7. HeirsWait'
  <2>1. \A q \in Procs : proc'[q].heir # None =>
          q # p /\ proc'[q] = proc[q] /\ proc'[proc[q].heir] = proc[proc[q].heir] /\ proc[q].heir # p
    BY <1>2, <1>3, <1>4
  <2>2. \A q \in Procs : proc'[q].pc = "settle" => proc[q].pc = "settle" /\ proc'[q] = proc[q] /\ proc[q].heir # None
    BY <1>0, <1>2, <1>3 DEF HeirsWait
  <2> QED  BY <1>0, <1>3, <2>1, <2>2 DEF HeirsWait
<1> QED  BY <1>5, <1>6, <1>7 DEF Family
\* The tray's child is gone and the tray has none.
LEMMA GoneFamily ==
    ASSUME NEW P \in [Procs -> ProcRec], FamilyOf(P), faults' = faults, tray.proc \in Procs \cup {None},
           proc' = Gone(tray.proc, P), tray'.proc = None
    PROVE  Family'
PROOF
<1>0. /\ NoProc.pc = "none" /\ NoProc.heir = None /\ NoProc.from = None
      /\ ChildOf(P) /\ ExitsOf(P) /\ HeirsOf(P)
      /\ \A p \in Procs : P[p].heir \in Procs \cup {None}
  BY DEF NoProc, FamilyOf, ProcRec
<1>1. \A p \in Procs : proc'[p] = IF p = tray.proc THEN NoProc ELSE P[p]
  BY DEF Gone
<1>2. ChildOfTray'
  BY <1>0, <1>1, NobodyApart DEF ChildOfTray, ChildOf, Alive
<1>3. Exits'
  BY <1>0, <1>1 DEF Exits, ExitsOf
<1>4. HeirsWait'
  BY <1>0, <1>1 DEF HeirsWait, HeirsOf
<1> QED  BY <1>2, <1>3, <1>4 DEF Family

\* The tray's child is replaced.
LEMMA ReplacedFamily ==
    ASSUME NEW P \in [Procs -> ProcRec], FamilyOf(P), faults' = faults, tray.proc \in Procs,
           NEW l, l.pc = "check", l.from = "tray", l.heir = None,
           \A p \in Procs : proc'[p] = IF p = tray.proc THEN l ELSE P[p],
           tray'.proc = tray.proc
    PROVE  Family'
PROOF
<1>2. l.pc = "check" /\ l.from = "tray" /\ l.heir = None
  OBVIOUS
<1>3. /\ ChildOf(P) /\ ExitsOf(P) /\ HeirsOf(P)
      /\ \A p \in Procs : P[p].heir \in Procs \cup {None}
  BY DEF FamilyOf, ProcRec
<1>4. \A p \in Procs : proc'[p] = IF p = tray.proc THEN l ELSE P[p]
  OBVIOUS
<1>5. ChildOfTray'
  BY <1>2, <1>3, <1>4, NobodyApart DEF ChildOfTray, ChildOf, Alive
<1>6. Exits'
  BY <1>2, <1>3, <1>4 DEF Exits, ExitsOf
<1>7. HeirsWait'
  <2>1. ASSUME NEW p \in Procs, proc'[p].heir # None \/ proc'[p].pc = "settle"
        PROVE  p # tray.proc /\ proc'[p] = P[p]
    <3>1. p # tray.proc
      BY <1>2, <1>4, <2>1
    <3> QED  BY <1>4, <3>1
  <2>2. ASSUME NEW p \in Procs, P[p].heir # None
        PROVE  P[p].heir \in Procs /\ proc'[P[p].heir] = P[P[p].heir]
    BY <1>3, <1>4, <2>2 DEF HeirsOf
  <2>3. \A p \in Procs : proc'[p].heir # None =>
          /\ proc'[p].pc \in {"settle", "close"}
          /\ proc'[p].heir \notin {p, tray.proc}
          /\ proc'[proc'[p].heir].pc # "none"
    BY <1>3, <2>1, <2>2 DEF HeirsOf
  <2>4. \A p \in Procs : proc'[p].pc = "settle" =>
          /\ proc'[p].heir # None
          /\ \/ proc'[proc'[p].heir].pc = "dead"
             \/ proc'[proc'[p].heir].pc \in {"check", "await"} /\ proc'[proc'[p].heir].waits
    BY <1>3, <2>1, <2>2 DEF HeirsOf
  <2>5. \A p, q \in Procs : proc'[p].heir = proc'[q].heir /\ proc'[p].heir # None => p = q
    BY <1>3, <2>1 DEF HeirsOf
  <2> QED  BY <2>3, <2>4, <2>5 DEF HeirsWait
<1> QED  BY <1>5, <1>6, <1>7 DEF Family

\* The tray is gone: what lives of its child is nobody's.
LEMMA OrphanedFamily ==
    ASSUME NEW P \in [Procs -> ProcRec], FamilyOf(P), faults > 0 => faults' > 0,
           proc' = Orphaned(P), tray' = NoTray,
           faults' > 0 \/ \A p \in Procs : P[p].pc = "leave" => P[p].from # "tray"
    PROVE  Family'
PROOF
<1>0. /\ ChildOf(P) /\ ExitsOf(P) /\ HeirsOf(P) /\ NoTray.proc = None
      /\ \A p \in Procs : P[p].heir \in Procs \cup {None}
  BY DEF FamilyOf, ProcRec, NoTray
<1>1. \A p \in Procs : /\ proc'[p].pc = P[p].pc /\ proc'[p].heir = P[p].heir
                       /\ proc'[p].waits = P[p].waits /\ proc'[p].code = P[p].code
                       /\ proc'[p].from # "tray"
                       /\ P[p].from # "tray" => proc'[p].from = P[p].from
  BY <1>0, NobodyApart DEF Orphaned, ChildOf, ProcRec
<1>2. ChildOfTray'
  BY <1>0, <1>1 DEF ChildOfTray
<1>3. Exits'
  BY <1>0, <1>1 DEF Exits, ExitsOf
<1>4. HeirsWait'
  BY <1>0, <1>1 DEF HeirsWait, HeirsOf
<1> QED  BY <1>2, <1>3, <1>4 DEF Family

LEMMA TrayFamily ==
    ASSUME TypeOK, TrayInStep, Family,
           TrayStep \/ TrayLaunch \/ TrayStart \/ TrayStop \/ TrayRestart \/ TrayQuit \/ TrayCrash
    PROVE  Family'
PROOF
<1>0. ProcTypes /\ RestTypes /\ tray \in TrayRec /\ tray.proc \in Procs \cup {None} /\ FamilyOf(proc)
  BY TypeParts, FamilyNow DEF RestTypes, TrayRec
<1>a. Fault => faults' > 0
  BY <1>0, Counted
<1>b. ASSUME UNCHANGED proc, tray'.proc = tray.proc, faults' = faults PROVE Family'
  BY <1>b DEF Family, ChildOfTray, Exits, HeirsWait, Alive
<1>c. PICK P : P = Without(StopTree, "ended")
  OBVIOUS
<1>d. P \in [Procs -> ProcRec] /\ FamilyOf(P)
  BY <1>0, <1>c, WithoutAt, WithoutKeeps, StopTreePlain DEF ProcTypes, Codes
<1>e. /\ NoTray.proc = None /\ NoTray \in TrayRec
      /\ [NoTray EXCEPT !.up = TRUE] \in TrayRec /\ [NoTray EXCEPT !.up = TRUE].proc = None
  BY RecTypes DEF NoTray
<1>1. CASE TrayPoll
  <2>1. CASE UNCHANGED proc /\ tray'.proc = tray.proc
    BY <1>1, <1>b, <2>1 DEF TrayPoll
  <2>2. CASE proc' = [proc EXCEPT ![tray.proc] = NoProc] /\ tray'.proc = None
    <3>1. proc' = Gone(tray.proc, proc)
      BY <1>0, <2>2 DEF Gone, ProcTypes
    <3> QED  BY <1>0, <1>1, <2>2, <3>1, GoneFamily DEF TrayPoll, ProcTypes
  <2> QED  BY <1>0, <1>1, <2>1, <2>2 DEF TrayPoll, TrayRec
<1>2. CASE Classify
  <2>1. tray'.proc = tray.proc
    BY <1>0, <1>2 DEF Classify, TrayRec
  <2> QED  BY <1>2, <1>b, <2>1 DEF Classify
<1>3. CASE RespawnOrAdopt
  <2>1. CASE StillDown /\ \E p \in Fresh : Spawn(tray, p)
    BY <1>0, <1>3, <2>1, SpawnFamily DEF RespawnOrAdopt, StillDown
  <2>2. CASE UNCHANGED proc /\ tray'.proc = tray.proc
    BY <1>3, <1>b, <2>2 DEF RespawnOrAdopt
  <2> QED  BY <1>0, <1>3, <2>1, <2>2 DEF RespawnOrAdopt, Adopted, TrayRec
<1>4. CASE PollUnowned
  <2>1. CASE \E p \in Fresh : Spawn([tray EXCEPT !.retries = @ + 1], p)
    <3>1. tray.retries \in 0..MaxRetries /\ (tray.retries < MaxRetries => tray.retries + 1 \in 0..MaxRetries)
      BY <1>0, Numbers DEF TrayRec
    <3>2. CASE tray.retries < MaxRetries
      <4>1. [tray EXCEPT !.retries = @ + 1] \in TrayRec
        BY <1>0, <3>1, <3>2 DEF TrayRec
      <4> QED  BY <1>4, <2>1, <4>1, SpawnFamily DEF PollUnowned
    <3>3. CASE ~(tray.retries < MaxRetries)
      <4>1. UNCHANGED proc /\ tray'.proc = tray.proc
        BY <1>0, <1>4, <3>3 DEF PollUnowned, Adopted, TrayRec
      <4> QED  BY <1>4, <1>b, <4>1 DEF PollUnowned
    <3> QED  BY <3>2, <3>3
  <2>2. CASE UNCHANGED proc /\ tray'.proc = tray.proc
    BY <1>4, <1>b, <2>2 DEF PollUnowned
  <2> QED  BY <1>0, <1>4, <2>1, <2>2 DEF PollUnowned, Adopted, TrayRec
<1>5. CASE TrayLaunch
  <2>1. tray.proc = None
    BY <1>5 DEF TrayInStep, TrayLaunch
  <2>2. CASE \E p \in Fresh : Spawn([NoTray EXCEPT !.up = TRUE], p)
    BY <1>5, <1>e, <2>1, <2>2, SpawnFamily DEF TrayLaunch
  <2>3. CASE UNCHANGED proc /\ tray'.proc = tray.proc
    BY <1>5, <1>b, <2>3 DEF TrayLaunch
  <2> QED  BY <1>5, <1>e, <2>1, <2>2, <2>3 DEF TrayLaunch, NoTray
<1>6. CASE TrayStart
  <2>1. [tray EXCEPT !.stopped = FALSE, !.restarts = 0] \in TrayRec
    BY <1>0, Numbers DEF TrayRec
  <2> QED  BY <1>6, <2>1, SpawnFamily DEF TrayStart
<1>7. CASE TrayStop
  <2>1. proc' = Gone(tray.proc, P) /\ tray'.proc = None /\ faults' = faults
    BY <1>0, <1>7, <1>c DEF TrayStop, Stopped, TrayRec
  <2> QED  BY <1>0, <1>d, <2>1, GoneFamily
<1>8. CASE TrayRestart
  <2>1. PICK l : l = Launched("tray", FALSE)
    OBVIOUS
  <2>2. l.pc = "check" /\ l.from = "tray" /\ l.heir = None
    BY <2>1 DEF Launched, NoProc
  <2>3. proc' = [Gone(tray.proc, P) EXCEPT ![tray.proc] = l]
        /\ tray'.proc = tray.proc /\ faults' = faults /\ tray.proc \in Procs
    BY <1>0, <1>8, <1>c, <2>1 DEF TrayRestart, TrayRec
  <2>4. \A p \in Procs : proc'[p] = IF p = tray.proc THEN l ELSE P[p]
    BY <2>3 DEF Gone
  <2> QED  BY <1>d, <2>2, <2>3, <2>4, ReplacedFamily
<1>9. CASE TrayQuit
  <2>1. proc' = Orphaned(P) /\ tray' = NoTray /\ faults' = faults
    BY <1>9, <1>c DEF TrayQuit
  <2>2. ASSUME NEW p \in Procs, P[p].pc = "leave", P[p].from = "tray"
        PROVE  FALSE
    <3>1. PICK code \in Codes : code = "ended"
      BY DEF Codes
    <3>2. P = Without(StopTree, code) /\ Plain(StopTree) /\ Died(code).pc = "dead" /\ NoProc.pc = "none"
      BY <1>0, <1>c, <3>1, StopTreePlain DEF Died, NoProc
    <3>3. Alive(p) /\ p \notin StopTree
      BY <1>0, <2>2, <3>2, WithoutAt DEF ProcTypes, Alive
    <3>4. tray.proc = p
      BY <1>d, <2>2 DEF FamilyOf, ChildOf
    <3> QED  BY <1>0, <3>3, <3>4, StopTreePlain, NobodyApart
  <2> QED  BY <1>d, <2>1, <2>2, OrphanedFamily
<1>10. CASE TrayCrash
  BY <1>0, <1>10, <1>a, OrphanedFamily DEF TrayCrash, ProcTypes
<1> QED  BY <1>1, <1>2, <1>3, <1>4, <1>5, <1>6, <1>7, <1>8, <1>9, <1>10 DEF TrayStep

LEMMA FamilyStep == ASSUME TypeOK, TrayInStep, Family, [Next]_vars PROVE Family'
PROOF
<1>1. CASE UNCHANGED vars
  BY <1>1 DEF vars, Family, ChildOfTray, Exits, HeirsWait, Alive
<1>2. CASE Next
  BY <1>2, ServerFamily, OtherFamily, TrayFamily DEF Next
<1> QED  BY <1>1, <1>2

-----------------------------------------------------------------------------
\* The watchdog's mark, and the tray's own steps

\* The watchdog has one restart under way at a time.
OneJob == \A i, j \in Jobs : i = j

LEMMA ShownAfter ==
    ASSUME WdTypes, Shown, NEW S, WdAfter(S) PROVE Shown'
PROOF
<1>1. CASE "wd" \in S
  <2>1. job' = [j \in Jobs |-> NoJob] /\ restarting' = FALSE
    BY <1>1 DEF WdAfter
  <2> QED  BY <2>1 DEF Shown, NoJob
<1>2. CASE "wd" \notin S
  <2>1. job' = job /\ restarting' = restarting /\ wd'.up = wd.up
    BY <1>2 DEF WdAfter, WdTypes
  <2> QED  BY <2>1 DEF Shown
<1> QED  BY <1>1, <1>2

LEMMA ShownKept == ASSUME Shown, UNCHANGED <<wd, job, restarting>> PROVE Shown'
BY DEF Shown

LEMMA ShownNewJob ==
    ASSUME WdTypes, wd.up, NEW j \in Jobs, NEW p, job' = NewJob(j, p), wd' = wd, restarting' = TRUE
    PROVE  Shown'
BY DEF Shown, NewJob, WdTypes

LEMMA ShownStep ==
    ASSUME OneJob, TypeOK, Shown, [Next]_vars
    PROVE  Shown'
PROOF
<1>0. WdTypes /\ Shown
  BY TypeParts
<1>1. CASE UNCHANGED vars
  BY <1>0, <1>1, ShownKept DEF vars
<1>2. ASSUME NEW p \in Procs, ServerStep(p) PROVE Shown'
  <2>1. CASE Preflight(p) \/ Awaited(p) \/ Leave(p) \/ Respawn(p) \/ Settled(p)
    BY <1>0, <2>1, ShownKept DEF Preflight, Awaited, Leave, Respawn, Settled
  <2>2. CASE Claim(p)
    BY <1>0, <2>2 DEF Claim, Shown
  <2>3. CASE Bind(p) \/ Closed(p)
    <3>1. UNCHANGED <<wd, job, restarting>> \/ \E S \in SUBSET (Procs \cup {"wd"}) : WdAfter(S)
      BY <2>3 DEF Bind, Closed
    <3> QED  BY <1>0, <3>1, ShownKept, ShownAfter
  <2>4. CASE Handoff(p)
    <3>1. CASE proc[p].pc = "handoff" /\ wd.up /\ restarting' = TRUE /\ \E j \in Jobs : job' = NewJob(j, p)
      BY <1>0, <2>4, <3>1, ShownNewJob DEF Handoff
    <3>2. CASE UNCHANGED <<job, restarting>>
      BY <1>0, <2>4, <3>2, ShownKept DEF Handoff
    <3> QED  BY <2>4, <3>1, <3>2 DEF Handoff
  <2> QED  BY <1>2, <2>1, <2>2, <2>3, <2>4 DEF ServerStep
<1>3. ASSUME NEW p \in Procs, AskRestart(p) \/ AskStop(p) \/ Crash(p) \/ Wedge(p) PROVE Shown'
  BY <1>0, <1>3, ShownKept, ShownAfter DEF AskRestart, AskStop, Crash, Wedge
<1>4. ASSUME NEW j \in Jobs, JobStep(j) PROVE Shown'
  <2>1. CASE Kill(j)
    <3>1. job[j].target \in Procs \cup {None}
      BY <1>0 DEF WdTypes, JobRec
    <3>2. "wd" \notin Victims(job[j].target)
      BY <3>1, VictimsPlain
    <3>3. /\ wd'.up = wd.up /\ job' = [job EXCEPT ![j].pc = "free"] /\ restarting' = restarting
          /\ job[j].pc = "kill"
      BY <1>0, <2>1, <3>2 DEF Kill, WdTypes
    <3>4. \A i \in Jobs : job'[i].pc # "none" <=> job[i].pc # "none"
      BY <1>0, <3>3 DEF WdTypes, JobRec
    <3> QED  BY <1>0, <3>3, <3>4 DEF Shown
  <2>2. CASE PortFree(j)
    <3>1. /\ wd' = wd /\ job' = [job EXCEPT ![j].pc = "health"] /\ restarting' = restarting
          /\ job[j].pc = "free"
      BY <2>2 DEF PortFree
    <3>2. \A i \in Jobs : job'[i].pc # "none" <=> job[i].pc # "none"
      BY <1>0, <3>1 DEF WdTypes, JobRec
    <3> QED  BY <1>0, <3>1, <3>2 DEF Shown
  <2>3. CASE Restarted(j)
    <3>1. \A i \in Jobs : job'[i].pc = "none"
      BY <1>0, <2>3 DEF Restarted, OneJob, NoJob, WdTypes
    <3> QED  BY <2>3, <3>1 DEF Shown, Restarted
  <2> QED  BY <1>4, <2>1, <2>2, <2>3 DEF JobStep
<1>5. CASE TrayStep \/ UserStart \/ TrayLaunch \/ TrayStart \/ TrayCrash
  BY <1>0, <1>5, ShownKept
     DEF TrayStep, UserStart, TrayLaunch, TrayStart, TrayCrash, TrayPoll, Classify, RespawnOrAdopt, PollUnowned
<1>6. CASE AskWatchdog
  <2>1. PICK j \in Jobs, p \in Procs \cup {None} : job' = NewJob(j, p)
    BY <1>6 DEF AskWatchdog, Holders
  <2> QED  BY <1>0, <1>6, <2>1, ShownNewJob DEF AskWatchdog
<1>7. CASE TrayStop \/ TrayRestart \/ TrayQuit \/ WdCrash
  BY <1>0, <1>7, ShownAfter DEF TrayStop, TrayRestart, TrayQuit, WdCrash
<1> QED  BY <1>1, <1>2, <1>3, <1>4, <1>5, <1>6, <1>7 DEF Next

\* The tray's own fields are the tray's own to change.
TrayActs == TrayStep \/ TrayLaunch \/ TrayStart \/ TrayStop \/ TrayRestart \/ TrayQuit \/ TrayCrash

LEMMA OthersLeaveTray ==
    ASSUME [Next]_vars, ~TrayActs
    PROVE  tray' = tray
BY DEF Next, vars, TrayActs, ServerStep, JobStep, Preflight, Awaited, Claim, Bind, Leave, Handoff, Respawn,
       Settled, Closed, AskRestart, AskStop, Kill, PortFree, Restarted, UserStart, AskWatchdog, Crash, Wedge, WdCrash

LEMMA SpawnIs ==
    ASSUME NEW t \in TrayRec, NEW p \in Procs, Spawn(t, p)
    PROVE  /\ tray'.proc = p /\ tray'.wait = FALSE /\ tray'.pc = "poll" /\ tray'.state = "starting"
           /\ tray'.up = t.up /\ tray'.stopped = t.stopped /\ tray'.restarts = t.restarts
           /\ proc' = [proc EXCEPT ![p] = Launched("tray", FALSE)]
BY DEF Spawn, TrayRec

LEMMA InStepStep ==
    ASSUME TypeOK, TrayInStep, [Next]_vars
    PROVE  TrayInStep'
PROOF
<1>0. tray \in TrayRec /\ NoTray \in TrayRec /\ [NoTray EXCEPT !.up = TRUE] \in TrayRec
      /\ \A p \in Fresh : p \in Procs
  BY TypeParts, RecTypes DEF RestTypes, Fresh, Unused
<1>a. NoTray.proc = None /\ NoTray.pc = "poll" /\ NoTray.wait = FALSE
  BY DEF NoTray
<1>b. ASSUME NEW t \in TrayRec, NEW p \in Fresh, Spawn(t, p), t.up PROVE TrayInStep'
  BY <1>0, <1>b, SpawnIs DEF TrayInStep
<1>c. tray' = Adopted /\ tray.proc = None => TrayInStep'
  BY <1>0 DEF Adopted, TrayInStep, TrayRec
<1>1. CASE TrayPoll
  BY <1>0, <1>1 DEF TrayPoll, TrayInStep, TrayRec
<1>2. CASE Classify
  BY <1>0, <1>2 DEF Classify, TrayInStep, TrayRec
<1>3. CASE RespawnOrAdopt
  <2>1. tray.up /\ tray.proc = None
    BY <1>3 DEF RespawnOrAdopt, TrayInStep
  <2>2. CASE tray' = [tray EXCEPT !.pc = "poll"]
    BY <1>0, <1>3, <2>1, <2>2 DEF TrayInStep, RespawnOrAdopt, TrayRec
  <2> QED  BY <1>0, <1>3, <1>b, <1>c, <2>1, <2>2 DEF RespawnOrAdopt
<1>4. CASE PollUnowned
  <2>1. CASE tray.retries < MaxRetries /\ \E p \in Fresh : Spawn([tray EXCEPT !.retries = @ + 1], p)
    <3>1. tray.retries + 1 \in 0..MaxRetries
      BY <1>0, <2>1, Numbers DEF TrayRec
    <3>2. [tray EXCEPT !.retries = @ + 1] \in TrayRec /\ [tray EXCEPT !.retries = @ + 1].up = tray.up
      BY <1>0, <3>1 DEF TrayRec
    <3> QED  BY <1>4, <1>b, <2>1, <3>2 DEF PollUnowned
  <2>2. CASE tray' = [tray EXCEPT !.state = "crashed", !.stopped = TRUE, !.wait = FALSE]
    BY <1>0, <1>4, <2>2 DEF TrayInStep, PollUnowned, TrayRec
  <2>3. CASE tray' = [tray EXCEPT !.state = "stopped", !.adopted = FALSE]
    BY <1>0, <1>4, <2>3 DEF TrayInStep, PollUnowned, TrayRec
  <2> QED  BY <1>4, <1>c, <2>1, <2>2, <2>3 DEF PollUnowned
<1>5. CASE TrayLaunch
  <2>1. [NoTray EXCEPT !.up = TRUE].up
    BY DEF NoTray
  <2>2. CASE tray' = [NoTray EXCEPT !.up = TRUE, !.state = "running", !.adopted = TRUE]
    <3>1. tray'.proc = None /\ tray'.wait = FALSE /\ tray'.pc = "poll"
      BY <2>2 DEF NoTray
    <3> QED  BY <3>1 DEF TrayInStep
  <2> QED  BY <1>0, <1>5, <1>b, <2>1, <2>2 DEF TrayLaunch
<1>6. CASE TrayStart
  <2>1. /\ [tray EXCEPT !.stopped = FALSE, !.restarts = 0] \in TrayRec
        /\ [tray EXCEPT !.stopped = FALSE, !.restarts = 0].up = tray.up
    BY <1>0, Numbers DEF TrayRec
  <2> QED  BY <1>0, <1>6, <1>b, <2>1 DEF TrayStart
<1>7. CASE TrayStop
  <2>1. tray'.proc = None /\ tray'.wait = FALSE
    BY <1>0, <1>7 DEF TrayStop, Stopped, TrayRec
  <2> QED  BY <2>1 DEF TrayInStep
<1>8. CASE TrayRestart
  <2>1. tray'.up = tray.up /\ tray'.proc = tray.proc /\ tray'.wait = FALSE /\ tray'.pc = tray.pc
        /\ tray.proc # None
    BY <1>0, <1>8 DEF TrayRestart, TrayRec
  <2> QED  BY <2>1 DEF TrayInStep
<1>9. CASE TrayQuit \/ TrayCrash
  BY <1>9, <1>a DEF TrayQuit, TrayCrash, TrayInStep
<1>10. CASE ~TrayActs
  BY <1>10, OthersLeaveTray DEF TrayInStep
<1> QED  BY <1>1, <1>2, <1>3, <1>4, <1>5, <1>6, <1>7, <1>8, <1>9, <1>10 DEF TrayActs, TrayStep

-----------------------------------------------------------------------------
\* Kills are accounted for

\* A server that answers or is about to.
Coming(q) == proc[q].pc \in {"check", "await", "claim", "bind", "serve", "leave", "handoff",
                             "handed", "drain", "settle"}

LEMMA ComingIs == (Answering \/ Starting # {}) <=> \E q \in Procs : Coming(q)
BY DEF Answering, Starting, Coming, Serving

LEMMA ComingNext ==
    ASSUME NEW q \in Procs,
           proc'[q].pc \in {"check", "await", "claim", "bind", "serve", "leave", "handoff",
                            "handed", "drain", "settle"}
    PROVE  Excused'
BY DEF Excused, Answering, Starting, Serving

\* Who holds a port answers, or hangs, which is a fault.
LEMMA HolderComes ==
    ASSUME Exits, NEW q \in Holders
    PROVE  q \in Procs /\ Alive(q) /\ (Coming(q) \/ faults > 0)
BY DEF Holders, HasPort, Serving, Coming, Exits, Alive

LEMMA WithoutSeen ==
    ASSUME ProcTypes, NEW S, NEW code \in Codes, Plain(S), proc' = Without(S, code)
    PROVE  /\ \A q \in Procs : Alive(q) /\ q \notin S => proc'[q].pc = proc[q].pc
           /\ \A q \in Procs : proc'[q].pc = "dead" /\ proc'[q].code = "killed" =>
                 code = "killed" \/ (proc[q].pc = "dead" /\ proc[q].code = "killed")
PROOF
<1>1. NoProc.pc = "none" /\ Died(code).pc = "dead" /\ Died(code).code = code
  BY DEF NoProc, Died
<1> QED  BY <1>1, WithoutAt DEF ProcTypes, Alive

\* What was seen was seen before, unless this step kills.
LEMMA SeenBefore ==
    ASSUME KillSeen', tray' = tray,
           \A q \in Procs : q = tray.proc /\ proc'[q].pc = "dead" /\ proc'[q].code = "killed" =>
                 proc[q].pc = "dead" /\ proc[q].code = "killed",
           tray.proc \in Procs \cup {None}
    PROVE  KillSeen
BY DEF KillSeen

\* A watchdog that dies takes the restarts with it, which nobody then waits for.
LEMMA MarkGone ==
    ASSUME Shown, restarting, NEW S, WdAfter(S), wanted' = (wanted /\ ~Unheard(S))
    PROVE  restarting' \/ ~wanted'
BY DEF Shown, WdAfter, Unheard
LEMMA ServerKills ==
    ASSUME HeedInv, NEW p \in Procs, ServerStep(p), KillSeen'
    PROVE  Excused'
PROOF
<1>0. /\ TypeOK /\ TrayInStep /\ Shown /\ Family /\ KillAsked /\ Exits /\ HeirsWait /\ ChildOfTray
      /\ ProcTypes /\ Plain({p}) /\ proc[p] \in ProcRec /\ tray \in TrayRec
  BY TypeParts DEF HeedInv, Family, Plain, ProcTypes, RestTypes
<1>a. tray' = tray /\ faults' = faults /\ (~wanted => ~wanted')
  <2>1. tray' = tray /\ faults' = faults
    BY DEF ServerStep, Preflight, Awaited, Claim, Bind, Leave, Handoff, Respawn, Settled, Closed
  <2>2. wanted' = wanted \/ \E S : wanted' = (wanted /\ ~Unheard(S))
    BY DEF ServerStep, Preflight, Awaited, Claim, Bind, Leave, Handoff, Respawn, Settled, Closed
  <2>3. \A S : wanted' = (wanted /\ ~Unheard(S)) => (~wanted => ~wanted')
    OBVIOUS
  <2>4. wanted' = wanted => (~wanted => ~wanted')
    OBVIOUS
  <2> QED  BY <2>1, <2>2, <2>3, <2>4
<1>b. faults > 0 => Excused'
  BY <1>a DEF Excused
<1>c. ASSUME NEW S, NEW code \in Codes, Plain(S), proc' = Without(S, code), NEW q \in Holders, q \notin S
      PROVE  Excused'
  <2>1. q \in Procs /\ Alive(q) /\ (Coming(q) \/ faults > 0)
    BY <1>0, HolderComes
  <2>2. proc'[q].pc = proc[q].pc
    BY <1>0, <1>c, <2>1, WithoutSeen
  <2> QED  BY <1>b, <2>1, <2>2, ComingNext DEF Coming
<1>1. CASE Preflight(p)
  <2>1. CASE Holders # {} /\ proc' = Without({p}, "port taken")
    <3>1. PICK q \in Holders : q \notin {p}
      BY <1>1, <2>1 DEF Preflight, Holders, HasPort, Serving
    <3> QED  BY <1>0, <1>c, <2>1, <3>1 DEF Codes
  <2>2. CASE proc' = [proc EXCEPT ![p].pc = "claim"] \/ proc' = [proc EXCEPT ![p].pc = "await"]
    <3>1. proc'[p].pc \in {"claim", "await"}
      BY <1>0, <2>2 DEF ProcTypes, ProcRec
    <3> QED  BY <3>1, ComingNext
  <2> QED  BY <1>1, <2>1, <2>2 DEF Preflight
<1>2. CASE Awaited(p)
  <2>1. CASE Holders # {} /\ proc' = Without({p}, "port taken")
    <3>1. PICK q \in Holders : q \notin {p}
      BY <1>2, <2>1 DEF Awaited, Holders, HasPort, Serving
    <3> QED  BY <1>0, <1>c, <2>1, <3>1 DEF Codes
  <2>2. CASE proc' = [proc EXCEPT ![p].pc = "claim"]
    <3>1. proc'[p].pc = "claim"
      BY <1>0, <2>2 DEF ProcTypes, ProcRec
    <3> QED  BY <3>1, ComingNext
  <2> QED  BY <1>2, <2>1, <2>2 DEF Awaited
<1>3. CASE Claim(p)
  <2>1. proc'[p].pc = "bind"
    BY <1>0, <1>3 DEF Claim, ProcTypes, ProcRec
  <2> QED  BY <2>1, ComingNext
<1>4. CASE Bind(p)
  <2>1. CASE proc' = [proc EXCEPT ![p].pc = "serve"]
    <3>1. proc'[p].pc = "serve"
      BY <1>0, <2>1 DEF ProcTypes, ProcRec
    <3> QED  BY <3>1, ComingNext
  <2>2. CASE Holders # {} /\ \E S \in SUBSET {p, "wd"} : proc' = Without(S, "failed")
    <3>1. PICK S \in SUBSET {p, "wd"} : proc' = Without(S, "failed")
      BY <2>2
    <3>2. PICK q \in Holders : q # p /\ q \in Procs
      BY <1>4, <2>2 DEF Bind, Holders, HasPort, Serving
    <3>3. Plain(S) /\ q \notin S
      BY <3>2, DeploymentAssumption DEF Plain
    <3> QED  BY <1>c, <3>1, <3>2, <3>3 DEF Codes
  <2> QED  BY <1>4, <2>1, <2>2 DEF Bind
<1>5. CASE Leave(p)
  <2>1. proc[p].pc = "leave" /\ proc'[p].pc = "close"
    BY <1>0, <1>5 DEF Leave, ProcTypes, ProcRec
  <2>2. CASE proc[p].from = "tray"
    <3>1. tray.proc = p
      BY <1>0, <2>2 DEF ChildOfTray
    <3>2. tray.pc = "poll"
      BY <1>0, <3>1, NobodyApart DEF TrayInStep
    <3> QED  BY <1>a, <2>1, <3>1, <3>2 DEF KillSeen
  <2> QED  BY <1>0, <1>b, <2>1, <2>2 DEF Exits
<1>6. CASE Handoff(p)
  <2>1. proc'[p].pc \in {"handed", "drain"}
    BY <1>0, <1>6 DEF Handoff, ProcTypes, ProcRec
  <2> QED  BY <2>1, ComingNext
<1>7. CASE Respawn(p)
  <2>1. PICK q \in Fresh : proc' = [proc EXCEPT ![p].pc = "settle", ![p].heir = q, ![q] = Launched(p, TRUE)]
    BY <1>7 DEF Respawn
  <2>2. q \in Procs /\ q # p
    BY <1>7 DEF Fresh, Unused, Respawn
  <2>3. proc'[p].pc = "settle"
    BY <1>0, <2>1, <2>2 DEF ProcTypes, ProcRec
  <2> QED  BY <2>3, ComingNext
<1>8. CASE Settled(p)
  <2>1. PICK q \in Procs : q = proc[p].heir /\ q # p
    BY <1>0, <1>8 DEF Settled, HeirsWait, ProcRec
  <2>2. CASE proc[q].pc = "dead"
    <3>1. proc'[p].pc = "serve"
      BY <1>0, <1>8, <2>1, <2>2 DEF Settled, ProcTypes, ProcRec
    <3> QED  BY <3>1, ComingNext
  <2>3. CASE proc[q].pc # "dead"
    <3>1. proc'[q] = proc[q]
      BY <1>0, <1>8, <2>1, <2>3 DEF Settled, ProcTypes
    <3>2. proc[q].pc \in {"check", "await"}
      BY <1>0, <1>8, <2>1, <2>3 DEF Settled, HeirsWait
    <3> QED  BY <3>1, <3>2, ComingNext
  <2> QED  BY <2>2, <2>3
<1>9. CASE Closed(p)
  <2>1. PICK S \in SUBSET {p, "wd"} :
            proc' = Without(S, proc[p].code) /\ WdAfter(S) /\ wanted' = (wanted /\ ~Unheard(S))
    BY <1>9 DEF Closed
  <2>2. proc[p].code \in Codes /\ proc[p].code # "killed" /\ Plain(S) /\ proc[p].pc = "close"
    BY <1>0, <1>9 DEF Closed, ProcRec, Exits, Plain
  <2>3. KillSeen
    BY <1>0, <1>a, <2>1, <2>2, WithoutSeen DEF KillSeen, TrayRec
  <2>4. Excused
    BY <1>0, <2>3 DEF KillAsked
  <2>5. restarting => restarting' \/ ~wanted'
    BY <1>0, <2>1, MarkGone
  <2>6. ASSUME NEW q \in Procs, Coming(q) PROVE Excused'
    <3>1. Alive(q) /\ q \notin S
      BY <2>2, <2>6, DeploymentAssumption DEF Coming, Alive
    <3>2. proc'[q].pc = proc[q].pc
      BY <1>0, <2>1, <2>2, <3>1, WithoutSeen
    <3> QED  BY <2>6, <3>2, ComingNext DEF Coming
  <2> QED  BY <1>a, <2>4, <2>5, <2>6, ComingIs DEF Excused
<1> QED  BY <1>1, <1>2, <1>3, <1>4, <1>5, <1>6, <1>7, <1>8, <1>9 DEF ServerStep

LEMMA OtherKills ==
    ASSUME HeedInv, KillSeen',
           \/ \E p \in Procs : AskRestart(p) \/ AskStop(p) \/ Crash(p) \/ Wedge(p)
           \/ \E j \in Jobs : JobStep(j)
           \/ AskWatchdog \/ UserStart \/ WdCrash
    PROVE  Excused'
PROOF
<1>0. /\ TypeOK /\ TrayInStep /\ Shown /\ Family /\ KillAsked /\ Exits /\ ChildOfTray
      /\ ProcTypes /\ RestTypes /\ tray \in TrayRec
  BY TypeParts DEF HeedInv, Family, RestTypes
<1>a. Fault => Excused'
  BY <1>0, Counted DEF Excused
<1>b. restarting' => Excused'
  BY DEF Excused
<1>1. ASSUME NEW p \in Procs, AskRestart(p) PROVE Excused'
  <2>1. proc'[p].pc \in {"leave", "handoff", "drain"}
    BY <1>0, <1>1 DEF AskRestart, ProcTypes, ProcRec
  <2> QED  BY <2>1, ComingNext
<1>2. ASSUME NEW p \in Procs, AskStop(p) PROVE Excused'
  <2>1. CASE tray.proc = p
    <3>1. proc'[p].pc = "close" /\ tray' = tray
      BY <1>0, <1>2 DEF AskStop, ProcTypes, ProcRec
    <3>2. tray.pc = "poll"
      BY <1>0, <2>1, NobodyApart DEF TrayInStep
    <3> QED  BY <2>1, <3>1, <3>2 DEF KillSeen
  <2>2. CASE tray.proc # p
    BY <1>2, <2>2 DEF AskStop, Excused
  <2> QED  BY <2>1, <2>2
<1>3. ASSUME NEW j \in Jobs, Kill(j) PROVE Excused'
  <2>1. restarting
    BY <1>0, <1>3 DEF Kill, Shown
  <2>2. job[j].target \in Procs \cup {None}
    BY TypeParts, <1>0 DEF WdTypes, JobRec
  <2>3. restarting' = restarting
    BY <1>3, <2>2, VictimsPlain DEF Kill
  <2> QED  BY <1>b, <2>1, <2>3
<1>c. ASSUME NEW p \in Procs, NEW from, NEW waits, proc' = [proc EXCEPT ![p] = Launched(from, waits)]
      PROVE  Excused'
  <2>1. proc'[p].pc = "check"
    BY <1>0, <1>c DEF ProcTypes, Launched, NoProc
  <2> QED  BY <2>1, ComingNext
<1>4. ASSUME NEW j \in Jobs, PortFree(j) PROVE Excused'
  <2>1. restarting /\ restarting' = restarting
    BY <1>0, <1>4 DEF PortFree, Shown
  <2> QED  BY <1>b, <2>1
<1>5. ASSUME NEW j \in Jobs, Restarted(j) PROVE Excused'
  <2>1. UNCHANGED <<proc, tray>>
    BY <1>5 DEF Restarted
  <2>2. CASE Answering
    <3>1. PICK q \in Procs : Serving(q)
      BY <2>2 DEF Answering
    <3> QED  BY <2>1, <3>1, ComingNext DEF Serving
  <2>3. CASE tray.pc = "poll" /\ (tray.proc # None => proc[tray.proc].pc # "dead")
    BY <2>1, <2>3 DEF KillSeen
  <2> QED  BY <1>5, <2>2, <2>3 DEF Restarted
<1>6. CASE UserStart
  <2>1. PICK p \in Procs : proc' = [proc EXCEPT ![p] = Launched(None, FALSE)]
    BY <1>6 DEF UserStart, Fresh, Unused
  <2> QED  BY <2>1, <1>c
<1>7. CASE AskWatchdog
  BY <1>7, <1>b DEF AskWatchdog
<1>8. CASE WdCrash \/ \E p \in Procs : Crash(p) \/ Wedge(p)
  BY <1>8, <1>a DEF WdCrash, Crash, Wedge
<1> QED  BY <1>1, <1>2, <1>3, <1>4, <1>5, <1>6, <1>7, <1>8 DEF JobStep

LEMMA TrayKills ==
    ASSUME HeedInv, KillSeen', TrayActs
    PROVE  Excused'
PROOF
<1>0. /\ TypeOK /\ TrayInStep /\ Shown /\ Family /\ KillAsked /\ Exits /\ ChildOfTray
      /\ ProcTypes /\ RestTypes /\ tray \in TrayRec /\ tray.proc \in Procs \cup {None}
  BY TypeParts DEF HeedInv, Family, RestTypes, TrayRec
<1>a. ASSUME NEW t, NEW p \in Fresh, Spawn(t, p), t \in TrayRec PROVE Excused'
  <2>1. p \in Procs /\ proc'[p].pc = "check"
    BY <1>0, <1>a DEF Spawn, Fresh, Unused, ProcTypes, Launched, NoProc
  <2> QED  BY <2>1, ComingNext
<1>b. ASSUME KillSeen, UNCHANGED <<wanted, faults, restarting>>,
             \A q \in Procs : Coming(q) => proc'[q].pc = proc[q].pc
      PROVE  Excused'
  <2>1. Excused
    BY <1>0, <1>b DEF KillAsked
  <2>2. ASSUME NEW q \in Procs, Coming(q) PROVE Excused'
    BY <1>b, <2>2, ComingNext DEF Coming
  <2> QED  BY <1>b, <2>1, <2>2, ComingIs DEF Excused
<1>1. CASE TrayPoll
  <2>1. \A q \in Procs : Coming(q) => proc'[q].pc = proc[q].pc
    BY <1>0, <1>1 DEF TrayPoll, ProcTypes, Coming
  <2>2. KillSeen
    <3>1. CASE UNCHANGED proc /\ tray'.proc = tray.proc /\ tray'.pc = tray.pc /\ tray'.code = tray.code
      BY <1>1, <3>1 DEF KillSeen, TrayPoll
    <3>2. CASE /\ tray' = [tray EXCEPT !.proc = None, !.pc = "classify", !.code = proc[tray.proc].code]
               /\ proc[tray.proc].pc = "dead"
      <4>1. tray'.proc = None /\ tray'.code = proc[tray.proc].code
        BY <1>0, <3>2 DEF TrayRec
      <4> QED  BY <1>1, <3>2, <4>1 DEF KillSeen, TrayPoll
    <3> QED  BY <1>0, <1>1, <3>1, <3>2 DEF TrayPoll, TrayRec
  <2> QED  BY <1>1, <1>b, <2>1, <2>2 DEF TrayPoll
<1>2. CASE Classify
  <2>1. tray.proc = None
    BY <1>0, <1>2 DEF TrayInStep, Classify
  <2>2. tray'.proc = None /\ tray'.pc # "classify"
    BY <1>0, <1>2, <2>1 DEF Classify, TrayRec
  <2> QED  BY <2>2 DEF KillSeen
<1>3. CASE RespawnOrAdopt
  <2>1. tray.proc = None
    BY <1>0, <1>3 DEF TrayInStep, RespawnOrAdopt
  <2>2. CASE tray' = Adopted \/ tray' = [tray EXCEPT !.pc = "poll"]
    BY <1>0, <2>1, <2>2 DEF Adopted, TrayRec, KillSeen
  <2> QED  BY <1>0, <1>3, <1>a, <2>2 DEF RespawnOrAdopt
<1>4. CASE PollUnowned
  <2>1. tray.proc = None /\ tray.pc = "poll"
    BY <1>4 DEF PollUnowned
  <2>2. CASE tray.retries < MaxRetries /\ \E p \in Fresh : Spawn([tray EXCEPT !.retries = @ + 1], p)
    <3>1. tray.retries + 1 \in 0..MaxRetries
      BY <1>0, <2>2, Numbers DEF TrayRec
    <3>2. [tray EXCEPT !.retries = @ + 1] \in TrayRec
      BY <1>0, <3>1 DEF TrayRec
    <3> QED  BY <1>a, <2>2, <3>2
  <2>3. CASE \/ tray' = Adopted
             \/ tray' = [tray EXCEPT !.state = "crashed", !.stopped = TRUE, !.wait = FALSE]
             \/ tray' = [tray EXCEPT !.state = "stopped", !.adopted = FALSE]
    BY <1>0, <2>1, <2>3 DEF Adopted, TrayRec, KillSeen
  <2> QED  BY <1>4, <2>2, <2>3 DEF PollUnowned
<1>5. CASE TrayLaunch
  <2>1. [NoTray EXCEPT !.up = TRUE] \in TrayRec
    BY RecTypes
  <2>2. CASE tray' = [NoTray EXCEPT !.up = TRUE, !.state = "running", !.adopted = TRUE]
    <3>1. tray'.proc = None /\ tray'.pc = "poll"
      BY <2>2 DEF NoTray
    <3> QED  BY <3>1 DEF KillSeen
  <2> QED  BY <1>5, <1>a, <2>1, <2>2 DEF TrayLaunch
<1>6. CASE TrayStart
  <2>1. [tray EXCEPT !.stopped = FALSE, !.restarts = 0] \in TrayRec
    BY <1>0, Numbers DEF TrayRec
  <2> QED  BY <1>6, <1>a, <2>1 DEF TrayStart
<1>7. CASE TrayStop
  BY <1>7 DEF TrayStop, Excused
<1>8. CASE TrayRestart
  <2>1. tray'.pc = "poll" /\ tray'.proc = tray.proc /\ tray.proc \in Procs
    BY <1>0, <1>8 DEF TrayRestart, TrayRec, TrayInStep
  <2>2. proc'[tray.proc] = Launched("tray", FALSE)
    BY <1>8, <2>1 DEF TrayRestart, Gone
  <2>3. proc'[tray.proc].pc = "check"
    BY <2>2 DEF Launched, NoProc
  <2> QED  BY <2>1, <2>3, ComingNext
<1>9. CASE TrayQuit \/ TrayCrash
  <2>1. tray'.up = FALSE
    BY <1>9 DEF TrayQuit, TrayCrash, NoTray
  <2> QED  BY <2>1 DEF KillSeen
<1> QED  BY <1>1, <1>2, <1>3, <1>4, <1>5, <1>6, <1>7, <1>8, <1>9 DEF TrayActs, TrayStep

-----------------------------------------------------------------------------
\* What the tray heeds

LEMMA HeedInit == Init => HeedInv
PROOF
<1> SUFFICES ASSUME Init PROVE HeedInv
  OBVIOUS
<1>1. PICK p \in Procs, from \in {"tray", None} :
          /\ proc = [q \in Procs |-> IF q = p THEN Launched(from, FALSE) ELSE NoProc]
          /\ tray = IF from = None THEN NoTray
                    ELSE [NoTray EXCEPT !.up = TRUE, !.state = "starting", !.proc = p]
  BY DEF Init
<1>2. PICK l : l = Launched(from, FALSE)
  OBVIOUS
<1>l. l.pc = "check" /\ l.from = from /\ l.heir = None
  BY <1>2 DEF Launched, NoProc
<1>3. NoProc.pc = "none" /\ NoProc.heir = None /\ NoProc.from = None
  BY DEF NoProc
<1>4. \A q \in Procs : proc[q] = IF q = p THEN l ELSE NoProc
  BY <1>1, <1>2
<1>5. tray.pc = "poll" /\ tray.wait = FALSE /\ tray.proc = (IF from = None THEN None ELSE p)
      /\ (from # None => tray.up)
  BY <1>1 DEF NoTray
<1>6. TrayInStep
  BY <1>5 DEF TrayInStep
<1>7. Shown
  BY DEF Init, Shown, NoJob
<1>8. Family
  BY <1>l, <1>3, <1>4, <1>5, NobodyApart DEF Family, ChildOfTray, Exits, HeirsWait, Alive
<1>9. ~KillSeen
  BY <1>l, <1>3, <1>4, <1>5, NobodyApart DEF KillSeen
<1> QED  BY <1>6, <1>7, <1>8, <1>9, TypeInit DEF HeedInv, KillAsked

LEMMA HeedStep ==
    ASSUME OneJob, HeedInv, [Next]_vars
    PROVE  HeedInv'
PROOF
<1>1. TypeOK' /\ TrayInStep' /\ Family' /\ Shown'
  BY TypeStep, InStepStep, FamilyStep, ShownStep DEF HeedInv
<1>2. ASSUME KillSeen' PROVE Excused'
  <2>1. CASE UNCHANGED vars
    BY <1>2, <2>1 DEF vars, HeedInv, KillAsked, KillSeen, Excused, Answering, Starting, Serving
  <2>2. CASE Next
    BY <1>2, <2>2, ServerKills, OtherKills, TrayKills DEF Next, TrayActs
  <2> QED  BY <2>1, <2>2
<1> QED  BY <1>1, <1>2 DEF HeedInv, KillAsked

\* The tray gets a child from a launch alone, which it does not do for a server the user stopped.
LEMMA StopHeeded ==
    ASSUME TypeOK, TrayInStep, [Next]_vars, tray.up, tray.stopped, tray'.stopped
    PROVE  tray'.proc \in {tray.proc, None}
PROOF
<1>0. tray \in TrayRec
  BY TypeParts DEF RestTypes
<1>1. CASE Classify
  BY <1>0, <1>1 DEF Classify, TrayRec
<1>2. CASE TrayPoll
  BY <1>0, <1>2 DEF TrayPoll, TrayRec
<1>3. CASE RespawnOrAdopt
  BY <1>0, <1>3 DEF RespawnOrAdopt, StillDown, TrayRec
<1>4. CASE PollUnowned
  <2>1. ~tray.wait
    BY DEF TrayInStep
  <2> QED  BY <1>0, <1>4, <2>1 DEF PollUnowned, TrayRec
<1>5. CASE TrayStart
  <2>1. [tray EXCEPT !.stopped = FALSE, !.restarts = 0] \in TrayRec
        /\ [tray EXCEPT !.stopped = FALSE, !.restarts = 0].stopped = FALSE
    BY <1>0, Numbers DEF TrayRec
  <2> QED  BY <1>5, <2>1, SpawnIs DEF TrayStart, Fresh, Unused
<1>6. CASE TrayStop \/ TrayRestart
  BY <1>0, <1>6 DEF TrayStop, Stopped, TrayRestart, TrayRec
<1>7. CASE TrayQuit \/ TrayCrash \/ TrayLaunch
  BY <1>7 DEF TrayQuit, TrayCrash, TrayLaunch, NoTray
<1>8. CASE ~TrayActs
  BY <1>8, OthersLeaveTray
<1> QED  BY <1>1, <1>2, <1>3, <1>4, <1>5, <1>6, <1>7, <1>8 DEF TrayActs, TrayStep

\* A crash is counted for an exit that nobody accounts for.
LEMMA CrashCounted ==
    ASSUME HeedInv, [Next]_vars, tray'.restarts > tray.restarts
    PROVE  tray.code # "killed" \/ faults > 0 \/ ~wanted \/ Answering \/ Starting # {}
PROOF
<1>0. tray \in TrayRec /\ NoTray \in TrayRec /\ TypeOK /\ Shown /\ KillAsked
      /\ NoTray.restarts = 0 /\ tray.restarts \in Nat
  BY TypeParts, RecTypes DEF RestTypes, TrayRec, HeedInv, NoTray
<1>a. ASSUME tray'.restarts = tray.restarts \/ tray'.restarts = 0 PROVE FALSE
  BY <1>0, <1>a
<1>1. CASE Classify
  <2>1. ~AskedFor /\ tray.pc = "classify" /\ tray.up
    <3>1. AskedFor => tray'.restarts = tray.restarts
      BY <1>0, <1>1 DEF Classify, TrayRec
    <3> QED  BY <1>1, <1>a, <3>1 DEF Classify
  <2>2. ~restarting
    BY <1>0, <2>1 DEF AskedFor, Shown
  <2> QED  BY <1>0, <2>1, <2>2 DEF KillAsked, KillSeen, Excused
<1>2. CASE TrayPoll
  <2>1. tray'.restarts = tray.restarts \/ tray'.restarts = 0
    BY <1>0, <1>2 DEF TrayPoll, TrayRec
  <2> QED  BY <1>a, <2>1
<1>3. CASE RespawnOrAdopt
  <2>1. tray'.restarts = tray.restarts
    BY <1>0, <1>3 DEF RespawnOrAdopt, Spawn, Adopted, TrayRec
  <2> QED  BY <1>a, <2>1
<1>4. CASE PollUnowned
  <2>1. tray'.restarts = tray.restarts
    BY <1>0, <1>4 DEF PollUnowned, Spawn, Adopted, TrayRec
  <2> QED  BY <1>a, <2>1
<1>5. CASE TrayStart
  <2>1. tray'.restarts = 0
    BY <1>0, <1>5 DEF TrayStart, Spawn, TrayRec
  <2> QED  BY <1>a, <2>1
<1>6. CASE TrayStop \/ TrayRestart
  <2>1. tray'.restarts = tray.restarts \/ tray'.restarts = 0
    BY <1>0, <1>6 DEF TrayStop, Stopped, TrayRestart, TrayRec
  <2> QED  BY <1>a, <2>1
<1>7. CASE TrayQuit \/ TrayCrash
  BY <1>0, <1>7, <1>a DEF TrayQuit, TrayCrash
<1>8. CASE TrayLaunch
  <2>1. tray'.restarts = 0
    BY <1>8 DEF TrayLaunch, Spawn, NoTray
  <2> QED  BY <1>a, <2>1
<1>9. CASE ~TrayActs
  BY <1>9, <1>a, OthersLeaveTray
<1> QED  BY <1>1, <1>2, <1>3, <1>4, <1>5, <1>6, <1>7, <1>8, <1>9 DEF TrayActs, TrayStep

\* What the user stopped in the tray stays stopped, whatever the tray was about to do:
\* a backoff under way, a port it waits for, an exit it is asking about (tray_app.py).
THEOREM StopStays == Spec => StopSticks
PROOF
<1>1. Init => TypeOK /\ TrayInStep
  BY HeedInit DEF HeedInv
<1>2. TypeOK /\ TrayInStep /\ [Next]_vars => (TypeOK /\ TrayInStep)'
  BY TypeStep, InStepStep
<1>3. TypeOK /\ TrayInStep /\ [Next]_vars =>
          [tray.up /\ tray.stopped /\ tray'.stopped => tray'.proc \in {tray.proc, None}]_vars
  BY StopHeeded
<1> QED  BY <1>1, <1>2, <1>3, PTL DEF Spec, StopSticks

\* The tray heeds its user, and the watchdog: where the watchdog has one restart under way at
\* a time, its kill is a crash to the tray only when something crashed, nobody wants a
\* server any more, or another one answers or starts (classify_exit, restart_in_progress).
THEOREM TrayIsHeeded ==
    ASSUME OneJob
    PROVE  Spec => TrayHeeds
PROOF
<1>1. Init => HeedInv
  BY HeedInit
<1>2. HeedInv /\ [Next]_vars => HeedInv'
  BY HeedStep
<1>3. HeedInv /\ [Next]_vars =>
          [tray'.restarts > tray.restarts =>
              tray.code # "killed" \/ faults > 0 \/ ~wanted \/ Answering \/ Starting # {}]_vars
  BY CrashCounted
<1>4. Spec => AskedForIsNoCrash
  BY <1>1, <1>2, <1>3, PTL DEF Spec, AskedForIsNoCrash
<1> QED  BY <1>4, StopStays, PTL DEF TrayHeeds


=============================================================================
