---------------------------- MODULE EngineStore ----------------------------
(***************************************************************************)
(* The llama.cpp builds under engines/ (core/engine.py): download, check,  *)
(* unpack beside and swap in, or compile and copy in; the active.json that *)
(* new loads read and the pin a restart reads; what the supervisor and the *)
(* manager remember about a build; crash and boot.                         *)
(*                                                                         *)
(* One asyncio loop: an action ends at an await, or where only a crash can *)
(* come between two steps on the disk (pc "swap", "aside", "copy").        *)
(***************************************************************************)
EXTENDS Naturals, FiniteSets, Sequences

CONSTANTS
    Tags,           \* release tags
    Names,          \* directories: the tags and the <tag>-local builds
    LocalOf,        \* LocalOf[t]: the directory of t built from source
    Prebuilt,       \* tags with an archive for this box (select_asset)
    Checked,        \* those with a published SHA-256
    Bundled,        \* those whose archive needs the shared CUDA bundle
    Models,
    PinOf,          \* PinOf[m]: settings.engine_tag, None for the active build
    Callers,        \* coroutines that install or activate
    Boot,           \* the coroutine of the start-up
    Posix,          \* whether a directory in use can be renamed
    Rebuilds,       \* whether a source build may be forced over one that is there
    MaxOps,         \* bound: calls of the user
    MaxFaults,      \* bound: failed downloads, compilations, micro-loads, renames
    MaxCrashes,     \* bound: crashes
    None

ASSUME EngineAssumption ==
    /\ Tags \subseteq Names /\ None \notin Names \cup Callers
    /\ LocalOf \in [Tags -> Names \ Tags]
    /\ \A s, t \in Tags : LocalOf[s] = LocalOf[t] => s = t
    /\ Prebuilt \subseteq Tags /\ Checked \subseteq Prebuilt /\ Bundled \subseteq Prebuilt
    /\ PinOf \in [Models -> Names \cup {None}]
    /\ Boot \notin Callers
    /\ Posix \in BOOLEAN /\ Rebuilds \in BOOLEAN
    /\ MaxOps \in Nat /\ MaxFaults \in Nat /\ MaxCrashes \in Nat

VARIABLES
    dir,            \* engines/<name>/
    active,         \* engines/active.json
    pin,            \* engine.pinned_tag in config.yaml
    archive,        \* downloads/<asset>
    bundle,         \* callers whose open .part is the CUDA bundle's .part path
    job,            \* the calls under way, the boot's included
    child,          \* the models' launches and children
    feats,          \* Supervisor._features: the build a request was answered for
    rejected,       \* ModelManager._arch_rejections
    mode,           \* the process: "down", "boot", "up"
    ops, faults, crashes

store == <<dir, active, archive, bundle>>
memory == <<child, feats, rejected>>
counts == <<ops, faults, crashes>>
vars == <<dir, active, pin, archive, bundle, job, child, feats, rejected, mode,
          ops, faults, crashes>>

Workers == Callers \cup {Boot}

(***************************************************************************)
(* bits: "whole" is the build as published, "other" a well-formed archive  *)
(* of something else, "half" a copy that was cut.  said: engine.json's     *)
(* verified.  Its smoke_tested decides nothing after an install: a build   *)
(* that answers --version is started with or without it.                   *)
(***************************************************************************)
NoDir == [bits |-> "none", said |-> "unknown"]

NoJob == [pc |-> "none", tag |-> None, at |-> None, force |-> FALSE, activate |-> FALSE,
          bits |-> "none", said |-> "unknown", old |-> NoDir]

NoChild == [pc |-> "none", name |-> None, feats |-> None]

Has(n) == dir[n].bits # "none"

\* Children run a build from its spawn on.
Held(n) == \E m \in Models : child[m].pc \in {"starting", "ready"} /\ child[m].name = n

\* active(): active.json, the pin, or whatever is installed.
Live ==
    IF active # None /\ Has(active) THEN {active}
    ELSE IF Has(pin) THEN {pin}
    ELSE {n \in Names : Has(n)}

Resolved(m) == IF PinOf[m] = None THEN Live ELSE {PinOf[m]} \cap {n \in Names : Has(n)}

\* What the feature memo is keyed by: the request, not the build.
Key(m) == PinOf[m]

Idle == mode # "down" /\ \A c \in Workers : job[c].pc \notin {"swap", "aside", "copy"}

Fault == faults < MaxFaults /\ faults' = faults + 1
NoFault == faults' = faults

\* What can be asked of a build: "whole" ones answer --version, the rest may.
Answers(n) == IF dir[n].bits = "whole" THEN {TRUE} ELSE {TRUE, FALSE}

\* An install, or a boot's, is inside the lock of its tag.
Inside(c) == job[c].pc \notin {"none", "lock", "warm-pin"}

-----------------------------------------------------------------------------
\* install()

\* The call ends without an install; a boot then serves without an engine.
Fail(c) ==
    /\ job' = [job EXCEPT ![c] = NoJob]
    /\ mode' = IF c = Boot THEN "up" ELSE mode

\* engine.json is written and whoever remembers rejections forgets them.
Finalize(c, n, rec) ==
    /\ dir' = [dir EXCEPT ![n] = rec]
    /\ rejected' = {}
    /\ active' = IF job[c].activate THEN n ELSE active

\* Something is at the tag, or at its local build, and need not be fetched.
Reusable(c) ==
    LET t == job[c].tag
    IN  IF job[c].force THEN None
        ELSE IF Has(t) THEN t
        ELSE IF t \in Tags /\ Has(LocalOf[t]) THEN LocalOf[t] ELSE None

\* The rest of an install: refused while children run the build it replaces.
Go(c) ==
    IF Has(job[c].tag) /\ Held(job[c].tag)
    THEN Fail(c)
    ELSE job' = [job EXCEPT ![c].pc = "list"] /\ UNCHANGED mode

LockTaken(c) ==
    /\ Idle /\ job[c].pc = "lock"
    /\ \A d \in Workers \ {c} : Inside(d) => job[d].tag # job[c].tag
    /\ IF Reusable(c) # None
       THEN job' = [job EXCEPT ![c].pc = "probe", ![c].at = Reusable(c)] /\ UNCHANGED mode
       ELSE Go(c)
    /\ UNCHANGED <<store, pin, memory, counts>>

\* The smoke test of what is there: kept with its verdicts, or installed again.
Probed(c) ==
    /\ Idle /\ job[c].pc = "probe"
    /\ LET n == job[c].at
       IN  \/ /\ Has(n) /\ TRUE \in Answers(n) /\ NoFault
              /\ Finalize(c, n, dir[n])
              /\ job' = [job EXCEPT ![c] = NoJob]
              /\ mode' = IF c = Boot THEN "up" ELSE mode
           \/ /\ IF FALSE \in Answers(n) THEN NoFault ELSE Fault
              /\ Go(c)
              /\ UNCHANGED <<dir, active, rejected>>
    /\ UNCHANGED <<pin, archive, bundle, child, feats, ops, crashes>>

\* list_assets() and select_asset(): an archive, a source build, or an error.
Listed(c) ==
    /\ Idle /\ job[c].pc = "list"
    /\ LET t == job[c].tag
       IN  \/ /\ t \in Prebuilt /\ NoFault
              /\ job' = [job EXCEPT ![c].pc = "download"] /\ UNCHANGED mode
           \/ /\ t \in Tags \ Prebuilt /\ NoFault
              /\ Rebuilds \/ ~Has(LocalOf[t])
              /\ job' = [job EXCEPT ![c].pc = "build", ![c].at = LocalOf[t]] /\ UNCHANGED mode
           \/ t \in Tags /\ Fault /\ Fail(c)
           \/ t \notin Tags /\ NoFault /\ Fail(c)
           \/ /\ t \in Tags \ Prebuilt /\ ~Rebuilds /\ Has(LocalOf[t])    \* the bound
              /\ NoFault /\ Fail(c)
    /\ UNCHANGED <<store, pin, memory, ops, crashes>>

\* Mutant: only a fresh archive is compared with its published checksum, when it is renamed.
DownloadedTrusting(c) ==
    /\ Idle /\ job[c].pc = "download"
    /\ LET t == job[c].tag
       IN  \/ Fault /\ Fail(c) /\ archive' = [archive EXCEPT ![t] = "none"]
           \/ \E bits \in IF archive[t] # "none" THEN {archive[t]} ELSE {"whole", "other"} :
                 /\ IF archive[t] = "none" /\ bits = "other" THEN Fault ELSE NoFault
                 /\ IF t \in Checked /\ bits # "whole" /\ archive[t] = "none"
                    THEN archive' = [archive EXCEPT ![t] = bits] /\ Fail(c)
                    ELSE /\ archive' = [archive EXCEPT ![t] = bits]
                         /\ job' = [job EXCEPT ![c].pc = IF t \in Bundled THEN "bundle" ELSE "swap",
                                               ![c].bits = bits,
                                               ![c].said = IF t \in Checked THEN "yes" ELSE "no"]
                         /\ UNCHANGED mode
    /\ bundle' = IF job'[c].pc = "bundle" THEN bundle \cup {c} ELSE bundle
    /\ UNCHANGED <<dir, active, pin, memory, ops, crashes>>

\* _download(), _verify_archive() and _verify_download(): an archive that does not
\* match its published checksum is deleted.
Downloaded(c) ==
    /\ Idle /\ job[c].pc = "download"
    /\ LET t == job[c].tag
       IN  \/ Fault /\ Fail(c) /\ archive' = [archive EXCEPT ![t] = "none"]
           \/ \E bits \in IF archive[t] # "none" THEN {archive[t]} ELSE {"whole", "other"} :
                 /\ IF archive[t] = "none" /\ bits = "other" THEN Fault ELSE NoFault
                 /\ IF t \in Checked /\ bits # "whole"
                    THEN archive' = [archive EXCEPT ![t] = "none"] /\ Fail(c)
                    ELSE /\ archive' = [archive EXCEPT ![t] = bits]
                         /\ job' = [job EXCEPT ![c].pc = IF t \in Bundled THEN "bundle" ELSE "swap",
                                               ![c].bits = bits,
                                               ![c].said = IF t \in Checked THEN "yes" ELSE "no"]
                         /\ UNCHANGED mode
    /\ bundle' = IF job'[c].pc = "bundle" THEN bundle \cup {c} ELSE bundle
    /\ UNCHANGED <<dir, active, pin, memory, ops, crashes>>

\* The CUDA bundle, one file for every tag: who opens its .part again truncates
\* it under the first writer, and who ends first renames it away from the other.
BundleDone(c) ==
    /\ Idle /\ job[c].pc = "bundle"
    /\ \/ /\ c \in bundle /\ NoFault
          /\ job' = [job EXCEPT ![c].pc = "swap"] /\ UNCHANGED mode
       \/ /\ IF bundle = {c} THEN Fault ELSE NoFault
          /\ Fail(c)
    /\ bundle' = IF c \in bundle THEN {} ELSE bundle
    /\ UNCHANGED <<dir, active, pin, archive, memory, ops, crashes>>

\* _swap_engine_dir(), its first rename: what is there goes aside, or stays.
MoveAside(c) ==
    /\ job[c].pc = "swap"
    /\ LET t == job[c].tag
       IN  \/ /\ Has(t) => Posix \/ ~Held(t)
              /\ NoFault
              /\ dir' = [dir EXCEPT ![t] = NoDir]
              /\ job' = [job EXCEPT ![c].pc = "aside", ![c].old = dir[t]] /\ UNCHANGED mode
           \/ /\ Has(t)
              /\ IF ~Posix /\ Held(t) THEN NoFault ELSE Fault
              /\ Fail(c) /\ UNCHANGED dir
    /\ UNCHANGED <<active, pin, archive, bundle, memory, ops, crashes>>

\* Mutant: a refused rename leaves the old build aside.
MoveInLeaves(c) ==
    /\ job[c].pc = "aside"
    /\ LET t == job[c].tag
       IN  \/ /\ NoFault
              /\ dir' = [dir EXCEPT ![t] = [NoDir EXCEPT !.bits = job[c].bits]]
              /\ job' = [job EXCEPT ![c].pc = "smoke", ![c].at = t, ![c].old = NoDir]
              /\ UNCHANGED mode
           \/ Fault /\ UNCHANGED dir /\ Fail(c)
    /\ UNCHANGED <<active, pin, archive, bundle, memory, ops, crashes>>

\* Its second rename: the new build goes in, or the old one back.
MoveIn(c) ==
    /\ job[c].pc = "aside"
    /\ LET t == job[c].tag
       IN  \/ /\ NoFault
              /\ dir' = [dir EXCEPT ![t] = [NoDir EXCEPT !.bits = job[c].bits]]
              /\ job' = [job EXCEPT ![c].pc = "smoke", ![c].at = t, ![c].old = NoDir]
              /\ UNCHANGED mode
           \/ /\ Fault
              /\ dir' = [dir EXCEPT ![t] = job[c].old]
              /\ Fail(c)
    /\ UNCHANGED <<active, pin, archive, bundle, memory, ops, crashes>>

\* build_from_source(): git and cmake.
Built(c) ==
    /\ Idle /\ job[c].pc = "build"
    /\ \/ Fault /\ Fail(c)
       \/ NoFault /\ job' = [job EXCEPT ![c].pc = "copy"] /\ UNCHANGED mode
    /\ UNCHANGED <<store, pin, memory, ops, crashes>>

\* _install_built_binaries(): file by file over what is there, whose engine.json
\* stays; a file that a child has open ends it halfway.
Copy(c) ==
    /\ job[c].pc = "copy"
    /\ LET n == job[c].at
           Now(bits) == [dir EXCEPT ![n].bits = bits]
       IN  \/ /\ dir[n].bits # "half" \/ Held(n)
              /\ dir' = Now("half")
              /\ IF Held(n) THEN NoFault /\ Fail(c) ELSE NoFault /\ UNCHANGED <<job, mode>>
           \/ /\ dir[n].bits = "half" /\ ~Held(n) /\ NoFault
              /\ dir' = Now("whole")
              /\ job' = [job EXCEPT ![c].pc = "smoke", ![c].bits = "whole", ![c].said = "no"]
              /\ UNCHANGED mode
    /\ UNCHANGED <<active, pin, archive, bundle, memory, ops, crashes>>

\* Mutant: the marker is moved before the verdict.
SmokedLate(c) ==
    /\ Idle /\ job[c].pc = "smoke"
    /\ LET n == job[c].at
       IN  \/ /\ NoFault
              /\ Finalize(c, n, [dir[n] EXCEPT !.said = "yes"])
              /\ job' = [job EXCEPT ![c].pc = "warm"] /\ UNCHANGED mode
           \/ /\ IF FALSE \in Answers(n) THEN NoFault ELSE Fault
              /\ Fail(c)
              /\ UNCHANGED <<dir, active, rejected>>
    /\ UNCHANGED <<pin, archive, bundle, child, feats, ops, crashes>>

\* The smoke test of the new build: a failed one is neither recorded nor made live.
Smoked(c) ==
    /\ Idle /\ job[c].pc = "smoke"
    /\ LET n == job[c].at
       IN  \/ /\ TRUE \in Answers(n) /\ NoFault
              /\ Finalize(c, n, [dir[n] EXCEPT !.said = job[c].said])
              /\ job' = [job EXCEPT ![c].pc = "warm"] /\ UNCHANGED mode
           \/ /\ IF FALSE \in Answers(n) THEN NoFault ELSE Fault
              /\ Fail(c)
              /\ UNCHANGED <<dir, active, rejected>>
    /\ UNCHANGED <<pin, archive, bundle, child, feats, ops, crashes>>

\* Mutant: the call stays in the lock it took.
WarmedInside(c) ==
    /\ Idle /\ job[c].pc = "warm"
    /\ job' = [job EXCEPT ![c].pc = "warmed"]
    /\ mode' = IF c = Boot THEN "up" ELSE mode
    /\ UNCHANGED <<store, pin, memory, counts>>

\* _warm_flag_cache(), and the call ends.
Warmed(c) ==
    /\ Idle /\ job[c].pc = "warm"
    /\ Fail(c)
    /\ UNCHANGED <<store, pin, memory, counts>>

-----------------------------------------------------------------------------
\* What the user asks

Op(c) == Idle /\ mode = "up" /\ job[c].pc = "none" /\ ops < MaxOps /\ ops' = ops + 1

Install(c, t) ==
    /\ Op(c)
    /\ \E force, activate \in BOOLEAN :
          job' = [job EXCEPT ![c] = [NoJob EXCEPT !.pc = "lock", !.tag = t, !.force = force, !.activate = activate]]
    /\ UNCHANGED <<store, pin, memory, mode, faults, crashes>>

\* POST /api/engine/activate: active.json now, the pin after the flag cache is warm.
Activate(c, n) ==
    /\ Op(c) /\ Has(n)
    /\ active' = n /\ rejected' = {}
    /\ job' = [job EXCEPT ![c] = [NoJob EXCEPT !.pc = "warm-pin", !.at = n]]
    /\ UNCHANGED <<dir, archive, bundle, pin, child, feats, mode, faults, crashes>>

Pinned(c) ==
    /\ Idle /\ job[c].pc = "warm-pin"
    /\ pin' = job[c].at
    /\ job' = [job EXCEPT ![c] = NoJob]
    /\ UNCHANGED <<store, memory, mode, counts>>

-----------------------------------------------------------------------------
\* Launches: Supervisor._spawn and the manager around it

\* Refused when a launch on the build it would use is remembered as rejected.
Load(m) ==
    /\ Idle /\ mode = "up" /\ child[m].pc = "none"
    /\ \E n \in Resolved(m) : <<m, n>> \notin rejected
    /\ child' = [child EXCEPT ![m] = [NoChild EXCEPT !.pc = "probe", !.feats = feats[Key(m)]]]
    /\ UNCHANGED <<store, pin, job, feats, rejected, mode, counts>>

\* features_for(): memoised under the request, read in a thread if it is the first.
FeaturesRead(m) ==
    /\ Idle /\ child[m].pc = "probe" /\ child[m].feats = None
    /\ \E n \in Resolved(m) :
          /\ feats' = [feats EXCEPT ![Key(m)] = n]
          /\ child' = [child EXCEPT ![m].feats = n]
    /\ UNCHANGED <<store, pin, job, rejected, mode, counts>>

\* The build is resolved, and the child started on it with those features.
Spawned(m) ==
    /\ Idle /\ child[m].pc = "probe"
    /\ IF Resolved(m) = {} THEN child' = [child EXCEPT ![m] = NoChild]
       ELSE /\ child[m].feats # None
            /\ \E n \in Resolved(m) : child' = [child EXCEPT ![m].pc = "starting", ![m].name = n]
    /\ UNCHANGED <<store, pin, job, feats, rejected, mode, counts>>

Ready(m) ==
    /\ Idle /\ child[m].pc = "starting"
    /\ child' = [child EXCEPT ![m].pc = "ready"]
    /\ UNCHANGED <<store, pin, job, feats, rejected, mode, counts>>

\* "unknown model architecture": remembered against the build a launch would use now.
Rejected(m) ==
    /\ Idle /\ child[m].pc = "starting" /\ Fault
    /\ \E n \in Resolved(m) \cup (IF Resolved(m) = {} THEN {child[m].name} ELSE {}) :
          rejected' = rejected \cup {<<m, n>>}
    /\ child' = [child EXCEPT ![m] = NoChild]
    /\ UNCHANGED <<store, pin, job, feats, mode, ops, crashes>>

Unload(m) ==
    /\ Idle /\ child[m].pc = "ready"
    /\ child' = [child EXCEPT ![m] = NoChild]
    /\ UNCHANGED <<store, pin, job, feats, rejected, mode, counts>>

-----------------------------------------------------------------------------
\* The process

\* A crash at any point; the children die with the process.
Crash ==
    /\ mode # "down" /\ crashes < MaxCrashes /\ crashes' = crashes + 1
    /\ mode' = "down"
    /\ job' = [c \in Workers |-> NoJob] /\ bundle' = {}
    /\ child' = [m \in Models |-> NoChild]
    /\ feats' = [k \in Names \cup {None} |-> None] /\ rejected' = {}
    /\ UNCHANGED <<dir, active, pin, archive, ops, faults>>

\* ensure_engine(): the pinned build, or its local one, if it answers; its micro-load
\* only warns.  Else the pin is installed, or built if the release has
\* nothing for this box or cannot be looked up, and made live.
Start ==
    /\ mode = "down"
    /\ LET Begin(pc) == [NoJob EXCEPT !.pc = pc, !.tag = pin, !.activate = TRUE]
           tries == {pin} \cup (IF pin \in Tags THEN {LocalOf[pin]} ELSE {})
       IN  \/ \E n \in tries :
                 /\ Has(n) /\ TRUE \in Answers(n)
                 /\ n # pin => ~Has(pin) \/ FALSE \in Answers(pin)
                 /\ active' = n
                 /\ mode' = "up" /\ UNCHANGED job /\ NoFault
           \/ /\ \A n \in tries : Has(n) => FALSE \in Answers(n)
              /\ \/ /\ pin \in Prebuilt /\ NoFault
                    /\ mode' = "boot" /\ job' = [job EXCEPT ![Boot] = Begin("lock")]
                 \/ /\ pin \in Tags /\ IF pin \in Prebuilt THEN Fault ELSE NoFault
                    /\ mode' = "boot" /\ job' = [job EXCEPT ![Boot] = [Begin("build") EXCEPT !.at = LocalOf[pin]]]
                 \/ pin \notin Tags /\ mode' = "up" /\ UNCHANGED job /\ NoFault
              /\ UNCHANGED active
    /\ UNCHANGED <<dir, pin, archive, bundle, memory, ops, crashes>>

Init ==
    /\ dir = [n \in Names |-> NoDir] /\ active = None /\ pin \in Tags
    /\ archive = [t \in Tags |-> "none"] /\ bundle = {}
    /\ job = [c \in Workers |-> NoJob]
    /\ child = [m \in Models |-> NoChild] /\ feats = [k \in Names \cup {None} |-> None]
    /\ rejected = {}
    /\ mode = "down" /\ ops = 0 /\ faults = 0 /\ crashes = 0

Work(c) ==
    \/ LockTaken(c) \/ Probed(c) \/ Listed(c) \/ Downloaded(c) \/ BundleDone(c) \/ MoveAside(c)
    \/ MoveIn(c) \/ Built(c) \/ Copy(c) \/ Smoked(c) \/ Warmed(c) \/ Pinned(c)

Next ==
    \/ \E c \in Workers : Work(c)
    \/ \E c \in Callers : \/ \E t \in Tags : Install(c, t)
                          \/ \E n \in Names : Activate(c, n)
    \/ \E m \in Models : Load(m) \/ FeaturesRead(m) \/ Spawned(m) \/ Ready(m) \/ Rejected(m) \/ Unload(m)
    \/ Crash \/ Start

Spec == Init /\ [][Next]_vars

\* Downloads, compilations and micro-loads end, by their time limits if not before.
FairSpec == Spec /\ (\A c \in Workers : WF_vars(Work(c))) /\ WF_vars(Start)

-----------------------------------------------------------------------------
\* Properties

\* A call works on a tag, and what it holds aside is not in its place.
TypeOK ==
    /\ dir \in [Names -> [bits : {"none", "whole", "other", "half"}, said : {"unknown", "yes", "no"}]]
    /\ active \in Names \cup {None} /\ pin \in Names
    /\ archive \in [Tags -> {"none", "whole", "other"}]
    /\ bundle = {} \/ \A c \in bundle : job[c].pc = "bundle" /\ job[c].tag \in Bundled
    /\ \A c \in Workers : job[c].pc = "aside" => ~Has(job[c].tag)
    /\ \A m \in Models : child[m].pc \in {"none", "probe", "starting", "ready"}
    /\ DOMAIN feats = Names \cup {None}
    /\ rejected \subseteq Models \X Names
    /\ mode \in {"down", "boot", "up"}

\* The directory of a release with a published checksum goes from nothing to that
\* release in one step and back, whatever is downloaded, interrupted or crashes.
Library == INSTANCE AbstractLibrary WITH
    Places <- Checked,
    shelf <- [n \in Checked |-> IF dir[n].bits = "none" THEN "empty"
                               ELSE IF dir[n].bits = "whole" THEN "whole" ELSE "other"]

BuildsAppearWhole == Library!Spec

\* "verified" in engine.json, shown to the user, is said of the published bits only,
\* and never of a build there was no checksum for.
VerifiedIsGenuine ==
    \A n \in Names : dir[n].said = "yes" => dir[n].bits = "whole" /\ n \in Checked

\* What is on the disk is what the store says of it.
StoreTrue == TypeOK /\ VerifiedIsGenuine

\* A good build, which children may run and the next boot may start, is there or set
\* aside for the length of two renames; nothing but a crash between them loses it.
Stands(n) ==
    \/ dir[n].bits = "whole"
    \/ \E c \in Workers : job[c].pc = "aside" /\ job[c].tag = n /\ job[c].old.bits = "whole"

BuildStays ==
    [][mode' # "down" => \A n \in Checked \cup (Names \ Tags) : Stands(n) => Stands(n)']_vars

\* Installs and activations end, those that wait for another one's lock or write the same
\* bundle included, and the server comes up, with an engine or without: no failed download,
\* build or micro-load keeps a boot from ending.  Calls and crashes being bounded, there is
\* again and again a moment when all of it is over.
WorkEnds == []<>(mode = "up" /\ \A c \in Callers : job[c].pc = "none")

-----------------------------------------------------------------------------
\* Properties the code does not keep

\* A child is given the flags of the build it runs (supervisor.py:29).
FeaturesMatch ==
    \A m \in Models : child[m].pc \in {"starting", "ready"} => child[m].feats = child[m].name

\* A build is held against a model that a launch of it died on (manager.py:1074).
RejectedWasTried == [][\A r \in rejected' \ rejected : child[r[1]].name = r[2]]_vars

\* A restart keeps the live build (engine.py:2812).
BootKeepsLive == [][mode = "down" /\ active # None /\ Has(active) => active' = active]_vars

\* The files of a build do not change under a child (engine.py:3115).
HeldUntouched ==
    [][\A n \in Names : Held(n) /\ Held(n)' => dir'[n].bits = dir[n].bits]_vars

=============================================================================
