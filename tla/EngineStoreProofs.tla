-------------------------- MODULE EngineStoreProofs --------------------------
(***************************************************************************)
(* Proofs about the builds under engines/, for any releases, directories,  *)
(* models, callers, failures and crashes: what engine.json says is true, a *)
(* published release appears whole or not at all, and a good build stays.  *)
(* All rest on StoreInv: the lock of a tag keeps the calls apart, and what *)
(* each call carries from one step to the next is still so.                *)
(***************************************************************************)
EXTENDS EngineStore, TLAPS

Pcs == {"none", "lock", "probe", "list", "download", "bundle", "swap", "aside", "build",
        "copy", "smoke", "warm", "warm-pin"}

Build == [bits : {"none", "whole", "other", "half"}, said : {"unknown", "yes", "no"}]

Job == [pc : Pcs, tag : Names \cup {None}, at : Names \cup {None}, force : BOOLEAN,
        activate : BOOLEAN, bits : {"none", "whole", "other"}, said : {"unknown", "yes", "no"},
        old : Build]

Child == [pc : {"none", "probe"}, name : Names \cup {None}, feats : Names \cup {None}]
    \cup [pc : {"starting", "ready"}, name : Names, feats : Names \cup {None}]

Typed ==
    /\ dir \in [Names -> Build]
    /\ active \in Names \cup {None} /\ pin \in Names
    /\ archive \in [Tags -> {"none", "whole", "other"}]
    /\ job \in [Workers -> Job]
    /\ child \in [Models -> Child]
    /\ feats \in [Names \cup {None} -> Names \cup {None}]
    /\ rejected \subseteq Models \X Names
    /\ mode \in {"down", "boot", "up"}

\* What a build, in its place or aside, may say of itself at n.
Honest(n, build) ==
    /\ build.said = "yes" => build.bits = "whole" /\ n \in Checked
    /\ n \in Checked => build.bits \in {"none", "whole"}

\* What a call carries is so, at each of its awaits.
Carried(j, engines) ==
    /\ j.pc \notin {"none", "warm-pin"} => j.tag \in Tags
    /\ j.pc \in {"probe", "smoke", "warm-pin"} => j.at \in Names
    /\ j.pc \in {"build", "copy"} => j.at = LocalOf[j.tag]
    /\ j.pc \in {"download", "bundle", "swap", "aside"} => j.tag \in Prebuilt
    /\ j.pc = "bundle" => j.tag \in Bundled
    /\ j.pc \in {"bundle", "swap", "aside"} =>
          Honest(j.tag, [bits |-> j.bits, said |-> j.said]) /\ j.bits # "none"
    /\ j.pc = "aside" => Honest(j.tag, j.old) /\ engines[j.tag].bits = "none"
    /\ j.pc = "smoke" =>
          /\ j.at \in {j.tag, LocalOf[j.tag]}
          /\ j.said = "yes" => engines[j.at].bits = "whole" /\ j.at \in Checked

\* The lock of a tag: one call at a time is past it.
TagsApart ==
    \A c, d \in Workers : Inside(c) /\ Inside(d) /\ c # d => job[c].tag # job[d].tag

StoreInv ==
    /\ Typed
    /\ TagsApart
    /\ \A n \in Names : Honest(n, dir[n])
    /\ \A c \in Workers : Carried(job[c], dir)
    /\ \A c \in bundle : c \in Workers /\ job[c].pc = "bundle"
    /\ mode = "down" => job = [c \in Workers |-> NoJob]

-----------------------------------------------------------------------------
\* StoreInv is inductive.

LEMMA Blank == NoDir \in Build /\ NoJob \in Job /\ NoChild \in Child /\ NoJob.pc = "none"
BY DEF NoDir, NoJob, NoChild, Build, Job, Child, Pcs

\* A step of one call: it may write the directory of its tag, or of its local build,
\* if it is past the lock, and the other calls find what they carry as it was.
LEMMA CallStep ==
    ASSUME StoreInv, NEW c \in Workers, NEW j \in Job, NEW n \in Names, NEW r \in Build,
           job' = [job EXCEPT ![c] = j], dir' = [dir EXCEPT ![n] = r],
           \/ r.bits = dir[n].bits
           \/ Inside(c) /\ n \in {job[c].tag, LocalOf[job[c].tag]},
           Honest(n, r), Carried(j, dir'),
           \/ j.pc \in {"none", "lock", "warm-pin"}
           \/ /\ j.tag = job[c].tag
              /\ Inside(c) \/ \A d \in Workers \ {c} : Inside(d) => job[d].tag # j.tag,
           \A d \in bundle' : d \in bundle \cup {c}, c \in bundle' => j.pc = "bundle",
           mode' \in {"boot", "up"}, active' \in Names \cup {None}, pin' \in Names,
           archive' \in [Tags -> {"none", "whole", "other"}], child' \in [Models -> Child],
           feats' \in [Names \cup {None} -> Names \cup {None}],
           rejected' \subseteq Models \X Names
    PROVE  StoreInv'
<1>1. Typed'
  BY DEF StoreInv, Typed
<1>2. job'[c] = j /\ \A d \in Workers \ {c} : job'[d] = job[d]
  BY DEF StoreInv, Typed
<1>3. dir'[n] = r /\ \A k \in Names \ {n} : dir'[k] = dir[k]
  BY DEF StoreInv, Typed
<1>4. TagsApart'
  BY <1>2 DEF StoreInv, TagsApart, Inside
<1>5. \A k \in Names : Honest(k, dir'[k])
  BY <1>3 DEF StoreInv
<1>6. ASSUME NEW d \in Workers \ {c} PROVE Carried(job[d], dir')
  <2>1. Carried(job[d], dir)
    BY DEF StoreInv
  <2>2. ASSUME job[d].tag \in Tags, Inside(d)
        PROVE  dir'[job[d].tag].bits = dir[job[d].tag].bits
    <3>1. CASE r.bits = dir[n].bits
      BY <1>3, <2>2, <3>1, EngineAssumption
    <3>2. CASE Inside(c) /\ n \in {job[c].tag, LocalOf[job[c].tag]}
      <4>1. job[c].pc \notin {"none", "warm-pin"} => job[c].tag \in Tags
        BY DEF StoreInv, Carried
      <4>2. job[c].tag \in Tags /\ job[c].tag # job[d].tag
        BY <2>2, <3>2, <4>1 DEF StoreInv, TagsApart, Inside
      <4>3. job[d].tag # n
        BY <2>2, <3>2, <4>2, EngineAssumption
      <4> QED BY <1>3, <2>2, <4>3, EngineAssumption
    <3> QED BY <3>1, <3>2
  <2>3. CASE job[d].pc = "aside"
    BY <2>1, <2>2, <2>3 DEF Carried, Inside
  <2>4. CASE job[d].pc = "smoke"
    <3>1. job[d].tag \in Tags /\ job[d].at \in {job[d].tag, LocalOf[job[d].tag]}
      BY <2>1, <2>4 DEF Carried
    <3>2. job[d].at \in Checked => job[d].at = job[d].tag
      BY <3>1, EngineAssumption
    <3> QED BY <2>1, <2>2, <2>4, <3>1, <3>2 DEF Carried, Inside
  <2>5. CASE job[d].pc \notin {"aside", "smoke"}
    BY <2>1, <2>5 DEF Carried
  <2> QED BY <2>3, <2>4, <2>5
<1>7. \A d \in Workers : Carried(job'[d], dir')
  BY <1>2, <1>6
<1>8. \A d \in bundle' : d \in Workers /\ job'[d].pc = "bundle"
  BY <1>2 DEF StoreInv
<1>9. mode' # "down"
  OBVIOUS
<1> QED BY <1>1, <1>4, <1>5, <1>7, <1>8, <1>9 DEF StoreInv

\* A step of a launch leaves the store and the calls alone.
LEMMA LaunchStep ==
    ASSUME StoreInv, NEW m \in Models,
           Load(m) \/ FeaturesRead(m) \/ Spawned(m) \/ Ready(m) \/ Rejected(m) \/ Unload(m)
    PROVE  StoreInv' /\ UNCHANGED <<store, job, mode>>
<1>1. UNCHANGED <<store, pin, job, mode>>
  BY DEF Load, FeaturesRead, Spawned, Ready, Rejected, Unload, store
<1>2. Live \subseteq Names /\ Resolved(m) \subseteq Names /\ Key(m) \in Names \cup {None}
  BY EngineAssumption DEF StoreInv, Typed, Live, Resolved, Key
<1>3. ASSUME NEW rec \in Child PROVE [child EXCEPT ![m] = rec] \in [Models -> Child]
  BY DEF StoreInv, Typed
<1>4. child[m] \in Child /\ (child[m].pc = "starting" => child[m].name \in Names)
  BY DEF StoreInv, Typed, Child
<1>5. /\ child' \in [Models -> Child] /\ rejected' \subseteq Models \X Names
      /\ feats' \in [Names \cup {None} -> Names \cup {None}]
  <2>0. /\ child \in [Models -> Child] /\ rejected \subseteq Models \X Names
        /\ feats \in [Names \cup {None} -> Names \cup {None}]
    BY DEF StoreInv, Typed
  <2>1. CASE Load(m)
    <3>1. [NoChild EXCEPT !.pc = "probe", !.feats = feats[Key(m)]] \in Child
      BY <1>2, <2>0 DEF NoChild, Child
    <3> QED BY <1>3, <2>0, <2>1, <3>1 DEF Load
  <2>2. CASE FeaturesRead(m)
    <3>1. PICK n \in Resolved(m) : feats' = [feats EXCEPT ![Key(m)] = n] /\ child' = [child EXCEPT ![m].feats = n]
      BY <2>2 DEF FeaturesRead
    <3>2. [child[m] EXCEPT !.feats = n] \in Child
      BY <1>2, <1>4 DEF Child
    <3> QED BY <1>2, <1>3, <2>0, <2>2, <3>1, <3>2 DEF FeaturesRead
  <2>3. CASE Spawned(m)
    <3>1. CASE child' = [child EXCEPT ![m] = NoChild]
      BY <1>3, <2>0, <2>3, <3>1, Blank DEF Spawned
    <3>2. CASE \E n \in Resolved(m) : child' = [child EXCEPT ![m].pc = "starting", ![m].name = n]
      <4>1. PICK n \in Resolved(m) : child' = [child EXCEPT ![m] = [child[m] EXCEPT !.pc = "starting", !.name = n]]
        BY <2>0, <3>2
      <4>2. [child[m] EXCEPT !.pc = "starting", !.name = n] \in Child
        BY <1>2, <1>4 DEF Child
      <4> QED BY <1>3, <2>0, <2>3, <4>1, <4>2 DEF Spawned
    <3> QED BY <2>3, <3>1, <3>2 DEF Spawned
  <2>4. CASE Ready(m)
    <3>1. [child[m] EXCEPT !.pc = "ready"] \in Child
      BY <1>4, <2>4 DEF Child, Ready
    <3> QED BY <1>3, <2>0, <2>4, <3>1 DEF Ready
  <2>5. CASE Rejected(m)
    BY <1>2, <1>3, <1>4, <2>0, <2>5, Blank DEF Rejected
  <2>6. CASE Unload(m)
    BY <1>3, <2>0, <2>6, Blank DEF Unload
  <2> QED BY <2>1, <2>2, <2>3, <2>4, <2>5, <2>6
<1>6. Typed'
  BY <1>1, <1>5 DEF StoreInv, Typed, store
<1> QED BY <1>1, <1>6 DEF StoreInv, TagsApart, Inside, Honest, Carried, store

\* What a call under way may rely on.
LEMMA CallFacts ==
    ASSUME StoreInv, NEW c \in Workers, job[c].pc # "none"
    PROVE  /\ job[c] \in Job /\ Carried(job[c], dir) /\ Workers = DOMAIN job
           /\ mode \in {"boot", "up"} /\ NoJob \in Job
           /\ c \in bundle => job[c].pc = "bundle"
           /\ dir \in [Names -> Build] /\ job \in [Workers -> Job]
<1>1. mode # "down"
  BY Blank DEF StoreInv
<1> QED BY <1>1, Blank DEF StoreInv, Typed

\* A step of one call that leaves the directories alone.
LEMMA CallStays ==
    ASSUME StoreInv, NEW c \in Workers, NEW j \in Job,
           job' = [job EXCEPT ![c] = j], UNCHANGED dir, Carried(j, dir),
           \/ j.pc \in {"none", "lock", "warm-pin"}
           \/ /\ j.tag = job[c].tag
              /\ Inside(c) \/ \A d \in Workers \ {c} : Inside(d) => job[d].tag # j.tag,
           \A d \in bundle' : d \in bundle \cup {c}, c \in bundle' => j.pc = "bundle",
           mode' \in {"boot", "up"}, active' \in Names \cup {None}, pin' \in Names,
           archive' \in [Tags -> {"none", "whole", "other"}], UNCHANGED <<child, feats>>,
           rejected' \subseteq Models \X Names
    PROVE  StoreInv'
<1>1. dir' = [dir EXCEPT ![pin] = dir[pin]] /\ dir[pin] \in Build /\ Honest(pin, dir[pin]) /\ pin \in Names
  BY DEF StoreInv, Typed
<1>2. child' \in [Models -> Child] /\ feats' \in [Names \cup {None} -> Names \cup {None}]
  BY DEF StoreInv, Typed
<1> DEFINE r == dir[pin]
<1>3. r.bits = dir[pin].bits /\ dir' = [dir EXCEPT ![pin] = r] /\ r \in Build /\ Honest(pin, r)
  BY <1>1
<1>4. Carried(j, dir')
  OBVIOUS
<1> HIDE DEF r
<1> QED BY <1>1, <1>2, <1>3, <1>4, CallStep

\* A call that fails has written nothing.
LEMMA FailStep ==
    ASSUME StoreInv, NEW c \in Workers, job[c].pc # "none", Fail(c), UNCHANGED <<dir, pin, child, feats>>,
           \A d \in bundle' : d \in bundle /\ d # c, active' \in Names \cup {None},
           archive' \in [Tags -> {"none", "whole", "other"}], rejected' \subseteq Models \X Names
    PROVE  StoreInv'
<1>1. mode' \in {"boot", "up"} /\ pin' \in Names
  BY CallFacts DEF Fail, StoreInv, Typed
<1>2. Carried(NoJob, dir)
  BY DEF Carried, NoJob
<1> QED BY <1>1, <1>2, Blank, CallStays DEF Fail

LEMMA GoStep ==
    ASSUME StoreInv, NEW c \in Workers, job[c].pc \in {"lock", "probe"}, Go(c),
           UNCHANGED <<store, pin, memory>>,
           \A d \in Workers \ {c} : Inside(d) => job[d].tag # job[c].tag
    PROVE  StoreInv'
<1>1. /\ active \in Names \cup {None} /\ archive \in [Tags -> {"none", "whole", "other"}]
      /\ rejected \subseteq Models \X Names /\ c \notin bundle /\ pin \in Names
  BY DEF StoreInv, Typed
<1>2. CASE Fail(c)
  BY <1>1, <1>2, FailStep DEF store, memory
<1>3. CASE job' = [job EXCEPT ![c].pc = "list"] /\ UNCHANGED mode
  <2> DEFINE j == [job[c] EXCEPT !.pc = "list"]
  <2>1. j \in Job /\ job' = [job EXCEPT ![c] = j] /\ j.pc = "list" /\ j.tag = job[c].tag
    BY <1>3, CallFacts DEF Job, Pcs
  <2>2. Carried(j, dir)
    BY <2>1, CallFacts DEF Carried
  <2> QED BY <1>1, <1>3, <2>1, <2>2, CallFacts, CallStays DEF store, memory
<1> QED BY <1>2, <1>3 DEF Go

LEMMA LockStep == ASSUME StoreInv, NEW c \in Workers, LockTaken(c) PROVE StoreInv'
<1>1. /\ active \in Names \cup {None} /\ archive \in [Tags -> {"none", "whole", "other"}]
      /\ rejected \subseteq Models \X Names /\ c \notin bundle /\ pin \in Names /\ job[c].pc = "lock"
      /\ \A d \in Workers \ {c} : Inside(d) => job[d].tag # job[c].tag
      /\ UNCHANGED <<store, pin, memory>>
  BY DEF StoreInv, Typed, LockTaken
<1>2. CASE Go(c)
  BY <1>1, <1>2, GoStep
<1>3. CASE /\ job' = [job EXCEPT ![c].pc = "probe", ![c].at = Reusable(c)] /\ UNCHANGED mode
           /\ Reusable(c) # None
  <2> DEFINE j == [job[c] EXCEPT !.pc = "probe", !.at = Reusable(c)]
  <2>1. job[c].tag \in Tags
    BY <1>1, CallFacts DEF Carried
  <2>2. Reusable(c) \in Names
    BY <1>3, <2>1, EngineAssumption DEF Reusable
  <2>3. /\ j \in Job /\ job' = [job EXCEPT ![c] = j] /\ j.pc = "probe" /\ j.tag = job[c].tag
        /\ j.at \in Names
    BY <1>1, <1>3, <2>2, CallFacts DEF Job, Pcs
  <2>4. Carried(j, dir)
    BY <2>1, <2>3 DEF Carried
  <2> HIDE DEF j
  <2>5. mode' \in {"boot", "up"} /\ \A d \in Workers \ {c} : Inside(d) => job[d].tag # j.tag
    BY <1>1, <1>3, <2>3, CallFacts
  <2> QED BY <1>1, <1>3, <2>3, <2>4, <2>5, CallStays DEF store, memory
<1> QED BY <1>2, <1>3 DEF LockTaken

LEMMA ProbeStep == ASSUME StoreInv, NEW c \in Workers, Probed(c) PROVE StoreInv'
<1>1. /\ archive' \in [Tags -> {"none", "whole", "other"}] /\ UNCHANGED <<pin, archive, bundle, child, feats>>
      /\ active \in Names \cup {None} /\ rejected \subseteq Models \X Names
      /\ c \notin bundle /\ pin \in Names /\ job[c].pc = "probe" /\ job[c].at \in Names
  BY CallFacts DEF StoreInv, Typed, Probed, Carried
<1>2. CASE /\ Finalize(c, job[c].at, dir[job[c].at]) /\ job' = [job EXCEPT ![c] = NoJob]
           /\ mode' = IF c = Boot THEN "up" ELSE mode
  <2>1. UNCHANGED dir /\ active' \in Names \cup {None} /\ rejected' \subseteq Models \X Names
    BY <1>1, <1>2, CallFacts DEF Finalize
  <2> QED BY <1>1, <1>2, <2>1, FailStep DEF Fail
<1>3. CASE Go(c) /\ UNCHANGED <<dir, active, rejected>>
  <2>1. Inside(c) /\ \A d \in Workers \ {c} : Inside(d) => job[d].tag # job[c].tag
    BY <1>1 DEF Inside, StoreInv, TagsApart
  <2> QED BY <1>1, <1>3, <2>1, GoStep DEF store, memory
<1> QED BY <1>2, <1>3 DEF Probed

LEMMA ListStep == ASSUME StoreInv, NEW c \in Workers, Listed(c) PROVE StoreInv'
<1>1. /\ active \in Names \cup {None} /\ archive \in [Tags -> {"none", "whole", "other"}]
      /\ rejected \subseteq Models \X Names /\ c \notin bundle /\ pin \in Names /\ job[c].pc = "list"
      /\ UNCHANGED <<store, pin, memory>> /\ Inside(c)
  BY DEF StoreInv, Typed, Listed, Inside
<1>2. CASE Fail(c)
  BY <1>1, <1>2, FailStep DEF store, memory
<1>3. ASSUME NEW j \in Job, job' = [job EXCEPT ![c] = j], UNCHANGED mode, j.tag = job[c].tag,
             Carried(j, dir)
      PROVE  StoreInv'
  BY <1>1, <1>3, CallFacts, CallStays DEF store, memory
<1>4. CASE job[c].tag \in Prebuilt /\ job' = [job EXCEPT ![c].pc = "download"] /\ UNCHANGED mode
  <2> DEFINE j == [job[c] EXCEPT !.pc = "download"]
  <2>1. j \in Job /\ job' = [job EXCEPT ![c] = j] /\ j.pc = "download" /\ j.tag = job[c].tag
    BY <1>1, <1>4, CallFacts DEF Job, Pcs
  <2>2. Carried(j, dir)
    BY <1>4, <2>1, EngineAssumption DEF Carried
  <2> QED BY <1>3, <1>4, <2>1, <2>2
<1>5. CASE /\ job[c].tag \in Tags
           /\ job' = [job EXCEPT ![c].pc = "build", ![c].at = LocalOf[job[c].tag]] /\ UNCHANGED mode
  <2> DEFINE j == [job[c] EXCEPT !.pc = "build", !.at = LocalOf[job[c].tag]]
  <2>1. LocalOf[job[c].tag] \in Names
    BY <1>5, EngineAssumption
  <2>2. /\ j \in Job /\ job' = [job EXCEPT ![c] = j] /\ j.pc = "build" /\ j.tag = job[c].tag
        /\ j.at = LocalOf[job[c].tag]
    BY <1>1, <1>5, <2>1, CallFacts DEF Job, Pcs
  <2>3. Carried(j, dir)
    BY <1>5, <2>2 DEF Carried
  <2> QED BY <1>3, <1>5, <2>2, <2>3
<1> QED BY <1>2, <1>4, <1>5 DEF Listed

LEMMA DownloadStep == ASSUME StoreInv, NEW c \in Workers, Downloaded(c) PROVE StoreInv'
<1> DEFINE t == job[c].tag
<1>1. /\ active' \in Names \cup {None} /\ archive \in [Tags -> {"none", "whole", "other"}]
      /\ rejected' \subseteq Models \X Names /\ c \notin bundle /\ pin' \in Names
      /\ job[c].pc = "download" /\ t \in Prebuilt /\ t \in Tags /\ Inside(c)
      /\ UNCHANGED <<dir, pin, child, feats>>
  BY CallFacts DEF StoreInv, Typed, Downloaded, Inside, Carried, memory
<1>2. CASE Fail(c) /\ archive' = [archive EXCEPT ![t] = "none"]
  <2>1. job'[c].pc = "none"
    BY <1>1, <1>2, CallFacts, Blank DEF Fail
  <2>2. bundle' = bundle /\ archive' \in [Tags -> {"none", "whole", "other"}]
    BY <1>1, <1>2, <2>1 DEF Downloaded
  <2> QED BY <1>1, <1>2, <2>2, FailStep
<1>3. ASSUME NEW b \in {"whole", "other"}, t \in Checked => b = "whole",
             archive' = [archive EXCEPT ![t] = b], UNCHANGED mode,
             job' = [job EXCEPT ![c].pc = IF t \in Bundled THEN "bundle" ELSE "swap", ![c].bits = b,
                                ![c].said = IF t \in Checked THEN "yes" ELSE "no"]
      PROVE  StoreInv'
  <2> DEFINE j == [job[c] EXCEPT !.pc = IF t \in Bundled THEN "bundle" ELSE "swap", !.bits = b,
                                 !.said = IF t \in Checked THEN "yes" ELSE "no"]
  <2>0. job[c] \in Job
    BY <1>1, CallFacts
  <2>1. /\ j \in Job /\ j.tag = t /\ j.bits = b
        /\ j.pc = (IF t \in Bundled THEN "bundle" ELSE "swap")
        /\ j.said = IF t \in Checked THEN "yes" ELSE "no"
    BY <2>0 DEF Job, Pcs
  <2>6. job' = [job EXCEPT ![c] = j]
    BY <1>1, <1>3, CallFacts
  <2> HIDE DEF j
  <2>2. Carried(j, dir)
    BY <1>1, <1>3, <2>1 DEF Carried, Honest
  <2>3. job'[c] = j
    BY <1>1, <2>6, CallFacts
  <2>4. bundle' = IF j.pc = "bundle" THEN bundle \cup {c} ELSE bundle
    BY <2>3 DEF Downloaded
  <2>5. archive' \in [Tags -> {"none", "whole", "other"}] /\ mode' \in {"boot", "up"}
    BY <1>1, <1>3, CallFacts
  <2> QED BY <1>1, <2>1, <2>2, <2>4, <2>5, <2>6, CallStays
<1>4. \A b \in IF archive[t] # "none" THEN {archive[t]} ELSE {"whole", "other"} : b \in {"whole", "other"}
  BY <1>1
<1> QED BY <1>1, <1>2, <1>3, <1>4 DEF Downloaded

LEMMA BundleStep == ASSUME StoreInv, NEW c \in Workers, BundleDone(c) PROVE StoreInv'
<1>1. /\ active' \in Names \cup {None} /\ archive' \in [Tags -> {"none", "whole", "other"}]
      /\ rejected' \subseteq Models \X Names /\ pin' \in Names /\ job[c].pc = "bundle"
      /\ UNCHANGED <<dir, pin, child, feats>> /\ Inside(c)
      /\ \A d \in bundle' : d \in bundle /\ d # c
  BY DEF StoreInv, Typed, BundleDone, Inside, memory
<1>2. CASE Fail(c)
  BY <1>1, <1>2, FailStep
<1>3. CASE job' = [job EXCEPT ![c].pc = "swap"] /\ UNCHANGED mode
  <2> DEFINE j == [job[c] EXCEPT !.pc = "swap"]
  <2>1. /\ j \in Job /\ job' = [job EXCEPT ![c] = j] /\ j.pc = "swap" /\ j.tag = job[c].tag
        /\ j.bits = job[c].bits /\ j.said = job[c].said
    BY <1>1, <1>3, CallFacts DEF Job, Pcs
  <2> HIDE DEF j
  <2>2. Carried(j, dir)
    BY <1>1, <2>1, CallFacts DEF Carried
  <2> QED BY <1>1, <1>3, <2>1, <2>2, CallFacts, CallStays
<1> QED BY <1>2, <1>3 DEF BundleDone

LEMMA AsideStep == ASSUME StoreInv, NEW c \in Workers, MoveAside(c) PROVE StoreInv'
<1> DEFINE t == job[c].tag
<1>1. /\ active' \in Names \cup {None} /\ archive' \in [Tags -> {"none", "whole", "other"}]
      /\ rejected' \subseteq Models \X Names /\ pin' \in Names /\ job[c].pc = "swap" /\ Inside(c)
      /\ UNCHANGED <<pin, child, feats, bundle>> /\ c \notin bundle /\ t \in Tags /\ t \in Names
      /\ dir \in [Names -> Build] /\ child' \in [Models -> Child]
      /\ feats' \in [Names \cup {None} -> Names \cup {None}]
  BY CallFacts, EngineAssumption DEF StoreInv, Typed, MoveAside, Inside, Carried, memory
<1>2. CASE Fail(c) /\ UNCHANGED dir
  BY <1>1, <1>2, FailStep
<1>3. CASE /\ dir' = [dir EXCEPT ![t] = NoDir] /\ UNCHANGED mode
           /\ job' = [job EXCEPT ![c].pc = "aside", ![c].old = dir[t]]
  <2> DEFINE j == [job[c] EXCEPT !.pc = "aside", !.old = dir[t]]
  <2>1. /\ j \in Job /\ job' = [job EXCEPT ![c] = j] /\ j.pc = "aside" /\ j.tag = t
        /\ j.bits = job[c].bits /\ j.said = job[c].said /\ j.old = dir[t]
    BY <1>1, <1>3, CallFacts DEF Job, Pcs
  <2> HIDE DEF j
  <2>2. NoDir \in Build /\ Honest(t, NoDir) /\ dir'[t] = NoDir /\ NoDir.bits = "none"
    BY <1>1, <1>3 DEF NoDir, Build, Honest
  <2>3. Carried(j, dir')
    BY <1>1, <2>1, <2>2, CallFacts DEF Carried, StoreInv
  <2>4. mode' \in {"boot", "up"}
    BY <1>1, <1>3, CallFacts
  <2> QED BY <1>1, <1>3, <2>1, <2>2, <2>3, <2>4, CallStep
<1> QED BY <1>2, <1>3 DEF MoveAside

LEMMA InStep == ASSUME StoreInv, NEW c \in Workers, MoveIn(c) PROVE StoreInv'
<1> DEFINE t == job[c].tag
<1>1. /\ active' \in Names \cup {None} /\ archive' \in [Tags -> {"none", "whole", "other"}]
      /\ rejected' \subseteq Models \X Names /\ pin' \in Names /\ job[c].pc = "aside" /\ Inside(c)
      /\ UNCHANGED <<pin, child, feats, bundle>> /\ c \notin bundle /\ t \in Tags /\ t \in Names
      /\ dir \in [Names -> Build] /\ child' \in [Models -> Child]
      /\ feats' \in [Names \cup {None} -> Names \cup {None}]
  BY CallFacts, EngineAssumption DEF StoreInv, Typed, MoveIn, Inside, Carried, memory
<1>2. CASE dir' = [dir EXCEPT ![t] = job[c].old] /\ Fail(c)
  <2>1. job[c].old \in Build /\ Honest(t, job[c].old)
    BY <1>1, CallFacts DEF Job, Carried
  <2>2. Carried(NoJob, dir') /\ mode' \in {"boot", "up"}
    BY <1>1, <1>2, CallFacts DEF Carried, NoJob, Fail
  <2> QED BY <1>1, <1>2, <2>1, <2>2, Blank, CallStep DEF Fail
<1>3. CASE /\ dir' = [dir EXCEPT ![t] = [NoDir EXCEPT !.bits = job[c].bits]] /\ UNCHANGED mode
           /\ job' = [job EXCEPT ![c].pc = "smoke", ![c].at = t, ![c].old = NoDir]
  <2> DEFINE j == [job[c] EXCEPT !.pc = "smoke", !.at = t, !.old = NoDir]
             r == [NoDir EXCEPT !.bits = job[c].bits]
  <2>1. /\ j \in Job /\ job' = [job EXCEPT ![c] = j] /\ j.pc = "smoke" /\ j.tag = t /\ j.at = t
        /\ j.bits = job[c].bits /\ j.said = job[c].said
    BY <1>1, <1>3, CallFacts, Blank DEF Job, Pcs
  <2> HIDE DEF j
  <2>2. r \in Build /\ r.bits = job[c].bits /\ r.said # "yes"
    BY <1>1, CallFacts DEF Job, NoDir, Build
  <2>3. dir' = [dir EXCEPT ![t] = r] /\ dir'[t] = r
    BY <1>1, <1>3
  <2> HIDE DEF r
  <2>4. /\ t \in Checked => job[c].bits = "whole"
        /\ job[c].said = "yes" => t \in Checked
    BY <1>1, CallFacts DEF Carried, Honest
  <2>5. Honest(t, r)
    BY <2>2, <2>4 DEF Honest
  <2>6. Carried(j, dir')
    BY <1>1, <2>1, <2>2, <2>3, <2>4 DEF Carried
  <2>7. mode' \in {"boot", "up"}
    BY <1>1, <1>3, CallFacts
  <2> QED BY <1>1, <2>1, <2>2, <2>3, <2>5, <2>6, <2>7, CallStep
<1> QED BY <1>2, <1>3 DEF MoveIn

LEMMA BuiltStep == ASSUME StoreInv, NEW c \in Workers, Built(c) PROVE StoreInv'
<1>1. /\ active' \in Names \cup {None} /\ archive' \in [Tags -> {"none", "whole", "other"}]
      /\ rejected' \subseteq Models \X Names /\ pin' \in Names /\ job[c].pc = "build" /\ Inside(c)
      /\ UNCHANGED <<dir, pin, child, feats, bundle>> /\ c \notin bundle
  BY DEF StoreInv, Typed, Built, Inside, memory, store
<1>2. CASE Fail(c)
  BY <1>1, <1>2, FailStep
<1>3. CASE job' = [job EXCEPT ![c].pc = "copy"] /\ UNCHANGED mode
  <2> DEFINE j == [job[c] EXCEPT !.pc = "copy"]
  <2>1. /\ j \in Job /\ job' = [job EXCEPT ![c] = j] /\ j.pc = "copy" /\ j.tag = job[c].tag
        /\ j.at = job[c].at
    BY <1>1, <1>3, CallFacts DEF Job, Pcs
  <2> HIDE DEF j
  <2>2. Carried(j, dir)
    BY <1>1, <2>1, CallFacts DEF Carried
  <2> QED BY <1>1, <1>3, <2>1, <2>2, CallFacts, CallStays
<1> QED BY <1>2, <1>3 DEF Built

LEMMA CopyStep == ASSUME StoreInv, NEW c \in Workers, Copy(c) PROVE StoreInv'
<1> DEFINE n == job[c].at
<1>1. /\ active' \in Names \cup {None} /\ archive' \in [Tags -> {"none", "whole", "other"}]
      /\ rejected' \subseteq Models \X Names /\ pin' \in Names /\ job[c].pc = "copy" /\ Inside(c)
      /\ UNCHANGED <<pin, child, feats, bundle>> /\ c \notin bundle
      /\ dir \in [Names -> Build] /\ child' \in [Models -> Child]
      /\ feats' \in [Names \cup {None} -> Names \cup {None}]
  BY DEF StoreInv, Typed, Copy, Inside, memory
<1>2. job[c].tag \in Tags /\ n = LocalOf[job[c].tag] /\ n \in Names /\ n \notin Checked
  <2>1. job[c].tag \in Tags /\ n = LocalOf[job[c].tag]
    BY <1>1, CallFacts DEF Carried
  <2> QED BY <2>1, EngineAssumption
<1>3. Honest(n, dir[n]) /\ dir[n] \in Build /\ dir[n].said # "yes"
  BY <1>1, <1>2 DEF StoreInv, Honest
<1>4. ASSUME NEW b \in {"half", "whole"}
      PROVE  /\ [dir[n] EXCEPT !.bits = b] \in Build /\ Honest(n, [dir[n] EXCEPT !.bits = b])
             /\ [dir EXCEPT ![n].bits = b] = [dir EXCEPT ![n] = [dir[n] EXCEPT !.bits = b]]
  BY <1>1, <1>2, <1>3 DEF Build, Honest
<1>5. CASE dir' = [dir EXCEPT ![n].bits = "half"] /\ Fail(c)
  <2>1. Carried(NoJob, dir') /\ mode' \in {"boot", "up"}
    BY <1>1, <1>5, CallFacts DEF Carried, NoJob, Fail
  <2> DEFINE r == [dir[n] EXCEPT !.bits = "half"]
  <2>2. dir' = [dir EXCEPT ![n] = r] /\ r \in Build /\ Honest(n, r) /\ NoJob.pc = "none"
    BY <1>4, <1>5 DEF NoJob
  <2> HIDE DEF r
  <2> QED BY <1>1, <1>2, <1>5, <2>1, <2>2, Blank, CallStep DEF Fail
<1>6. CASE dir' = [dir EXCEPT ![n].bits = "half"] /\ UNCHANGED <<job, mode>>
  <2> DEFINE r == [dir[n] EXCEPT !.bits = "half"]
  <2>1. dir' = [dir EXCEPT ![n] = r] /\ r \in Build /\ Honest(n, r)
    BY <1>4, <1>6
  <2> HIDE DEF r
  <2>2. job' = [job EXCEPT ![c] = job[c]] /\ job[c] \in Job /\ mode' \in {"boot", "up"}
    BY <1>1, <1>6, CallFacts
  <2>3. Carried(job[c], dir')
    BY <1>1, CallFacts DEF Carried
  <2> QED BY <1>1, <1>2, <2>1, <2>2, <2>3, CallStep
<1>7. CASE /\ dir' = [dir EXCEPT ![n].bits = "whole"] /\ UNCHANGED mode
           /\ job' = [job EXCEPT ![c].pc = "smoke", ![c].bits = "whole", ![c].said = "no"]
  <2> DEFINE r == [dir[n] EXCEPT !.bits = "whole"]
             j == [job[c] EXCEPT !.pc = "smoke", !.bits = "whole", !.said = "no"]
  <2>1. dir' = [dir EXCEPT ![n] = r] /\ r \in Build /\ Honest(n, r)
    BY <1>4, <1>7
  <2>2. /\ j \in Job /\ job' = [job EXCEPT ![c] = j] /\ j.pc = "smoke" /\ j.tag = job[c].tag
        /\ j.at = n /\ j.said = "no"
    BY <1>1, <1>7, CallFacts DEF Job, Pcs
  <2> HIDE DEF r, j
  <2>3. Carried(j, dir') /\ mode' \in {"boot", "up"}
    BY <1>1, <1>2, <1>7, <2>2, CallFacts DEF Carried
  <2> QED BY <1>1, <1>2, <2>1, <2>2, <2>3, CallStep
<1> QED BY <1>5, <1>6, <1>7 DEF Copy

LEMMA SmokeStep == ASSUME StoreInv, NEW c \in Workers, Smoked(c) PROVE StoreInv'
<1> DEFINE n == job[c].at
<1>1. /\ archive' \in [Tags -> {"none", "whole", "other"}] /\ active \in Names \cup {None}
      /\ rejected \subseteq Models \X Names /\ pin' \in Names /\ job[c].pc = "smoke" /\ Inside(c)
      /\ UNCHANGED <<pin, archive, child, feats, bundle>> /\ c \notin bundle
      /\ dir \in [Names -> Build] /\ child' \in [Models -> Child] /\ n \in Names
      /\ feats' \in [Names \cup {None} -> Names \cup {None}]
  BY CallFacts DEF StoreInv, Typed, Smoked, Inside, Carried
<1>2. CASE Fail(c) /\ UNCHANGED <<dir, active, rejected>>
  BY <1>1, <1>2, FailStep
<1>3. CASE /\ Finalize(c, n, [dir[n] EXCEPT !.said = job[c].said]) /\ UNCHANGED mode
           /\ job' = [job EXCEPT ![c].pc = "warm"]
  <2> DEFINE r == [dir[n] EXCEPT !.said = job[c].said]
             j == [job[c] EXCEPT !.pc = "warm"]
  <2>0. dir[n] \in Build /\ job[c].said \in {"unknown", "yes", "no"}
    BY <1>1, CallFacts DEF Job
  <2>1. dir' = [dir EXCEPT ![n] = r] /\ r \in Build /\ r.bits = dir[n].bits /\ r.said = job[c].said
    BY <1>3, <2>0 DEF Finalize, Build
  <2>2. j \in Job /\ job' = [job EXCEPT ![c] = j] /\ j.pc = "warm" /\ j.tag = job[c].tag
    BY <1>1, <1>3, CallFacts DEF Job, Pcs
  <2>3. active' \in Names \cup {None} /\ rejected' \subseteq Models \X Names /\ mode' \in {"boot", "up"}
    BY <1>1, <1>3, CallFacts DEF Finalize
  <2> HIDE DEF r, j
  <2>4. Honest(n, r)
    BY <1>1, <2>1, CallFacts DEF Honest, Carried, StoreInv
  <2>5. Carried(j, dir')
    BY <1>1, <2>2, CallFacts DEF Carried
  <2> QED BY <1>1, <2>1, <2>2, <2>3, <2>4, <2>5, CallStep
<1> QED BY <1>2, <1>3 DEF Smoked

LEMMA EndStep == ASSUME StoreInv, NEW c \in Workers, Warmed(c) \/ Pinned(c) PROVE StoreInv'
<1>1. /\ active' \in Names \cup {None} /\ archive' \in [Tags -> {"none", "whole", "other"}]
      /\ rejected' \subseteq Models \X Names /\ pin \in Names /\ job[c].pc # "none"
      /\ UNCHANGED <<dir, child, feats, bundle>> /\ c \notin bundle
  BY DEF StoreInv, Typed, Warmed, Pinned, memory, store
<1>2. CASE Warmed(c)
  BY <1>1, <1>2, FailStep DEF Warmed
<1>3. CASE Pinned(c)
  <2>1. job' = [job EXCEPT ![c] = NoJob] /\ pin' \in Names /\ mode' \in {"boot", "up"}
    BY <1>1, <1>3, CallFacts DEF Pinned, Carried
  <2>2. Carried(NoJob, dir)
    BY DEF Carried, NoJob
  <2> QED BY <1>1, <2>1, <2>2, Blank, CallStays
<1> QED BY <1>2, <1>3

LEMMA AskStep ==
    ASSUME StoreInv, NEW c \in Callers, (\E t \in Tags : Install(c, t)) \/ (\E n \in Names : Activate(c, n))
    PROVE  StoreInv' /\ UNCHANGED dir
<1>1. /\ archive' \in [Tags -> {"none", "whole", "other"}] /\ pin' \in Names /\ c \in Workers
      /\ active \in Names \cup {None} /\ rejected \subseteq Models \X Names /\ mode' \in {"boot", "up"}
      /\ UNCHANGED <<dir, child, feats, bundle>> /\ c \notin bundle
  BY DEF StoreInv, Typed, Install, Activate, memory, store, Op, Workers
<1>2. CASE \E t \in Tags : Install(c, t)
  <2>1. PICK t \in Tags, force \in BOOLEAN, activate \in BOOLEAN :
           /\ job' = [job EXCEPT ![c] = [NoJob EXCEPT !.pc = "lock", !.tag = t, !.force = force, !.activate = activate]]
           /\ UNCHANGED <<active, rejected>>
    BY <1>2 DEF Install, store, memory
  <2> DEFINE j == [NoJob EXCEPT !.pc = "lock", !.tag = t, !.force = force, !.activate = activate]
  <2>2. j \in Job /\ j.pc = "lock" /\ j.tag = t
    BY Blank, EngineAssumption DEF NoJob, Job, Pcs
  <2>3. job' = [job EXCEPT ![c] = j]
    BY <2>1
  <2> HIDE DEF j
  <2>4. Carried(j, dir)
    BY <2>2 DEF Carried
  <2> QED BY <1>1, <2>1, <2>2, <2>3, <2>4, CallStays
<1>3. CASE \E n \in Names : Activate(c, n)
  <2>1. PICK n \in Names :
           /\ active' = n /\ rejected' = {}
           /\ job' = [job EXCEPT ![c] = [NoJob EXCEPT !.pc = "warm-pin", !.at = n]]
    BY <1>3 DEF Activate
  <2> DEFINE j == [NoJob EXCEPT !.pc = "warm-pin", !.at = n]
  <2>2. j \in Job /\ j.pc = "warm-pin" /\ j.at = n
    BY Blank, EngineAssumption DEF NoJob, Job, Pcs
  <2>3. job' = [job EXCEPT ![c] = j]
    BY <2>1
  <2> HIDE DEF j
  <2>4. Carried(j, dir)
    BY <2>2 DEF Carried
  <2> QED BY <1>1, <2>1, <2>2, <2>3, <2>4, CallStays
<1> QED BY <1>1, <1>2, <1>3

LEMMA CrashStep == ASSUME StoreInv, Crash PROVE StoreInv'
<1>1. /\ job' = [c \in Workers |-> NoJob] /\ bundle' = {} /\ UNCHANGED dir
      /\ child' = [m \in Models |-> NoChild] /\ feats' = [k \in Names \cup {None} |-> None]
      /\ rejected' = {} /\ UNCHANGED <<active, pin, archive>> /\ mode' = "down"
  BY DEF Crash
<1>2. Typed'
  BY <1>1, Blank DEF StoreInv, Typed
<1>3. Carried(NoJob, dir') /\ NoJob.pc = "none"
  BY DEF Carried, NoJob
<1> QED BY <1>1, <1>2, <1>3 DEF StoreInv, TagsApart, Inside

LEMMA BootStep == ASSUME StoreInv, Start PROVE StoreInv' /\ UNCHANGED dir
<1> DEFINE tries == {pin} \cup (IF pin \in Tags THEN {LocalOf[pin]} ELSE {})
<1>1. /\ archive' \in [Tags -> {"none", "whole", "other"}] /\ pin' = pin /\ pin \in Names
      /\ active \in Names \cup {None} /\ rejected' \subseteq Models \X Names /\ UNCHANGED bundle
      /\ UNCHANGED <<dir, child, feats>> /\ Boot \in Workers /\ job = [c \in Workers |-> NoJob]
      /\ job \in [Workers -> Job] /\ mode = "down"
  BY DEF StoreInv, Typed, Start, memory, Workers
<1>2. Boot \notin bundle /\ \A c \in Workers : ~Inside(c)
  BY <1>1, Blank DEF StoreInv, Inside
<1>3. /\ \A n \in tries : n \in Names
      /\ active' \in tries \cup {active}
  <2>1. (\E n \in tries : active' = n) \/ UNCHANGED active
    BY Zenon DEF Start
  <2>2. \A n \in tries : n \in Names
    <3>1. pin \in Tags => LocalOf[pin] \in Names
      BY EngineAssumption
    <3> QED BY <1>1, <3>1
  <2> QED BY <2>1, <2>2
<1>4. ASSUME NEW j \in Job, job' = [job EXCEPT ![Boot] = j], Carried(j, dir), mode' \in {"boot", "up"},
             j.tag = pin \/ j.pc = "none"
      PROVE  StoreInv'
  <2>1. \/ j.pc \in {"none", "lock", "warm-pin"}
        \/ j.tag = j.tag /\ \A d \in Workers \ {Boot} : Inside(d) => job[d].tag # j.tag
    BY <1>2
  <2>2. active' \in Names \cup {None}
    BY <1>1, <1>3
  <2>3. Typed'
    BY <1>1, <1>4, <2>2 DEF StoreInv, Typed
  <2>4. job'[Boot] = j /\ \A d \in Workers \ {Boot} : job'[d] = job[d] /\ job'[d].pc = "none"
    BY <1>1, <1>4, Blank
  <2>5. TagsApart'
    BY <2>4 DEF TagsApart, Inside
  <2>6. \A d \in Workers : Carried(job'[d], dir')
    BY <1>1, <1>4, <2>4 DEF StoreInv
  <2> QED BY <1>1, <1>2, <1>4, <2>3, <2>4, <2>5, <2>6 DEF StoreInv
<1>5. CASE UNCHANGED job /\ mode' = "up"
  <2>1. job' = [job EXCEPT ![Boot] = NoJob] /\ NoJob \in Job /\ NoJob.pc = "none" /\ Carried(NoJob, dir)
    BY <1>1, <1>5, Blank DEF Carried
  <2> QED BY <1>1, <1>4, <1>5, <2>1
<1> DEFINE Begin(pc) == [NoJob EXCEPT !.pc = pc, !.tag = pin, !.activate = TRUE]
<1>6. CASE pin \in Prebuilt /\ mode' = "boot" /\ job' = [job EXCEPT ![Boot] = Begin("lock")]
  <2> DEFINE j == Begin("lock")
  <2>1. j \in Job /\ j.pc = "lock" /\ j.tag = pin /\ pin \in Tags
    BY <1>1, <1>6, Blank, EngineAssumption DEF NoJob, Job, Pcs
  <2>2. job' = [job EXCEPT ![Boot] = j]
    BY <1>6
  <2> HIDE DEF j
  <2>3. Carried(j, dir)
    BY <2>1 DEF Carried
  <2> QED BY <1>1, <1>4, <1>6, <2>1, <2>2, <2>3
<1>7. CASE /\ pin \in Tags /\ mode' = "boot"
           /\ job' = [job EXCEPT ![Boot] = [Begin("build") EXCEPT !.at = LocalOf[pin]]]
  <2> DEFINE j == [Begin("build") EXCEPT !.at = LocalOf[pin]]
  <2>1. LocalOf[pin] \in Names
    BY <1>7, EngineAssumption
  <2>2. j \in Job /\ j.pc = "build" /\ j.tag = pin /\ j.at = LocalOf[pin]
    BY <1>1, <1>7, <2>1, Blank, EngineAssumption DEF NoJob, Job, Pcs
  <2>3. job' = [job EXCEPT ![Boot] = j]
    BY <1>7
  <2> HIDE DEF j
  <2>4. Carried(j, dir)
    BY <1>7, <2>2 DEF Carried
  <2> QED BY <1>1, <1>4, <1>7, <2>2, <2>3, <2>4
<1> QED BY <1>1, <1>5, <1>6, <1>7 DEF Start

LEMMA StoreStep == StoreInv /\ [Next]_vars => StoreInv'
<1> SUFFICES ASSUME StoreInv, [Next]_vars PROVE StoreInv'
  OBVIOUS
<1>1. ASSUME NEW c \in Workers, Work(c) PROVE StoreInv'
  BY <1>1, LockStep, ProbeStep, ListStep, DownloadStep, BundleStep, AsideStep, InStep, BuiltStep,
     CopyStep, SmokeStep, EndStep DEF Work
<1>2. CASE UNCHANGED vars
  BY <1>2 DEF vars, StoreInv, Typed, TagsApart, Inside
<1> QED BY <1>1, <1>2, AskStep, LaunchStep, CrashStep, BootStep DEF Next

LEMMA StoreStart == Init => StoreInv
<1> SUFFICES ASSUME Init PROVE StoreInv
  OBVIOUS
<1>1. Typed /\ \A n \in Names : Honest(n, dir[n])
  BY Blank, EngineAssumption DEF Init, Typed, Honest, NoDir
<1>2. Carried(NoJob, dir) /\ NoJob.pc = "none"
  BY DEF Carried, NoJob
<1> QED BY <1>1, <1>2 DEF Init, StoreInv, TagsApart, Inside

LEMMA AlwaysStoreInv == Spec => []StoreInv
BY StoreStart, StoreStep, PTL DEF Spec

\* What engine.json says of a build is so, however installs, activations, crashes
\* and failures interleave: "verified" stands on the published bits only.
THEOREM StoreIsTrue == Spec => []StoreTrue
<1>1. StoreInv => TypeOK
  <2> SUFFICES ASSUME StoreInv PROVE TypeOK
    OBVIOUS
  <2>1. \A c \in bundle : job[c].pc = "bundle" /\ job[c].tag \in Bundled
    BY DEF StoreInv, Carried
  <2>2. \A c \in Workers : job[c].pc = "aside" => ~Has(job[c].tag)
    BY DEF StoreInv, Carried, Has
  <2> QED BY <2>1, <2>2 DEF StoreInv, Typed, TypeOK, Build, Child
<1>2. StoreInv => VerifiedIsGenuine
  BY DEF StoreInv, Honest, VerifiedIsGenuine
<1> QED BY <1>1, <1>2, AlwaysStoreInv, PTL DEF StoreTrue

-----------------------------------------------------------------------------
\* What changes the builds on the disk.

SameBits == \A n \in Names : dir'[n].bits = dir[n].bits

\* Only the two renames and the copy change what a directory holds.
LEMMA BitsStep ==
    ASSUME StoreInv, [Next]_vars
    PROVE  SameBits \/ \E c \in Workers : MoveAside(c) \/ MoveIn(c) \/ Copy(c)
<1>1. UNCHANGED dir => SameBits
  BY DEF SameBits
<1>2. ASSUME NEW c \in Workers, Work(c)
      PROVE  SameBits \/ MoveAside(c) \/ MoveIn(c) \/ Copy(c)
  <2>1. ASSUME NEW r \in Build, r.bits = dir[job[c].at].bits, dir' = [dir EXCEPT ![job[c].at] = r]
        PROVE  SameBits
    BY <2>1 DEF SameBits, StoreInv, Typed
  <2>2. CASE Smoked(c)
    <3>1. job[c] \in Job /\ job[c].at \in Names /\ dir[job[c].at] \in Build
      BY <2>2, CallFacts DEF Smoked, Carried
    <3>2. CASE Finalize(c, job[c].at, [dir[job[c].at] EXCEPT !.said = job[c].said])
      <4> DEFINE r == [dir[job[c].at] EXCEPT !.said = job[c].said]
      <4>1. r \in Build /\ r.bits = dir[job[c].at].bits
        BY <3>1 DEF Build, Job
      <4> QED BY <2>1, <3>2, <4>1 DEF Finalize
    <3> QED BY <1>1, <2>2, <3>2 DEF Smoked
  <2>3. CASE Probed(c)
    BY <1>1, <2>1, <2>3 DEF Probed, Finalize, StoreInv, Typed, SameBits
  <2> QED BY <1>1, <1>2, <2>2, <2>3
      DEF Work, LockTaken, Listed, Downloaded, BundleDone, Built, Warmed, Pinned, store
<1>3. ASSUME NEW m \in Models,
             Load(m) \/ FeaturesRead(m) \/ Spawned(m) \/ Ready(m) \/ Rejected(m) \/ Unload(m)
      PROVE  SameBits
  BY <1>1, <1>3, LaunchStep DEF store
<1> QED BY <1>1, <1>2, <1>3, AskStep, BootStep DEF Next, Crash, vars

\* A rename touches the directory of the tag, a copy that of its local build.
LEMMA WriteFacts ==
    ASSUME StoreInv, NEW c \in Workers, MoveAside(c) \/ MoveIn(c) \/ Copy(c)
    PROVE  /\ Inside(c) /\ job[c].tag \in Tags
           /\ \A d \in Workers \ {c} : job'[d] = job[d]
           /\ ~Copy(c) => \A n \in Names \ {job[c].tag} : dir'[n] = dir[n]
           /\ Copy(c) => job[c].at = LocalOf[job[c].tag] /\ \A n \in Names \ {job[c].at} : dir'[n] = dir[n]
<1>1. job[c].pc \in {"swap", "aside", "copy"}
  BY DEF MoveAside, MoveIn, Copy
<1>2. Inside(c) /\ job[c].tag \in Tags /\ dir \in [Names -> Build] /\ job \in [Workers -> Job]
  BY <1>1, CallFacts DEF Inside, Carried
<1>3. \A d \in Workers \ {c} : job'[d] = job[d]
  BY <1>2 DEF MoveAside, MoveIn, Copy, Fail
<1>4. ~Copy(c) => \A n \in Names \ {job[c].tag} : dir'[n] = dir[n]
  BY <1>2 DEF MoveAside, MoveIn
<1>5. Copy(c) => job[c].at = LocalOf[job[c].tag] /\ \A n \in Names \ {job[c].at} : dir'[n] = dir[n]
  BY <1>1, <1>2, CallFacts DEF Copy, Carried
<1> QED BY <1>2, <1>3, <1>4, <1>5

Shelf(engines) ==
    [n \in Checked |-> IF engines[n].bits = "none" THEN "empty"
                       ELSE IF engines[n].bits = "whole" THEN "whole" ELSE "other"]

LEMMA ShelfStep ==
    ASSUME StoreInv, StoreInv', [Next]_vars
    PROVE  \/ Shelf(dir') = Shelf(dir)
           \/ \E t \in Checked, s \in {"empty", "whole"} : Shelf(dir') = [Shelf(dir) EXCEPT ![t] = s]
<1>0. Checked \subseteq Names
  BY EngineAssumption
<1>1. CASE SameBits
  BY <1>0, <1>1 DEF SameBits, Shelf
<1>2. ASSUME NEW c \in Workers, MoveAside(c) \/ MoveIn(c) \/ Copy(c), NEW t \in Names,
             \A n \in Names \ {t} : dir'[n] = dir[n]
      PROVE  \/ Shelf(dir') = Shelf(dir)
             \/ \E u \in Checked, s \in {"empty", "whole"} : Shelf(dir') = [Shelf(dir) EXCEPT ![u] = s]
  <2>1. CASE t \notin Checked
    BY <1>0, <1>2, <2>1 DEF Shelf
  <2>2. CASE t \in Checked
    <3>1. dir'[t].bits \in {"none", "whole"}
      BY <2>2, <1>2 DEF StoreInv, Honest
    <3> DEFINE s == IF dir'[t].bits = "none" THEN "empty" ELSE "whole"
    <3>2. \A n \in Checked : Shelf(dir')[n] = IF n = t THEN s ELSE Shelf(dir)[n]
      BY <1>0, <1>2, <3>1 DEF Shelf
    <3>3. Shelf(dir') = [Shelf(dir) EXCEPT ![t] = s]
      BY <3>2 DEF Shelf
    <3> QED BY <2>2, <3>3
  <2> QED BY <2>1, <2>2
<1>3. ASSUME NEW c \in Workers, MoveAside(c) \/ MoveIn(c) \/ Copy(c)
      PROVE  \E t \in Names : \A n \in Names \ {t} : dir'[n] = dir[n]
  <2>1. job[c].tag \in Names /\ LocalOf[job[c].tag] \in Names
    BY <1>3, WriteFacts, EngineAssumption
  <2> QED BY <1>3, <2>1, WriteFacts
<1> QED BY <1>1, <1>2, <1>3, BitsStep

\* A release with a published checksum appears whole or not at all: the store
\* implements the library.
THEOREM ReleasesAppearWhole == Spec => BuildsAppearWhole
<1>1. Init => Library!Init
  BY DEF Init, Library!Init, NoDir
<1>2. ASSUME StoreInv, StoreInv', [Next]_vars PROVE [Library!Next]_(Library!vars)
  <2>1. CASE Shelf(dir') = Shelf(dir)
    BY <2>1 DEF Library!vars, Shelf
  <2>2. CASE \E t \in Checked, s \in {"empty", "whole"} : Shelf(dir') = [Shelf(dir) EXCEPT ![t] = s]
    BY <2>2 DEF Library!Next, Library!Shelve, Library!Clear, Shelf
  <2> QED BY <1>2, <2>1, <2>2, ShelfStep
<1> QED BY <1>1, <1>2, AlwaysStoreInv, PTL DEF Spec, BuildsAppearWhole, Library!Spec

-----------------------------------------------------------------------------
\* A good build stays.

\* A source build is compiled where there is none that works.
BuildsFresh == \A c \in Workers : job[c].pc \in {"build", "copy"} => dir[job[c].at].bits # "whole"

LEMMA OthersStay ==
    ASSUME StoreInv, NEW d \in Workers, Work(d), NEW c \in Workers \ {d}
    PROVE  job'[c] = job[c]
<1>1. job \in [Workers -> Job]
  BY DEF StoreInv, Typed
<1> QED BY <1>1 DEF Work, LockTaken, Probed, Listed, Downloaded, BundleDone, MoveAside, MoveIn, Built,
                    Copy, Smoked, Warmed, Pinned, Go, Fail

\* A call that builds was building the same, or starts to where there is none.
LEMMA BuildCases ==
    ASSUME ~Rebuilds, StoreInv, [Next]_vars, NEW c \in Workers, job'[c].pc \in {"build", "copy"}
    PROVE  \/ job[c].pc \in {"build", "copy"} /\ job'[c].at = job[c].at
           \/ UNCHANGED dir /\ dir[job'[c].at].bits # "whole"
<1>0. job \in [Workers -> Job] /\ NoJob.pc = "none"
  BY Blank DEF StoreInv, Typed
<1>1. ASSUME NEW d \in Workers \ {c}, Work(d) PROVE job'[c] = job[c]
  BY <1>1, OthersStay
<1>2. CASE Work(c)
  <2>1. CASE Listed(c)
    <3>1. CASE /\ job[c].tag \in Tags \ Prebuilt /\ ~Has(LocalOf[job[c].tag])
               /\ job' = [job EXCEPT ![c].pc = "build", ![c].at = LocalOf[job[c].tag]]
      BY <1>0, <2>1, <3>1 DEF Listed, Has, store, Job
    <3>2. CASE Fail(c) \/ job' = [job EXCEPT ![c].pc = "download"]
      BY <1>0, <3>2 DEF Fail, Job
    <3> QED BY <2>1, <3>1, <3>2 DEF Listed
  <2>2. CASE Built(c) \/ Copy(c)
    BY <1>0, <2>2 DEF Built, Copy, Fail, Job
  <2>3. CASE Fail(c) \/ Go(c)
    BY <1>0, <2>3 DEF Go, Fail, Job
  <2>4. job[c] \in Job
    BY <1>0
  <2>5. CASE LockTaken(c)
    BY <1>0, <2>3, <2>4, <2>5 DEF LockTaken, Job
  <2>6. CASE Probed(c)
    BY <1>0, <2>3, <2>6 DEF Probed
  <2>7. CASE Downloaded(c)
    <3>1. ASSUME NEW b, job' = [job EXCEPT ![c].pc = IF job[c].tag \in Bundled THEN "bundle" ELSE "swap",
                                           ![c].bits = b,
                                           ![c].said = IF job[c].tag \in Checked THEN "yes" ELSE "no"]
          PROVE  FALSE
      BY <1>0, <2>4, <3>1 DEF Job
    <3>2. \/ Fail(c)
          \/ \E b : job' = [job EXCEPT ![c].pc = IF job[c].tag \in Bundled THEN "bundle" ELSE "swap",
                                       ![c].bits = b,
                                       ![c].said = IF job[c].tag \in Checked THEN "yes" ELSE "no"]
      BY <2>7 DEF Downloaded
    <3> QED BY <2>3, <3>1, <3>2
  <2>8. CASE BundleDone(c) \/ MoveAside(c)
    BY <1>0, <2>3, <2>4, <2>8 DEF BundleDone, MoveAside, Job
  <2>9. CASE MoveIn(c)
    BY <1>0, <2>3, <2>4, <2>9 DEF MoveIn, Job
  <2>10. CASE Smoked(c) \/ Warmed(c)
    <3>1. Fail(c) \/ job' = [job EXCEPT ![c].pc = "warm"]
      BY <2>10 DEF Smoked, Warmed
    <3> QED BY <1>0, <2>3, <2>4, <3>1 DEF Job
  <2>11. CASE Pinned(c)
    BY <1>0, <2>11 DEF Pinned
  <2> QED BY <1>2, <2>1, <2>2, <2>5, <2>6, <2>7, <2>8, <2>9, <2>10, <2>11 DEF Work
<1>3. ASSUME NEW d \in Callers, (\E t \in Tags : Install(d, t)) \/ (\E n \in Names : Activate(d, n))
      PROVE  job'[c] = job[c]
  <2>1. \E j : job' = [job EXCEPT ![d] = j] /\ j.pc \in {"lock", "warm-pin"}
    <3>1. ASSUME NEW t \in Tags, Install(d, t) PROVE \E j : job' = [job EXCEPT ![d] = j] /\ j.pc = "lock"
      <4>1. PICK f \in BOOLEAN, a \in BOOLEAN :
               job' = [job EXCEPT ![d] = [NoJob EXCEPT !.pc = "lock", !.tag = t, !.force = f, !.activate = a]]
        BY <3>1 DEF Install
      <4> DEFINE j == [NoJob EXCEPT !.pc = "lock", !.tag = t, !.force = f, !.activate = a]
      <4>2. j.pc = "lock"
        BY DEF NoJob
      <4> QED BY <4>1, <4>2
    <3>2. ASSUME NEW n \in Names, Activate(d, n) PROVE \E j : job' = [job EXCEPT ![d] = j] /\ j.pc = "warm-pin"
      <4> DEFINE j == [NoJob EXCEPT !.pc = "warm-pin", !.at = n]
      <4>1. job' = [job EXCEPT ![d] = j]
        BY <3>2 DEF Activate
      <4>2. j.pc = "warm-pin"
        BY DEF NoJob
      <4> QED BY <4>1, <4>2
    <3> QED BY <1>3, <3>1, <3>2
  <2> QED BY <1>0, <2>1
<1>4. ASSUME NEW m \in Models,
             Load(m) \/ FeaturesRead(m) \/ Spawned(m) \/ Ready(m) \/ Rejected(m) \/ Unload(m)
      PROVE  job'[c] = job[c]
  BY <1>4 DEF Load, FeaturesRead, Spawned, Ready, Rejected, Unload
<1>5. CASE Crash
  BY <1>0, <1>5 DEF Crash
<1>6. CASE Start
  <2> DEFINE tries == {pin} \cup (IF pin \in Tags THEN {LocalOf[pin]} ELSE {})
             Begin(pc) == [NoJob EXCEPT !.pc = pc, !.tag = pin, !.activate = TRUE]
  <2>1. job = [d \in Workers |-> NoJob] /\ UNCHANGED dir
    BY <1>6 DEF StoreInv, Start
  <2>2. CASE UNCHANGED job \/ job' = [job EXCEPT ![Boot] = Begin("lock")]
    <3>1. Begin("lock").pc = "lock"
      BY DEF NoJob
    <3> HIDE DEF Begin
    <3> QED BY <1>0, <2>1, <2>2, <3>1
  <2>3. CASE /\ pin \in Tags /\ \A n \in tries : Has(n) => FALSE \in Answers(n)
             /\ job' = [job EXCEPT ![Boot] = [Begin("build") EXCEPT !.at = LocalOf[pin]]]
    <3>1. c = Boot /\ job'[c].at = LocalOf[pin]
      BY <1>0, <2>1, <2>3 DEF NoJob, Job
    <3>2. dir[LocalOf[pin]].bits # "whole"
      BY <2>3 DEF Has, Answers
    <3> QED BY <2>1, <3>1, <3>2
  <2> QED BY <1>6, <2>2, <2>3 DEF Start
<1>7. CASE UNCHANGED vars
  BY <1>7 DEF vars
<1> QED BY <1>1, <1>2, <1>3, <1>4, <1>5, <1>6, <1>7 DEF Next

LEMMA FreshStep ==
    ASSUME ~Rebuilds, StoreInv, StoreInv', BuildsFresh, [Next]_vars
    PROVE  BuildsFresh'
<1> SUFFICES ASSUME NEW c \in Workers, job'[c].pc \in {"build", "copy"}
             PROVE  dir'[job'[c].at].bits # "whole"
  BY DEF BuildsFresh
<1> DEFINE n == job[c].at
<1>1. CASE UNCHANGED dir /\ dir[job'[c].at].bits # "whole"
  BY <1>1
<1>2. CASE job[c].pc \in {"build", "copy"} /\ job'[c].at = n
  <2>1. /\ job[c].tag \in Tags /\ n = LocalOf[job[c].tag] /\ n \in Names \ Tags /\ Inside(c)
        /\ dir[n].bits # "whole"
    <3>1. job[c].tag \in Tags /\ n = LocalOf[job[c].tag]
      BY <1>2 DEF StoreInv, Carried
    <3> QED BY <1>2, <3>1, EngineAssumption DEF BuildsFresh, Inside
  <2>2. CASE SameBits
    BY <1>2, <2>1, <2>2 DEF SameBits
  <2>3. ASSUME NEW d \in Workers \ {c}, MoveAside(d) \/ MoveIn(d) \/ Copy(d) PROVE dir'[n] = dir[n]
    <3>1. job[d].tag \in Tags /\ job[d].tag # job[c].tag
      BY <2>1, <2>3, WriteFacts DEF StoreInv, TagsApart
    <3>2. LocalOf[job[d].tag] # n /\ job[d].tag # n
      BY <2>1, <3>1, EngineAssumption
    <3> QED BY <2>1, <2>3, <3>2, WriteFacts
  <2>4. CASE Copy(c)
    <3>1. CASE dir' = [dir EXCEPT ![n].bits = "half"]
      BY <1>2, <2>1, <3>1 DEF StoreInv, Typed, Build
    <3>2. CASE job' = [job EXCEPT ![c].pc = "smoke", ![c].bits = "whole", ![c].said = "no"]
      BY <3>2 DEF StoreInv, Typed, Job
    <3> QED BY <2>4, <3>1, <3>2 DEF Copy
  <2>5. ~MoveAside(c) /\ ~MoveIn(c)
    BY <1>2 DEF MoveAside, MoveIn
  <2> QED BY <1>2, <2>1, <2>2, <2>3, <2>4, <2>5, BitsStep
<1> QED BY <1>1, <1>2, BuildCases

LEMMA StandsStep ==
    ASSUME ~Rebuilds, StoreInv, StoreInv', BuildsFresh, [Next]_vars, mode' # "down",
           NEW n \in Checked \cup (Names \ Tags), Stands(n)
    PROVE  Stands(n)'
<1>1. CASE dir[n].bits = "whole"
  <2>1. CASE SameBits
    BY <1>1, <2>1, EngineAssumption DEF SameBits, Stands
  <2>2. ASSUME NEW c \in Workers, MoveAside(c) \/ MoveIn(c) \/ Copy(c), dir'[n] # dir[n]
        PROVE  Stands(n)'
    <3>0. n \in Names
      BY EngineAssumption
    <3>1. CASE MoveAside(c)
      <4>1. n = job[c].tag
        <5>1. ~Copy(c)
          BY <3>1 DEF MoveAside, Copy
        <5> QED BY <2>2, <3>0, <5>1, WriteFacts
      <4>2. job' = [job EXCEPT ![c].pc = "aside", ![c].old = dir[n]]
        BY <2>2, <3>1, <4>1 DEF MoveAside
      <4>3. job'[c].pc = "aside" /\ job'[c].tag = n /\ job'[c].old.bits = "whole"
        BY <1>1, <4>1, <4>2 DEF StoreInv, Typed, Job
      <4> QED BY <4>3 DEF Stands
    <3>2. CASE MoveIn(c)
      <4>1. n = job[c].tag
        <5>1. ~Copy(c)
          BY <3>2 DEF MoveIn, Copy
        <5> QED BY <2>2, <3>0, <5>1, WriteFacts
      <4>2. dir[n].bits = "none"
        BY <3>2, <4>1 DEF StoreInv, Carried, MoveIn
      <4> QED BY <1>1, <4>2
    <3>3. CASE Copy(c)
      BY <1>1, <2>2, <3>0, <3>3, WriteFacts DEF BuildsFresh, Copy
    <3> QED BY <2>2, <3>1, <3>2, <3>3
  <2> QED BY <1>1, <2>1, <2>2, BitsStep DEF Stands
<1>2. ASSUME NEW c \in Workers, job[c].pc = "aside", job[c].tag = n, job[c].old.bits = "whole"
      PROVE  Stands(n)'
  <2>1. CASE MoveIn(c)
    <3>1. n \in Checked /\ n \in Names
      BY <1>2, EngineAssumption DEF StoreInv, Carried
    <3>2. job[c].bits = "whole"
      BY <1>2, <3>1 DEF StoreInv, Carried, Honest
    <3>3. dir'[n].bits = "whole"
      BY <1>2, <2>1, <3>1, <3>2 DEF MoveIn, NoDir, StoreInv, Typed
    <3> QED BY <3>3 DEF Stands
  <2>2. CASE job'[c] = job[c]
    BY <1>2, <2>2 DEF Stands
  <2>3. MoveIn(c) \/ job'[c] = job[c]
    <3>1. ASSUME Work(c) PROVE MoveIn(c)
      BY <1>2, <3>1 DEF Work, LockTaken, Probed, Listed, Downloaded, BundleDone, MoveAside, Built,
                        Copy, Smoked, Warmed, Pinned
    <3>2. ASSUME NEW d \in Callers, (\E t \in Tags : Install(d, t)) \/ (\E k \in Names : Activate(d, k))
          PROVE  job'[c] = job[c]
      BY <1>2, <3>2 DEF Install, Activate, Op, StoreInv, Typed
    <3>3. ASSUME NEW m \in Models,
                 Load(m) \/ FeaturesRead(m) \/ Spawned(m) \/ Ready(m) \/ Rejected(m) \/ Unload(m)
          PROVE  job'[c] = job[c]
      BY <3>3, LaunchStep
    <3>4. ~Crash
      BY DEF Crash
    <3>5. ~Start
      BY <1>2, Blank DEF Start, StoreInv
    <3>6. UNCHANGED vars => job'[c] = job[c]
      BY DEF vars
    <3> QED BY <3>1, <3>2, <3>3, <3>4, <3>5, <3>6, OthersStay DEF Next
  <2> QED BY <2>1, <2>2, <2>3
<1> QED BY <1>1, <1>2 DEF Stands

\* Unless a source build is forced over one that is there, nothing but a crash
\* between two renames loses a good build.
THEOREM GoodBuildsStay == ASSUME ~Rebuilds PROVE Spec => BuildStays
<1>1. Init => BuildsFresh
  BY DEF Init, BuildsFresh, NoJob
<1>2. StoreInv /\ StoreInv' /\ BuildsFresh /\ [Next]_vars => BuildsFresh'
  BY FreshStep
<1>3. StoreInv /\ StoreInv' /\ BuildsFresh /\ [Next]_vars =>
         (mode' # "down" => \A n \in Checked \cup (Names \ Tags) : Stands(n) => Stands(n)')
  BY StandsStep
<1> QED BY <1>1, <1>2, <1>3, AlwaysStoreInv, PTL DEF Spec, BuildStays

====
