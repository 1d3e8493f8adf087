----------------------------- MODULE Downloads -----------------------------
(***************************************************************************)
(* The downloader (core/downloader.py): one task per group of files, a cap *)
(* on running groups, a .part file under an OS lock, resume by Range,      *)
(* verification before the rename, retries, and the rows a restart reads.  *)
(*                                                                         *)
(* One asyncio loop: between two awaits the coroutine named by cpu runs    *)
(* alone.  A file's bytes are a sequence of blocks, "g" of the published   *)
(* revision and "x" of anything else.                                      *)
(***************************************************************************)
EXTENDS Naturals, Sequences, FiniteSets

CONSTANTS
    Groups,         \* logical downloads
    FilesOf,        \* the destinations of each, in order, its projector last
    Hashed,         \* destinations with a published sha256
    Small,          \* those under ADOPT_HASH_MAX_BYTES
    Found,          \* Found[d]: what may be at a destination before we start
    Size,           \* blocks of a whole file
    Slots,          \* the caps on running groups a site may configure
    MaxAttempts,    \* DOWNLOAD_MAX_ATTEMPTS
    Callers,        \* coroutines that call enqueue()
    MayBeLoaded,    \* destinations that a loaded model may hold open
    Posix,          \* whether an open file can be unlinked
    MayDrop,        \* whether a call may leave a projector out that others include
    CutsFresh,      \* whether an interrupt may come before a task's first step
    MaxOps,         \* bound: calls of the user
    MaxFaults,      \* bound: bad answers, full disks, refused renames
    MaxCrashes,     \* bound: restarts
    NoFile, Nobody

Dests == UNION {{FilesOf[g][i] : i \in DOMAIN FilesOf[g]} : g \in Groups}
Files == {f \in Groups \X Dests : \E i \in DOMAIN FilesOf[f[1]] : FilesOf[f[1]][i] = f[2]}

ASSUME DownloadsAssumption ==
    /\ FilesOf \in [Groups -> Seq(Dests)] /\ \A g \in Groups : FilesOf[g] # <<>>
    /\ Small \subseteq Hashed /\ Hashed \subseteq Dests /\ MayBeLoaded \subseteq Dests
    /\ Size \in Nat \ {0} /\ Slots \subseteq Nat \ {0} /\ MaxAttempts \in Nat \ {0}
    /\ Posix \in BOOLEAN /\ MayDrop \in BOOLEAN /\ CutsFresh \in BOOLEAN
    /\ MaxOps \in Nat /\ MaxFaults \in Nat /\ MaxCrashes \in Nat
    /\ Nobody \notin Groups \cup Callers /\ Groups \cap Callers = {}
    /\ NoFile \notin Seq({"g", "x"})

VARIABLES
    lib,            \* what stands at each destination
    part,           \* what stands at <destination>.part
    inUse,          \* _is_in_use: destinations a loaded model has open
    slots,          \* the semaphore's size, hf.max_concurrent_downloads
    status,         \* _files[...].status, "none" for no entry
    rows,           \* the downloads table
    listed,         \* _groups
    job,            \* _tasks, and where each task stands
    intent,         \* _intent
    writing,        \* _writing: the group that writes a destination
    slotLine,       \* tasks that wait for the semaphore
    call,           \* the enqueue() calls under way
    mode,           \* the process: "up", "stopping", "down"
    cpu,            \* the coroutine between two awaits
    rushed,         \* history: destinations claimed out of a hash that others overtook
    ops, faults, crashes

fixed == <<inUse, slots, rushed>>
disk == <<lib, part, inUse, slots, rushed>>
queue == <<status, rows, listed>>
counts == <<ops, faults, crashes>>
vars == <<lib, part, inUse, slots, status, rows, listed, job, intent, writing, slotLine, call, mode,
          cpu, rushed, ops, faults, crashes>>

-----------------------------------------------------------------------------
Whole == [i \in 1..Size |-> "g"]

Busy == {"queued", "running"}
Statuses == {"none", "queued", "running", "paused", "completed", "failed", "canceled"}

(***************************************************************************)
(* A task: "fresh" has not had its first step and "slot" waits for the     *)
(* semaphore; "next".."finish" are code between awaits; "sibling", "adopt",*)
(* "rehash", "http", "stream", "sync" and "sleep" are its awaits; "dead"   *)
(* was cancelled before its first step.  linked: the open handle is the    *)
(* file at the .part path.  own: its _FileState is still the one of _files *)
(* (an enqueue() replaces it).                                             *)
(***************************************************************************)
NoJob == [pc |-> "none", todo |-> <<>>, bytes |-> NoFile, linked |-> FALSE, n |-> 0, try |-> 0,
          ranged |-> TRUE, event |-> Nobody, own |-> TRUE, cancelled |-> FALSE]

NoCall == [pc |-> "none", g |-> Nobody, force |-> FALSE, todo |-> <<>>, ids |-> <<>>, saw |-> NoFile]

Awaits == {"sibling", "adopt", "rehash", "http", "stream", "sync", "sleep"}
Running == {"next", "begin", "check", "open", "attempt", "finish",
            "published"}

Dest(g) == Head(job[g].todo)

HoldsSlot(g) == job[g].pc \in Awaits \cup Running

Has(g) == job[g].pc # "none"

Locked(d) == \E g \in Groups : job[g].linked /\ Dest(g) = d

Idle == cpu = Nobody /\ mode # "down"

\* The task's await is over and it has not been cancelled.
Wakes(g, pc) == Idle /\ job[g].pc = pc /\ ~job[g].cancelled

Fault == faults < MaxFaults /\ faults' = faults + 1
NoFault == faults' = faults

\* _set_status on the task's own _FileState: the row is found by its id.
SetOwn(g, s) ==
    /\ status' = IF job[g].own THEN [status EXCEPT ![<<g, Dest(g)>>] = s] ELSE status
    /\ rows' = [rows EXCEPT ![<<g, Dest(g)>>] = s]

-----------------------------------------------------------------------------
\* The .part file

\* The bytes of the handle g holds become b; an unlinked handle changes no path.
WriteTo(g, b) ==
    /\ part' = IF job[g].linked THEN [part EXCEPT ![Dest(g)] = b] ELSE part

\* Removing a path leaves its holder, if any, with an unlinked file.
Unlinked(jobs, D) ==
    [h \in Groups |-> IF jobs[h].linked /\ Head(jobs[h].todo) \in D
                      THEN [jobs[h] EXCEPT !.linked = FALSE] ELSE jobs[h]]

\* The finally of _download_file: the destination is given up, its waiters woken.
WritingWithout(g) ==
    IF writing[Dest(g)] = g THEN [writing EXCEPT ![Dest(g)] = Nobody] ELSE writing

\* Mutant: the event is not set.
ClosedSilently(g, new) == [job EXCEPT ![g] = new]

Closed(g, new) ==
    [h \in Groups |->
        IF h = g THEN new
        ELSE IF writing[Dest(g)] = g /\ job[h].pc = "sibling" /\ job[h].event = g
             THEN [job[h] EXCEPT !.event = "set"]
             ELSE job[h]]

\* Mutant: the group ends without its file's status.
FailMute(g, garbage) ==
    /\ writing' = WritingWithout(g)
    /\ job' = Closed(g, NoJob)
    /\ cpu' = Nobody
    /\ UNCHANGED <<part, status, rows>>

\* _fail(), and the break that ends the group's loop.  garbage: discard().
Fail(g, garbage) ==
    /\ SetOwn(g, "failed")
    /\ writing' = WritingWithout(g)
    /\ IF garbage
       THEN /\ part' = [part EXCEPT ![Dest(g)] = NoFile]
            /\ job' = Unlinked(Closed(g, NoJob), {Dest(g)})
       ELSE part' = part /\ job' = Closed(g, NoJob)
    /\ cpu' = Nobody

\* The file is complete: on to the group's next one.
Complete(g) ==
    /\ SetOwn(g, "completed")
    /\ writing' = WritingWithout(g)
    /\ cpu' = g

NextOf(g) == [NoJob EXCEPT !.pc = "next", !.todo = Tail(job[g].todo)]

-----------------------------------------------------------------------------
\* A group's task

\* Its first step: async with self._semaphore.
FirstStep(g) ==
    /\ Wakes(g, "fresh")
    /\ IF slotLine = <<>> /\ Cardinality({h \in Groups : HoldsSlot(h)}) < slots
       THEN /\ job' = [job EXCEPT ![g].pc = "next", ![g].todo = listed[g]]
            /\ cpu' = g
            /\ UNCHANGED slotLine
       ELSE /\ job' = [job EXCEPT ![g].pc = "slot"]
            /\ slotLine' = Append(slotLine, g)
            /\ UNCHANGED cpu
    /\ UNCHANGED <<disk, queue, intent, writing, call, mode, counts>>

SlotGranted(g) ==
    /\ Wakes(g, "slot")
    /\ g = Head(slotLine) /\ Cardinality({h \in Groups : HoldsSlot(h)}) < slots
    /\ job' = [job EXCEPT ![g].pc = "next", ![g].todo = listed[g]]
    /\ slotLine' = Tail(slotLine)
    /\ cpu' = g
    /\ UNCHANGED <<disk, queue, intent, writing, call, mode, counts>>

\* The loop of _run_group: skip what is settled; after the last file the task ends.
NextFile(g) ==
    /\ cpu = g /\ job[g].pc = "next"
    /\ \/ /\ job[g].todo = <<>>
          /\ job' = [job EXCEPT ![g] = NoJob] /\ cpu' = Nobody
       \/ /\ job[g].todo # <<>> /\ cpu' = g
          /\ job' = IF status[<<g, Dest(g)>>] \in {"completed", "canceled", "paused"}
                    THEN [job EXCEPT ![g].todo = Tail(@)]
                    ELSE [job EXCEPT ![g] = [NoJob EXCEPT !.pc = "begin", !.todo = job[g].todo]]
    /\ UNCHANGED <<disk, queue, intent, writing, slotLine, call, mode, counts>>

\* Mutant: nobody waits for a sibling.
BeginAtOnce(g) ==
    /\ cpu = g /\ job[g].pc = "begin"
    /\ job' = [job EXCEPT ![g].pc = "check"]
    /\ UNCHANGED <<disk, queue, intent, writing, slotLine, call, mode, cpu, counts>>

\* _wait_for_sibling_writer
Begin(g) ==
    /\ cpu = g /\ job[g].pc = "begin"
    /\ LET w == writing[Dest(g)]
       IN  IF w \in {Nobody, g}
           THEN job' = [job EXCEPT ![g].pc = "check"] /\ cpu' = g
           ELSE job' = [job EXCEPT ![g].pc = "sibling", ![g].event = w] /\ cpu' = Nobody
    /\ UNCHANGED <<disk, queue, intent, writing, slotLine, call, mode, counts>>

SiblingDone(g) ==
    /\ Wakes(g, "sibling") /\ job[g].event = "set"
    /\ job' = [job EXCEPT ![g].pc = "begin", ![g].event = Nobody]
    /\ cpu' = g
    /\ UNCHANGED <<disk, queue, intent, writing, slotLine, call, mode, counts>>

\* _quarantine of the file at the destination, then on to the transfer; a file a
\* loaded model has open is not moved and the download fails.
SetAside(g) ==
    LET d == Dest(g)
    IN  \/ /\ d \in inUse
           /\ Fail(g, FALSE)
           /\ NoFault /\ UNCHANGED lib
        \/ /\ d \notin inUse
           /\ \/ NoFault /\ lib' = [lib EXCEPT ![d] = NoFile]
              \/ Fault /\ UNCHANGED lib
           /\ job' = [job EXCEPT ![g].pc = "open", ![g].bytes = NoFile]
           /\ cpu' = g
           /\ UNCHANGED <<status, rows, writing, part>>

Adopt(g) ==
    /\ Complete(g)
    /\ job' = Closed(g, NextOf(g))
    /\ NoFault /\ UNCHANGED <<lib, part>>

\* _adopt_complete, up to the hash of a small file.
Check(g) ==
    /\ cpu = g /\ job[g].pc = "check"
    /\ LET d == Dest(g)
       IN  \/ /\ lib[d] = NoFile
              /\ job' = [job EXCEPT ![g].pc = "open"]
              /\ cpu' = g
              /\ NoFault /\ UNCHANGED <<lib, part, status, rows, writing>>
           \/ /\ lib[d] # NoFile /\ Len(lib[d]) # Size
              /\ SetAside(g)
           \/ /\ lib[d] # NoFile /\ Len(lib[d]) = Size
              /\ IF d \in Small
                 THEN /\ job' = [job EXCEPT ![g].pc = "adopt", ![g].bytes = lib[d]]
                      /\ cpu' = Nobody
                      /\ NoFault /\ UNCHANGED <<lib, part, status, rows, writing>>
                 ELSE Adopt(g)
    /\ UNCHANGED <<fixed, listed, intent, slotLine, call, mode, ops, crashes>>

\* The thread opened the file before or after what happened meanwhile, and nothing is
\* looked at again: who has claimed the destination, or put another file there.
AdoptDone(g) ==
    /\ Wakes(g, "adopt")
    /\ \E seen \in {job[g].bytes, lib[Dest(g)]} :
          \/ seen = NoFile /\ Fail(g, FALSE) /\ NoFault /\ UNCHANGED lib
          \/ seen = Whole /\ Adopt(g)
          \/ seen \notin {NoFile, Whole} /\ SetAside(g)
    /\ LET d == Dest(g)
           overtaken == writing[d] # Nobody \/ lib[d] \notin {NoFile, job[g].bytes}
       IN  rushed' = rushed \cup IF job'[g].pc = "open" /\ overtaken THEN {d} ELSE {}
    /\ UNCHANGED <<inUse, slots, listed, intent, slotLine, call, mode, ops, crashes>>

\* The destination is claimed, over a claim made since the check if there is one
\* (whose event nobody will set), and the .part opened and locked.
Open(g) ==
    /\ cpu = g /\ job[g].pc = "open"
    /\ LET d == Dest(g)
           found == IF part[d] = NoFile THEN <<>> ELSE part[d]
           others == [h \in Groups |->
                         IF job[h].pc = "sibling" /\ Dest(h) = d /\ job[h].event \in Groups
                         THEN [job[h] EXCEPT !.event = "lost"] ELSE job[h]]
       IN  IF Locked(d)
           THEN /\ SetOwn(g, "failed")
                /\ writing' = [writing EXCEPT ![d] = Nobody]
                /\ job' = [others EXCEPT ![g] = NoJob]
                /\ cpu' = Nobody
                /\ UNCHANGED part
           ELSE /\ writing' = [writing EXCEPT ![d] = g]
                /\ part' = [part EXCEPT ![d] = found]
                /\ job' = [others EXCEPT ![g].pc = "attempt", ![g].bytes = found,
                                         ![g].linked = TRUE, ![g].try = 1]
                /\ cpu' = g
                /\ UNCHANGED <<status, rows>>
    /\ UNCHANGED <<lib, fixed, listed, intent, slotLine, call, mode, counts>>

-----------------------------------------------------------------------------
\* The transfer

\* The request is sent; n bytes are held, and the file is cut to them if not resumed.
Request(g, n, bytes, ranged) ==
    /\ SetOwn(g, "running")
    /\ WriteTo(g, bytes)
    /\ job' = [job EXCEPT ![g].pc = "http", ![g].n = n, ![g].bytes = bytes, ![g].ranged = ranged]
    /\ cpu' = Nobody

\* _transfer, up to the re-hash of what is on disk.
Attempt(g) ==
    /\ cpu = g /\ job[g].pc = "attempt"
    /\ IF job[g].bytes # <<>>
       THEN /\ job' = [job EXCEPT ![g].pc = "rehash"]
            /\ cpu' = Nobody
            /\ UNCHANGED <<part, status, rows>>
       ELSE Request(g, 0, <<>>, TRUE)
    /\ UNCHANGED <<lib, fixed, listed, intent, writing, slotLine, call, mode, counts>>

RehashDone(g) ==
    /\ Wakes(g, "rehash")
    /\ LET have == job[g].bytes
       IN  IF Len(have) # Size THEN Request(g, Len(have), have, TRUE)
           ELSE IF Dest(g) \in Hashed /\ have # Whole THEN Request(g, 0, <<>>, TRUE)
           ELSE /\ SetOwn(g, "running")
                /\ job' = [job EXCEPT ![g].pc = "finish", ![g].n = Size]
                /\ cpu' = g
                /\ UNCHANGED part
    /\ UNCHANGED <<lib, fixed, listed, intent, writing, slotLine, call, mode, counts>>

\* Transient: back off, the lock held; out of attempts: fail, the partial kept.
Retry(g) ==
    IF job[g].try < MaxAttempts
    THEN /\ job' = [job EXCEPT ![g].pc = "sleep"]
         /\ cpu' = Nobody
         /\ UNCHANGED <<part, status, rows, writing>>
    ELSE Fail(g, FALSE)

\* 416: once more from zero; 416 to a request without Range: fail.
Unsatisfiable(g) ==
    /\ Wakes(g, "http") /\ Fault
    /\ IF job[g].ranged THEN Request(g, 0, <<>>, FALSE) /\ UNCHANGED writing ELSE Fail(g, FALSE)
    /\ UNCHANGED <<lib, fixed, listed, intent, slotLine, call, mode, ops, crashes>>

\* Any other error status: 429 and 5xx are retried.
Refused(g) ==
    /\ Wakes(g, "http") /\ Fault
    /\ Retry(g) \/ Fail(g, FALSE)
    /\ UNCHANGED <<lib, fixed, listed, intent, slotLine, call, mode, ops, crashes>>

\* The server announces another size than the repository.
SizeMismatch(g) ==
    /\ Wakes(g, "http") /\ Fault
    /\ Fail(g, TRUE)
    /\ UNCHANGED <<lib, fixed, listed, intent, slotLine, call, mode, ops, crashes>>

\* The body begins: after a Range that was honoured at our offset the file goes
\* on, after any other answer it starts again.
Answered(g) ==
    /\ Wakes(g, "http")
    /\ \E honoured \in {job[g].n > 0 /\ job[g].n < Size, FALSE} :
          LET bytes == IF honoured THEN job[g].bytes ELSE <<>>
          IN  /\ WriteTo(g, bytes)
              /\ job' = [job EXCEPT ![g].pc = "stream", ![g].bytes = bytes,
                                    ![g].n = IF honoured THEN @ ELSE 0]
    /\ UNCHANGED <<lib, fixed, queue, intent, writing, slotLine, call, mode, cpu, counts>>

\* A block arrives, of the published revision or not, and is written at our offset.
Chunk(g) ==
    /\ Wakes(g, "stream") /\ job[g].n < Size
    /\ \E b \in {"g", "x"} :
          LET n == job[g].n + 1
              bytes == SubSeq(job[g].bytes, 1, n - 1) \o <<b>> \o SubSeq(job[g].bytes, n + 1, Len(job[g].bytes))
          IN  /\ IF b = "g" THEN NoFault ELSE Fault
              /\ WriteTo(g, bytes)
              /\ job' = [job EXCEPT ![g].bytes = bytes, ![g].n = n]
    /\ UNCHANGED <<lib, fixed, queue, intent, writing, slotLine, call, mode, cpu, ops, crashes>>

\* The connection breaks, or the disk is full.
StreamBroken(g) ==
    /\ Wakes(g, "stream") /\ Fault
    /\ Retry(g) \/ Fail(g, FALSE)
    /\ UNCHANGED <<lib, fixed, listed, intent, slotLine, call, mode, ops, crashes>>

\* The body ends, early at times; fsync in a thread.
StreamEnds(g) ==
    /\ Wakes(g, "stream")
    /\ IF job[g].n = Size THEN NoFault ELSE Fault
    /\ job' = [job EXCEPT ![g].pc = "sync"]
    /\ UNCHANGED <<disk, queue, intent, writing, slotLine, call, mode, cpu, ops, crashes>>

\* Mutant: the row is written before the rename.
SyncedCompletes(g) ==
    /\ Wakes(g, "sync")
    /\ SetOwn(g, "completed")
    /\ job' = [job EXCEPT ![g].pc = "finish"]
    /\ cpu' = g
    /\ UNCHANGED <<disk, listed, intent, writing, slotLine, call, mode, counts>>

Synced(g) ==
    /\ Wakes(g, "sync")
    /\ job' = [job EXCEPT ![g].pc = "finish"]
    /\ cpu' = g
    /\ UNCHANGED <<disk, queue, intent, writing, slotLine, call, mode, counts>>

SleepOver(g) ==
    /\ Wakes(g, "sleep")
    /\ job' = [job EXCEPT ![g].pc = "attempt", ![g].try = @ + 1, ![g].n = 0]
    /\ cpu' = g
    /\ UNCHANGED <<disk, queue, intent, writing, slotLine, call, mode, counts>>

\* Mutant: the size is enough.
VerifiedBySize(g) == job[g].n = Size /\ Len(job[g].bytes) = job[g].n

\* _verify: what was streamed, what the disk holds and what was declared agree.
Verified(g) ==
    /\ job[g].n = Size /\ Len(job[g].bytes) = job[g].n
    /\ Dest(g) \in Hashed => SubSeq(job[g].bytes, 1, job[g].n) = Whole

\* _finish: publish() closes the handle and renames the path, whatever file is
\* there; a refused rename keeps the partial.
Finish(g) ==
    /\ cpu = g /\ job[g].pc = "finish"
    /\ LET d == Dest(g)
       IN  \/ ~Verified(g) /\ Fail(g, TRUE) /\ NoFault /\ UNCHANGED lib
           \/ /\ Verified(g) /\ part[d] # NoFile /\ NoFault
              /\ lib' = [lib EXCEPT ![d] = part[d]]
              /\ part' = [part EXCEPT ![d] = NoFile]
              /\ job' = [Unlinked(job, {d}) EXCEPT ![g].pc = "published", ![g].linked = FALSE]
              /\ UNCHANGED <<status, rows, writing, cpu>>
           \/ /\ Verified(g)
              /\ IF part[d] = NoFile THEN NoFault ELSE Fault
              /\ Fail(g, FALSE) /\ UNCHANGED lib
    /\ UNCHANGED <<fixed, listed, intent, slotLine, call, mode, ops, crashes>>

Published(g) ==
    /\ cpu = g /\ job[g].pc = "published"
    /\ Complete(g)
    /\ job' = Closed(g, NextOf(g))
    /\ UNCHANGED <<disk, listed, intent, slotLine, call, mode, counts>>

\* Another process appends to the file at the .part path.
ForeignWrite(d) ==
    /\ Idle /\ Fault /\ part[d] # NoFile /\ Len(part[d]) <= Size
    /\ part' = [part EXCEPT ![d] = Append(@, "x")]
    /\ job' = [g \in Groups |-> IF job[g].linked /\ Dest(g) = d
                                THEN [job[g] EXCEPT !.bytes = Append(@, "x")] ELSE job[g]]
    /\ UNCHANGED <<lib, fixed, queue, intent, writing, slotLine, call, mode, cpu, ops, crashes>>

-----------------------------------------------------------------------------
\* What the user asks

Op == Idle /\ mode = "up" /\ ops < MaxOps /\ ops' = ops + 1

\* _launch(): nothing while the group has a task.
Launched(g) ==
    /\ job' = IF Has(g) THEN job ELSE [job EXCEPT ![g] = [NoJob EXCEPT !.pc = "fresh"]]
    /\ intent' = IF Has(g) THEN intent ELSE [intent EXCEPT ![g] = "none"]

\* enqueue(): file by file, the projector included or not; c runs until it hashes.
Enqueue(c, g) ==
    /\ Op /\ call[c].pc = "none"
    /\ \E force \in BOOLEAN, n \in {Len(FilesOf[g])} \cup (IF MayDrop THEN {Len(FilesOf[g]) - 1} \ {0} ELSE {}) :
          call' = [call EXCEPT ![c] = [NoCall EXCEPT !.pc = "next", !.g = g, !.force = force,
                                                     !.todo = SubSeq(FilesOf[g], 1, n)]]
    /\ cpu' = c
    /\ UNCHANGED <<disk, queue, job, intent, writing, slotLine, mode, faults, crashes>>

\* The file becomes a new _FileState; a task that works on the old one keeps it.
Register(c, d, s) ==
    LET g == call[c].g
    IN  /\ status' = [status EXCEPT ![<<g, d>>] = s]
        /\ rows' = [rows EXCEPT ![<<g, d>>] = s]
        /\ job' = IF job[g].pc \in Awaits /\ Dest(g) = d /\ job[g].own
                  THEN [job EXCEPT ![g].own = FALSE] ELSE job
        /\ call' = [call EXCEPT ![c].pc = "next", ![c].todo = Tail(@), ![c].saw = NoFile,
                                ![c].ids = Append(@, d)]
        /\ cpu' = c

EnqueueFile(c) ==
    /\ cpu = c /\ call[c].pc = "next" /\ call[c].todo # <<>>
    /\ LET d == Head(call[c].todo)
           there == IF call[c].force THEN NoFile ELSE lib[d]
       IN  \/ /\ status[<<call[c].g, d>>] \in Busy
              /\ call' = [call EXCEPT ![c].todo = Tail(@), ![c].ids = Append(@, d)]
              /\ UNCHANGED <<lib, status, rows, job, cpu>>
           \/ \* model_loaded: the call is refused where it stands
              /\ status[<<call[c].g, d>>] \notin Busy
              /\ call[c].force /\ d \in inUse
              /\ call' = [call EXCEPT ![c] = NoCall]
              /\ cpu' = Nobody
              /\ UNCHANGED <<lib, status, rows, job>>
           \/ /\ status[<<call[c].g, d>>] \notin Busy
              /\ ~(call[c].force /\ d \in inUse)
              /\ lib' = [lib EXCEPT ![d] = there]
              /\ IF there = NoFile \/ Len(there) # Size THEN Register(c, d, "queued")
                 ELSE IF d \notin Small THEN Register(c, d, "completed")
                 ELSE /\ call' = [call EXCEPT ![c].pc = "hash", ![c].saw = there]
                      /\ cpu' = Nobody
                      /\ UNCHANGED <<status, rows, job>>
    /\ UNCHANGED <<part, fixed, listed, intent, writing, slotLine, mode, counts>>

\* A file that has gone meanwhile raises out of the call.
EnqueueHashed(c) ==
    /\ Idle /\ call[c].pc = "hash"
    /\ LET d == Head(call[c].todo)
       IN  \E seen \in {call[c].saw, lib[d]} :
              IF seen = NoFile
              THEN /\ call' = [call EXCEPT ![c] = NoCall]
                   /\ UNCHANGED <<status, rows, job, cpu>>
              ELSE Register(c, d, IF seen = Whole THEN "completed" ELSE "queued")
    /\ UNCHANGED <<disk, listed, intent, writing, slotLine, mode, counts>>

\* The group is registered and launched, unless the disk cannot hold what is pending.
EnqueueEnds(c) ==
    /\ cpu = c /\ call[c].pc = "next" /\ call[c].todo = <<>>
    /\ LET g == call[c].g
           pending == {d \in Dests : <<g, d>> \in Files /\ (\E i \in DOMAIN call[c].ids : call[c].ids[i] = d)
                                     /\ status[<<g, d>>] \in Busy \cup {"paused"}}
           Settle(t) == [f \in Files |-> IF f[1] = g /\ f[2] \in pending THEN "failed" ELSE t[f]]
       IN  /\ listed' = [listed EXCEPT ![g] = call[c].ids]
           /\ \/ /\ pending # {} /\ Fault
                 /\ status' = Settle(status) /\ rows' = Settle(rows)
                 /\ UNCHANGED <<job, intent>>
              \/ /\ NoFault
                 /\ IF \E d \in pending : status[<<g, d>>] \in Busy
                    THEN Launched(g) ELSE UNCHANGED <<job, intent>>
                 /\ UNCHANGED <<status, rows>>
    /\ call' = [call EXCEPT ![c] = NoCall]
    /\ cpu' = Nobody
    /\ UNCHANGED <<disk, writing, slotLine, mode, ops, crashes>>

\* resume()
Resume(g) ==
    /\ Op /\ listed[g] # <<>>
    /\ LET Again(t) == [f \in Files |-> IF /\ f[1] = g /\ \E i \in DOMAIN listed[g] : listed[g][i] = f[2]
                                           /\ status[f] \in {"paused", "failed", "canceled"}
                                        THEN "queued" ELSE t[f]]
       IN  status' = Again(status) /\ rows' = Again(rows)
    /\ Launched(g)
    /\ UNCHANGED <<disk, listed, writing, slotLine, call, mode, cpu, faults, crashes>>

Target(why) == CASE why = "pause" -> "paused" [] why = "stop" -> "queued" [] OTHER -> "canceled"

\* _finalize_interrupted: jobs are the tasks, and t the statuses, that it meets.
Finalized(g, why, jobs) ==
    LET open == {f \in Files : /\ f[1] = g /\ (\E i \in DOMAIN listed[g] : listed[g][i] = f[2])
                               /\ status[f] # "completed"}
        Mark(t) == [f \in Files |-> IF f \in open THEN Target(why) ELSE t[f]]
        gone == IF why # "cancel" THEN {}
                ELSE {d \in Dests : /\ <<g, d>> \in open
                                    /\ Posix \/ \A h \in Groups : ~(jobs[h].linked /\ Head(jobs[h].todo) = d)}
    IN  /\ status' = Mark(status) /\ rows' = Mark(rows)
        /\ part' = [d \in Dests |-> IF d \in gone THEN NoFile ELSE part[d]]
        /\ job' = Unlinked(jobs, gone)

\* pause() and cancel(): the task is cancelled, and does the rest itself.
Interrupt(g) ==
    /\ Op /\ listed[g] # <<>>
    /\ job[g].pc = "fresh" => CutsFresh
    /\ \E why \in {"pause", "cancel", "cancel-keep"} :
          IF Has(g)
          THEN /\ intent' = [intent EXCEPT ![g] = why]
               /\ job' = [job EXCEPT ![g].cancelled = TRUE]
               /\ UNCHANGED <<part, status, rows>>
          ELSE /\ intent' = [intent EXCEPT ![g] = "none"]
               /\ Finalized(g, why, job)
    /\ UNCHANGED <<lib, fixed, listed, writing, slotLine, call, mode, cpu, faults, crashes>>

\* CancelledError at the task's await; a task without a first step just ends.
Cancelled(g) ==
    /\ Idle /\ job[g].cancelled /\ job[g].pc # "dead"
    /\ IF job[g].pc = "fresh"
       THEN /\ job' = [job EXCEPT ![g].pc = "dead"]
            /\ UNCHANGED <<part, status, rows, intent, writing, slotLine>>
       ELSE /\ intent' = [intent EXCEPT ![g] = "none"]
            /\ slotLine' = SelectSeq(slotLine, LAMBDA h : h # g)
            /\ IF job[g].pc = "slot"
               THEN UNCHANGED writing /\ Finalized(g, intent[g], [job EXCEPT ![g] = NoJob])
               ELSE writing' = WritingWithout(g) /\ Finalized(g, intent[g], Closed(g, NoJob))
    /\ UNCHANGED <<lib, fixed, listed, call, mode, cpu, counts>>

-----------------------------------------------------------------------------
\* The process

\* stop(): every task is cancelled; the process ends with the last of them.
Stop ==
    /\ Idle /\ mode = "up" /\ crashes < MaxCrashes /\ \A c \in Callers : call[c].pc = "none"
    /\ mode' = "stopping"
    /\ intent' = [g \in Groups |-> IF Has(g) THEN "stop" ELSE intent[g]]
    /\ job' = [g \in Groups |-> IF Has(g) THEN [job[g] EXCEPT !.cancelled = TRUE] ELSE job[g]]
    /\ UNCHANGED <<disk, queue, writing, slotLine, call, cpu, counts>>

\* The end of the process, by stop() or by a crash at any point: the disk and the
\* rows stay.
Exit ==
    /\ mode # "down" /\ crashes < MaxCrashes
    /\ crashes' = crashes + 1
    /\ mode' = "down"
    /\ job' = [g \in Groups |-> NoJob] /\ intent' = [g \in Groups |-> "none"]
    /\ writing' = [d \in Dests |-> Nobody] /\ slotLine' = <<>>
    /\ call' = [c \in Callers |-> NoCall] /\ cpu' = Nobody
    /\ status' = [f \in Files |-> "none"] /\ listed' = [g \in Groups |-> <<>>]
    /\ UNCHANGED <<disk, rows, ops, faults>>

\* The orders a group's rows may be read in.
Lists == UNION {[1..n -> Dests] : n \in 0..Cardinality(Dests)}

\* s lists the files of g that are in D, each once and in their order.
Listing(s, g, D) ==
    /\ {s[i] : i \in DOMAIN s} = D
    /\ \A i, j \in DOMAIN s : i < j =>
           \E k, l \in DOMAIN FilesOf[g] : k < l /\ FilesOf[g][k] = s[i] /\ FilesOf[g][l] = s[j] /\ s[i] # s[j]

\* start(): the rows that remain after the old history is pruned; what was queued
\* or running is queued and launched.
Start ==
    /\ mode = "down"
    /\ mode' = "up"
    /\ \E pruned \in BOOLEAN :
          LET kept == [f \in Files |-> IF pruned /\ rows[f] \in {"completed", "failed", "canceled"}
                                       THEN "none" ELSE rows[f]]
              loaded == [f \in Files |-> IF kept[f] = "running" THEN "queued" ELSE kept[f]]
              busy == {g \in Groups : \E f \in Files : f[1] = g /\ loaded[f] = "queued"}
          IN  /\ status' = loaded /\ rows' = loaded
              /\ \E lists \in [Groups -> Lists] :
                    /\ \A g \in Groups : Listing(lists[g], g, {d \in Dests : <<g, d>> \in Files /\ kept[<<g, d>>] # "none"})
                    /\ listed' = lists
              /\ job' = [g \in Groups |-> IF g \in busy THEN [NoJob EXCEPT !.pc = "fresh"] ELSE NoJob]
    /\ UNCHANGED <<disk, intent, writing, slotLine, call, cpu, counts>>

Init ==
    /\ lib \in [Dests -> UNION {Found[d] : d \in Dests}] /\ \A d \in Dests : lib[d] \in Found[d]
    /\ part = [d \in Dests |-> NoFile]
    /\ slots \in Slots
    /\ inUse \in SUBSET {d \in MayBeLoaded : lib[d] # NoFile}
    /\ status = [f \in Files |-> "none"] /\ rows = status
    /\ listed = [g \in Groups |-> <<>>]
    /\ job = [g \in Groups |-> NoJob] /\ intent = [g \in Groups |-> "none"]
    /\ writing = [d \in Dests |-> Nobody] /\ slotLine = <<>>
    /\ call = [c \in Callers |-> NoCall]
    /\ mode = "up" /\ cpu = Nobody /\ rushed = {}
    /\ ops = 0 /\ faults = 0 /\ crashes = 0

\* What a group's task does by itself, its cancellation included.
Task(g) ==
    \/ FirstStep(g) \/ SlotGranted(g) \/ NextFile(g) \/ Begin(g) \/ SiblingDone(g) \/ Check(g)
    \/ AdoptDone(g) \/ Open(g) \/ Attempt(g) \/ RehashDone(g) \/ Unsatisfiable(g) \/ Refused(g)
    \/ SizeMismatch(g) \/ Answered(g) \/ Chunk(g) \/ StreamBroken(g) \/ StreamEnds(g) \/ Synced(g)
    \/ SleepOver(g) \/ Finish(g) \/ Published(g) \/ Cancelled(g)

Next ==
    \/ \E g \in Groups : Task(g) \/ Resume(g) \/ Interrupt(g)
    \/ \E c \in Callers : EnqueueFile(c) \/ EnqueueHashed(c) \/ EnqueueEnds(c)
                          \/ \E g \in Groups : Enqueue(c, g)
    \/ \E d \in Dests : ForeignWrite(d)
    \/ Stop \/ Exit \/ Start

Spec == Init /\ [][Next]_vars

\* The event loop runs what is ready, and every request ends by its read timeout.
Fairness ==
    /\ \A g \in Groups : WF_vars(Task(g))
    /\ \A c \in Callers : WF_vars(EnqueueFile(c) \/ EnqueueHashed(c) \/ EnqueueEnds(c))

FairSpec == Spec /\ Fairness

-----------------------------------------------------------------------------
TypeOK ==
    /\ status \in [Files -> Statuses] /\ rows \in [Files -> Statuses]
    /\ inUse \subseteq Dests /\ writing \in [Dests -> Groups \cup {Nobody}]
    /\ mode \in {"up", "stopping", "down"} /\ cpu \in Groups \cup Callers \cup {Nobody}
    /\ \A g \in Groups : job[g].linked => part[Dest(g)] = job[g].bytes

\* A file shown as running has a live task behind it (the comment on _run_group's
\* last handler says what it costs when it has none).
RunningHasTask ==
    \A f \in Files : status[f] = "running" => Has(f[1]) /\ job[f[1]].pc # "dead"

\* A file shown as paused, canceled or completed is not being transferred.
StoppedIsStill ==
    \A g \in Groups : job[g].pc \in Awaits /\ job[g].own =>
        status[<<g, Dest(g)>>] \notin {"paused", "canceled", "completed"}

\* What a row shows is what its task does.
RowsTrue == TypeOK /\ RunningHasTask /\ StoppedIsStill

\* Groups that share a file take turns: none comes to claim a destination whose .part
\* its sibling has locked (_wait_for_sibling_writer).  The one way in is the await
\* between the look at _writing and the claim: a group whose hash of a file of the whole
\* size comes out wrong goes on without a second look, though a sibling that hashed the
\* same file has claimed or replaced it since; of that destination nothing is said.
SiblingsTakeTurns ==
    \A g \in Groups : job[g].pc = "open" => ~Locked(Dest(g)) \/ Dest(g) \in rushed

\* The library as its readers see it: a destination with a published checksum is
\* filled with the published bytes or not at all, up to a rushed claim (two tasks may
\* then write one .part, or a whole file be set aside).
Library == INSTANCE AbstractLibrary WITH
    Places <- Hashed,
    shelf <- [d \in Hashed |-> IF lib[d] = NoFile \/ d \in rushed THEN "empty"
                               ELSE IF lib[d] = Whole THEN "whole" ELSE "other"]

ImplementsLibrary == Library!Spec

\* Bytes that are whole are not thrown away: they stay in the .part or move to the
\* destination, unless another process spoils them or a cancel deletes them, or a claim
\* was rushed.
WholePartialKept ==
    [][\A d \in Hashed : part[d] = Whole /\ part'[d] # Whole =>
          \/ lib'[d] = Whole
          \/ part'[d] = Append(Whole, "x")
          \/ \E g \in Groups : <<g, d>> \in Files /\ status'[<<g, d>>] = "canceled"
          \/ d \in rushed']_vars

\* A whole file leaves its destination only in a forced enqueue(), or set aside by the
\* verdict on the file it replaced.
WholeFileStays ==
    [][\A d \in Hashed : lib[d] = Whole /\ lib'[d] # Whole =>
          (\E c \in Callers : cpu = c /\ call[c].force) \/ d \in rushed']_vars

\* A row says completed only when the destination holds a file of the whole size:
\* the rename comes before the status, whatever crash falls between.  The verdict
\* of a hash speaks of the file it read, which a forced enqueue() may have removed.
CompletedIsThere ==
    [][\A f \in Files : rows'[f] = "completed" /\ rows[f] # "completed" =>
          \/ lib'[f[2]] # NoFile /\ Len(lib'[f[2]]) = Size
          \/ job[f[1]].pc = "adopt" \/ \E c \in Callers : call[c].pc = "hash" /\ call[c].g = f[1]
          \/ f[2] \in rushed']_vars

\* No whole file is lost on its way from the .part to the library and its row, by
\* a crash, a retry or a second look at it; rushed claims apart.
BytesKept == WholePartialKept /\ WholeFileStays /\ CompletedIsThere

\* Every task ends: the waiters for a slot, for a sibling and for a backoff included. Calls
\* being bounded, there is again and again a moment when no group is at work.
TasksEnd == []<>(\A g \in Groups : ~Has(g) \/ job[g].pc = "dead")

\* No file is queued or running without a task, or a call about to launch one.
BusyHasTask ==
    \A f \in Files : mode = "up" /\ status[f] \in Busy =>
        \/ Has(f[1]) /\ job[f[1]].pc # "dead"
        \/ \E c \in Callers : call[c].g = f[1]

\* SiblingsTakeTurns without its exception.
NoLockMet == \A g \in Groups : job[g].pc = "open" => ~Locked(Dest(g))

\* Nothing writes the bytes of a failed file until a human presses Resume.
FailedIsStill ==
    \A g \in Groups : job[g].pc = "stream" => status[<<g, Dest(g)>>] # "failed"

=============================================================================
