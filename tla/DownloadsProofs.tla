--------------------------- MODULE DownloadsProofs ---------------------------
(***************************************************************************)
(* Proofs about Downloads, for any groups and files, any number of slots,  *)
(* attempts, calls, faults and restarts.                                   *)
(*                                                                         *)
(* A task is at one file of its group.  Held says what it holds of it: the *)
(* handle of the .part, if that is still the file at its path, has the     *)
(* bytes the task believes in.  Shown says that a row that shows a         *)
(* transfer has it.  Turns says that who transfers a file has claimed its  *)
(* destination, so that tasks of two groups are never at one file, unless  *)
(* a claim of it was rushed: a task came to it out of a hash that another  *)
(* had overtaken.                                                          *)
(***************************************************************************)
EXTENDS Downloads, SequenceTheorems, TLAPS

-----------------------------------------------------------------------------
\* The invariants.

Blocks == Seq({"g", "x"})
Contents == Blocks \cup {NoFile} \cup UNION {Found[d] : d \in Dests}

Transfers == {"attempt", "rehash", "http", "stream", "sync", "sleep", "finish"}
Writers == Transfers \cup {"published"}
AtFile == {"begin", "sibling", "check", "adopt", "open"} \cup Writers

Jobs == [pc : {"none", "fresh", "dead", "slot", "next"} \cup AtFile, todo : Seq(Dests), bytes : Contents,
         linked : BOOLEAN, n : Nat, try : Nat, ranged : BOOLEAN,
         event : Groups \cup {Nobody, "set", "lost"}, own : BOOLEAN, cancelled : BOOLEAN]

Calls == [pc : {"none", "next", "hash"}, g : Groups \cup {Nobody}, force : BOOLEAN,
          todo : Seq(Dests), ids : Seq(Dests), saw : Contents]

In(d, s) == \E i \in DOMAIN s : s[i] = d

\* A list of files of g.
Of(s, g) == \A d \in Dests : In(d, s) => <<g, d>> \in Files

\* The bytes past our offset are another process's.
Foreign(r) ==
    r.pc \in {"http", "stream", "sync", "finish"} =>
        /\ r.n <= Len(r.bytes)
        /\ \A i \in (r.n + 1)..Len(r.bytes) : r.bytes[i] = "x"
        /\ IF r.pc = "http" THEN r.n # Size ELSE r.n <= Size

JobOK(r, g, p) ==
    /\ r \in Jobs /\ Of(r.todo, g)
    /\ r.pc \in AtFile => r.todo # <<>>
    /\ r.linked => r.pc \in Transfers /\ p[Head(r.todo)] = r.bytes
    /\ r.pc \in Transfers => r.bytes \in Blocks
    /\ Foreign(r)

Alone(jobs) ==
    \A g, h \in Groups : jobs[g].linked /\ jobs[h].linked /\ Head(jobs[g].todo) = Head(jobs[h].todo) => g = h

CallOK(q) ==
    /\ q \in Calls
    /\ q.pc # "none" => q.g \in Groups /\ Of(q.todo, q.g) /\ Of(q.ids, q.g)
    /\ q.pc = "hash" => q.todo # <<>>

Held ==
    /\ job \in [Groups -> Jobs]
    /\ \A g \in Groups : JobOK(job[g], g, part)
    /\ Alone(job)
    /\ lib \in [Dests -> Contents] /\ part \in [Dests -> Blocks \cup {NoFile}]
    /\ status \in [Files -> Statuses] /\ rows \in [Files -> Statuses]
    /\ inUse \subseteq Dests /\ writing \in [Dests -> Groups \cup {Nobody}]
    /\ mode \in {"up", "stopping", "down"} /\ cpu \in Groups \cup Callers \cup {Nobody}
    /\ listed \in [Groups -> Seq(Dests)] /\ \A g \in Groups : Of(listed[g], g)
    /\ call \in [Callers -> Calls] /\ \A c \in Callers : CallOK(call[c])
    /\ \A g \in Groups : job[g].pc \in Running => cpu = g

\* What a row shows.
ShownOK(r, g, st, l) ==
    /\ r.pc \in AtFile \cup {"next"} => \A d \in Dests : In(d, r.todo) => In(d, l)
    /\ r.pc \in AtFile /\ r.own => st[<<g, Head(r.todo)>>] \notin {"paused", "canceled", "completed"}
    /\ \A d \in Dests : <<g, d>> \in Files /\ st[<<g, d>>] = "running"
                        => r.pc \in Writers /\ r.own /\ Head(r.todo) = d

Asked(q) == q.pc # "none" => \A d \in Dests : <<q.g, d>> \in Files => In(d, q.ids) \/ In(d, q.todo)

Shown ==
    /\ \A g \in Groups : ShownOK(job[g], g, status, listed[g])
    /\ \A c \in Callers : Asked(call[c])

\* Who is at a file: nothing is said of one whose claim was rushed.
TurnOK(r, g, w, p, l) ==
    LET d == Head(r.todo) IN
    /\ r.pc \in Writers => w[d] = g
    /\ r.pc \in {"check", "open"} => w[d] = Nobody
    /\ r.pc \in Transfers /\ ~r.linked => p[d] = NoFile
    /\ r.pc = "published" => l[d] # NoFile /\ Len(l[d]) = Size

Turns ==
    /\ \A g \in Groups : Dest(g) \in rushed \/ TurnOK(job[g], g, writing, part, lib)
    /\ \A d \in Dests : writing[d] # Nobody => job[writing[d]].pc \in Writers /\ Dest(writing[d]) = d

\* A process that has ended does nothing.
Down == mode = "down" => (\A g \in Groups : job[g].pc = "none") /\ (\A c \in Callers : call[c].pc = "none")
-----------------------------------------------------------------------------
\* Files, lists, jobs.

USE DownloadsAssumption

LEMMA WholeFacts == Whole \in Blocks /\ Len(Whole) = Size /\ Whole # <<>> /\ NoFile \notin Blocks
BY DEF Whole, Blocks

LEMMA FilesAre ==
    ASSUME NEW g, NEW d
    PROVE  <<g, d>> \in Files <=> g \in Groups /\ d \in Dests /\ In(d, FilesOf[g])
BY DEF Files, In

LEMMA Lists1 ==
    ASSUME NEW s \in Seq(Dests), s # <<>>
    PROVE  /\ Head(s) \in Dests /\ In(Head(s), s) /\ Tail(s) \in Seq(Dests)
           /\ \A d : In(d, Tail(s)) => In(d, s)
           /\ \A d : In(d, s) => d = Head(s) \/ In(d, Tail(s))
<1>1. /\ Head(s) = s[1] /\ Len(s) >= 1 /\ Tail(s) \in Seq(Dests) /\ Len(Tail(s)) = Len(s) - 1
      /\ \A i \in 1..Len(Tail(s)) : Tail(s)[i] = s[i + 1]
  OBVIOUS
<1>2. ASSUME NEW d, In(d, s) PROVE d = Head(s) \/ In(d, Tail(s))
  <2>1. PICK i \in 1..Len(s) : s[i] = d
    BY <1>2 DEF In
  <2>2. CASE i = 1
    BY <1>1, <2>1, <2>2
  <2>3. CASE i # 1
    <3>1. i - 1 \in DOMAIN Tail(s) /\ Tail(s)[i - 1] = d
      BY <1>1, <2>1, <2>3
    <3> QED BY <3>1 DEF In
  <2> QED BY <2>2, <2>3
<1>3. ASSUME NEW d, In(d, Tail(s)) PROVE In(d, s)
  <2>1. PICK i \in 1..Len(Tail(s)) : Tail(s)[i] = d
    BY <1>1, <1>3 DEF In
  <2>2. i + 1 \in 1..Len(s) /\ s[i + 1] = d
    BY <1>1, <2>1
  <2> QED BY <2>2 DEF In
<1>4. In(Head(s), s) /\ Head(s) \in Dests
  BY <1>1 DEF In
<1> QED BY <1>1, <1>2, <1>3, <1>4

LEMMA Lists2 ==
    ASSUME NEW s \in Seq(Dests), NEW e \in Dests
    PROVE  Append(s, e) \in Seq(Dests) /\ \A d : In(d, Append(s, e)) <=> In(d, s) \/ d = e
<1>1. /\ Append(s, e) \in Seq(Dests) /\ Len(Append(s, e)) = Len(s) + 1 /\ Append(s, e)[Len(s) + 1] = e
      /\ \A i \in 1..Len(s) : Append(s, e)[i] = s[i]
  OBVIOUS
<1>2. ASSUME NEW d PROVE In(d, Append(s, e)) <=> In(d, s) \/ d = e
  BY <1>1 DEF In
<1> QED BY <1>1, <1>2

LEMMA NoneIn == \A d : ~In(d, <<>>)
BY DEF In

\* What another task's step leaves of a job.
Alike(r, q) ==
    /\ q \in Jobs
    /\ q.pc = r.pc /\ q.todo = r.todo /\ q.bytes = r.bytes /\ q.n = r.n /\ q.own = r.own
    /\ q.linked => r.linked

LEMMA NoJobIs == NoJob \in Jobs /\ NoJob.pc = "none" /\ ~NoJob.linked /\ NoJob.todo = <<>> /\ NoJob.own
BY DEF NoJob, Jobs, Contents

LEMMA NoJobOK ==
    \A g \in Groups : \A p : JobOK(NoJob, g, p) /\ NoJob.pc = "none" /\ ~NoJob.linked /\ NoJob.todo = <<>>
BY NoJobIs, NoneIn DEF JobOK, Of, AtFile, Writers, Transfers, Foreign

LEMMA ClosedFacts ==
    ASSUME Held, NEW g \in Groups, NEW new \in Jobs
    PROVE  /\ Closed(g, new) \in [Groups -> Jobs] /\ Closed(g, new)[g] = new
           /\ \A h \in Groups \ {g} : Alike(job[h], Closed(g, new)[h]) /\ Closed(g, new)[h].linked = job[h].linked
<1>1. ASSUME NEW h \in Groups \ {g}
      PROVE  Alike(job[h], Closed(g, new)[h]) /\ Closed(g, new)[h].linked = job[h].linked
  <2>1. Closed(g, new)[h] = job[h] \/ Closed(g, new)[h] = [job[h] EXCEPT !.event = "set"]
    BY DEF Closed
  <2>2. job[h] \in Jobs
    BY DEF Held
  <2> QED BY <2>1, <2>2, ZenonT(60) DEF Alike, Jobs
<1>2. Closed(g, new)[g] = new
  BY DEF Closed
<1>3. Closed(g, new) = [h \in Groups |-> Closed(g, new)[h]]
  BY DEF Closed
<1>4. \A h \in Groups : Closed(g, new)[h] \in Jobs
  BY <1>1, <1>2 DEF Alike
<1> QED BY <1>1, <1>2, <1>3, <1>4

LEMMA UnlinkedFacts ==
    ASSUME NEW jobs \in [Groups -> Jobs], NEW D
    PROVE  /\ Unlinked(jobs, D) \in [Groups -> Jobs]
           /\ \A h \in Groups : /\ Alike(jobs[h], Unlinked(jobs, D)[h])
                                /\ Unlinked(jobs, D)[h].linked <=> jobs[h].linked /\ Head(jobs[h].todo) \notin D
                                /\ ~jobs[h].linked => Unlinked(jobs, D)[h] = jobs[h]
<1>1. ASSUME NEW h \in Groups
      PROVE  /\ Alike(jobs[h], Unlinked(jobs, D)[h])
             /\ Unlinked(jobs, D)[h].linked <=> jobs[h].linked /\ Head(jobs[h].todo) \notin D
             /\ ~jobs[h].linked => Unlinked(jobs, D)[h] = jobs[h]
  <2>1. jobs[h] \in Jobs
    OBVIOUS
  <2>2. Unlinked(jobs, D)[h] = IF jobs[h].linked /\ Head(jobs[h].todo) \in D
                               THEN [jobs[h] EXCEPT !.linked = FALSE] ELSE jobs[h]
    BY DEF Unlinked
  <2>3. CASE jobs[h].linked /\ Head(jobs[h].todo) \in D
    <3> DEFINE q == [jobs[h] EXCEPT !.linked = FALSE]
    <3>1. q \in Jobs /\ ~q.linked /\ q.pc = jobs[h].pc /\ q.todo = jobs[h].todo /\ q.bytes = jobs[h].bytes
          /\ q.n = jobs[h].n /\ q.own = jobs[h].own
      BY <2>1 DEF Jobs
    <3> HIDE DEF q
    <3>2. Unlinked(jobs, D)[h] = q
      BY <2>2, <2>3 DEF q
    <3> QED BY <2>3, <3>1, <3>2 DEF Alike
  <2>4. CASE ~(jobs[h].linked /\ Head(jobs[h].todo) \in D)
    <3>1. Unlinked(jobs, D)[h] = jobs[h]
      BY <2>2, <2>4
    <3> QED BY <2>1, <2>4, <3>1 DEF Alike
  <2> QED BY <2>3, <2>4
<1>2. Unlinked(jobs, D) = [h \in Groups |-> Unlinked(jobs, D)[h]]
  BY DEF Unlinked
<1> QED BY <1>1, <1>2 DEF Alike

LEMMA OwnFacts ==
    ASSUME Held, NEW g \in Groups, NEW s \in Statuses, SetOwn(g, s)
    PROVE  /\ status' \in [Files -> Statuses] /\ rows' \in [Files -> Statuses]
           /\ \A f \in Files : f # <<g, Dest(g)>> => status'[f] = status[f] /\ rows'[f] = rows[f]
           /\ <<g, Dest(g)>> \in Files =>
                  /\ status'[<<g, Dest(g)>>] = IF job[g].own THEN s ELSE status[<<g, Dest(g)>>]
                  /\ rows'[<<g, Dest(g)>>] = s
<1>1. status \in [Files -> Statuses] /\ rows \in [Files -> Statuses]
  BY DEF Held
<1> DEFINE k == <<g, Dest(g)>>
<1>2. (status' = IF job[g].own THEN [status EXCEPT ![k] = s] ELSE status) /\ rows' = [rows EXCEPT ![k] = s]
  BY DEF SetOwn
<1> HIDE DEF k
<1>3. /\ status' \in [Files -> Statuses] /\ rows' \in [Files -> Statuses]
      /\ \A f \in Files : f # k => status'[f] = status[f] /\ rows'[f] = rows[f]
      /\ k \in Files => status'[k] = (IF job[g].own THEN s ELSE status[k]) /\ rows'[k] = s
  BY <1>1, <1>2
<1> QED BY <1>3 DEF k

LEMMA AtFileFacts ==
    ASSUME Held, NEW g \in Groups, job[g].pc \in AtFile
    PROVE  Dest(g) \in Dests /\ <<g, Dest(g)>> \in Files /\ job[g].todo \in Seq(Dests) /\ job[g] \in Jobs
<1>1. JobOK(job[g], g, part) /\ job[g] \in Jobs
  BY DEF Held
<1>2. job[g].todo \in Seq(Dests) /\ job[g].todo # <<>>
  BY <1>1 DEF JobOK, Jobs
<1> QED BY <1>1, <1>2, Lists1 DEF Dest, JobOK, Of

-----------------------------------------------------------------------------
\* What a step of g's task does to the rest.

Effect(g) ==
    /\ job' \in [Groups -> Jobs]
    /\ \A h \in Groups \ {g} :
           /\ Alike(job[h], job'[h])
           /\ job'[h].linked => part'[Dest(h)] = part[Dest(h)]
           /\ job[h].linked /\ ~job'[h].linked => part'[Dest(h)] = NoFile
    /\ job'[g].linked => Head(job'[g].todo) = Dest(g) /\ (job[g].linked \/ (job[g].pc = "open" /\ ~Locked(Dest(g))))
    /\ cpu \in {Nobody, g} /\ cpu' \in {Nobody, g} /\ (job'[g].pc \in Running => cpu' = g)
    /\ UNCHANGED <<listed, call, inUse, mode>>
    /\ status' \in [Files -> Statuses] /\ rows' \in [Files -> Statuses]
    /\ \A f \in Files : f[1] # g => status'[f] = status[f]
    /\ part' \in [Dests -> Blocks \cup {NoFile}]
    /\ \A d \in Dests : \/ part'[d] = part[d] \/ part'[d] = NoFile
                        \/ job'[g].linked /\ Head(job'[g].todo) = d
    /\ writing' \in [Dests -> Groups \cup {Nobody}]
    /\ \A d \in Dests : \/ writing'[d] = writing[d]
                        \/ writing'[d] = Nobody /\ d = Dest(g) /\ (writing[d] = g \/ job[g].pc = "open")
                        \/ writing'[d] = g /\ job[g].pc = "open" /\ d = Dest(g) /\ job'[g].pc \in Writers /\ Head(job'[g].todo) = d
    /\ \A d \in Dests : writing'[d] = g =>
           \/ job'[g].pc \in Writers /\ Head(job'[g].todo) = d
           \/ writing[d] = g /\ ~(job[g].pc \in Writers /\ Dest(g) = d)
    /\ lib' \in [Dests -> Contents]
    /\ \A d \in Dests : \/ lib'[d] = lib[d] \/ lib'[d] = NoFile
                        \/ /\ lib'[d] = part[d] /\ part[d] # NoFile
                           /\ d = Dest(g) /\ job[g].pc = "finish" /\ Verified(g)

Took(g) == Effect(g) /\ JobOK(job'[g], g, part')

LEMMA HeldByTask ==
    ASSUME Held, NEW g \in Groups, Took(g)
    PROVE  Held'
<1> USE DEF Took, Effect
<1>1. ASSUME NEW h \in Groups \ {g} PROVE JobOK(job'[h], h, part')
  <2>1. JobOK(job[h], h, part)
    BY DEF Held
  <2> DEFINE r == job[h]
             q == job'[h]
             p == part
             p2 == part'
  <2>2. Alike(r, q) /\ (q.linked => p2[Head(r.todo)] = p[Head(r.todo)]) /\ JobOK(r, h, p)
    BY <2>1 DEF Dest
  <2> HIDE DEF r, q, p, p2, Took, Effect
  <2>3. JobOK(q, h, p2)
    BY <2>2 DEF Alike, JobOK, Foreign, Of
  <2> QED BY <2>3 DEF q, p2
<1>2. Alone(job')
  <2> SUFFICES ASSUME NEW h \in Groups, NEW k \in Groups, job'[h].linked, job'[k].linked,
                      Head(job'[h].todo) = Head(job'[k].todo), h # k
               PROVE  FALSE
    BY DEF Alone
  <2>1. \A a, b \in Groups : job[a].linked /\ job[b].linked /\ Head(job[a].todo) = Head(job[b].todo) => a = b
    BY DEF Held, Alone
  <2>2. \A a \in Groups \ {g} : job'[a].linked => job[a].linked /\ job'[a].todo = job[a].todo
    BY DEF Alike
  <2>3. ASSUME NEW a \in Groups \ {g}, job'[g].linked, job'[a].linked, Head(job'[g].todo) = Head(job'[a].todo)
        PROVE  FALSE
    <3>1. job[a].linked /\ job'[a].todo = job[a].todo
      BY <2>2, <2>3
    <3>2. CASE job[g].linked
      BY <2>1, <2>3, <3>1, <3>2 DEF Dest
    <3>3. CASE ~job[g].linked
      BY <2>3, <3>1, <3>3 DEF Locked, Dest
    <3> QED BY <3>2, <3>3
  <2>4. CASE h = g
    BY <2>3, <2>4
  <2>5. CASE k = g
    BY <2>3, <2>5
  <2>6. CASE h # g /\ k # g
    <3>1. job[h].linked /\ job'[h].todo = job[h].todo
      BY <2>2, <2>6
    <3>2. job[k].linked /\ job'[k].todo = job[k].todo
      BY <2>2, <2>6
    <3> QED BY <2>1, <3>1, <3>2
  <2> QED BY <2>4, <2>5, <2>6
<1>3. ASSUME NEW h \in Groups, job'[h].pc \in Running PROVE cpu' = h
  <2>1. CASE h = g
    BY <1>3, <2>1
  <2>2. CASE h # g
    <3>1. job[h].pc \in Running
      BY <1>3, <2>2 DEF Alike
    <3>2. cpu = h
      BY <3>1 DEF Held
    <3> QED BY <2>2, <3>2
  <2> QED BY <2>1, <2>2
<1>4. /\ inUse' \subseteq Dests /\ mode' \in {"up", "stopping", "down"}
      /\ listed' \in [Groups -> Seq(Dests)] /\ \A h \in Groups : Of(listed'[h], h)
      /\ call' \in [Callers -> Calls] /\ \A c \in Callers : CallOK(call'[c])
  BY DEF Held
<1>5. cpu' \in Groups \cup Callers \cup {Nobody}
  OBVIOUS
<1>6. \A h \in Groups : JobOK(job'[h], h, part')
  BY <1>1
<1> HIDE DEF Took
<1>7. /\ job' \in [Groups -> Jobs] /\ lib' \in [Dests -> Contents] /\ part' \in [Dests -> Blocks \cup {NoFile}]
      /\ status' \in [Files -> Statuses] /\ rows' \in [Files -> Statuses]
      /\ writing' \in [Dests -> Groups \cup {Nobody}]
  BY DEF Took
<1> HIDE DEF Effect
<1> QED BY <1>2, <1>3, <1>4, <1>5, <1>6, <1>7 DEF Held

-----------------------------------------------------------------------------
\* The parts the steps are made of.

frame == <<listed, call, inUse, mode>>

\* A step that touches neither the .part nor a row.
LEMMA QuietButLib ==
    ASSUME Held, NEW g \in Groups, NEW q \in Jobs, job' = [job EXCEPT ![g] = q],
           UNCHANGED <<part, status, rows, writing>>, UNCHANGED frame,
           lib' \in [Dests -> Contents], \A d \in Dests : lib'[d] = lib[d] \/ lib'[d] = NoFile,
           cpu \in {Nobody, g}, cpu' \in {Nobody, g}, q.pc \in Running => cpu' = g,
           q.linked => job[g].linked,
           job[g].pc \in Writers \/ q.linked => q.pc \in Writers /\ Head(q.todo) = Dest(g),
           JobOK(q, g, part)
    PROVE  Took(g) /\ job'[g] = q
<1>1. job' \in [Groups -> Jobs] /\ job'[g] = q /\ \A h \in Groups \ {g} : job'[h] = job[h]
  BY DEF Held
<1>2. \A h \in Groups \ {g} : Alike(job[h], job'[h]) /\ job'[h].linked = job[h].linked
  BY <1>1 DEF Held, Alike
<1>3. part \in [Dests -> Blocks \cup {NoFile}]
      /\ status \in [Files -> Statuses] /\ rows \in [Files -> Statuses]
      /\ writing \in [Dests -> Groups \cup {Nobody}]
  BY DEF Held
<1> QED BY <1>1, <1>2, <1>3 DEF Took, Effect, frame

LEMMA Quiet ==
    ASSUME Held, NEW g \in Groups, NEW q \in Jobs, job' = [job EXCEPT ![g] = q],
           UNCHANGED <<lib, part, status, rows, writing>>, UNCHANGED frame,
           cpu \in {Nobody, g}, cpu' \in {Nobody, g}, q.pc \in Running => cpu' = g,
           q.linked => job[g].linked,
           job[g].pc \in Writers \/ q.linked => q.pc \in Writers /\ Head(q.todo) = Dest(g),
           JobOK(q, g, part)
    PROVE  Took(g) /\ job'[g] = q
<1>1. lib' \in [Dests -> Contents] /\ \A d \in Dests : lib'[d] = lib[d] \/ lib'[d] = NoFile
  BY DEF Held
<1>2. UNCHANGED <<part, status, rows, writing>>
  OBVIOUS
<1> QED BY <1>1, <1>2, QuietButLib

LEMMA OwnOnly ==
    ASSUME Held, NEW g \in Groups, NEW s \in Statuses, SetOwn(g, s)
    PROVE  /\ status' \in [Files -> Statuses] /\ rows' \in [Files -> Statuses]
           /\ \A f \in Files : f[1] # g => status'[f] = status[f]
<1>1. \A f \in Files : f[1] # g => f # <<g, Dest(g)>>
  OBVIOUS
<1> QED BY <1>1, OwnFacts

LEMMA WritingFacts ==
    ASSUME Held, NEW g \in Groups, writing' = WritingWithout(g)
    PROVE  /\ writing' \in [Dests -> Groups \cup {Nobody}]
           /\ \A d \in Dests : \/ writing'[d] = writing[d]
                               \/ writing'[d] = Nobody /\ d = Dest(g) /\ writing[d] = g
           /\ \A d \in Dests : writing'[d] = g => writing[d] = g /\ d # Dest(g)
<1>1. writing \in [Dests -> Groups \cup {Nobody}]
  BY DEF Held
<1> QED BY <1>1 DEF WritingWithout

LEMMA Fails ==
    ASSUME Held, NEW g \in Groups, job[g].pc \in AtFile, cpu \in {Nobody, g},
           NEW garbage \in BOOLEAN, Fail(g, garbage), lib' = lib, UNCHANGED frame
    PROVE  Took(g) /\ job'[g] = NoJob
<1> DEFINE j == Closed(g, NoJob)
           d0 == Dest(g)
<1>1. NoJob \in Jobs /\ JobOK(NoJob, g, part') /\ ~NoJob.linked /\ NoJob.pc = "none"
  BY NoJobOK DEF JobOK
<1>2. j \in [Groups -> Jobs] /\ j[g] = NoJob
      /\ \A h \in Groups \ {g} : Alike(job[h], j[h]) /\ j[h].linked = job[h].linked
  BY <1>1, ClosedFacts
<1>3. /\ status' \in [Files -> Statuses] /\ rows' \in [Files -> Statuses]
      /\ \A f \in Files : f[1] # g => status'[f] = status[f]
  BY OwnOnly DEF Fail, Statuses
<1>4. /\ writing' \in [Dests -> Groups \cup {Nobody}]
      /\ \A d \in Dests : \/ writing'[d] = writing[d]
                          \/ writing'[d] = Nobody /\ d = Dest(g) /\ writing[d] = g
      /\ \A d \in Dests : writing'[d] = g => writing[d] = g /\ d # Dest(g)
  BY WritingFacts DEF Fail
<1>5. lib \in [Dests -> Contents] /\ part \in [Dests -> Blocks \cup {NoFile}] /\ d0 \in Dests
  BY AtFileFacts DEF Held
<1>6. cpu' = Nobody
  BY DEF Fail
<1>7. /\ job' \in [Groups -> Jobs] /\ job'[g] = NoJob
      /\ part' \in [Dests -> Blocks \cup {NoFile}] /\ \A d \in Dests : part'[d] = part[d] \/ part'[d] = NoFile
      /\ \A h \in Groups \ {g} :
           /\ Alike(job[h], job'[h])
           /\ job'[h].linked => part'[Dest(h)] = part[Dest(h)]
           /\ job[h].linked /\ ~job'[h].linked => part'[Dest(h)] = NoFile
  <2>1. CASE garbage
    <3>1. part' = [part EXCEPT ![d0] = NoFile] /\ job' = Unlinked(j, {d0})
      BY <2>1 DEF Fail
    <3> HIDE DEF j, d0
    <3>2. /\ job' \in [Groups -> Jobs]
          /\ \A h \in Groups : /\ Alike(j[h], job'[h])
                               /\ job'[h].linked <=> j[h].linked /\ Head(j[h].todo) \notin {d0}
                               /\ ~j[h].linked => job'[h] = j[h]
      BY <1>2, <3>1, UnlinkedFacts
    <3>3. job'[g] = NoJob
      BY <1>1, <1>2, <3>2
    <3>4. part' \in [Dests -> Blocks \cup {NoFile}] /\ (\A d \in Dests : part'[d] = part[d] \/ part'[d] = NoFile)
          /\ part'[d0] = NoFile /\ \A d : d # d0 => part'[d] = part[d]
      BY <1>5, <3>1
    <3>5. ASSUME NEW h \in Groups \ {g}
          PROVE  /\ Alike(job[h], job'[h])
                 /\ job'[h].linked => part'[Dest(h)] = part[Dest(h)]
                 /\ job[h].linked /\ ~job'[h].linked => part'[Dest(h)] = NoFile
      <4>1. Alike(job[h], job'[h])
        BY <1>2, <3>2 DEF Alike
      <4>2. Head(j[h].todo) = Dest(h)
        BY <1>2 DEF Alike, Dest
      <4> QED BY <1>2, <3>2, <3>4, <4>1, <4>2
    <3> QED BY <3>2, <3>3, <3>4, <3>5
  <2>2. CASE ~garbage
    <3>1. part' = part /\ job' = j
      BY <2>2 DEF Fail
    <3> HIDE DEF j, d0
    <3> QED BY <1>2, <1>5, <3>1
  <2> QED BY <2>1, <2>2
<1> HIDE DEF j, d0
<1> QED BY <1>1, <1>3, <1>4, <1>5, <1>6, <1>7 DEF Took, Effect, frame, Running

\* A step that writes to the .part, if the handle is still the file at its path.
LEMMA Writes ==
    ASSUME Held, NEW g \in Groups, NEW q \in Jobs, job' = [job EXCEPT ![g] = q], WriteTo(g, q.bytes),
           job[g].pc \in Transfers, q.pc \in Transfers, q.todo = job[g].todo, q.linked = job[g].linked,
           q.bytes \in Blocks, Foreign(q),
           status' \in [Files -> Statuses], rows' \in [Files -> Statuses],
           \A f \in Files : f[1] # g => status'[f] = status[f],
           UNCHANGED <<lib, writing>>, UNCHANGED frame,
           cpu \in {Nobody, g}, cpu' \in {Nobody, g}, q.pc \in Running => cpu' = g
    PROVE  Took(g) /\ job'[g] = q
<1> DEFINE d0 == Dest(g)
<1>1. job' \in [Groups -> Jobs] /\ job'[g] = q /\ \A h \in Groups \ {g} : job'[h] = job[h]
  BY DEF Held
<1>2. \A h \in Groups \ {g} : Alike(job[h], job'[h]) /\ job'[h].linked = job[h].linked
  BY <1>1 DEF Held, Alike
<1>3. part \in [Dests -> Blocks \cup {NoFile}] /\ lib \in [Dests -> Contents]
      /\ writing \in [Dests -> Groups \cup {Nobody}]
  BY DEF Held
<1>4. d0 \in Dests /\ job[g] \in Jobs /\ q.todo # <<>> /\ Of(q.todo, g) /\ Head(q.todo) = d0
  BY AtFileFacts DEF AtFile, Writers, Held, JobOK, Dest
<1>5. part' = IF job[g].linked THEN [part EXCEPT ![d0] = q.bytes] ELSE part
  BY DEF WriteTo
<1>6. \A h \in Groups \ {g} : job[h].linked /\ job[g].linked => Dest(h) # d0
  BY DEF Held, Alone, Dest
<1> HIDE DEF d0
<1>7. part' \in [Dests -> Blocks \cup {NoFile}] /\ (\A d : d # d0 => part'[d] = part[d])
      /\ (job[g].linked => part'[d0] = q.bytes) /\ (~job[g].linked => part' = part)
  BY <1>3, <1>4, <1>5
<1>8. JobOK(q, g, part')
  BY <1>4, <1>7 DEF JobOK
<1>9. \A h \in Groups \ {g} : job'[h].linked => part'[Dest(h)] = part[Dest(h)]
  BY <1>2, <1>6, <1>7
<1>10. \A d \in Dests : part'[d] = part[d] \/ (q.linked /\ Head(q.todo) = d)
  BY <1>4, <1>7
<1>11. \A d \in Dests : writing'[d] = g =>
           \/ q.pc \in Writers /\ Head(q.todo) = d
           \/ writing[d] = g /\ ~(job[g].pc \in Writers /\ d0 = d)
  BY <1>4 DEF Writers
<1> QED BY <1>1, <1>2, <1>3, <1>4, <1>7, <1>8, <1>9, <1>10, <1>11 DEF Took, Effect, frame, d0

LEMMA Requests ==
    ASSUME Held, NEW g \in Groups, job[g].pc \in Transfers, cpu \in {Nobody, g},
           NEW b \in Blocks, NEW ranged \in BOOLEAN, Len(b) # Size, Request(g, Len(b), b, ranged),
           UNCHANGED <<lib, writing>>, UNCHANGED frame
    PROVE  /\ Took(g) /\ job'[g].pc = "http" /\ job'[g].n = Len(b) /\ job'[g].bytes = b
           /\ job'[g].todo = job[g].todo /\ job'[g].own = job[g].own /\ job'[g].linked = job[g].linked
<1> DEFINE q == [job[g] EXCEPT !.pc = "http", !.n = Len(b), !.bytes = b, !.ranged = ranged]
<1>1. job[g] \in Jobs /\ job \in [Groups -> Jobs]
  BY DEF Held
<1>2. Len(b) \in Nat
  BY DEF Blocks
<1>3. q \in Jobs /\ q.pc = "http" /\ q.todo = job[g].todo /\ q.linked = job[g].linked /\ q.bytes = b /\ q.n = Len(b)
      /\ q.own = job[g].own
  BY <1>1, <1>2 DEF Jobs, AtFile, Writers, Transfers, Contents
<1>4. job' = [job EXCEPT ![g] = q]
  BY <1>1 DEF Request
<1>5. WriteTo(g, b) /\ cpu' = Nobody
  BY DEF Request
<1>6. status' \in [Files -> Statuses] /\ rows' \in [Files -> Statuses]
      /\ \A f \in Files : f[1] # g => status'[f] = status[f]
  BY OwnOnly DEF Request, Statuses
<1> HIDE DEF q
<1>7. Foreign(q)
  BY <1>2, <1>3 DEF Foreign
<1>8. WriteTo(g, q.bytes) /\ q.bytes \in Blocks /\ q.pc \in Transfers /\ q.pc \notin Running
  BY <1>3, <1>5 DEF Transfers, Running
<1>9. q \in Jobs /\ q.todo = job[g].todo /\ q.linked = job[g].linked /\ cpu' \in {Nobody, g}
      /\ (q.pc \in Running => cpu' = g) /\ UNCHANGED <<lib, writing>> /\ UNCHANGED frame
  BY <1>3, <1>5, <1>8
<1>10. Took(g) /\ job'[g] = q
  BY <1>4, <1>6, <1>7, <1>8, <1>9, Writes
<1> QED BY <1>3, <1>10

LEMMA NextOfFacts ==
    ASSUME Held, NEW g \in Groups, job[g].pc \in AtFile
    PROVE  NextOf(g) \in Jobs /\ NextOf(g).pc = "next" /\ ~NextOf(g).linked /\ NextOf(g).todo = Tail(job[g].todo)
           /\ \A p : JobOK(NextOf(g), g, p)
<1>1. job[g].todo \in Seq(Dests) /\ job[g].todo # <<>> /\ Of(job[g].todo, g) /\ NoJob \in Jobs
  BY AtFileFacts, NoJobOK DEF Held, JobOK
<1>2. Tail(job[g].todo) \in Seq(Dests) /\ Of(Tail(job[g].todo), g)
  BY <1>1, Lists1 DEF Of
<1>3. NextOf(g) \in Jobs /\ NextOf(g).pc = "next" /\ ~NextOf(g).linked /\ NextOf(g).todo = Tail(job[g].todo)
  BY <1>1, <1>2 DEF NextOf, Jobs, NoJob
<1> QED BY <1>2, <1>3 DEF JobOK, AtFile, Writers, Transfers, Foreign

LEMMA Completes ==
    ASSUME Held, NEW g \in Groups, job[g].pc \in AtFile, cpu \in {Nobody, g},
           Complete(g), job' = Closed(g, NextOf(g)), UNCHANGED <<lib, part>>, UNCHANGED frame
    PROVE  Took(g) /\ job'[g] = NextOf(g)
<1> DEFINE q == NextOf(g)
<1>1. q \in Jobs /\ q.pc = "next" /\ ~q.linked /\ \A p : JobOK(q, g, p)
  BY NextOfFacts
<1> HIDE DEF q
<1>2. job' \in [Groups -> Jobs] /\ job'[g] = q
      /\ \A h \in Groups \ {g} : Alike(job[h], job'[h]) /\ job'[h].linked = job[h].linked
  BY <1>1, ClosedFacts DEF q
<1>3. /\ status' \in [Files -> Statuses] /\ rows' \in [Files -> Statuses]
      /\ \A f \in Files : f[1] # g => status'[f] = status[f]
  BY OwnOnly DEF Complete, Statuses
<1>4. /\ writing' \in [Dests -> Groups \cup {Nobody}]
      /\ \A d \in Dests : \/ writing'[d] = writing[d]
                          \/ writing'[d] = Nobody /\ d = Dest(g) /\ writing[d] = g
      /\ \A d \in Dests : writing'[d] = g => writing[d] = g /\ d # Dest(g)
  BY WritingFacts DEF Complete
<1>5. lib \in [Dests -> Contents] /\ part \in [Dests -> Blocks \cup {NoFile}]
  BY DEF Held
<1>6. cpu' = g
  BY DEF Complete
<1>7. Took(g) /\ job'[g] = q
  BY <1>1, <1>2, <1>3, <1>4, <1>5, <1>6 DEF Took, Effect, frame
<1> QED BY <1>7 DEF q

LEMMA SetsAside ==
    ASSUME Held, NEW g \in Groups, job[g].pc \in {"check", "adopt"}, cpu \in {Nobody, g},
           SetAside(g), UNCHANGED frame
    PROVE  /\ Took(g)
           /\ \/ job'[g] = NoJob /\ Fail(g, FALSE) /\ lib' = lib
              \/ /\ job'[g] = [job[g] EXCEPT !.pc = "open", !.bytes = NoFile]
                 /\ UNCHANGED <<status, rows, writing, part>>
                 /\ lib' = lib \/ lib' = [lib EXCEPT ![Dest(g)] = NoFile]
<1>1. CASE Fail(g, FALSE) /\ lib' = lib
  BY <1>1, Fails DEF AtFile
<1>2. CASE /\ lib' = lib \/ lib' = [lib EXCEPT ![Dest(g)] = NoFile]
           /\ job' = [job EXCEPT ![g].pc = "open", ![g].bytes = NoFile]
           /\ cpu' = g
           /\ UNCHANGED <<status, rows, writing, part>>
  <2> DEFINE q == [job[g] EXCEPT !.pc = "open", !.bytes = NoFile]
  <2>1. job[g] \in Jobs /\ job \in [Groups -> Jobs] /\ JobOK(job[g], g, part)
    BY DEF Held
  <2>2. q \in Jobs /\ q.pc = "open" /\ q.todo = job[g].todo /\ q.linked = job[g].linked
    BY <2>1 DEF Jobs, Contents, AtFile
  <2>3. job' = [job EXCEPT ![g] = q]
    BY <1>2, <2>1
  <2>4. ~job[g].linked /\ job[g].pc \in AtFile /\ job[g].pc \notin Writers
    BY <2>1 DEF JobOK, AtFile, Transfers, Writers
  <2> HIDE DEF q
  <2>5. JobOK(q, g, part)
    BY <2>1, <2>2, <2>4 DEF JobOK, Transfers, Foreign
  <2>6. lib' \in [Dests -> Contents] /\ \A d \in Dests : lib'[d] = lib[d] \/ lib'[d] = NoFile
    BY <1>2 DEF Held, Contents
  <2>7. Took(g) /\ job'[g] = q
    BY <1>2, <2>2, <2>3, <2>4, <2>5, <2>6, QuietButLib
  <2> QED BY <1>2, <2>7 DEF q
<1> QED BY <1>1, <1>2 DEF SetAside

-----------------------------------------------------------------------------
\* The steps of a task, one by one.

LEMMA Cpu ==
    ASSUME NEW g \in Groups, Idle \/ cpu = g
    PROVE  cpu \in {Nobody, g}
BY DEF Idle

LEMMA Advances ==
    ASSUME Held, NEW g \in Groups, NEW q \in Jobs, job' = [job EXCEPT ![g] = q],
           UNCHANGED <<lib, part, status, rows, writing>>, UNCHANGED frame,
           cpu \in {Nobody, g}, cpu' = IF q.pc \in Running THEN g ELSE Nobody,
           q.todo = job[g].todo, q.linked = job[g].linked,
           job[g].pc \in AtFile, q.pc \in AtFile, job[g].pc \in Transfers <=> q.pc \in Transfers,
           job[g].pc # "published", q.pc \in Transfers => q.bytes = job[g].bytes,
           Foreign(q)
    PROVE  Took(g) /\ job'[g] = q
<1>1. job[g] \in Jobs /\ JobOK(job[g], g, part)
  BY DEF Held
<1>2. JobOK(q, g, part)
  BY <1>1 DEF JobOK
<1>3. /\ cpu' \in {Nobody, g} /\ (q.pc \in Running => cpu' = g) /\ (q.linked => job[g].linked)
      /\ (job[g].pc \in Writers \/ q.linked => q.pc \in Writers /\ Head(q.todo) = Dest(g))
  BY <1>1 DEF JobOK, Writers, Dest
<1> QED BY <1>2, <1>3, Quiet

LEMMA TookFirstStep ==
    ASSUME Held, NEW g \in Groups, FirstStep(g) \/ SlotGranted(g)
    PROVE  /\ Took(g) /\ UNCHANGED <<lib, part, status, rows, writing, listed>>
           /\ job[g].pc \in {"fresh", "slot"}
           /\ \/ job'[g] = [job[g] EXCEPT !.pc = "next", !.todo = listed[g]]
              \/ job'[g] = [job[g] EXCEPT !.pc = "slot"]
<1>1. job[g] \in Jobs /\ job \in [Groups -> Jobs] /\ JobOK(job[g], g, part) /\ listed[g] \in Seq(Dests) /\ Of(listed[g], g)
  BY DEF Held
<1>2. job[g].pc \in {"fresh", "slot"} /\ Idle /\ UNCHANGED <<lib, part, status, rows, writing>> /\ UNCHANGED frame
  BY DEF FirstStep, SlotGranted, Wakes, disk, queue, frame
<1>3. ~job[g].linked /\ job[g].pc \notin Writers
  BY <1>1, <1>2 DEF JobOK, Transfers, Writers
<1> DEFINE q1 == [job[g] EXCEPT !.pc = "next", !.todo = listed[g]]
           q2 == [job[g] EXCEPT !.pc = "slot"]
<1>4. q1 \in Jobs /\ q1.pc = "next" /\ q1.todo = listed[g] /\ ~q1.linked
  BY <1>1, <1>3 DEF Jobs
<1>5. q2 \in Jobs /\ q2.pc = "slot" /\ q2.todo = job[g].todo /\ ~q2.linked
  BY <1>1, <1>3 DEF Jobs
<1>6. \/ job' = [job EXCEPT ![g] = q1] /\ cpu' = g
      \/ job' = [job EXCEPT ![g] = q2] /\ cpu' = Nobody
  BY <1>1, <1>2 DEF FirstStep, SlotGranted, Idle
<1>7. cpu \in {Nobody, g}
  BY <1>2, Cpu
<1> HIDE DEF q1, q2
<1>8. JobOK(q1, g, part) /\ JobOK(q2, g, part)
  BY <1>1, <1>4, <1>5 DEF JobOK, AtFile, Writers, Transfers, Foreign
<1>9. CASE job' = [job EXCEPT ![g] = q1] /\ cpu' = g
  <2>1. Took(g) /\ job'[g] = q1
    BY <1>2, <1>3, <1>4, <1>7, <1>8, <1>9, Quiet
  <2> QED BY <1>2, <2>1 DEF q1, frame
<1>10. CASE job' = [job EXCEPT ![g] = q2] /\ cpu' = Nobody
  <2>1. q2.pc \notin Running
    BY <1>5 DEF Running
  <2>2. Took(g) /\ job'[g] = q2
    BY <1>2, <1>3, <1>5, <1>7, <1>8, <1>10, <2>1, Quiet
  <2> QED BY <1>2, <2>2 DEF q2, frame
<1> QED BY <1>6, <1>9, <1>10

LEMMA TookNextFile ==
    ASSUME Held, NEW g \in Groups, NextFile(g)
    PROVE  /\ Took(g) /\ UNCHANGED <<lib, part, status, rows, writing, listed>>
           /\ job[g].pc = "next"
           /\ \/ job'[g] = NoJob
              \/ job[g].todo # <<>> /\ job'[g] = [job[g] EXCEPT !.todo = Tail(@)]
              \/ /\ job[g].todo # <<>> /\ job'[g] = [NoJob EXCEPT !.pc = "begin", !.todo = job[g].todo]
                 /\ status[<<g, Dest(g)>>] \notin {"completed", "canceled", "paused"}
<1>1. job[g] \in Jobs /\ job \in [Groups -> Jobs] /\ JobOK(job[g], g, part) /\ job[g].todo \in Seq(Dests)
  BY DEF Held, Jobs
<1>2. job[g].pc = "next" /\ cpu = g /\ UNCHANGED <<lib, part, status, rows, writing>> /\ UNCHANGED frame
  BY DEF NextFile, disk, queue, frame
<1>3. ~job[g].linked /\ job[g].pc \notin Writers
  BY <1>1, <1>2 DEF JobOK, Transfers, Writers
<1> DEFINE q1 == [job[g] EXCEPT !.todo = Tail(@)]
           q2 == [NoJob EXCEPT !.pc = "begin", !.todo = job[g].todo]
<1>4. CASE job[g].todo = <<>> /\ job' = [job EXCEPT ![g] = NoJob] /\ cpu' = Nobody
  <2>1. NoJob \in Jobs /\ JobOK(NoJob, g, part) /\ ~NoJob.linked /\ NoJob.pc \notin Running
    BY NoJobOK DEF JobOK, Running
  <2> QED BY <1>2, <1>3, <1>4, <2>1, Quiet DEF frame
<1>5. CASE job[g].todo # <<>> /\ cpu' = g /\ job' = [job EXCEPT ![g].todo = Tail(@)]
  <2>1. Tail(job[g].todo) \in Seq(Dests) /\ Of(Tail(job[g].todo), g)
    BY <1>1, <1>5, Lists1 DEF JobOK, Of
  <2>2. q1 \in Jobs /\ q1.pc = "next" /\ q1.todo = Tail(job[g].todo) /\ ~q1.linked
    BY <1>1, <1>2, <1>3, <2>1 DEF Jobs
  <2>3. job' = [job EXCEPT ![g] = q1]
    BY <1>1, <1>5
  <2> HIDE DEF q1
  <2>4. JobOK(q1, g, part)
    BY <2>1, <2>2 DEF JobOK, AtFile, Writers, Transfers, Foreign
  <2>5. Took(g) /\ job'[g] = q1
    BY <1>2, <1>3, <1>5, <2>2, <2>3, <2>4, Quiet
  <2> QED BY <1>2, <1>5, <2>5 DEF q1, frame
<1>6. CASE /\ job[g].todo # <<>> /\ cpu' = g /\ job' = [job EXCEPT ![g] = q2]
           /\ status[<<g, Dest(g)>>] \notin {"completed", "canceled", "paused"}
  <2>1. q2 \in Jobs /\ q2.pc = "begin" /\ q2.todo = job[g].todo /\ ~q2.linked
    BY <1>1, NoJobOK DEF JobOK, Jobs, AtFile, NoJob
  <2> HIDE DEF q2
  <2>2. JobOK(q2, g, part)
    BY <1>1, <1>6, <2>1 DEF JobOK, AtFile, Writers, Transfers, Foreign
  <2>3. Took(g) /\ job'[g] = q2
    BY <1>2, <1>3, <1>6, <2>1, <2>2, Quiet
  <2> QED BY <1>2, <1>6, <2>3 DEF q2, frame
<1> QED BY <1>4, <1>5, <1>6 DEF NextFile

LEMMA TookBegin ==
    ASSUME Held, NEW g \in Groups, Begin(g) \/ SiblingDone(g)
    PROVE  /\ Took(g) /\ UNCHANGED <<lib, part, status, rows, writing, listed>>
           /\ job[g].pc \in {"begin", "sibling"} /\ job'[g].pc \in {"begin", "sibling", "check"}
           /\ job'[g].todo = job[g].todo /\ job'[g].own = job[g].own
           /\ job'[g].pc = "check" => job[g].pc = "begin" /\ writing[Dest(g)] \in {Nobody, g}
<1>1. job[g] \in Jobs /\ job \in [Groups -> Jobs] /\ JobOK(job[g], g, part)
  BY DEF Held
<1>2. UNCHANGED <<lib, part, status, rows, writing>> /\ UNCHANGED frame /\ cpu \in {Nobody, g}
  BY DEF Begin, SiblingDone, Wakes, Idle, disk, queue, frame
<1>3. job[g].pc \in {"begin", "sibling"} /\ job[g].pc \in AtFile
  BY DEF Begin, SiblingDone, Wakes, AtFile
<1>4. ASSUME NEW e \in Groups \cup {Nobody}, NEW pc \in {"begin", "sibling", "check"},
             job' = [job EXCEPT ![g] = [job[g] EXCEPT !.pc = pc, !.event = e]],
             cpu' = (IF pc = "sibling" THEN Nobody ELSE g)
      PROVE  /\ Took(g) /\ job'[g].pc = pc /\ job'[g].todo = job[g].todo /\ job'[g].own = job[g].own
  <2> DEFINE q == [job[g] EXCEPT !.pc = pc, !.event = e]
  <2>1. q \in Jobs /\ q.pc = pc /\ q.todo = job[g].todo /\ q.own = job[g].own /\ q.linked = job[g].linked
    BY <1>1 DEF Jobs, AtFile
  <2>2. job' = [job EXCEPT ![g] = q]
    BY <1>4
  <2> HIDE DEF q
  <2>3. /\ q.pc \in AtFile /\ q.pc \notin Transfers /\ job[g].pc \notin Transfers /\ job[g].pc # "published"
        /\ cpu' = (IF q.pc \in Running THEN g ELSE Nobody) /\ Foreign(q)
    BY <1>3, <1>4, <2>1 DEF AtFile, Transfers, Running, Foreign
  <2>4. Took(g) /\ job'[g] = q
    BY <1>2, <1>3, <2>1, <2>2, <2>3, Advances
  <2> QED BY <2>1, <2>4
<1>5. job[g].event \in Groups \cup {Nobody, "set", "lost"}
  BY <1>1 DEF Jobs
<1>6. CASE SiblingDone(g)
  <2>1. job' = [job EXCEPT ![g] = [job[g] EXCEPT !.pc = "begin", !.event = Nobody]] /\ cpu' = g
    BY <1>1, <1>6 DEF SiblingDone
  <2>2. Took(g) /\ job'[g].pc = "begin" /\ job'[g].todo = job[g].todo /\ job'[g].own = job[g].own
    BY <1>4, <2>1
  <2> QED BY <1>2, <1>3, <2>2 DEF frame
<1>7. CASE Begin(g)
  <2> DEFINE w == writing[Dest(g)]
  <2>1. w \in Groups \cup {Nobody}
    BY <1>3, AtFileFacts DEF Held
  <2>2. CASE w \in {Nobody, g} /\ job' = [job EXCEPT ![g].pc = "check"] /\ cpu' = g
    <3> DEFINE q == [job[g] EXCEPT !.pc = "check"]
    <3>1. q \in Jobs /\ q.pc = "check" /\ q.todo = job[g].todo /\ q.own = job[g].own /\ q.linked = job[g].linked
      BY <1>1 DEF Jobs, AtFile
    <3>2. job' = [job EXCEPT ![g] = q]
      BY <1>1, <2>2
    <3> HIDE DEF q
    <3>3. /\ q.pc \in AtFile /\ q.pc \notin Transfers /\ job[g].pc \notin Transfers /\ job[g].pc # "published"
          /\ cpu' = (IF q.pc \in Running THEN g ELSE Nobody) /\ Foreign(q)
      BY <1>3, <2>2, <3>1 DEF AtFile, Transfers, Running, Foreign
    <3>4. Took(g) /\ job'[g] = q
      BY <1>2, <1>3, <3>1, <3>2, <3>3, Advances
    <3>5. job[g].pc = "begin"
      BY <1>7 DEF Begin
    <3> QED BY <1>2, <1>3, <2>2, <3>1, <3>4, <3>5 DEF frame
  <2>3. CASE job' = [job EXCEPT ![g].pc = "sibling", ![g].event = w] /\ cpu' = Nobody
    <3>1. job' = [job EXCEPT ![g] = [job[g] EXCEPT !.pc = "sibling", !.event = w]]
      BY <1>1, <2>3
    <3> HIDE DEF w
    <3>2. Took(g) /\ job'[g].pc = "sibling" /\ job'[g].todo = job[g].todo /\ job'[g].own = job[g].own
      BY <1>4, <2>1, <2>3, <3>1
    <3> QED BY <1>2, <1>3, <3>2 DEF frame
  <2> QED BY <1>7, <2>2, <2>3 DEF Begin
<1> QED BY <1>6, <1>7

\* How a step at a file leaves its group: the file failed, the file complete, or on.
Ends(g) == job[g].pc \in AtFile /\ job'[g] = NoJob /\ SetOwn(g, "failed")

Done(g) == job[g].pc \in AtFile /\ job'[g] = NextOf(g) /\ SetOwn(g, "completed") /\ lib' = lib

Goes(g) ==
    /\ job[g].pc \in AtFile /\ job'[g].pc \in AtFile
    /\ job'[g].todo = job[g].todo /\ job'[g].own = job[g].own
    /\ job[g].pc \in Writers => job'[g].pc \in Writers
    /\ UNCHANGED <<status, rows>> \/ (job[g].pc \in Writers /\ SetOwn(g, "running"))

\* On with the transfer.
Carries(g) ==
    /\ job[g].pc \in Transfers /\ job'[g].pc \in Transfers
    /\ UNCHANGED <<lib, writing>> /\ job'[g].linked = job[g].linked
    /\ ~job[g].linked => part' = part

LEMMA TookCheck ==
    ASSUME Held, NEW g \in Groups, Check(g)
    PROVE  /\ Took(g) /\ job[g].pc = "check"
           /\ \/ Ends(g) /\ lib' = lib
              \/ Done(g) /\ lib[Dest(g)] # NoFile /\ Len(lib[Dest(g)]) = Size
              \/ /\ Goes(g) /\ UNCHANGED <<part, status, rows, writing>> /\ job'[g].pc = "open"
                 /\ \/ lib' = lib
                    \/ lib' = [lib EXCEPT ![Dest(g)] = NoFile] /\ Len(lib[Dest(g)]) # Size
              \/ /\ Goes(g) /\ UNCHANGED <<lib, part, status, rows, writing>> /\ job'[g].pc = "adopt"
                 /\ Dest(g) \in Small /\ job'[g].bytes = lib[Dest(g)]
                 /\ lib[Dest(g)] # NoFile /\ Len(lib[Dest(g)]) = Size
<1> DEFINE d == Dest(g)
<1>1. job[g] \in Jobs /\ job \in [Groups -> Jobs] /\ JobOK(job[g], g, part) /\ lib \in [Dests -> Contents]
  BY DEF Held
<1>2. job[g].pc = "check" /\ cpu = g /\ UNCHANGED frame
  BY DEF Check, frame, fixed
<1>3. job[g].pc \in AtFile /\ job[g].pc \notin Writers /\ ~job[g].linked /\ job[g].pc \notin Transfers /\ d \in Dests
  BY <1>1, <1>2, AtFileFacts DEF AtFile, Writers, Transfers, JobOK
<1>4. ASSUME NEW pc \in {"open", "adopt"}, NEW b \in Contents,
             job' = [job EXCEPT ![g] = [job[g] EXCEPT !.pc = pc, !.bytes = b]],
             cpu' = (IF pc = "open" THEN g ELSE Nobody), UNCHANGED <<lib, part, status, rows, writing>>
      PROVE  Took(g) /\ Goes(g) /\ job'[g].pc = pc /\ job'[g].bytes = b
  <2> DEFINE q == [job[g] EXCEPT !.pc = pc, !.bytes = b]
  <2>1. q \in Jobs /\ q.pc = pc /\ q.bytes = b /\ q.todo = job[g].todo /\ q.own = job[g].own /\ q.linked = job[g].linked
    BY <1>1 DEF Jobs, AtFile
  <2>2. job' = [job EXCEPT ![g] = q]
    BY <1>4
  <2> HIDE DEF q
  <2>3. /\ q.pc \in AtFile /\ q.pc \notin Transfers /\ job[g].pc # "published"
        /\ cpu' = (IF q.pc \in Running THEN g ELSE Nobody) /\ Foreign(q)
    BY <1>2, <1>4, <2>1 DEF AtFile, Transfers, Running, Foreign
  <2>4. Took(g) /\ job'[g] = q
    BY <1>2, <1>3, <1>4, <2>1, <2>2, <2>3, Advances
  <2> QED BY <1>3, <1>4, <2>1, <2>3, <2>4 DEF Goes
<1>5. CASE lib[d] = NoFile /\ job' = [job EXCEPT ![g].pc = "open"] /\ cpu' = g /\ UNCHANGED <<lib, part, status, rows, writing>>
  <2>1. [job[g] EXCEPT !.pc = "open"] = [job[g] EXCEPT !.pc = "open", !.bytes = job[g].bytes] /\ job[g].bytes \in Contents
    BY <1>1 DEF Jobs
  <2>2. job' = [job EXCEPT ![g] = [job[g] EXCEPT !.pc = "open", !.bytes = job[g].bytes]]
    BY <1>1, <1>5, <2>1
  <2>3. Took(g) /\ Goes(g) /\ job'[g].pc = "open"
    BY <1>4, <1>5, <2>1, <2>2
  <2> QED BY <1>2, <1>5, <2>3
<1>6. CASE Len(lib[d]) # Size /\ SetAside(g)
  <2>1. Took(g) /\ \/ job'[g] = NoJob /\ Fail(g, FALSE) /\ lib' = lib
                   \/ /\ job'[g] = [job[g] EXCEPT !.pc = "open", !.bytes = NoFile]
                      /\ UNCHANGED <<status, rows, writing, part>>
                      /\ lib' = lib \/ lib' = [lib EXCEPT ![d] = NoFile]
    BY <1>2, <1>6, SetsAside
  <2>2. CASE job'[g] = NoJob /\ Fail(g, FALSE) /\ lib' = lib
    <3>1. Ends(g)
      BY <1>3, <2>2 DEF Ends, Fail
    <3> QED BY <1>2, <2>1, <2>2, <3>1
  <2>3. CASE /\ job'[g] = [job[g] EXCEPT !.pc = "open", !.bytes = NoFile]
             /\ UNCHANGED <<status, rows, writing, part>>
             /\ lib' = lib \/ lib' = [lib EXCEPT ![d] = NoFile]
    <3>1. Goes(g) /\ job'[g].pc = "open"
      BY <1>1, <1>3, <2>3 DEF Goes, Jobs, AtFile
    <3> QED BY <1>2, <1>6, <2>1, <2>3, <3>1
  <2> QED BY <2>1, <2>2, <2>3
<1>7. CASE /\ lib[d] # NoFile /\ Len(lib[d]) = Size /\ d \in Small
           /\ job' = [job EXCEPT ![g].pc = "adopt", ![g].bytes = lib[d]]
           /\ cpu' = Nobody /\ UNCHANGED <<lib, part, status, rows, writing>>
  <2>1. lib[d] \in Contents
    BY <1>1, <1>3
  <2>2. job' = [job EXCEPT ![g] = [job[g] EXCEPT !.pc = "adopt", !.bytes = lib[d]]]
    BY <1>1, <1>7
  <2>3. Took(g) /\ Goes(g) /\ job'[g].pc = "adopt" /\ job'[g].bytes = lib[d]
    BY <1>4, <1>7, <2>1, <2>2
  <2> QED BY <1>2, <1>7, <2>3
<1>8. CASE lib[d] # NoFile /\ Len(lib[d]) = Size /\ Adopt(g)
  <2>1. Took(g) /\ job'[g] = NextOf(g)
    BY <1>2, <1>3, <1>8, Completes DEF Adopt
  <2>2. Done(g)
    BY <1>3, <1>8, <2>1 DEF Done, Adopt, Complete
  <2> QED BY <1>2, <1>8, <2>1, <2>2
<1> QED BY <1>5, <1>6, <1>7, <1>8 DEF Check

LEMMA TookAdoptDone ==
    ASSUME Held, NEW g \in Groups, AdoptDone(g)
    PROVE  /\ Took(g) /\ job[g].pc = "adopt"
           /\ \/ Ends(g) /\ lib' = lib
              \/ Done(g)
              \/ /\ Goes(g) /\ UNCHANGED <<part, status, rows, writing>> /\ job'[g].pc = "open"
                 /\ lib' = lib \/ lib' = [lib EXCEPT ![Dest(g)] = NoFile]
                 /\ \E seen \in {job[g].bytes, lib[Dest(g)]} : seen \notin {NoFile, Whole}
<1> DEFINE d == Dest(g)
<1>1. job[g] \in Jobs /\ job \in [Groups -> Jobs]
  BY DEF Held
<1>2. job[g].pc = "adopt" /\ cpu \in {Nobody, g} /\ UNCHANGED frame
  BY DEF AdoptDone, frame, fixed, Wakes, Idle
<1>3. job[g].pc \in AtFile /\ job[g].pc \notin Writers
  BY <1>2 DEF AtFile, Writers, Transfers
<1>4. CASE Fail(g, FALSE) /\ lib' = lib
  <2>1. Took(g) /\ job'[g] = NoJob
    BY <1>2, <1>3, <1>4, Fails
  <2>2. Ends(g)
    BY <1>3, <1>4, <2>1 DEF Ends, Fail
  <2> QED BY <1>2, <1>4, <2>1, <2>2
<1>5. CASE Adopt(g)
  <2>1. Took(g) /\ job'[g] = NextOf(g)
    BY <1>2, <1>3, <1>5, Completes DEF Adopt
  <2>2. Done(g)
    BY <1>3, <1>5, <2>1 DEF Done, Adopt, Complete
  <2> QED BY <1>2, <2>1, <2>2
<1>6. CASE SetAside(g) /\ \E seen \in {job[g].bytes, lib[d]} : seen \notin {NoFile, Whole}
  <2>1. Took(g) /\ \/ job'[g] = NoJob /\ Fail(g, FALSE) /\ lib' = lib
                   \/ /\ job'[g] = [job[g] EXCEPT !.pc = "open", !.bytes = NoFile]
                      /\ UNCHANGED <<status, rows, writing, part>>
                      /\ lib' = lib \/ lib' = [lib EXCEPT ![d] = NoFile]
    BY <1>2, <1>6, SetsAside
  <2>2. CASE job'[g] = [job[g] EXCEPT !.pc = "open", !.bytes = NoFile] /\ UNCHANGED <<status, rows, writing, part>>
    <3>1. Goes(g) /\ job'[g].pc = "open"
      BY <1>1, <1>3, <2>2 DEF Goes, Jobs, AtFile
    <3>2. UNCHANGED <<part, status, rows, writing>>
      BY <2>2
    <3>3. lib' = lib \/ lib' = [lib EXCEPT ![d] = NoFile]
      BY <2>1
    <3>4. Took(g)
      BY <2>1
    <3> QED BY <1>2, <1>6, <3>1, <3>2, <3>3, <3>4
  <2> QED BY <1>4, <2>1, <2>2
<1> QED BY <1>4, <1>5, <1>6 DEF AdoptDone

LEMMA TookFail ==
    ASSUME Held, NEW g \in Groups, job[g].pc \in Transfers, cpu \in {Nobody, g},
           NEW garbage \in BOOLEAN, Fail(g, garbage), lib' = lib, UNCHANGED frame
    PROVE  Took(g) /\ Ends(g)
<1>1. job[g].pc \in AtFile
  BY DEF AtFile, Writers
<1>2. Took(g) /\ job'[g] = NoJob
  BY <1>1, Fails
<1> QED BY <1>1, <1>2 DEF Ends, Fail

LEMMA TookOpen ==
    ASSUME Held, NEW g \in Groups, Open(g)
    PROVE  /\ Took(g) /\ job[g].pc = "open" /\ lib' = lib
           /\ \/ Ends(g) /\ Locked(Dest(g))
              \/ /\ Goes(g) /\ UNCHANGED <<status, rows>>
                 /\ job'[g].pc = "attempt" /\ job'[g].linked /\ writing'[Dest(g)] = g
                 /\ part[Dest(g)] # NoFile => part' = part
<1> DEFINE d == Dest(g)
           found == IF part[d] = NoFile THEN <<>> ELSE part[d]
           others == [h \in Groups |->
                         IF job[h].pc = "sibling" /\ Dest(h) = d /\ job[h].event \in Groups
                         THEN [job[h] EXCEPT !.event = "lost"] ELSE job[h]]
           q == [job[g] EXCEPT !.pc = "attempt", !.bytes = found, !.linked = TRUE, !.try = 1]
<1>1. job[g] \in Jobs /\ job \in [Groups -> Jobs] /\ JobOK(job[g], g, part)
      /\ part \in [Dests -> Blocks \cup {NoFile}] /\ lib \in [Dests -> Contents]
      /\ writing \in [Dests -> Groups \cup {Nobody}]
      /\ status \in [Files -> Statuses] /\ rows \in [Files -> Statuses]
  BY DEF Held
<1>2. job[g].pc = "open" /\ cpu = g /\ UNCHANGED frame /\ lib' = lib
  BY DEF Open, frame, fixed
<1>3. job[g].pc \in AtFile /\ job[g].pc \notin Writers /\ ~job[g].linked /\ d \in Dests
  BY <1>1, <1>2, AtFileFacts DEF AtFile, Writers, Transfers, JobOK
<1>4. others[g] = job[g] /\ others \in [Groups -> Jobs]
      /\ \A h \in Groups : Alike(job[h], others[h]) /\ others[h].linked = job[h].linked
  <2>1. ASSUME NEW h \in Groups PROVE Alike(job[h], others[h]) /\ others[h].linked = job[h].linked
    <3>1. job[h] \in Jobs
      BY <1>1
    <3>2. others[h] = [job[h] EXCEPT !.event = "lost"] \/ others[h] = job[h]
      OBVIOUS
    <3> HIDE DEF others
    <3> QED BY <3>1, <3>2, ZenonT(60) DEF Alike, Jobs
  <2>2. others[g] = job[g]
    BY <1>2
  <2>3. others = [h \in Groups |-> others[h]]
    OBVIOUS
  <2> HIDE DEF others
  <2> QED BY <2>1, <2>2, <2>3 DEF Alike
<1>5. CASE /\ Locked(d) /\ SetOwn(g, "failed") /\ writing' = [writing EXCEPT ![d] = Nobody]
           /\ job' = [others EXCEPT ![g] = NoJob] /\ cpu' = Nobody /\ part' = part
  <2> HIDE DEF d, others, found
  <2>1. /\ status' \in [Files -> Statuses] /\ rows' \in [Files -> Statuses]
        /\ \A f \in Files : f[1] # g => status'[f] = status[f]
    BY <1>5, OwnOnly DEF Statuses
  <2>2. NoJob \in Jobs /\ JobOK(NoJob, g, part') /\ ~NoJob.linked /\ NoJob.pc = "none"
    BY NoJobOK DEF JobOK
  <2>3. job' \in [Groups -> Jobs] /\ job'[g] = NoJob
        /\ \A h \in Groups \ {g} : Alike(job[h], job'[h]) /\ job'[h].linked = job[h].linked
    BY <1>4, <1>5, <2>2
  <2>4. /\ writing' \in [Dests -> Groups \cup {Nobody}]
        /\ \A x \in Dests : writing'[x] = writing[x] \/ (x = d /\ writing'[x] = Nobody)
    BY <1>1, <1>3, <1>5
  <2>5. Took(g)
    BY <1>1, <1>2, <1>3, <1>5, <2>1, <2>2, <2>3, <2>4 DEF Took, Effect, frame, Running, d
  <2>6. Ends(g) /\ Locked(d)
    BY <1>3, <1>5, <2>3 DEF Ends
  <2> QED BY <1>2, <2>5, <2>6 DEF d
<1>6. CASE /\ ~Locked(d) /\ writing' = [writing EXCEPT ![d] = g] /\ part' = [part EXCEPT ![d] = found]
           /\ job' = [others EXCEPT ![g].pc = "attempt", ![g].bytes = found, ![g].linked = TRUE, ![g].try = 1]
           /\ cpu' = g /\ UNCHANGED <<status, rows>>
  <2>1. found \in Blocks
    BY <1>1, <1>3 DEF Blocks
  <2>2. q \in Jobs /\ q.pc = "attempt" /\ q.bytes = found /\ q.linked /\ q.todo = job[g].todo /\ q.own = job[g].own
    <3> HIDE DEF found
    <3> QED BY <1>1, <2>1 DEF Jobs, AtFile, Writers, Transfers, Contents
  <2>3. job' = [others EXCEPT ![g] = q]
    <3> HIDE DEF found, others
    <3> QED BY <1>4, <1>6
  <2>4. part[d] # NoFile => part' = part
    BY <1>1, <1>6
  <2> HIDE DEF d, others, found, q
  <2>5. job' \in [Groups -> Jobs] /\ job'[g] = q
        /\ \A h \in Groups \ {g} : Alike(job[h], job'[h]) /\ job'[h].linked = job[h].linked
    BY <1>4, <2>2, <2>3
  <2>6. /\ part' \in [Dests -> Blocks \cup {NoFile}] /\ part'[d] = found
        /\ \A x : x # d => part'[x] = part[x]
    BY <1>1, <1>3, <1>6, <2>1
  <2>7. /\ writing' \in [Dests -> Groups \cup {Nobody}] /\ writing'[d] = g
        /\ \A x \in Dests : x # d => writing'[x] = writing[x]
    BY <1>1, <1>3, <1>6
  <2>8. Head(q.todo) = d
    BY <2>2 DEF d, Dest
  <2>9. JobOK(q, g, part')
    BY <1>1, <1>3, <2>1, <2>2, <2>6, <2>8 DEF JobOK, Transfers, Foreign
  <2>10. \A h \in Groups \ {g} : job'[h].linked => Dest(h) # d
    BY <1>6, <2>5 DEF Locked
  <2>11. q.pc \in Writers
    BY <2>2 DEF Writers, Transfers
  <2>12. Effect(g)
    <3>1. /\ job' \in [Groups -> Jobs]
          /\ \A h \in Groups \ {g} :
                 /\ Alike(job[h], job'[h])
                 /\ job'[h].linked => part'[Dest(h)] = part[Dest(h)]
                 /\ job[h].linked /\ ~job'[h].linked => part'[Dest(h)] = NoFile
      BY <2>5, <2>6, <2>10
    <3>2. job'[g].linked => Head(job'[g].todo) = Dest(g) /\ (job[g].linked \/ (job[g].pc = "open" /\ ~Locked(Dest(g))))
      BY <1>2, <1>6, <2>5, <2>8 DEF d
    <3>3. cpu \in {Nobody, g} /\ cpu' \in {Nobody, g} /\ (job'[g].pc \in Running => cpu' = g)
      BY <1>2, <1>6
    <3>4. /\ status' \in [Files -> Statuses] /\ rows' \in [Files -> Statuses]
          /\ \A f \in Files : f[1] # g => status'[f] = status[f]
      BY <1>1, <1>6
    <3>5. /\ part' \in [Dests -> Blocks \cup {NoFile}]
          /\ \A x \in Dests : \/ part'[x] = part[x] \/ part'[x] = NoFile
                              \/ job'[g].linked /\ Head(job'[g].todo) = x
      BY <2>2, <2>5, <2>6, <2>8
    <3>6. /\ writing' \in [Dests -> Groups \cup {Nobody}]
          /\ \A x \in Dests : \/ writing'[x] = writing[x]
                              \/ writing'[x] = Nobody /\ x = Dest(g) /\ (writing[x] = g \/ job[g].pc = "open")
                              \/ writing'[x] = g /\ job[g].pc = "open" /\ x = Dest(g) /\ job'[g].pc \in Writers /\ Head(job'[g].todo) = x
          /\ \A x \in Dests : writing'[x] = g =>
                 \/ job'[g].pc \in Writers /\ Head(job'[g].todo) = x
                 \/ writing[x] = g /\ ~(job[g].pc \in Writers /\ Dest(g) = x)
      BY <1>2, <1>3, <2>5, <2>7, <2>8, <2>11 DEF d
    <3>7. lib' \in [Dests -> Contents] /\ \A x \in Dests : lib'[x] = lib[x]
      BY <1>1, <1>2
    <3> QED BY <1>2, <3>1, <3>2, <3>3, <3>4, <3>5, <3>6, <3>7 DEF Effect, frame
  <2>13. Goes(g)
    BY <1>3, <1>6, <2>2, <2>5, <2>11 DEF Goes, AtFile
  <2> QED BY <1>2, <1>6, <2>2, <2>4, <2>5, <2>7, <2>9, <2>12, <2>13 DEF Took, d
<1> QED BY <1>5, <1>6 DEF Open

LEMMA Steps ==
    ASSUME Held, NEW g \in Groups, NEW q \in Jobs, job[g].pc \in Transfers, q.pc \in Transfers,
           job' = [job EXCEPT ![g] = q],
           UNCHANGED <<lib, part, status, rows, writing>>, UNCHANGED frame,
           cpu \in {Nobody, g}, cpu' = IF q.pc \in Running THEN g ELSE Nobody,
           q.todo = job[g].todo, q.linked = job[g].linked, q.own = job[g].own, q.bytes = job[g].bytes, Foreign(q)
    PROVE  Took(g) /\ Goes(g) /\ Carries(g) /\ job'[g] = q
<1>1. job[g].pc \in AtFile /\ q.pc \in AtFile /\ job[g].pc \in Writers /\ q.pc \in Writers /\ job[g].pc # "published"
  BY DEF AtFile, Writers, Transfers
<1>2. Took(g) /\ job'[g] = q
  BY <1>1, Advances
<1> QED BY <1>1, <1>2 DEF Goes, Carries

LEMMA Retries ==
    ASSUME Held, NEW g \in Groups, job[g].pc \in Transfers, cpu \in {Nobody, g},
           Retry(g), lib' = lib, UNCHANGED frame
    PROVE  Took(g) /\ (Ends(g) \/ (Goes(g) /\ Carries(g)))
<1>1. CASE Fail(g, FALSE)
  BY <1>1, TookFail
<1>2. CASE job' = [job EXCEPT ![g].pc = "sleep"] /\ cpu' = Nobody /\ UNCHANGED <<part, status, rows, writing>>
  <2> DEFINE q == [job[g] EXCEPT !.pc = "sleep"]
  <2>1. job[g] \in Jobs /\ job \in [Groups -> Jobs]
    BY DEF Held
  <2>2. q \in Jobs /\ q.pc = "sleep" /\ q.todo = job[g].todo /\ q.linked = job[g].linked /\ q.own = job[g].own /\ q.bytes = job[g].bytes
    BY <2>1 DEF Jobs, AtFile, Writers, Transfers
  <2>3. job' = [job EXCEPT ![g] = q]
    BY <1>2, <2>1
  <2> HIDE DEF q
  <2>4. q.pc \in Transfers /\ q.pc \notin Running /\ Foreign(q)
    BY <2>2 DEF Transfers, Running, Foreign
  <2>5. UNCHANGED <<lib, part, status, rows, writing>> /\ cpu' = IF q.pc \in Running THEN g ELSE Nobody
    BY <1>2, <2>4
  <2> QED BY <2>2, <2>3, <2>4, <2>5, Steps
<1> QED BY <1>1, <1>2 DEF Retry

LEMMA RequestCarries ==
    ASSUME Held, NEW g \in Groups, job[g].pc \in Transfers, cpu \in {Nobody, g},
           NEW b \in Blocks, NEW ranged \in BOOLEAN, Len(b) # Size, Request(g, Len(b), b, ranged),
           UNCHANGED <<lib, writing>>, UNCHANGED frame
    PROVE  Took(g) /\ Goes(g) /\ Carries(g)
<1>1. Len(b) \in Nat
  BY DEF Blocks
<1>2. /\ Took(g) /\ job'[g].pc = "http"
      /\ job'[g].todo = job[g].todo /\ job'[g].own = job[g].own /\ job'[g].linked = job[g].linked
  BY Requests
<1>4. ~job[g].linked => part' = part
  BY DEF Request, WriteTo
<1>5. SetOwn(g, "running")
  BY DEF Request
<1> QED BY <1>2, <1>4, <1>5 DEF Goes, Carries, AtFile, Writers, Transfers

LEMMA TookTransfer ==
    ASSUME Held, NEW g \in Groups,
           \/ Attempt(g) \/ RehashDone(g) \/ Unsatisfiable(g) \/ Refused(g) \/ SizeMismatch(g) \/ Answered(g)
           \/ Chunk(g) \/ StreamBroken(g) \/ StreamEnds(g) \/ Synced(g) \/ SleepOver(g)
    PROVE  Took(g) /\ lib' = lib /\ (Ends(g) \/ (Goes(g) /\ Carries(g)))
<1>1. job[g] \in Jobs /\ job \in [Groups -> Jobs] /\ JobOK(job[g], g, part)
  BY DEF Held
<1>2. job[g].pc \in Transfers /\ cpu \in {Nobody, g} /\ lib' = lib /\ UNCHANGED frame
  BY DEF Attempt, RehashDone, Unsatisfiable, Refused, SizeMismatch, Answered, Chunk, StreamBroken, StreamEnds,
         Synced, SleepOver, Wakes, Idle, disk, queue, fixed, frame, Transfers
<1>3. job[g].bytes \in Blocks /\ Foreign(job[g])
  BY <1>1, <1>2 DEF JobOK
<1>4. Len(<<>>) = 0 /\ <<>> \in Blocks /\ Size # 0
  BY DEF Blocks
\* A step of pc, n and try alone.
<1>5. ASSUME NEW pc \in Transfers, NEW n \in Nat, NEW try \in Nat,
             job' = [job EXCEPT ![g] = [job[g] EXCEPT !.pc = pc, !.n = n, !.try = try]],
             pc \in {"http", "stream", "sync", "finish"} =>
                 job[g].pc \in {"stream", "sync", "finish"} /\ pc # "http" /\ n = job[g].n,
             UNCHANGED <<part, status, rows, writing>>, cpu' = (IF pc \in Running THEN g ELSE Nobody)
      PROVE  Took(g) /\ Goes(g) /\ Carries(g)
  <2> DEFINE q == [job[g] EXCEPT !.pc = pc, !.n = n, !.try = try]
  <2>1. q \in Jobs /\ q.pc = pc /\ q.n = n /\ q.todo = job[g].todo /\ q.linked = job[g].linked
        /\ q.own = job[g].own /\ q.bytes = job[g].bytes
    BY <1>1 DEF Jobs, AtFile, Writers
  <2>2. job' = [job EXCEPT ![g] = q]
    BY <1>5
  <2> HIDE DEF q
  <2>3. Foreign(q)
    BY <1>3, <1>5, <2>1 DEF Foreign
  <2>4. UNCHANGED <<lib, part, status, rows, writing>> /\ cpu' = (IF q.pc \in Running THEN g ELSE Nobody) /\ q.pc \in Transfers
    BY <1>2, <1>5, <2>1
  <2> QED BY <1>2, <2>1, <2>2, <2>3, <2>4, Steps
<1>6. CASE Attempt(g)
  <2>1. CASE job' = [job EXCEPT ![g].pc = "rehash"] /\ cpu' = Nobody /\ UNCHANGED <<part, status, rows>>
    <3>1. job' = [job EXCEPT ![g] = [job[g] EXCEPT !.pc = "rehash", !.n = job[g].n, !.try = job[g].try]]
          /\ job[g].n \in Nat /\ job[g].try \in Nat
      BY <1>1, <2>1 DEF Jobs
    <3>2. UNCHANGED <<part, status, rows, writing>>
      BY <1>6, <2>1 DEF Attempt
    <3>3. "rehash" \in Transfers /\ "rehash" \notin Running
      BY DEF Transfers, Running
    <3>4. Took(g) /\ Goes(g) /\ Carries(g)
      BY <1>5, <2>1, <3>1, <3>2, <3>3
    <3> QED BY <1>2, <3>4
  <2>2. CASE Request(g, 0, <<>>, TRUE)
    <3>1. UNCHANGED <<lib, writing>>
      BY <1>6 DEF Attempt
    <3>2. Took(g) /\ Goes(g) /\ Carries(g)
      BY <1>2, <1>4, <2>2, <3>1, RequestCarries
    <3> QED BY <1>2, <3>2
  <2> QED BY <1>6, <2>1, <2>2 DEF Attempt
<1>7. CASE RehashDone(g)
  <2> DEFINE b == job[g].bytes
  <2>1. UNCHANGED <<lib, writing>> /\ job[g].pc = "rehash"
    BY <1>7 DEF RehashDone, Wakes
  <2>2. CASE Len(b) # Size /\ Request(g, Len(b), b, TRUE)
    <3>1. Took(g) /\ Goes(g) /\ Carries(g)
      BY <1>2, <1>3, <2>1, <2>2, RequestCarries
    <3> QED BY <1>2, <3>1
  <2>3. CASE Request(g, 0, <<>>, TRUE)
    <3>1. Took(g) /\ Goes(g) /\ Carries(g)
      BY <1>2, <1>4, <2>1, <2>3, RequestCarries
    <3> QED BY <1>2, <3>1
  <2>4. CASE /\ Len(b) = Size /\ SetOwn(g, "running") /\ part' = part
             /\ job' = [job EXCEPT ![g].pc = "finish", ![g].n = Size] /\ cpu' = g
    <3> DEFINE q == [job[g] EXCEPT !.pc = "finish", !.n = Size]
    <3>1. q \in Jobs /\ q.pc = "finish" /\ q.n = Size /\ q.todo = job[g].todo /\ q.linked = job[g].linked
          /\ q.own = job[g].own /\ q.bytes = b
      BY <1>1 DEF Jobs, AtFile, Writers, Transfers
    <3>2. job' = [job EXCEPT ![g] = q]
      BY <1>1, <2>4
    <3> HIDE DEF q
    <3>3. WriteTo(g, q.bytes)
      <4>1. job[g].linked => part[Dest(g)] = b
        BY <1>1 DEF JobOK, Dest
      <4>2. part = [part EXCEPT ![Dest(g)] = part[Dest(g)]]
        BY DEF Held
      <4> QED BY <2>4, <3>1, <4>1, <4>2 DEF WriteTo
    <3>4. Foreign(q) /\ q.bytes \in Blocks /\ q.pc \in Transfers
      BY <1>3, <2>4, <3>1 DEF Foreign, Transfers
    <3>5. /\ status' \in [Files -> Statuses] /\ rows' \in [Files -> Statuses]
          /\ \A f \in Files : f[1] # g => status'[f] = status[f]
      BY <2>4, OwnOnly DEF Statuses
    <3>6. cpu' \in {Nobody, g} /\ (q.pc \in Running => cpu' = g)
      BY <2>4
    <3>7. Took(g) /\ job'[g] = q
      BY <1>2, <2>1, <3>1, <3>2, <3>3, <3>4, <3>5, <3>6, Writes
    <3>8. Goes(g) /\ Carries(g)
      BY <1>2, <2>1, <2>4, <3>1, <3>4, <3>7 DEF Goes, Carries, AtFile, Writers
    <3> QED BY <1>2, <3>7, <3>8
  <2> QED BY <1>7, <2>2, <2>3, <2>4 DEF RehashDone
<1>8. CASE Unsatisfiable(g)
  <2>1. CASE Request(g, 0, <<>>, FALSE) /\ UNCHANGED writing
    <3>1. UNCHANGED <<lib, writing>>
      BY <1>2, <2>1
    <3>2. Took(g) /\ Goes(g) /\ Carries(g)
      BY <1>2, <1>4, <2>1, <3>1, RequestCarries
    <3> QED BY <1>2, <3>2
  <2>2. CASE Fail(g, FALSE)
    BY <1>2, <2>2, TookFail
  <2> QED BY <1>8, <2>1, <2>2 DEF Unsatisfiable
<1>9. CASE Refused(g) \/ StreamBroken(g)
  <2>1. CASE Retry(g)
    BY <1>2, <2>1, Retries
  <2>2. CASE Fail(g, FALSE)
    BY <1>2, <2>2, TookFail
  <2> QED BY <1>9, <2>1, <2>2 DEF Refused, StreamBroken
<1>10. CASE SizeMismatch(g)
  <2>1. Fail(g, TRUE)
    BY <1>10 DEF SizeMismatch
  <2> QED BY <1>2, <2>1, TookFail
<1>11. ASSUME NEW b \in Blocks, NEW n \in Nat, WriteTo(g, b), job[g].pc \in {"http", "stream"},
              job' = [job EXCEPT ![g] = [job[g] EXCEPT !.pc = "stream", !.bytes = b, !.n = n]],
              UNCHANGED <<status, rows, writing>>, cpu' = cpu, cpu = Nobody,
              n <= Len(b), n <= Size, \A i \in (n + 1)..Len(b) : b[i] = "x"
       PROVE  Took(g) /\ Goes(g) /\ Carries(g)
  <2> DEFINE q == [job[g] EXCEPT !.pc = "stream", !.bytes = b, !.n = n]
  <2>1. q \in Jobs /\ q.pc = "stream" /\ q.n = n /\ q.todo = job[g].todo /\ q.linked = job[g].linked
        /\ q.own = job[g].own /\ q.bytes = b
    BY <1>1 DEF Jobs, AtFile, Writers, Transfers, Contents
  <2>2. job' = [job EXCEPT ![g] = q]
    BY <1>11
  <2> HIDE DEF q
  <2>3. Foreign(q) /\ q.pc \in Transfers /\ q.pc \notin Running
    BY <1>11, <2>1 DEF Foreign, Transfers, Running
  <2>4. /\ status' \in [Files -> Statuses] /\ rows' \in [Files -> Statuses]
        /\ \A f \in Files : f[1] # g => status'[f] = status[f]
    BY <1>11 DEF Held
  <2>5. WriteTo(g, q.bytes) /\ q.bytes \in Blocks /\ UNCHANGED <<lib, writing>> /\ cpu' \in {Nobody, g}
    BY <1>2, <1>11, <2>1
  <2>6. Took(g) /\ job'[g] = q
    BY <1>2, <2>1, <2>2, <2>3, <2>4, <2>5, Writes, ZenonT(60)
  <2>7. ~job[g].linked => part' = part
    BY <1>11 DEF WriteTo
  <2>8. Goes(g) /\ Carries(g)
    BY <1>2, <1>11, <2>1, <2>3, <2>5, <2>6, <2>7 DEF Goes, Carries, AtFile, Writers
  <2> QED BY <2>6, <2>8
<1>12. CASE Answered(g)
  <2>1. PICK honoured \in {job[g].n > 0 /\ job[g].n < Size, FALSE} :
           LET bytes == IF honoured THEN job[g].bytes ELSE <<>>
           IN  /\ WriteTo(g, bytes)
               /\ job' = [job EXCEPT ![g].pc = "stream", ![g].bytes = bytes,
                                     ![g].n = IF honoured THEN @ ELSE 0]
    BY <1>12 DEF Answered
  <2> DEFINE b == IF honoured THEN job[g].bytes ELSE <<>>
             n == IF honoured THEN job[g].n ELSE 0
  <2>2. job[g].pc = "http" /\ UNCHANGED <<status, rows, writing>> /\ cpu' = cpu /\ cpu = Nobody
    BY <1>12 DEF Answered, Wakes, Idle, queue
  <2>3. b \in Blocks /\ n \in Nat /\ n <= Len(b) /\ n <= Size /\ \A i \in (n + 1)..Len(b) : b[i] = "x"
    <3>1. CASE honoured
      <4>1. job[g].n \in Nat /\ job[g].n < Size
        BY <1>1, <2>1, <3>1 DEF Jobs
      <4>2. b = job[g].bytes /\ n = job[g].n
        BY <3>1
      <4> HIDE DEF b, n
      <4> QED BY <1>3, <2>2, <4>1, <4>2 DEF Foreign
    <3>2. CASE ~honoured
      <4>1. b = <<>> /\ n = 0
        BY <3>2
      <4> HIDE DEF b, n
      <4> QED BY <1>4, <4>1
    <3> QED BY <3>1, <3>2
  <2>4. job' = [job EXCEPT ![g] = [job[g] EXCEPT !.pc = "stream", !.bytes = b, !.n = n]] /\ WriteTo(g, b)
    BY <1>1, <2>1
  <2> HIDE DEF b, n
  <2>5. Took(g) /\ Goes(g) /\ Carries(g)
    BY <1>11, <2>2, <2>3, <2>4
  <2> QED BY <1>2, <2>5
<1>13. CASE Chunk(g)
  <2>1. PICK c \in {"g", "x"} :
          LET n == job[g].n + 1
              bytes == SubSeq(job[g].bytes, 1, n - 1) \o <<c>> \o SubSeq(job[g].bytes, n + 1, Len(job[g].bytes))
          IN  /\ WriteTo(g, bytes)
              /\ job' = [job EXCEPT ![g].bytes = bytes, ![g].n = n]
    BY <1>13 DEF Chunk
  <2> DEFINE n == job[g].n + 1
             s == job[g].bytes
             b == SubSeq(s, 1, n - 1) \o <<c>> \o SubSeq(s, n + 1, Len(s))
  <2>2. job[g].pc = "stream" /\ UNCHANGED <<status, rows, writing>> /\ cpu' = cpu /\ cpu = Nobody /\ job[g].n < Size
    BY <1>13 DEF Chunk, Wakes, Idle, queue
  <2>3. job[g].n \in Nat /\ job[g].n <= Len(s) /\ \A i \in (job[g].n + 1)..Len(s) : s[i] = "x"
    BY <1>1, <1>3, <2>2 DEF Foreign, Jobs
  <2>4. n \in Nat /\ n <= Size /\ n - 1 = job[g].n /\ n \in 1..(Len(s) + 1) /\ \A i \in n..Len(s) : s[i] = "x"
    BY <2>2, <2>3, <1>3 DEF Blocks
  <2>5. job' = [job EXCEPT ![g] = [job[g] EXCEPT !.pc = "stream", !.bytes = b, !.n = n]] /\ WriteTo(g, b)
    BY <1>1, <2>1, <2>2, SMTT(30) DEF Jobs
  <2>6. b \in Blocks /\ n <= Len(b) /\ \A i \in (n + 1)..Len(b) : b[i] = "x"
    <3> HIDE DEF n
    <3>1. s \in Seq({"g", "x"})
      BY <1>3 DEF Blocks
    <3> HIDE DEF s
    <3> DEFINE s1 == SubSeq(s, 1, n - 1) \o <<c>>
               s2 == SubSeq(s, n + 1, Len(s))
    <3>2. s1 \in Seq({"g", "x"}) /\ Len(s1) = n
      BY <2>4, <3>1
    <3>5. b = s1 \o s2
      OBVIOUS
    <3> HIDE DEF b
    <3>3. CASE n > Len(s)
      <4>1. s2 = <<>>
        BY <2>4, <3>1, <3>3
      <4> HIDE DEF s1, s2
      <4>2. s1 \o s2 \in Seq({"g", "x"}) /\ Len(s1 \o s2) = n
        BY <3>2, <4>1
      <4> QED BY <2>4, <3>5, <4>2 DEF Blocks
    <3>4. CASE n <= Len(s)
      <4>1. s2 \in Seq({"g", "x"}) /\ Len(s2) = Len(s) - n /\ \A i \in 1..Len(s2) : s2[i] = s[n + i]
        BY <2>4, <3>1, <3>4
      <4> HIDE DEF s1, s2
      <4>2. \A i \in 1..Len(s2) : s2[i] = "x"
        BY <2>4, <3>1, <3>4, <4>1
      <4>3. s1 \o s2 \in Seq({"g", "x"}) /\ Len(s1 \o s2) = n + Len(s2) /\ Len(s2) \in Nat
        <5>1. s1 \in Seq({"g", "x"}) /\ s2 \in Seq({"g", "x"})
          BY <3>2, <4>1
        <5>2. s1 \o s2 \in Seq({"g", "x"}) /\ Len(s1 \o s2) = Len(s1) + Len(s2)
          BY <5>1, ConcatProperties
        <5> QED BY <3>2, <5>1, <5>2
      <4>4. ASSUME NEW i \in (n + 1)..Len(s1 \o s2) PROVE (s1 \o s2)[i] = "x"
        <5>1. i - n \in 1..Len(s2) /\ i \in Nat /\ i > Len(s1) /\ i <= Len(s1) + Len(s2)
          BY <2>4, <3>2, <4>3
        <5>2. (s1 \o s2)[i] = s2[i - Len(s1)]
          BY <3>2, <4>1, <5>1
        <5> QED BY <3>2, <4>2, <5>1, <5>2
      <4>5. n <= Len(s1 \o s2)
        BY <2>4, <4>3
      <4> QED BY <3>5, <4>3, <4>4, <4>5 DEF Blocks
    <3>6. Len(s) \in Nat
      BY <3>1
    <3> QED BY <2>4, <3>3, <3>4, <3>6
  <2> HIDE DEF b, n, s
  <2>7. Took(g) /\ Goes(g) /\ Carries(g)
    BY <1>11, <2>2, <2>4, <2>5, <2>6
  <2> QED BY <1>2, <2>7
<1>14. CASE StreamEnds(g)
  <2>1. /\ job' = [job EXCEPT ![g] = [job[g] EXCEPT !.pc = "sync", !.n = job[g].n, !.try = job[g].try]]
        /\ job[g].n \in Nat /\ job[g].try \in Nat /\ job[g].pc = "stream" /\ UNCHANGED <<part, status, rows, writing>>
        /\ cpu' = Nobody
    BY <1>1, <1>14 DEF Jobs, StreamEnds, Wakes, Idle, disk, queue
  <2>2. "sync" \in Transfers /\ "sync" \notin Running
    BY DEF Transfers, Running
  <2>3. Took(g) /\ Goes(g) /\ Carries(g)
    BY <1>5, <2>1, <2>2
  <2> QED BY <1>2, <2>3
<1>15. CASE Synced(g)
  <2>1. /\ job' = [job EXCEPT ![g] = [job[g] EXCEPT !.pc = "finish", !.n = job[g].n, !.try = job[g].try]]
        /\ job[g].n \in Nat /\ job[g].try \in Nat /\ job[g].pc = "sync" /\ UNCHANGED <<part, status, rows, writing>>
        /\ cpu' = g
    BY <1>1, <1>15 DEF Jobs, Synced, Wakes, Idle, disk, queue
  <2>2. "finish" \in Transfers /\ "finish" \in Running
    BY DEF Transfers, Running
  <2>3. Took(g) /\ Goes(g) /\ Carries(g)
    BY <1>5, <2>1, <2>2
  <2> QED BY <1>2, <2>3
<1>16. CASE SleepOver(g)
  <2>1. /\ job' = [job EXCEPT ![g] = [job[g] EXCEPT !.pc = "attempt", !.n = 0, !.try = job[g].try + 1]]
        /\ job[g].try + 1 \in Nat /\ UNCHANGED <<part, status, rows, writing>> /\ cpu' = g
    BY <1>1, <1>16 DEF Jobs, SleepOver, Wakes, Idle, disk, queue
  <2>2. "attempt" \in Transfers /\ "attempt" \in Running
    BY DEF Transfers, Running
  <2>3. Took(g) /\ Goes(g) /\ Carries(g)
    BY <1>5, <2>1, <2>2
  <2> QED BY <1>2, <2>3
<1> QED BY <1>6, <1>7, <1>8, <1>9, <1>10, <1>12, <1>13, <1>14, <1>15, <1>16

LEMMA TookFinish ==
    ASSUME Held, NEW g \in Groups, Finish(g)
    PROVE  /\ Took(g) /\ job[g].pc = "finish"
           /\ \/ Ends(g) /\ lib' = lib
              \/ /\ Goes(g) /\ UNCHANGED <<status, rows, writing>>
                 /\ job'[g].pc = "published"
                 /\ Verified(g) /\ part[Dest(g)] # NoFile
                 /\ lib' = [lib EXCEPT ![Dest(g)] = part[Dest(g)]]
<1> DEFINE d == Dest(g)
<1>1. job[g] \in Jobs /\ job \in [Groups -> Jobs] /\ JobOK(job[g], g, part)
      /\ part \in [Dests -> Blocks \cup {NoFile}] /\ lib \in [Dests -> Contents]
      /\ writing \in [Dests -> Groups \cup {Nobody}]
      /\ status \in [Files -> Statuses] /\ rows \in [Files -> Statuses]
  BY DEF Held
<1>2. job[g].pc = "finish" /\ cpu = g /\ UNCHANGED frame
  BY DEF Finish, frame, fixed
<1>3. job[g].pc \in AtFile /\ job[g].pc \in Writers /\ job[g].pc \in Transfers /\ d \in Dests
  BY <1>2, AtFileFacts DEF AtFile, Writers, Transfers
<1>4. ASSUME NEW garbage \in BOOLEAN, Fail(g, garbage), lib' = lib
      PROVE  Took(g) /\ Ends(g)
  BY <1>2, <1>3, <1>4, TookFail
<1>5. CASE /\ Verified(g) /\ part[d] # NoFile
           /\ lib' = [lib EXCEPT ![d] = part[d]] /\ part' = [part EXCEPT ![d] = NoFile]
           /\ job' = [Unlinked(job, {d}) EXCEPT ![g].pc = "published", ![g].linked = FALSE]
           /\ UNCHANGED <<status, rows, writing, cpu>>
  <2> DEFINE u == Unlinked(job, {d})
             q == [u[g] EXCEPT !.pc = "published", !.linked = FALSE]
  <2>1. /\ u \in [Groups -> Jobs]
        /\ \A h \in Groups : Alike(job[h], u[h]) /\ (u[h].linked <=> job[h].linked /\ Head(job[h].todo) \notin {d})
    BY <1>1, UnlinkedFacts
  <2>2. job' = [u EXCEPT ![g] = q]
    <3> HIDE DEF u
    <3> QED BY <1>5, <2>1 DEF u
  <2>3. q \in Jobs /\ q.pc = "published" /\ ~q.linked /\ q.todo = job[g].todo /\ q.own = job[g].own
    <3> HIDE DEF u
    <3>1. u[g] \in Jobs /\ u[g].todo = job[g].todo /\ u[g].own = job[g].own
      BY <2>1 DEF Alike
    <3> QED BY <3>1 DEF Jobs, AtFile, Writers
  <2> HIDE DEF u, q, d
  <2>4. job' \in [Groups -> Jobs] /\ job'[g] = q /\ \A h \in Groups \ {g} : job'[h] = u[h]
    BY <2>1, <2>2, <2>3
  <2>5. /\ part' \in [Dests -> Blocks \cup {NoFile}] /\ part'[d] = NoFile
        /\ \A x : x # d => part'[x] = part[x]
        /\ lib' \in [Dests -> Contents] /\ lib'[d] = part[d]
        /\ \A x : x # d => lib'[x] = lib[x]
    BY <1>1, <1>3, <1>5 DEF Contents
  <2>6. JobOK(q, g, part')
    BY <1>1, <1>3, <2>3 DEF JobOK, Transfers, Foreign
  <2>7. ASSUME NEW h \in Groups \ {g}
        PROVE  /\ Alike(job[h], job'[h])
               /\ job'[h].linked => part'[Dest(h)] = part[Dest(h)]
               /\ job[h].linked /\ ~job'[h].linked => part'[Dest(h)] = NoFile
    <3>1. job'[h] = u[h] /\ Alike(job[h], u[h]) /\ (u[h].linked <=> job[h].linked /\ Dest(h) \notin {d})
      BY <2>1, <2>4 DEF Dest
    <3> QED BY <2>5, <3>1
  <2>8. q.pc \in Writers /\ Head(q.todo) = d
    BY <2>3 DEF Writers, Dest, d
  <2>9. Effect(g)
    BY <1>1, <1>2, <1>5, <2>3, <2>4, <2>5, <2>7, <2>8 DEF Effect, frame, d
  <2>10. Goes(g)
    BY <1>3, <1>5, <2>3, <2>4, <2>8 DEF Goes, AtFile
  <2>11. job'[g].pc = "published" /\ UNCHANGED <<status, rows, writing>> /\ Took(g)
    BY <1>5, <2>3, <2>4, <2>6, <2>9 DEF Took
  <2> QED BY <1>2, <1>5, <2>10, <2>11 DEF d
<1> QED BY <1>2, <1>4, <1>5 DEF Finish

LEMMA TookPublished ==
    ASSUME Held, NEW g \in Groups, Published(g)
    PROVE  Took(g) /\ Done(g) /\ job[g].pc = "published"
<1>1. job[g].pc = "published" /\ cpu = g /\ UNCHANGED frame /\ UNCHANGED <<lib, part>>
  BY DEF Published, frame, disk
<1>2. job[g].pc \in AtFile
  BY <1>1 DEF AtFile, Writers
<1>3. Complete(g) /\ job' = Closed(g, NextOf(g))
  BY DEF Published
<1>4. Took(g) /\ job'[g] = NextOf(g)
  BY <1>1, <1>2, <1>3, Completes
<1> QED BY <1>1, <1>2, <1>3, <1>4 DEF Done, Complete

\* _finalize_interrupted
LEMMA FinalFacts ==
    ASSUME Held, NEW g \in Groups, NEW why, NEW jobs \in [Groups -> Jobs], Finalized(g, why, jobs)
    PROVE  /\ status' \in [Files -> Statuses] /\ rows' \in [Files -> Statuses]
           /\ \A f \in Files : \/ status'[f] = status[f] /\ rows'[f] = rows[f]
                               \/ f[1] = g /\ {status'[f], rows'[f]} \subseteq {"paused", "queued", "canceled"}
           /\ \A d \in Dests : <<g, d>> \in Files /\ In(d, listed[g]) => status'[<<g, d>>] # "running"
           /\ \E gone \in SUBSET Dests :
                 /\ part' = [d \in Dests |-> IF d \in gone THEN NoFile ELSE part[d]]
                 /\ job' = Unlinked(jobs, gone)
                 /\ \A d \in gone : <<g, d>> \in Files /\ status'[<<g, d>>] = "canceled"
<1> DEFINE open == {f \in Files : /\ f[1] = g /\ (\E i \in DOMAIN listed[g] : listed[g][i] = f[2])
                                  /\ status[f] # "completed"}
           Mark(t) == [f \in Files |-> IF f \in open THEN Target(why) ELSE t[f]]
           gone == IF why # "cancel" THEN {}
                   ELSE {d \in Dests : /\ <<g, d>> \in open
                                       /\ Posix \/ \A h \in Groups : ~(jobs[h].linked /\ Head(jobs[h].todo) = d)}
<1>1. status' = Mark(status) /\ rows' = Mark(rows) /\ job' = Unlinked(jobs, gone)
      /\ part' = [d \in Dests |-> IF d \in gone THEN NoFile ELSE part[d]]
  BY DEF Finalized
<1>2. Target(why) \in {"paused", "queued", "canceled"} /\ (why = "cancel" => Target(why) = "canceled")
  BY DEF Target
<1>3. status \in [Files -> Statuses] /\ rows \in [Files -> Statuses]
  BY DEF Held
<1>4. gone \in SUBSET Dests /\ \A d \in gone : <<g, d>> \in open /\ why = "cancel"
  OBVIOUS
<1>5. \A f \in open : f \in Files /\ f[1] = g
  OBVIOUS
<1>6. \A d \in Dests : <<g, d>> \in Files /\ In(d, listed[g]) /\ status[<<g, d>>] # "completed" => <<g, d>> \in open
  BY DEF In
<1> HIDE DEF open, gone
<1>7. \A f \in Files : /\ status'[f] = IF f \in open THEN Target(why) ELSE status[f]
                       /\ rows'[f] = IF f \in open THEN Target(why) ELSE rows[f]
  BY <1>1
<1>8. status' \in [Files -> Statuses] /\ rows' \in [Files -> Statuses]
  BY <1>1, <1>2, <1>3 DEF Statuses
<1>9. \A d \in gone : <<g, d>> \in Files /\ status'[<<g, d>>] = "canceled"
  BY <1>2, <1>4, <1>5, <1>7
<1>10. \A f \in Files : \/ status'[f] = status[f] /\ rows'[f] = rows[f]
                        \/ f[1] = g /\ {status'[f], rows'[f]} \subseteq {"paused", "queued", "canceled"}
  BY <1>2, <1>5, <1>7
<1>11. \A d \in Dests : <<g, d>> \in Files /\ In(d, listed[g]) => status'[<<g, d>>] # "running"
  <2> SUFFICES ASSUME NEW d \in Dests, <<g, d>> \in Files, In(d, listed[g]) PROVE status'[<<g, d>>] # "running"
    OBVIOUS
  <2>1. CASE <<g, d>> \in open
    BY <1>2, <1>7, <2>1
  <2>2. CASE <<g, d>> \notin open
    BY <1>6, <1>7, <2>2
  <2> QED BY <2>1, <2>2
<1> QED BY <1>1, <1>4, <1>8, <1>9, <1>10, <1>11

LEMMA TookCancelled ==
    ASSUME Held, NEW g \in Groups, Cancelled(g)
    PROVE  /\ Took(g) /\ lib' = lib /\ listed' = listed
           /\ \/ job'[g].pc = "dead" /\ job[g].pc = "fresh" /\ job'[g].todo = job[g].todo
                 /\ UNCHANGED <<part, status, rows, writing>>
              \/ /\ job'[g] = NoJob
                 /\ \E jobs \in [Groups -> Jobs] : Finalized(g, intent[g], jobs)
<1>1. job[g] \in Jobs /\ job \in [Groups -> Jobs] /\ JobOK(job[g], g, part)
      /\ part \in [Dests -> Blocks \cup {NoFile}] /\ lib \in [Dests -> Contents]
      /\ writing \in [Dests -> Groups \cup {Nobody}]
  BY DEF Held
<1>2. cpu = Nobody /\ cpu' = Nobody /\ UNCHANGED frame /\ lib' = lib
  BY DEF Cancelled, frame, fixed, Idle
<1>3. CASE job[g].pc = "fresh" /\ job' = [job EXCEPT ![g].pc = "dead"] /\ UNCHANGED <<part, status, rows, writing>>
  <2> DEFINE q == [job[g] EXCEPT !.pc = "dead"]
  <2>1. q \in Jobs /\ q.pc = "dead" /\ q.todo = job[g].todo /\ q.linked = job[g].linked
    BY <1>1 DEF Jobs
  <2>2. job' = [job EXCEPT ![g] = q]
    BY <1>1, <1>3
  <2> HIDE DEF q
  <2>3. ~q.linked /\ JobOK(q, g, part) /\ job[g].pc \notin Writers /\ q.pc \notin Running
    BY <1>1, <1>3, <2>1 DEF JobOK, AtFile, Writers, Transfers, Foreign, Running
  <2>4. UNCHANGED <<lib, part, status, rows, writing>>
    BY <1>2, <1>3
  <2>5. Took(g) /\ job'[g] = q
    BY <1>2, <2>1, <2>2, <2>3, <2>4, Quiet
  <2> QED BY <1>2, <1>3, <2>1, <2>5 DEF frame
<1>4. ASSUME NEW jobs \in [Groups -> Jobs], Finalized(g, intent[g], jobs), jobs[g] = NoJob,
             \A h \in Groups \ {g} : Alike(job[h], jobs[h]) /\ jobs[h].linked = job[h].linked,
             writing' = WritingWithout(g) \/ (writing' = writing /\ job[g].pc = "slot")
      PROVE  Took(g) /\ job'[g] = NoJob
  <2>1. /\ status' \in [Files -> Statuses] /\ rows' \in [Files -> Statuses]
        /\ \A f \in Files : f[1] # g => status'[f] = status[f]
        /\ \E gone \in SUBSET Dests :
                 /\ part' = [d \in Dests |-> IF d \in gone THEN NoFile ELSE part[d]]
                 /\ job' = Unlinked(jobs, gone)
    BY <1>4, FinalFacts
  <2>2. PICK gone \in SUBSET Dests :
                 /\ part' = [d \in Dests |-> IF d \in gone THEN NoFile ELSE part[d]]
                 /\ job' = Unlinked(jobs, gone)
    BY <2>1
  <2>3. /\ job' \in [Groups -> Jobs]
        /\ \A h \in Groups : /\ Alike(jobs[h], job'[h])
                             /\ job'[h].linked <=> jobs[h].linked /\ Head(jobs[h].todo) \notin gone
                             /\ ~jobs[h].linked => job'[h] = jobs[h]
    BY <2>2, UnlinkedFacts
  <2>4. NoJob \in Jobs /\ JobOK(NoJob, g, part') /\ ~NoJob.linked /\ NoJob.pc = "none"
    BY NoJobOK DEF JobOK
  <2>5. job'[g] = NoJob
    BY <1>4, <2>3, <2>4
  <2>6. part' \in [Dests -> Blocks \cup {NoFile}]
        /\ \A d \in Dests : (d \in gone => part'[d] = NoFile) /\ (d \notin gone => part'[d] = part[d])
    BY <1>1, <2>2
  <2>7. ASSUME NEW h \in Groups \ {g}
        PROVE  /\ Alike(job[h], job'[h])
               /\ job'[h].linked => part'[Dest(h)] = part[Dest(h)]
               /\ job[h].linked /\ ~job'[h].linked => part'[Dest(h)] = NoFile
    <3>1. Alike(job[h], job'[h])
      BY <1>4, <2>3 DEF Alike
    <3>2. Head(jobs[h].todo) = Dest(h) /\ jobs[h].linked = job[h].linked
      BY <1>4 DEF Alike, Dest
    <3>3. job[h].linked => Dest(h) \in Dests
      <4>1. job[h].linked => job[h].pc \in AtFile
        BY DEF Held, JobOK, AtFile, Writers
      <4> QED BY <4>1, AtFileFacts
    <3> QED BY <2>3, <2>6, <3>1, <3>2, <3>3
  <2>8. /\ writing' \in [Dests -> Groups \cup {Nobody}]
        /\ \A d \in Dests : \/ writing'[d] = writing[d]
                            \/ writing'[d] = Nobody /\ d = Dest(g) /\ writing[d] = g
        /\ \A d \in Dests : writing'[d] = g => writing[d] = g /\ (d # Dest(g) \/ job[g].pc = "slot")
    <3>1. CASE writing' = WritingWithout(g)
      BY <3>1, WritingFacts
    <3>2. CASE writing' = writing /\ job[g].pc = "slot"
      BY <1>1, <1>4, <3>2
    <3> QED BY <1>4, <3>1, <3>2
  <2>9. "slot" \notin Writers /\ "none" \notin Running
    BY DEF Writers, Transfers, Running
  <2> QED BY <1>1, <1>2, <2>1, <2>3, <2>4, <2>5, <2>6, <2>7, <2>8, <2>9 DEF Took, Effect, frame
<1>5. NoJob \in Jobs /\ ~NoJob.linked
  BY NoJobOK DEF JobOK
<1>6. CASE job[g].pc = "slot" /\ UNCHANGED writing /\ Finalized(g, intent[g], [job EXCEPT ![g] = NoJob])
  <2> DEFINE jobs == [job EXCEPT ![g] = NoJob]
  <2>1. jobs \in [Groups -> Jobs] /\ jobs[g] = NoJob /\ \A h \in Groups \ {g} : jobs[h] = job[h]
    BY <1>1, <1>5
  <2>2. \A h \in Groups \ {g} : Alike(job[h], jobs[h]) /\ jobs[h].linked = job[h].linked
    BY <1>1, <2>1 DEF Alike
  <2>3. Finalized(g, intent[g], jobs)
    BY <1>6
  <2> HIDE DEF jobs
  <2>4. Took(g) /\ job'[g] = NoJob
    BY <1>4, <1>6, <2>1, <2>2, <2>3
  <2> QED BY <1>2, <2>1, <2>3, <2>4 DEF frame
<1>7. CASE job[g].pc # "slot" /\ writing' = WritingWithout(g) /\ Finalized(g, intent[g], Closed(g, NoJob))
  <2> DEFINE jobs == Closed(g, NoJob)
  <2>1. jobs \in [Groups -> Jobs] /\ jobs[g] = NoJob
        /\ \A h \in Groups \ {g} : Alike(job[h], jobs[h]) /\ jobs[h].linked = job[h].linked
    BY <1>5, ClosedFacts
  <2>2. Finalized(g, intent[g], jobs)
    BY <1>7
  <2> HIDE DEF jobs
  <2>3. \A d \in Dests : writing'[d] = g => writing[d] = g /\ d # Dest(g)
    BY <1>7, WritingFacts
  <2>4. Took(g) /\ job'[g] = NoJob
    BY <1>4, <1>7, <2>1, <2>2
  <2> QED BY <1>2, <2>1, <2>2, <2>4 DEF frame
<1> QED BY <1>3, <1>6, <1>7 DEF Cancelled

LEMMA TaskTook ==
    ASSUME Held, NEW g \in Groups, Task(g)
    PROVE  Took(g)
BY TookFirstStep, TookNextFile, TookBegin, TookCheck, TookAdoptDone, TookOpen, TookTransfer, TookFinish,
   TookPublished, TookCancelled DEF Task


-----------------------------------------------------------------------------
\* The steps of the callers, the user and the process.

Still(r, q) ==
    q \in Jobs /\ q.pc = r.pc /\ q.todo = r.todo /\ q.bytes = r.bytes /\ q.n = r.n /\ q.linked = r.linked

JobsHeld ==
    /\ job \in [Groups -> Jobs] /\ \A h \in Groups : JobOK(job[h], h, part)
    /\ Alone(job) /\ \A h \in Groups : job[h].pc \in Running => cpu = h

LEMMA JobsKeep ==
    ASSUME Held, job' \in [Groups -> Jobs], part' = part, cpu' = cpu \/ cpu \notin Groups,
           \A h \in Groups : \/ Still(job[h], job'[h])
                             \/ JobOK(job'[h], h, part) /\ ~job'[h].linked /\ job'[h].pc \notin Running
    PROVE  JobsHeld'
<1>1. ASSUME NEW h \in Groups PROVE JobOK(job'[h], h, part')
  <2> DEFINE r == job[h]
             q == job'[h]
             p == part
  <2>1. JobOK(r, h, p)
    BY DEF Held
  <2>2. Still(r, q) \/ JobOK(q, h, p)
    OBVIOUS
  <2> HIDE DEF r, q, p
  <2>3. JobOK(q, h, p)
    BY <2>1, <2>2 DEF Still, JobOK, Foreign
  <2> QED BY <2>3 DEF q, p
<1>2. Alone(job')
  <2>1. \A h \in Groups : job'[h].linked => job[h].linked /\ job'[h].todo = job[h].todo
    BY DEF Still
  <2>2. Alone(job)
    BY DEF Held
  <2> QED BY <2>1, <2>2 DEF Alone
<1>3. ASSUME NEW h \in Groups, job'[h].pc \in Running PROVE cpu' = h
  <2>1. job[h].pc \in Running
    BY <1>3 DEF Still
  <2>2. cpu = h
    BY <2>1 DEF Held
  <2> QED BY <2>2
<1> QED BY <1>1, <1>2, <1>3 DEF JobsHeld

RowsHeld == status \in [Files -> Statuses] /\ rows \in [Files -> Statuses]

CallsHeld == call \in [Callers -> Calls] /\ \A c \in Callers : CallOK(call[c])

RestHeld ==
    /\ lib \in [Dests -> Contents] /\ part \in [Dests -> Blocks \cup {NoFile}]
    /\ inUse \subseteq Dests /\ writing \in [Dests -> Groups \cup {Nobody}]
    /\ mode \in {"up", "stopping", "down"} /\ cpu \in Groups \cup Callers \cup {Nobody}
    /\ listed \in [Groups -> Seq(Dests)] /\ \A g \in Groups : Of(listed[g], g)

LEMMA HeldIs == (Held <=> JobsHeld /\ RowsHeld /\ CallsHeld /\ RestHeld)
                /\ (Held' <=> JobsHeld' /\ RowsHeld' /\ CallsHeld' /\ RestHeld')
BY DEF Held, JobsHeld, RowsHeld, CallsHeld, RestHeld

LEMMA FreshIs ==
    ASSUME NEW q, q = [NoJob EXCEPT !.pc = "fresh"]
    PROVE  q \in Jobs /\ ~q.linked /\ q.pc = "fresh" /\ q.todo = <<>> /\ q.pc \notin Running
<1>1. NoJob \in Jobs /\ ~NoJob.linked /\ NoJob.todo = <<>>
  BY NoJobIs
<1>2. q \in Jobs /\ q.linked = NoJob.linked /\ q.pc = "fresh" /\ q.todo = NoJob.todo
  BY <1>1 DEF Jobs
<1> QED BY <1>1, <1>2 DEF Running

LEMMA FreshOK ==
    ASSUME NEW q, q = [NoJob EXCEPT !.pc = "fresh"], NEW g \in Groups, NEW p
    PROVE  JobOK(q, g, p)
<1>1. q \in Jobs /\ ~q.linked /\ q.pc = "fresh" /\ q.todo = <<>>
  BY FreshIs
<1> QED BY <1>1, NoneIn DEF JobOK, Of, AtFile, Writers, Transfers, Foreign

LEMMA LaunchedHolds ==
    ASSUME Held, NEW g \in Groups, Launched(g), part' = part, cpu' = cpu \/ cpu \notin Groups
    PROVE  JobsHeld' /\ \A h \in Groups : \/ job'[h] = job[h]
                                          \/ job'[h].pc = "fresh" /\ job[h].pc = "none" /\ h = g
<1> DEFINE q == [NoJob EXCEPT !.pc = "fresh"]
<1>1. q \in Jobs /\ JobOK(q, g, part) /\ ~q.linked /\ q.pc = "fresh" /\ q.pc \notin Running
  BY FreshIs, FreshOK
<1>2. job \in [Groups -> Jobs]
  BY DEF Held
<1>3. job' = IF Has(g) THEN job ELSE [job EXCEPT ![g] = q]
  BY DEF Launched
<1> HIDE DEF q
<1>4. /\ job' \in [Groups -> Jobs]
      /\ \A h \in Groups : job'[h] = job[h] \/ (h = g /\ job'[h] = q /\ job[h].pc = "none")
  BY <1>1, <1>2, <1>3 DEF Has
<1>5. \A h \in Groups : \/ Still(job[h], job'[h])
                        \/ JobOK(job'[h], h, part) /\ ~job'[h].linked /\ job'[h].pc \notin Running
  BY <1>1, <1>2, <1>4 DEF Still
<1>6. JobsHeld'
  BY <1>4, <1>5, JobsKeep
<1> QED BY <1>1, <1>4, <1>6

LEMMA InitHeld == Init => Held
<1> SUFFICES ASSUME Init PROVE Held
  OBVIOUS
<1>1. JobsHeld
  <2>1. \A g \in Groups : job[g] = NoJob
    BY DEF Init
  <2>2. job \in [Groups -> Jobs]
    BY NoJobOK DEF Init, JobOK
  <2>3. \A g \in Groups : JobOK(job[g], g, part) /\ ~job[g].linked /\ job[g].pc \notin Running
    BY <2>1, NoJobOK DEF Running
  <2> QED BY <2>2, <2>3 DEF JobsHeld, Alone
<1>2. RowsHeld
  BY DEF Init, RowsHeld, Statuses
<1>3. CallsHeld
  <2>1. NoCall \in Calls /\ NoCall.pc = "none"
    BY DEF NoCall, Calls, Contents
  <2> QED BY <2>1 DEF Init, CallsHeld, CallOK
<1>4. lib \in [Dests -> Contents]
  BY DEF Init, Contents
<1>5. RestHeld
  <2>1. \A g \in Groups : listed[g] = <<>>
    BY DEF Init
  <2>2. \A g \in Groups : Of(listed[g], g)
    BY <2>1, NoneIn DEF Of
  <2> QED BY <1>4, <2>2 DEF Init, RestHeld
<1> QED BY <1>1, <1>2, <1>3, <1>5, HeldIs

LEMMA ResumeHeld ==
    ASSUME Held, NEW g \in Groups, Resume(g)
    PROVE  Held'
<1>1. JobsHeld'
  BY LaunchedHolds DEF Resume, disk
<1>2. RowsHeld'
  BY DEF Held, Resume, RowsHeld, Statuses
<1>3. CallsHeld' /\ RestHeld'
  BY HeldIs DEF Resume, CallsHeld, RestHeld, disk
<1> QED BY <1>1, <1>2, <1>3, HeldIs

\* cancelled does not matter to what a task holds.
LEMMA CancelHolds ==
    ASSUME Held, NEW G, job' = [g \in Groups |-> IF g \in G THEN [job[g] EXCEPT !.cancelled = TRUE] ELSE job[g]],
           part' = part, cpu' = cpu
    PROVE  /\ JobsHeld'
           /\ \A h \in Groups : Still(job[h], job'[h]) /\ job'[h].own = job[h].own
<1>1. job \in [Groups -> Jobs]
  BY DEF Held
<1>2. ASSUME NEW h \in Groups PROVE Still(job[h], job'[h]) /\ job'[h].own = job[h].own
  <2>1. job[h] \in Jobs /\ (job'[h] = job[h] \/ job'[h] = [job[h] EXCEPT !.cancelled = TRUE])
    BY <1>1
  <2> QED BY <2>1 DEF Still, Jobs
<1>3. job' \in [Groups -> Jobs]
  <2>1. job' = [h \in Groups |-> job'[h]]
    OBVIOUS
  <2> QED BY <1>2, <2>1 DEF Still
<1> QED BY <1>2, <1>3, JobsKeep

LEMMA FinalGone ==
    ASSUME Held, NEW g \in Groups, NEW why, NEW jobs \in [Groups -> Jobs], Finalized(g, why, jobs)
    PROVE  /\ RowsHeld'
           /\ \E gone \in SUBSET Dests :
                 /\ part' = [d \in Dests |-> IF d \in gone THEN NoFile ELSE part[d]]
                 /\ job' = Unlinked(jobs, gone)
BY FinalFacts DEF RowsHeld

LEMMA InterruptHeld ==
    ASSUME Held, NEW g \in Groups, Interrupt(g)
    PROVE  Held'
<1>1. CallsHeld'
  BY HeldIs DEF Interrupt, CallsHeld
<1>2. PICK why \in {"pause", "cancel", "cancel-keep"} :
          IF Has(g)
          THEN job' = [job EXCEPT ![g].cancelled = TRUE] /\ UNCHANGED <<part, status, rows>>
          ELSE Finalized(g, why, job)
  BY DEF Interrupt
<1>3. CASE Has(g)
  <2>1. job' = [h \in Groups |-> IF h \in {g} THEN [job[h] EXCEPT !.cancelled = TRUE] ELSE job[h]]
    BY <1>2, <1>3 DEF Held
  <2>2. cpu' = cpu /\ part' = part
    BY <1>2, <1>3 DEF Interrupt
  <2>3. JobsHeld'
    BY <2>1, <2>2, CancelHolds
  <2>4. RowsHeld' /\ RestHeld'
    BY <1>2, <1>3, HeldIs DEF Interrupt, RowsHeld, RestHeld, fixed
  <2> QED BY <1>1, <2>3, <2>4, HeldIs
<1>4. CASE ~Has(g)
  <2>1. job \in [Groups -> Jobs] /\ Finalized(g, why, job)
    BY <1>2, <1>4 DEF Held
  <2>2. /\ RowsHeld'
        /\ \E gone \in SUBSET Dests :
              /\ part' = [d \in Dests |-> IF d \in gone THEN NoFile ELSE part[d]]
              /\ job' = Unlinked(job, gone)
    BY <2>1, FinalGone
  <2>3. PICK gone \in SUBSET Dests :
              /\ part' = [d \in Dests |-> IF d \in gone THEN NoFile ELSE part[d]]
              /\ job' = Unlinked(job, gone)
    BY <2>2
  <2>4. /\ job' \in [Groups -> Jobs]
        /\ \A h \in Groups : /\ Alike(job[h], job'[h])
                             /\ job'[h].linked <=> job[h].linked /\ Dest(h) \notin gone
    BY <2>1, <2>3, UnlinkedFacts DEF Dest
  <2>5. part \in [Dests -> Blocks \cup {NoFile}] /\ part' \in [Dests -> Blocks \cup {NoFile}]
        /\ \A d \in Dests : d \notin gone => part'[d] = part[d]
    BY <2>3 DEF Held
  <2>6. ASSUME NEW h \in Groups PROVE JobOK(job'[h], h, part')
    <3>1. JobOK(job[h], h, part)
      BY DEF Held
    <3>2. job[h].linked => Dest(h) \in Dests
      <4>1. job[h].linked => job[h].pc \in AtFile
        BY <3>1 DEF JobOK, AtFile, Writers
      <4> QED BY <4>1, AtFileFacts
    <3> DEFINE r == job[h]
               q == job'[h]
               p == part
               p2 == part'
    <3>3. Alike(r, q) /\ (q.linked => p2[Head(r.todo)] = p[Head(r.todo)]) /\ JobOK(r, h, p)
      BY <2>4, <2>5, <3>1, <3>2 DEF Dest
    <3> HIDE DEF r, q, p, p2
    <3>4. JobOK(q, h, p2)
      BY <3>3 DEF Alike, JobOK, Foreign, Of
    <3> QED BY <3>4 DEF q, p2
  <2>7. Alone(job')
    <3>1. \A h \in Groups : job'[h].linked => job[h].linked /\ job'[h].todo = job[h].todo
      BY <2>4 DEF Alike
    <3>2. Alone(job)
      BY DEF Held
    <3> QED BY <3>1, <3>2 DEF Alone
  <2>8. \A h \in Groups : job'[h].pc \in Running => cpu' = h
    BY <2>4 DEF Alike, Held, Interrupt
  <2>9. JobsHeld'
    BY <2>4, <2>6, <2>7, <2>8 DEF JobsHeld
  <2>10. RestHeld'
    BY <2>5, HeldIs DEF Interrupt, RestHeld, fixed
  <2> QED BY <1>1, <2>2, <2>9, <2>10, HeldIs
<1> QED BY <1>3, <1>4

\* What an enqueue() that goes on has.
LEMMA CallFacts ==
    ASSUME Held, NEW c \in Callers, call[c].pc # "none", call[c].todo # <<>>
    PROVE  /\ call[c] \in Calls /\ call[c].g \in Groups
           /\ Head(call[c].todo) \in Dests /\ <<call[c].g, Head(call[c].todo)>> \in Files
           /\ Tail(call[c].todo) \in Seq(Dests) /\ Of(Tail(call[c].todo), call[c].g)
           /\ Append(call[c].ids, Head(call[c].todo)) \in Seq(Dests)
           /\ Of(Append(call[c].ids, Head(call[c].todo)), call[c].g)
           /\ \A d \in Dests : In(d, call[c].ids) \/ In(d, call[c].todo) =>
                  In(d, Append(call[c].ids, Head(call[c].todo))) \/ In(d, Tail(call[c].todo))
<1>1. CallOK(call[c])
  BY DEF Held
<1>2. call[c].todo \in Seq(Dests) /\ call[c].ids \in Seq(Dests) /\ call[c] \in Calls /\ call[c].g \in Groups
      /\ Of(call[c].todo, call[c].g) /\ Of(call[c].ids, call[c].g)
  BY <1>1 DEF CallOK, Calls
<1> DEFINE t == call[c].todo
           s == call[c].ids
           k == call[c].g
<1>3. t \in Seq(Dests) /\ t # <<>> /\ s \in Seq(Dests) /\ Of(t, k) /\ Of(s, k)
  BY <1>2
<1> HIDE DEF t, s, k
<1>4. /\ Head(t) \in Dests /\ In(Head(t), t) /\ Tail(t) \in Seq(Dests)
      /\ \A d : In(d, Tail(t)) => In(d, t)
      /\ \A d : In(d, t) => d = Head(t) \/ In(d, Tail(t))
  BY <1>3, Lists1
<1>5. Append(s, Head(t)) \in Seq(Dests) /\ \A d : In(d, Append(s, Head(t))) <=> In(d, s) \/ d = Head(t)
  BY <1>3, <1>4, Lists2
<1>6. <<k, Head(t)>> \in Files /\ Of(Tail(t), k) /\ Of(Append(s, Head(t)), k)
      /\ \A d \in Dests : In(d, s) \/ In(d, t) => In(d, Append(s, Head(t))) \/ In(d, Tail(t))
  BY <1>3, <1>4, <1>5 DEF Of
<1> QED BY <1>2, <1>4, <1>5, <1>6 DEF t, s, k

LEMMA RegisterHolds ==
    ASSUME Held, NEW c \in Callers, call[c].pc # "none", call[c].todo # <<>>, NEW s \in Statuses,
           Register(c, Head(call[c].todo), s), part' = part, cpu \notin Groups
    PROVE  /\ JobsHeld' /\ RowsHeld' /\ CallsHeld' /\ cpu' \in Callers
           /\ \A h \in Groups : /\ Still(job[h], job'[h])
                                /\ \/ job'[h].own = job[h].own
                                   \/ job'[h].own = FALSE /\ h = call[c].g /\ Dest(h) = Head(call[c].todo)
                                /\ h = call[c].g /\ job[h].pc \in Awaits /\ Dest(h) = Head(call[c].todo) => job'[h].own = FALSE
           /\ call' \in [Callers -> Calls]
           /\ call'[c].pc = "next" /\ call'[c].g = call[c].g
           /\ call'[c].todo = Tail(call[c].todo) /\ call'[c].ids = Append(call[c].ids, Head(call[c].todo))
           /\ \A k \in Callers \ {c} : call'[k] = call[k]
<1> DEFINE d == Head(call[c].todo)
           g == call[c].g
<1>1. /\ call[c] \in Calls /\ g \in Groups /\ d \in Dests /\ <<g, d>> \in Files
      /\ Tail(call[c].todo) \in Seq(Dests) /\ Of(Tail(call[c].todo), g)
      /\ Append(call[c].ids, d) \in Seq(Dests) /\ Of(Append(call[c].ids, d), g)
  BY CallFacts
<1>2. job \in [Groups -> Jobs] /\ call \in [Callers -> Calls] /\ (\A k \in Callers : CallOK(call[k]))
      /\ status \in [Files -> Statuses] /\ rows \in [Files -> Statuses]
  BY DEF Held
<1> DEFINE q == [call[c] EXCEPT !.pc = "next", !.todo = Tail(call[c].todo), !.saw = NoFile, !.ids = Append(call[c].ids, d)]
           x == [job[g] EXCEPT !.own = FALSE]
<1>3. q \in Calls /\ q.pc = "next" /\ q.g = g /\ q.todo = Tail(call[c].todo) /\ q.ids = Append(call[c].ids, d)
  <2> HIDE DEF d
  <2> QED BY <1>1 DEF Calls, Contents
<1>4. call' = [call EXCEPT ![c] = q]
  BY <1>2 DEF Register
<1>5. x \in Jobs /\ Still(job[g], x) /\ x.own = FALSE
  <2> HIDE DEF g
  <2>1. job[g] \in Jobs
    BY <1>1, <1>2
  <2> QED BY <2>1 DEF Jobs, Still
<1>6. job' = IF job[g].pc \in Awaits /\ Dest(g) = d /\ job[g].own THEN [job EXCEPT ![g] = x] ELSE job
  BY <1>2 DEF Register
<1>7. status' = [status EXCEPT ![<<g, d>>] = s] /\ rows' = [rows EXCEPT ![<<g, d>>] = s] /\ cpu' = c
  BY DEF Register
<1>8. Dest(g) = Head(job[g].todo)
  BY DEF Dest
<1> HIDE DEF d, g, q, x
<1>9. CallOK(q)
  BY <1>1, <1>3 DEF CallOK
<1>10. CallsHeld' /\ call' \in [Callers -> Calls] /\ call'[c] = q /\ \A k \in Callers \ {c} : call'[k] = call[k]
  BY <1>2, <1>3, <1>4, <1>9 DEF CallsHeld
<1>11. /\ job' \in [Groups -> Jobs]
       /\ \A h \in Groups : /\ Still(job[h], job'[h])
                            /\ \/ job'[h].own = job[h].own
                               \/ job'[h].own = FALSE /\ h = g /\ Dest(h) = d
                            /\ h = g /\ job[h].pc \in Awaits /\ Dest(h) = d => job'[h].own = FALSE
  <2>1. \A h \in Groups : Still(job[h], job[h]) /\ job[h].own \in BOOLEAN
    BY <1>2 DEF Still, Jobs
  <2>2. CASE job[g].pc \in Awaits /\ Dest(g) = d /\ job[g].own
    BY <1>1, <1>2, <1>5, <1>6, <2>1, <2>2
  <2>3. CASE ~(job[g].pc \in Awaits /\ Dest(g) = d /\ job[g].own)
    BY <1>1, <1>2, <1>6, <2>1, <2>3
  <2> QED BY <2>2, <2>3
<1>12. JobsHeld'
  BY <1>11, JobsKeep
<1>13. RowsHeld'
  BY <1>2, <1>7 DEF RowsHeld
<1> QED BY <1>3, <1>7, <1>10, <1>11, <1>12, <1>13 DEF d, g

LEMMA NotGroups == \A c \in Callers : c \notin Groups /\ Nobody \notin Groups
OBVIOUS

\* A call that ends, or goes on past a file.
LEMMA CallsKeep ==
    ASSUME Held, NEW c \in Callers, NEW q \in Calls, CallOK(q), call' = [call EXCEPT ![c] = q]
    PROVE  CallsHeld' /\ call'[c] = q /\ \A k \in Callers \ {c} : call'[k] = call[k]
<1>1. call \in [Callers -> Calls] /\ (\A k \in Callers : CallOK(call[k]))
  BY DEF Held
<1> QED BY <1>1 DEF CallsHeld

LEMMA NoCallOK == NoCall \in Calls /\ CallOK(NoCall) /\ NoCall.pc = "none" /\ NoCall.ids = <<>>
<1>1. NoCall \in Calls /\ NoCall.pc = "none" /\ NoCall.ids = <<>>
  BY DEF NoCall, Calls, Contents
<1> QED BY <1>1 DEF CallOK

\* Nothing of a task moves.
LEMMA JobsStay ==
    ASSUME Held, UNCHANGED <<job, part>>, cpu' = cpu \/ cpu \notin Groups
    PROVE  JobsHeld'
<1>1. job' \in [Groups -> Jobs] /\ \A h \in Groups : Still(job[h], job'[h])
  BY DEF Held, Still
<1> QED BY <1>1, JobsKeep

LEMMA EnqueueHeld ==
    ASSUME Held, NEW c \in Callers, NEW g \in Groups, Enqueue(c, g)
    PROVE  /\ Held' /\ UNCHANGED <<lib, part, status, job, writing, listed>>
           /\ \E force \in BOOLEAN, s \in Seq(Dests) :
                 /\ call' = [call EXCEPT ![c] = [NoCall EXCEPT !.pc = "next", !.g = g, !.force = force, !.todo = s]]
                 /\ ~MayDrop => s = FilesOf[g]
<1>1. PICK force \in BOOLEAN, n \in {Len(FilesOf[g])} \cup (IF MayDrop THEN {Len(FilesOf[g]) - 1} \ {0} ELSE {}) :
          call' = [call EXCEPT ![c] = [NoCall EXCEPT !.pc = "next", !.g = g, !.force = force,
                                                     !.todo = SubSeq(FilesOf[g], 1, n)]]
  BY DEF Enqueue
<1> DEFINE f == FilesOf[g]
           s == SubSeq(f, 1, n)
<1>2. f \in Seq(Dests) /\ f # <<>>
  OBVIOUS
<1> HIDE DEF f
<1>3. Len(f) \in Nat /\ Len(f) >= 1
  BY <1>2
<1>4. n \in 1..Len(f) /\ (~MayDrop => n = Len(f))
  BY <1>1, <1>3 DEF f
<1>5. s \in Seq(Dests) /\ Len(s) = n /\ \A i \in 1..n : s[i] = f[i]
  BY <1>2, <1>4
<1>6. ~MayDrop => s = f
  BY <1>2, <1>4
<1> HIDE DEF s
<1>7. Of(s, g)
  <2> SUFFICES ASSUME NEW d \in Dests, In(d, s) PROVE <<g, d>> \in Files
    BY DEF Of
  <2>1. PICK i \in 1..n : s[i] = d
    BY <1>5 DEF In
  <2>2. i \in 1..Len(f) /\ f[i] = d
    BY <1>3, <1>4, <1>5, <2>1
  <2>3. In(d, f)
    BY <1>2, <2>2 DEF In
  <2> QED BY <2>3, FilesAre DEF f
<1> DEFINE q == [NoCall EXCEPT !.pc = "next", !.g = g, !.force = force, !.todo = s]
<1>8. q \in Calls /\ q.pc = "next" /\ q.g = g /\ q.todo = s /\ q.ids = <<>>
  BY <1>5, NoCallOK DEF Calls
<1>9. call' = [call EXCEPT ![c] = q]
  BY <1>1 DEF s, f
<1> HIDE DEF q
<1>10. CallOK(q)
  BY <1>7, <1>8, NoneIn DEF CallOK, Of
<1>11. CallsHeld'
  BY <1>8, <1>9, <1>10, CallsKeep
<1>12. UNCHANGED <<lib, part, status, rows, job, writing, listed, inUse, mode>> /\ cpu = Nobody /\ cpu' = c
  BY DEF Enqueue, disk, queue, Op, Idle
<1>13. JobsHeld'
  BY <1>12, NotGroups, JobsStay
<1>14. RowsHeld' /\ RestHeld'
  BY <1>12, HeldIs DEF RowsHeld, RestHeld
<1> QED BY <1>5, <1>6, <1>9, <1>11, <1>12, <1>13, <1>14, HeldIs DEF q, f

\* How a step of an enqueue() leaves the file it is at.
Passes(c) == /\ call[c].todo # <<>> /\ status[<<call[c].g, Head(call[c].todo)>>] \in Busy
             /\ UNCHANGED <<lib, status, rows, job>>
             /\ call'[c].g = call[c].g /\ call'[c].pc = "next" /\ call'[c].todo = Tail(call[c].todo)
             /\ call'[c].ids = Append(call[c].ids, Head(call[c].todo))

Drops(c) == UNCHANGED <<lib, status, rows, job>> /\ call'[c] = NoCall

Looks(c) == /\ UNCHANGED <<status, rows, job>> /\ call'[c].pc = "hash"
            /\ call'[c].g = call[c].g /\ call'[c].todo = call[c].todo /\ call'[c].ids = call[c].ids

Registers(c, s) == call[c].todo # <<>> /\ call[c].pc # "none" /\ Register(c, Head(call[c].todo), s) /\ cpu \notin Groups

LEMMA EnqueueFileHeld ==
    ASSUME Held, NEW c \in Callers, EnqueueFile(c)
    PROVE  /\ Held' /\ UNCHANGED <<part, writing, listed>> /\ cpu = c /\ call[c].pc = "next"
           /\ \A k \in Callers \ {c} : call'[k] = call[k]
           /\ \/ lib' = lib
              \/ call[c].force /\ lib' = [lib EXCEPT ![Head(call[c].todo)] = NoFile]
           /\ \/ Passes(c) \/ Drops(c) \/ Looks(c)
              \/ Registers(c, "queued")
              \/ /\ Registers(c, "completed") /\ lib' = lib
                 /\ lib[Head(call[c].todo)] # NoFile /\ Len(lib[Head(call[c].todo)]) = Size
<1> DEFINE d == Head(call[c].todo)
           there == IF call[c].force THEN NoFile ELSE lib[d]
<1>1. call[c].pc = "next" /\ call[c].todo # <<>> /\ cpu = c /\ c \notin Groups /\ UNCHANGED <<part, writing, listed, inUse, mode>>
  BY NotGroups DEF EnqueueFile, fixed
<1>2. lib \in [Dests -> Contents] /\ d \in Dests /\ call \in [Callers -> Calls] /\ call[c] \in Calls /\ CallOK(call[c])
  BY <1>1, CallFacts DEF Held
<1>3. CASE /\ status[<<call[c].g, d>>] \in Busy
           /\ call' = [call EXCEPT ![c].todo = Tail(@), ![c].ids = Append(@, d)]
           /\ UNCHANGED <<lib, status, rows, job, cpu>>
  <2> DEFINE q == [call[c] EXCEPT !.todo = Tail(call[c].todo), !.ids = Append(call[c].ids, d)]
  <2>1. call' = [call EXCEPT ![c] = q]
    BY <1>2, <1>3
  <2>2. /\ Tail(call[c].todo) \in Seq(Dests) /\ Of(Tail(call[c].todo), call[c].g) /\ call[c].g \in Groups
        /\ Append(call[c].ids, d) \in Seq(Dests) /\ Of(Append(call[c].ids, d), call[c].g)
    BY <1>1, CallFacts
  <2>3. /\ q \in Calls /\ q.pc = call[c].pc /\ q.g = call[c].g
        /\ q.todo = Tail(call[c].todo) /\ q.ids = Append(call[c].ids, d)
    <3> HIDE DEF d
    <3> QED BY <1>2, <2>2 DEF Calls
  <2> HIDE DEF d, q
  <2>4. CallOK(q)
    BY <1>1, <2>2, <2>3 DEF CallOK
  <2>5. CallsHeld' /\ call'[c] = q /\ \A k \in Callers \ {c} : call'[k] = call[k]
    BY <2>1, <2>3, <2>4, CallsKeep
  <2>6. JobsHeld'
    BY <1>1, <1>3, JobsStay
  <2>7. RowsHeld' /\ RestHeld'
    BY <1>1, <1>3, HeldIs DEF RowsHeld, RestHeld
  <2>8. Passes(c)
    BY <1>1, <1>3, <2>3, <2>5 DEF Passes, d
  <2> QED BY <1>1, <1>3, <2>5, <2>6, <2>7, <2>8, HeldIs
<1>4. CASE call' = [call EXCEPT ![c] = NoCall] /\ cpu' = Nobody /\ UNCHANGED <<lib, status, rows, job>>
  <2>1. CallsHeld' /\ call'[c] = NoCall /\ \A k \in Callers \ {c} : call'[k] = call[k]
    BY <1>4, NoCallOK, CallsKeep
  <2>2. JobsHeld'
    BY <1>1, <1>4, JobsStay
  <2>3. RowsHeld' /\ RestHeld'
    BY <1>1, <1>4, HeldIs DEF RowsHeld, RestHeld
  <2> QED BY <1>1, <1>4, <2>1, <2>2, <2>3, HeldIs DEF Drops
<1>5. CASE /\ lib' = [lib EXCEPT ![d] = there]
           /\ IF there = NoFile \/ Len(there) # Size THEN Register(c, d, "queued")
              ELSE IF d \notin Small THEN Register(c, d, "completed")
              ELSE /\ call' = [call EXCEPT ![c].pc = "hash", ![c].saw = there]
                   /\ cpu' = Nobody
                   /\ UNCHANGED <<status, rows, job>>
  <2>1. there \in Contents /\ (there = lib[d] \/ (there = NoFile /\ call[c].force))
    BY <1>2 DEF Contents
  <2> HIDE DEF there
  <2>2. /\ lib' = lib \/ (call[c].force /\ lib' = [lib EXCEPT ![d] = NoFile])
        /\ lib' \in [Dests -> Contents] /\ lib'[d] = there
    BY <1>2, <1>5, <2>1
  <2>3. ASSUME NEW s \in {"queued", "completed"}, Register(c, d, s)
        PROVE  Held' /\ Registers(c, s) /\ \A k \in Callers \ {c} : call'[k] = call[k]
    <3>1. cpu \notin Groups /\ s \in Statuses /\ part' = part /\ call[c].pc # "none" /\ call[c].todo # <<>>
      BY <1>1 DEF Statuses
    <3>2. /\ JobsHeld' /\ RowsHeld' /\ CallsHeld' /\ cpu' \in Callers
          /\ \A k \in Callers \ {c} : call'[k] = call[k]
      BY <2>3, <3>1, RegisterHolds
    <3>3. RestHeld'
      BY <1>1, <2>2, <3>2, HeldIs DEF RestHeld
    <3> QED BY <2>3, <3>1, <3>2, <3>3, HeldIs DEF Registers
  <2>4. CASE there = NoFile \/ Len(there) # Size
    BY <1>1, <1>5, <2>2, <2>3, <2>4
  <2>5. CASE there # NoFile /\ Len(there) = Size /\ d \notin Small
    <3>1. there = lib[d] /\ lib' = lib
      BY <1>2, <1>5, <2>1, <2>5
    <3> QED BY <1>1, <1>5, <2>3, <2>5, <3>1
  <2>6. CASE call' = [call EXCEPT ![c].pc = "hash", ![c].saw = there] /\ cpu' = Nobody /\ UNCHANGED <<status, rows, job>>
    <3> DEFINE q == [call[c] EXCEPT !.pc = "hash", !.saw = there]
    <3>1. q \in Calls /\ q.pc = "hash" /\ q.g = call[c].g /\ q.todo = call[c].todo /\ q.ids = call[c].ids
      BY <1>2, <2>1 DEF Calls
    <3>2. call' = [call EXCEPT ![c] = q]
      BY <1>2, <2>6
    <3> HIDE DEF q
    <3>3. CallOK(q)
      BY <1>1, <1>2, <3>1 DEF CallOK
    <3>4. CallsHeld' /\ call'[c] = q /\ \A k \in Callers \ {c} : call'[k] = call[k]
      BY <3>1, <3>2, <3>3, CallsKeep
    <3>5. JobsHeld'
      BY <1>1, <2>6, JobsStay
    <3>6. RowsHeld' /\ RestHeld'
      BY <1>1, <2>2, <2>6, HeldIs DEF RowsHeld, RestHeld
    <3>7. Looks(c)
      BY <2>6, <3>1, <3>4 DEF Looks
    <3> QED BY <1>1, <2>2, <3>4, <3>5, <3>6, <3>7, HeldIs
  <2> QED BY <1>5, <2>4, <2>5, <2>6
<1> QED BY <1>3, <1>4, <1>5 DEF EnqueueFile

LEMMA EnqueueHashedHeld ==
    ASSUME Held, NEW c \in Callers, EnqueueHashed(c)
    PROVE  /\ Held' /\ UNCHANGED <<lib, part, writing, listed>> /\ call[c].pc = "hash"
           /\ \A k \in Callers \ {c} : call'[k] = call[k]
           /\ Drops(c) \/ Registers(c, "queued") \/ Registers(c, "completed")
<1>1. cpu = Nobody /\ call[c].pc = "hash" /\ UNCHANGED <<lib, part, writing, listed, inUse, mode>>
  BY DEF EnqueueHashed, Idle, disk
<1>2. cpu \notin Groups /\ call[c].todo # <<>> /\ call \in [Callers -> Calls]
  BY <1>1, NotGroups DEF Held, CallOK
<1>3. CASE call' = [call EXCEPT ![c] = NoCall] /\ UNCHANGED <<status, rows, job, cpu>>
  <2>1. CallsHeld' /\ call'[c] = NoCall /\ \A k \in Callers \ {c} : call'[k] = call[k]
    BY <1>3, NoCallOK, CallsKeep
  <2>2. JobsHeld'
    BY <1>1, <1>2, <1>3, JobsStay
  <2>3. RowsHeld' /\ RestHeld'
    BY <1>1, <1>3, HeldIs DEF RowsHeld, RestHeld
  <2> QED BY <1>1, <1>3, <2>1, <2>2, <2>3, HeldIs DEF Drops
<1>4. ASSUME NEW s \in {"queued", "completed"}, Register(c, Head(call[c].todo), s)
      PROVE  Held' /\ Registers(c, s) /\ \A k \in Callers \ {c} : call'[k] = call[k]
  <2>1. s \in Statuses /\ part' = part /\ call[c].pc # "none"
    BY <1>1 DEF Statuses
  <2>2. /\ JobsHeld' /\ RowsHeld' /\ CallsHeld' /\ cpu' \in Callers
        /\ \A k \in Callers \ {c} : call'[k] = call[k]
    BY <1>2, <1>4, <2>1, RegisterHolds
  <2>3. RestHeld'
    BY <1>1, <2>2, HeldIs DEF RestHeld
  <2> QED BY <1>2, <1>4, <2>1, <2>2, <2>3, HeldIs DEF Registers
<1> QED BY <1>1, <1>3, <1>4 DEF EnqueueHashed

LEMMA EnqueueEndsHeld ==
    ASSUME Held, NEW c \in Callers, EnqueueEnds(c)
    PROVE  /\ Held' /\ UNCHANGED <<lib, part, writing>> /\ call[c].pc = "next" /\ call[c].todo = <<>>
           /\ listed' = [listed EXCEPT ![call[c].g] = call[c].ids]
           /\ call' = [call EXCEPT ![c] = NoCall] /\ call[c].g \in Groups
           /\ \A f \in Files : /\ status'[f] = status[f] \/ status'[f] = "failed"
                               /\ rows'[f] = rows[f] \/ rows'[f] = "failed"
           /\ \A h \in Groups : job'[h] = job[h] \/ (job'[h].pc = "fresh" /\ job[h].pc = "none")
<1> DEFINE g == call[c].g
           pending == {d \in Dests : <<g, d>> \in Files /\ (\E i \in DOMAIN call[c].ids : call[c].ids[i] = d)
                                     /\ status[<<g, d>>] \in Busy \cup {"paused"}}
           Settle(t) == [f \in Files |-> IF f[1] = g /\ f[2] \in pending THEN "failed" ELSE t[f]]
<1>1. /\ cpu = c /\ cpu' = Nobody /\ call[c].pc = "next" /\ call[c].todo = <<>> /\ UNCHANGED <<lib, part, writing, inUse, mode>>
      /\ listed' = [listed EXCEPT ![g] = call[c].ids] /\ call' = [call EXCEPT ![c] = NoCall]
  BY DEF EnqueueEnds, disk
<1>2. CallOK(call[c]) /\ job \in [Groups -> Jobs] /\ status \in [Files -> Statuses] /\ rows \in [Files -> Statuses]
      /\ listed \in [Groups -> Seq(Dests)] /\ \A h \in Groups : Of(listed[h], h)
  BY DEF Held
<1>3. g \in Groups /\ call[c].ids \in Seq(Dests) /\ Of(call[c].ids, g)
  BY <1>1, <1>2 DEF CallOK, Calls
<1>4. \/ status' = Settle(status) /\ rows' = Settle(rows) /\ UNCHANGED job
      \/ UNCHANGED <<status, rows, job>>
      \/ UNCHANGED <<status, rows>> /\ Launched(g)
  BY DEF EnqueueEnds
<1>5. CallsHeld'
  BY <1>1, NoCallOK, CallsKeep
<1>6. JobsHeld' /\ \A h \in Groups : job'[h] = job[h] \/ (job'[h].pc = "fresh" /\ job[h].pc = "none")
  <2>1. cpu' \notin Groups /\ cpu \notin Groups
    BY <1>1, NotGroups
  <2>2. CASE job' = job
    BY <1>1, <2>1, <2>2, JobsStay
  <2>3. CASE Launched(g)
    <3> HIDE DEF g
    <3> QED BY <1>1, <1>3, <2>1, <2>3, LaunchedHolds
  <2> QED BY <1>4, <2>2, <2>3
<1>7. RowsHeld' /\ \A f \in Files : /\ status'[f] = status[f] \/ status'[f] = "failed"
                                    /\ rows'[f] = rows[f] \/ rows'[f] = "failed"
  <2> HIDE DEF pending
  <2> QED BY <1>2, <1>4 DEF RowsHeld, Statuses
<1>8. listed' \in [Groups -> Seq(Dests)] /\ \A h \in Groups : Of(listed'[h], h)
  <2> HIDE DEF g
  <2> QED BY <1>1, <1>2, <1>3
<1>9. RestHeld'
  BY <1>1, <1>8, HeldIs DEF RestHeld
<1> QED BY <1>1, <1>3, <1>5, <1>6, <1>7, <1>9, HeldIs

LEMMA ForeignHeld ==
    ASSUME Held, NEW d \in Dests, ForeignWrite(d)
    PROVE  /\ Held' /\ UNCHANGED <<lib, status, rows, writing, listed, call>>
           /\ part' = [part EXCEPT ![d] = Append(part[d], "x")] /\ part[d] # NoFile
           /\ \A h \in Groups : /\ job'[h].pc = job[h].pc /\ job'[h].todo = job[h].todo /\ job'[h].own = job[h].own
                                /\ job'[h].linked = job[h].linked
                                /\ ~job[h].linked => job'[h] = job[h]
<1>1. part[d] # NoFile /\ cpu' = cpu /\ UNCHANGED <<lib, status, rows, writing, listed, call, inUse, mode>>
      /\ part' = [part EXCEPT ![d] = Append(part[d], "x")]
      /\ job' = [h \in Groups |-> IF job[h].linked /\ Dest(h) = d
                                  THEN [job[h] EXCEPT !.bytes = Append(job[h].bytes, "x")] ELSE job[h]]
  BY DEF ForeignWrite, fixed, queue, Idle, Held
<1>2. part \in [Dests -> Blocks \cup {NoFile}] /\ job \in [Groups -> Jobs] /\ \A h \in Groups : JobOK(job[h], h, part)
  BY DEF Held
<1>3. part[d] \in Blocks
  BY <1>1, <1>2
<1>4. /\ Append(part[d], "x") \in Blocks /\ Len(Append(part[d], "x")) = Len(part[d]) + 1 /\ Len(part[d]) \in Nat
      /\ \A i \in 1..(Len(part[d]) + 1) : Append(part[d], "x")[i] = IF i = Len(part[d]) + 1 THEN "x" ELSE part[d][i]
  BY <1>3 DEF Blocks
<1> DEFINE b == Append(part[d], "x")
<1>5. part' \in [Dests -> Blocks \cup {NoFile}] /\ part'[d] = b /\ \A e : e # d => part'[e] = part[e]
  BY <1>1, <1>2, <1>4
<1>6. ASSUME NEW h \in Groups
      PROVE  /\ JobOK(job'[h], h, part') /\ job'[h] \in Jobs
             /\ job'[h].pc = job[h].pc /\ job'[h].todo = job[h].todo /\ job'[h].own = job[h].own
             /\ job'[h].linked = job[h].linked
             /\ ~job[h].linked => job'[h] = job[h]
  <2> DEFINE r == job[h]
             q == job'[h]
             p == part
             p2 == part'
  <2>1. r \in Jobs /\ JobOK(r, h, p)
    BY <1>2
  <2>2. CASE r.linked /\ Dest(h) = d
    <3>1. r.bytes = part[d] /\ Head(r.todo) = d
      BY <2>1, <2>2 DEF JobOK, Dest
    <3>2. q = [r EXCEPT !.bytes = b]
      BY <1>1, <2>2, <3>1
    <3>3. b \in Blocks /\ b \in Contents /\ r.bytes \in Blocks /\ Len(b) = Len(r.bytes) + 1 /\ Len(r.bytes) \in Nat
          /\ \A i \in 1..Len(b) : b[i] = IF i = Len(b) THEN "x" ELSE r.bytes[i]
      BY <1>3, <1>4, <3>1 DEF Contents
    <3>4. p2[d] = b
      BY <1>5
    <3> HIDE DEF r, q, p, p2, b
    <3>5. /\ q \in Jobs /\ q.pc = r.pc /\ q.todo = r.todo /\ q.own = r.own /\ q.linked = r.linked
          /\ q.n = r.n /\ q.bytes = b /\ r.n \in Nat
      BY <2>1, <3>2, <3>3 DEF Jobs
    <3>6. Foreign(q)
      <4>1. Foreign(r)
        BY <2>1 DEF JobOK
      <4> SUFFICES ASSUME r.pc \in {"http", "stream", "sync", "finish"}
                   PROVE  /\ r.n <= Len(b) /\ \A i \in (r.n + 1)..Len(b) : b[i] = "x"
                          /\ IF r.pc = "http" THEN r.n # Size ELSE r.n <= Size
        BY <3>5 DEF Foreign
      <4>2. /\ r.n <= Len(r.bytes) /\ \A i \in (r.n + 1)..Len(r.bytes) : r.bytes[i] = "x"
            /\ IF r.pc = "http" THEN r.n # Size ELSE r.n <= Size
        BY <4>1 DEF Foreign
      <4>3. ASSUME NEW i \in (r.n + 1)..Len(b) PROVE b[i] = "x"
        <5>1. i \in 1..Len(b) /\ (i # Len(b) => i \in (r.n + 1)..Len(r.bytes))
          BY <3>3, <3>5
        <5>2. CASE i = Len(b)
          BY <3>3, <5>1, <5>2
        <5>3. CASE i # Len(b)
          BY <3>3, <4>2, <5>1, <5>3
        <5> QED BY <5>2, <5>3
      <4>4. r.n <= Len(b)
        BY <3>3, <3>5, <4>2
      <4> QED BY <4>2, <4>3, <4>4
    <3>7. JobOK(q, h, p2)
      BY <2>1, <3>1, <3>3, <3>4, <3>5, <3>6 DEF JobOK
    <3> QED BY <2>2, <3>5, <3>7 DEF r, q, p2
  <2>3. CASE ~(r.linked /\ Dest(h) = d)
    <3>1. q = r
      BY <1>1, <2>3
    <3>2. r.linked => p2[Head(r.todo)] = p[Head(r.todo)]
      BY <1>5, <2>3 DEF Dest
    <3> HIDE DEF r, q, p, p2
    <3>3. JobOK(q, h, p2)
      BY <2>1, <3>1, <3>2 DEF JobOK
    <3> QED BY <2>1, <3>1, <3>3 DEF r, q, p2
  <2> QED BY <2>2, <2>3
<1>7. job' \in [Groups -> Jobs]
  <2>1. job' = [h \in Groups |-> job'[h]]
    BY <1>1
  <2> QED BY <1>6, <2>1
<1>8. Alone(job')
  <2>1. Alone(job)
    BY DEF Held
  <2> QED BY <1>6, <2>1 DEF Alone
<1>9. \A h \in Groups : job'[h].pc \in Running => cpu' = h
  BY <1>1, <1>6 DEF Held
<1>10. JobsHeld'
  BY <1>6, <1>7, <1>8, <1>9 DEF JobsHeld
<1>11. RowsHeld' /\ RestHeld' /\ CallsHeld'
  BY <1>1, <1>5, HeldIs DEF RowsHeld, RestHeld, CallsHeld
<1> QED BY <1>1, <1>6, <1>10, <1>11, HeldIs

LEMMA ExitHeld ==
    ASSUME Held, Exit
    PROVE  /\ Held' /\ UNCHANGED <<lib, part, rows>> /\ job' = [g \in Groups |-> NoJob]
           /\ status' = [f \in Files |-> "none"] /\ writing' = [d \in Dests |-> Nobody]
           /\ call' = [c \in Callers |-> NoCall]
<1>1. /\ UNCHANGED <<lib, part, inUse, rows>> /\ mode' = "down" /\ cpu' = Nobody
      /\ job' = [g \in Groups |-> NoJob]
      /\ status' = [f \in Files |-> "none"] /\ writing' = [d \in Dests |-> Nobody]
      /\ call' = [c \in Callers |-> NoCall] /\ listed' = [g \in Groups |-> <<>>]
  BY DEF Exit, disk
<1>2. JobsHeld'
  <2>1. NoJob \in Jobs /\ ~NoJob.linked /\ NoJob.pc \notin Running
    BY NoJobIs DEF Running
  <2>2. \A h \in Groups : job'[h] = NoJob
    BY <1>1
  <2>3. \A h \in Groups : JobOK(job'[h], h, part)
    BY <2>2, NoJobOK
  <2>4. job' \in [Groups -> Jobs]
    BY <1>1, <2>1
  <2>5. part' = part /\ \A h \in Groups : JobOK(job'[h], h, part) /\ ~job'[h].linked /\ job'[h].pc \notin Running
    BY <1>1, <2>1, <2>2, <2>3
  <2> QED BY <2>4, <2>5 DEF JobsHeld, Alone
<1>3. RowsHeld'
  BY <1>1, HeldIs DEF RowsHeld, Statuses
<1>4. CallsHeld'
  BY <1>1, NoCallOK DEF CallsHeld
<1>5. RestHeld'
  <2>1. \A g \in Groups : listed'[g] = <<>>
    BY <1>1
  <2>2. \A g \in Groups : Of(listed'[g], g)
    BY <2>1, NoneIn DEF Of
  <2> QED BY <1>1, <2>2, HeldIs DEF RestHeld
<1> QED BY <1>1, <1>2, <1>3, <1>4, <1>5, HeldIs

LEMMA ListsAre == Lists \subseteq Seq(Dests)
<1> SUFFICES ASSUME NEW n \in 0..Cardinality(Dests), NEW s \in [1..n -> Dests] PROVE s \in Seq(Dests)
  BY DEF Lists
<1>1. n \in Nat
  OBVIOUS
<1> QED BY <1>1

LEMMA StartHeld ==
    ASSUME Held, Start
    PROVE  /\ Held' /\ UNCHANGED <<lib, part, writing, call>>
           /\ \A h \in Groups : job'[h].pc \in {"none", "fresh"} /\ job'[h].todo = <<>>
           /\ \A f \in Files : /\ status'[f] # "running"
                               /\ rows'[f] = "completed" => rows[f] = "completed"
<1>1. PICK pruned \in BOOLEAN :
          LET kept == [f \in Files |-> IF pruned /\ rows[f] \in {"completed", "failed", "canceled"}
                                       THEN "none" ELSE rows[f]]
              loaded == [f \in Files |-> IF kept[f] = "running" THEN "queued" ELSE kept[f]]
              busy == {g \in Groups : \E f \in Files : f[1] = g /\ loaded[f] = "queued"}
          IN  /\ status' = loaded /\ rows' = loaded
              /\ \E lists \in [Groups -> Lists] :
                    /\ \A g \in Groups : Listing(lists[g], g, {d \in Dests : <<g, d>> \in Files /\ kept[<<g, d>>] # "none"})
                    /\ listed' = lists
              /\ job' = [g \in Groups |-> IF g \in busy THEN [NoJob EXCEPT !.pc = "fresh"] ELSE NoJob]
  BY DEF Start
<1> DEFINE kept == [f \in Files |-> IF pruned /\ rows[f] \in {"completed", "failed", "canceled"}
                                    THEN "none" ELSE rows[f]]
           loaded == [f \in Files |-> IF kept[f] = "running" THEN "queued" ELSE kept[f]]
           busy == {g \in Groups : \E f \in Files : f[1] = g /\ loaded[f] = "queued"}
           Kept(g) == {d \in Dests : <<g, d>> \in Files /\ kept[<<g, d>>] # "none"}
           q == [NoJob EXCEPT !.pc = "fresh"]
<1>2. /\ UNCHANGED <<lib, part, inUse, writing, call, cpu>> /\ mode' = "up"
  BY DEF Start, disk
<1>3. status' = loaded /\ rows' = loaded
  BY <1>1
<1>4. PICK lists \in [Groups -> Lists] : (\A g \in Groups : Listing(lists[g], g, Kept(g))) /\ listed' = lists
  BY <1>1
<1>5. \A h \in Groups : job'[h] = q \/ job'[h] = NoJob
  BY <1>1
<1>6. job' = [h \in Groups |-> job'[h]]
  BY <1>1
<1>7. /\ q \in Jobs /\ (\A g \in Groups : JobOK(q, g, part)) /\ ~q.linked /\ q.pc = "fresh" /\ q.pc \notin Running
      /\ q.todo = <<>>
  <2> HIDE DEF q
  <2>1. q = [NoJob EXCEPT !.pc = "fresh"]
    BY DEF q
  <2> QED BY <2>1, FreshIs, FreshOK
<1>8. /\ NoJob \in Jobs /\ (\A g \in Groups : JobOK(NoJob, g, part)) /\ ~NoJob.linked /\ NoJob.pc = "none"
      /\ NoJob.pc \notin Running /\ NoJob.todo = <<>>
  BY NoJobIs, NoJobOK DEF Running
<1>9. rows \in [Files -> Statuses]
  BY DEF Held
<1>10. /\ loaded \in [Files -> Statuses]
       /\ \A f \in Files : loaded[f] # "running" /\ (loaded[f] = "completed" => rows[f] = "completed")
  <2>1. \A f \in Files : kept[f] \in Statuses /\ (kept[f] = "completed" => rows[f] = "completed")
    BY <1>9 DEF Statuses
  <2> HIDE DEF kept
  <2>2. \A f \in Files : loaded[f] \in Statuses /\ loaded[f] # "running" /\ (loaded[f] = "completed" => rows[f] = "completed")
    BY <2>1 DEF Statuses
  <2> QED BY <2>2
<1>11. \A g \in Groups : Of(lists[g], g)
  <2> SUFFICES ASSUME NEW g \in Groups, NEW d \in Dests, In(d, lists[g]) PROVE <<g, d>> \in Files
    BY DEF Of
  <2>1. {lists[g][i] : i \in DOMAIN lists[g]} = Kept(g)
    BY <1>4 DEF Listing
  <2>2. d \in {lists[g][i] : i \in DOMAIN lists[g]}
    BY DEF In
  <2>3. d \in Kept(g)
    BY <2>1, <2>2
  <2> QED BY <2>3
<1> HIDE DEF q, loaded, busy, kept, Kept
<1>12. JobsHeld'
  <2>1. job' \in [Groups -> Jobs]
    BY <1>5, <1>6, <1>7, <1>8
  <2>2. \A h \in Groups : JobOK(job'[h], h, part) /\ ~job'[h].linked /\ job'[h].pc \notin Running
    BY <1>5, <1>7, <1>8
  <2> QED BY <1>2, <2>1, <2>2, JobsKeep
<1>13. RowsHeld'
  BY <1>3, <1>10 DEF RowsHeld
<1>14. CallsHeld'
  BY <1>2, HeldIs DEF CallsHeld
<1>15. listed' \in [Groups -> Seq(Dests)] /\ \A g \in Groups : Of(listed'[g], g)
  BY <1>4, <1>11, ListsAre
<1>16. RestHeld'
  BY <1>2, <1>15, HeldIs DEF RestHeld
<1> QED BY <1>2, <1>3, <1>5, <1>7, <1>8, <1>10, <1>12, <1>13, <1>14, <1>16, HeldIs

LEMMA StopHeld ==
    ASSUME Held, Stop
    PROVE  /\ Held' /\ UNCHANGED <<lib, part, status, rows, writing, call, listed>>
           /\ \A h \in Groups : Still(job[h], job'[h]) /\ job'[h].own = job[h].own
<1>1. /\ UNCHANGED <<lib, part, inUse, status, rows, writing, call, listed, cpu>> /\ mode' = "stopping"
      /\ job' = [g \in Groups |-> IF Has(g) THEN [job[g] EXCEPT !.cancelled = TRUE] ELSE job[g]]
  BY DEF Stop, disk, queue
<1>2. job' = [g \in Groups |-> IF g \in {h \in Groups : Has(h)} THEN [job[g] EXCEPT !.cancelled = TRUE] ELSE job[g]]
  BY <1>1
<1>3. JobsHeld' /\ \A h \in Groups : Still(job[h], job'[h]) /\ job'[h].own = job[h].own
  BY <1>1, <1>2, CancelHolds
<1>4. RowsHeld' /\ CallsHeld' /\ RestHeld'
  BY <1>1, HeldIs DEF RowsHeld, CallsHeld, RestHeld
<1> QED BY <1>1, <1>3, <1>4, HeldIs

LEMMA HeldNext == Held /\ [Next]_vars => Held'
<1> SUFFICES ASSUME Held, [Next]_vars PROVE Held'
  OBVIOUS
<1>1. CASE UNCHANGED vars
  BY <1>1 DEF vars, Held, JobOK, Alone, CallOK, Foreign, Of, In
<1>2. ASSUME NEW g \in Groups, Task(g) PROVE Held'
  BY <1>2, TaskTook, HeldByTask
<1>3. CASE Next
  BY <1>2, <1>3, ResumeHeld, InterruptHeld, EnqueueFileHeld, EnqueueHashedHeld, EnqueueEndsHeld, EnqueueHeld,
     ForeignHeld, StopHeld, ExitHeld, StartHeld DEF Next
<1> QED BY <1>1, <1>3

\* What a task holds: the handle it writes to, while it is the file at the .part
\* path, has the bytes the task counts on, and no two tasks hold one file.
THEOREM PartsHeld == Spec => []Held
<1>1. Init => Held
  BY InitHeld
<1>2. Held /\ [Next]_vars => Held'
  BY HeldNext
<1> QED BY <1>1, <1>2, PTL DEF Spec

-----------------------------------------------------------------------------
\* What the rows show, where no call leaves a projector out that others include.

\* A job that stays where it is, and rows that only give up what they showed.
LEMMA ShownStays ==
    ASSUME Held, Shown, NEW h \in Groups,
           job'[h].pc = job[h].pc, job'[h].todo = job[h].todo, job'[h].own = job[h].own,
           \A d \in Dests : <<h, d>> \in Files =>
               \/ status'[<<h, d>>] = status[<<h, d>>]
               \/ status'[<<h, d>>] \in {"queued", "failed", "none"},
           listed'[h] = listed[h] \/ \A d \in Dests : <<h, d>> \in Files => In(d, listed'[h])
    PROVE  ShownOK(job'[h], h, status', listed'[h])
<1>1. ShownOK(job[h], h, status, listed[h]) /\ Of(job[h].todo, h)
  BY DEF Shown, Held, JobOK
<1>2. job[h].pc \in AtFile => Dest(h) \in Dests /\ <<h, Dest(h)>> \in Files
  BY AtFileFacts
<1> QED BY <1>1, <1>2 DEF ShownOK, Of, Dest

\* A job away from its files.
LEMMA ShownAway ==
    ASSUME Held, Shown, NEW h \in Groups, job'[h].pc \in {"none", "fresh", "dead", "slot"},
           \A d \in Dests : <<h, d>> \in Files => status'[<<h, d>>] # "running"
    PROVE  ShownOK(job'[h], h, status', listed'[h])
BY DEF ShownOK, AtFile, Writers, Transfers

\* A job that is not at work has no row that shows it.
LEMMA NoneShown ==
    ASSUME Shown, NEW h \in Groups, job[h].pc \notin Writers
    PROVE  \A d \in Dests : <<h, d>> \in Files => status[<<h, d>>] # "running"
BY DEF Shown, ShownOK

LEMMA ShownGoes ==
    ASSUME Held, Shown, NEW g \in Groups, Goes(g), listed' = listed
    PROVE  ShownOK(job'[g], g, status', listed'[g])
<1>1. ShownOK(job[g], g, status, listed[g]) /\ Dest(g) \in Dests /\ <<g, Dest(g)>> \in Files /\ job[g] \in Jobs
  BY AtFileFacts DEF Shown, Goes
<1>2. CASE UNCHANGED <<status, rows>>
  BY <1>1, <1>2 DEF Goes, ShownOK
<1>3. CASE job[g].pc \in Writers /\ SetOwn(g, "running")
  <2>1. /\ \A f \in Files : f # <<g, Dest(g)>> => status'[f] = status[f]
        /\ status'[<<g, Dest(g)>>] = IF job[g].own THEN "running" ELSE status[<<g, Dest(g)>>]
    BY <1>1, <1>3, OwnFacts DEF Statuses
  <2>2. \A d \in Dests : <<g, d>> \in Files /\ d # Dest(g) => status'[<<g, d>>] = status[<<g, d>>]
    BY <2>1
  <2>3. job'[g].pc \in Writers /\ job'[g].todo = job[g].todo /\ job'[g].own = job[g].own
    BY <1>3 DEF Goes
  <2> QED BY <1>1, <1>3, <2>1, <2>2, <2>3 DEF ShownOK, Dest, AtFile
<1> QED BY <1>2, <1>3 DEF Goes

\* The file is settled: no row shows it any more.
LEMMA ShownSettles ==
    ASSUME Held, Shown, NEW g \in Groups, job[g].pc \in AtFile, NEW s \in {"failed", "completed"}, SetOwn(g, s)
    PROVE  \A d \in Dests : <<g, d>> \in Files => status'[<<g, d>>] # "running"
<1>1. ShownOK(job[g], g, status, listed[g]) /\ <<g, Dest(g)>> \in Files
  BY AtFileFacts DEF Shown
<1>2. /\ \A f \in Files : f # <<g, Dest(g)>> => status'[f] = status[f]
      /\ status'[<<g, Dest(g)>>] = IF job[g].own THEN s ELSE status[<<g, Dest(g)>>]
  BY <1>1, OwnFacts DEF Statuses
<1>3. \A d \in Dests : <<g, d>> \in Files /\ d # Dest(g) => status'[<<g, d>>] = status[<<g, d>>]
  BY <1>2
<1> QED BY <1>1, <1>2, <1>3 DEF ShownOK, Dest

LEMMA ShownDone ==
    ASSUME Held, Shown, NEW g \in Groups, Ends(g) \/ Done(g), listed' = listed
    PROVE  ShownOK(job'[g], g, status', listed'[g])
<1>1. CASE Ends(g)
  <2>1. \A d \in Dests : <<g, d>> \in Files => status'[<<g, d>>] # "running"
    BY <1>1, ShownSettles DEF Ends
  <2>2. job'[g].pc = "none"
    BY <1>1, NoJobIs DEF Ends
  <2> QED BY <2>1, <2>2, ShownAway
<1>2. CASE Done(g)
  <2>1. \A d \in Dests : <<g, d>> \in Files => status'[<<g, d>>] # "running"
    BY <1>2, ShownSettles DEF Done
  <2>2. job'[g].pc = "next" /\ job'[g].todo = Tail(job[g].todo) /\ job[g].pc \in AtFile
    BY <1>2, NextOfFacts DEF Done
  <2>3. job[g].todo \in Seq(Dests) /\ job[g].todo # <<>>
    BY <2>2, AtFileFacts DEF Held, JobOK
  <2>4. \A d : In(d, Tail(job[g].todo)) => In(d, job[g].todo)
    BY <2>3, Lists1
  <2>5. ShownOK(job[g], g, status, listed[g])
    BY DEF Shown
  <2> QED BY <1>2, <2>1, <2>2, <2>4, <2>5 DEF ShownOK, AtFile, Writers, Transfers
<1> QED BY <1>1, <1>2

LEMMA ShownTask ==
    ASSUME Held, Shown, NEW g \in Groups, Task(g)
    PROVE  ShownOK(job'[g], g, status', listed'[g]) /\ listed' = listed
<1>1. listed' = listed
  BY TaskTook DEF Took, Effect
<1>2. ShownOK(job[g], g, status, listed[g])
  BY DEF Shown
<1>3. CASE FirstStep(g) \/ SlotGranted(g)
  <2>1. /\ status' = status /\ job[g].pc \in {"fresh", "slot"}
        /\ \/ job'[g] = [job[g] EXCEPT !.pc = "next", !.todo = listed[g]]
           \/ job'[g] = [job[g] EXCEPT !.pc = "slot"]
    BY <1>3, TookFirstStep
  <2>2. \A d \in Dests : <<g, d>> \in Files => status'[<<g, d>>] # "running"
    BY <2>1, NoneShown DEF Writers, Transfers
  <2>3. job[g] \in Jobs
    BY DEF Held
  <2>4. \/ job'[g].pc = "next" /\ job'[g].todo = listed[g]
        \/ job'[g].pc = "slot"
    BY <2>1, <2>3 DEF Jobs
  <2> QED BY <1>1, <2>2, <2>4 DEF ShownOK, AtFile, Writers, Transfers
<1>4. CASE NextFile(g)
  <2>1. /\ status' = status /\ job[g].pc = "next"
        /\ \/ job'[g] = NoJob
           \/ job[g].todo # <<>> /\ job'[g] = [job[g] EXCEPT !.todo = Tail(@)]
           \/ /\ job[g].todo # <<>> /\ job'[g] = [NoJob EXCEPT !.pc = "begin", !.todo = job[g].todo]
              /\ status[<<g, Dest(g)>>] \notin {"completed", "canceled", "paused"}
    BY <1>4, TookNextFile
  <2>2. \A d \in Dests : <<g, d>> \in Files => status'[<<g, d>>] # "running"
    BY <2>1, NoneShown DEF Writers, Transfers
  <2>3. job[g] \in Jobs /\ job[g].todo \in Seq(Dests)
    BY DEF Held, Jobs
  <2>4. CASE job'[g] = NoJob
    <3>1. job'[g].pc \in {"none", "fresh", "dead", "slot"}
      BY <2>4, NoJobIs
    <3> QED BY <1>1, <2>2, <3>1, ShownAway
  <2>5. CASE job[g].todo # <<>> /\ job'[g] = [job[g] EXCEPT !.todo = Tail(@)]
    <3>1. job'[g].pc = "next" /\ job'[g].todo = Tail(job[g].todo)
      BY <2>1, <2>3, <2>5 DEF Jobs
    <3>2. \A d : In(d, Tail(job[g].todo)) => In(d, job[g].todo)
      BY <2>3, <2>5, Lists1
    <3> QED BY <1>1, <1>2, <2>1, <2>2, <3>1, <3>2 DEF ShownOK, AtFile, Writers, Transfers
  <2>6. CASE /\ job'[g] = [NoJob EXCEPT !.pc = "begin", !.todo = job[g].todo]
             /\ status[<<g, Dest(g)>>] \notin {"completed", "canceled", "paused"}
    <3>1. job'[g].pc = "begin" /\ job'[g].todo = job[g].todo
      BY <2>6, NoJobIs DEF Jobs
    <3> QED BY <1>1, <1>2, <2>1, <2>2, <2>6, <3>1 DEF ShownOK, Dest
  <2> QED BY <2>1, <2>4, <2>5, <2>6
<1>5. CASE Begin(g) \/ SiblingDone(g)
  <2>1. Goes(g)
    BY <1>5, TookBegin DEF Goes, AtFile, Writers, Transfers
  <2> QED BY <1>1, <2>1, ShownGoes
<1>6. CASE Check(g) \/ AdoptDone(g) \/ Open(g) \/ Finish(g) \/ Published(g)
  BY <1>1, <1>6, TookCheck, TookAdoptDone, TookOpen, TookFinish, TookPublished, ShownGoes, ShownDone
<1>7. CASE \/ Attempt(g) \/ RehashDone(g) \/ Unsatisfiable(g) \/ Refused(g) \/ SizeMismatch(g) \/ Answered(g)
           \/ Chunk(g) \/ StreamBroken(g) \/ StreamEnds(g) \/ Synced(g) \/ SleepOver(g)
  BY <1>1, <1>7, TookTransfer, ShownGoes, ShownDone
<1>8. CASE Cancelled(g)
  <2>1. CASE job'[g].pc = "dead" /\ job[g].pc = "fresh" /\ UNCHANGED <<part, status, rows, writing>>
    <3>1. \A d \in Dests : <<g, d>> \in Files => status'[<<g, d>>] # "running"
      BY <2>1, NoneShown DEF Writers, Transfers
    <3>2. job'[g].pc \in {"none", "fresh", "dead", "slot"}
      BY <2>1
    <3> QED BY <1>1, <3>1, <3>2, ShownAway
  <2>2. CASE /\ job'[g] = NoJob
             /\ \E jobs \in [Groups -> Jobs] : Finalized(g, intent[g], jobs)
    <3>1. PICK jobs \in [Groups -> Jobs] : Finalized(g, intent[g], jobs)
      BY <2>2
    <3>2. /\ \A f \in Files : status'[f] = status[f] \/ status'[f] # "running"
          /\ \A d \in Dests : <<g, d>> \in Files /\ In(d, listed[g]) => status'[<<g, d>>] # "running"
      BY <3>1, FinalFacts
    <3>3. ASSUME NEW d \in Dests, <<g, d>> \in Files, status'[<<g, d>>] = "running" PROVE FALSE
      <4>1. job[g].pc \in AtFile /\ Dest(g) = d
        BY <1>2, <3>2, <3>3 DEF ShownOK, AtFile, Dest
      <4>2. job[g].todo \in Seq(Dests) /\ job[g].todo # <<>>
        BY <4>1, AtFileFacts DEF Held, JobOK
      <4>3. In(d, job[g].todo)
        BY <4>1, <4>2, Lists1 DEF Dest
      <4> QED BY <1>2, <3>2, <3>3, <4>1, <4>3 DEF ShownOK
    <3>4. job'[g].pc \in {"none", "fresh", "dead", "slot"}
      BY <2>2, NoJobIs
    <3>5. \A d \in Dests : <<g, d>> \in Files => status'[<<g, d>>] # "running"
      BY <3>3
    <3> QED BY <1>1, <3>4, <3>5, ShownAway
  <2> QED BY <1>8, <2>1, <2>2, TookCancelled
<1> QED BY <1>1, <1>3, <1>4, <1>5, <1>6, <1>7, <1>8 DEF Task

LEMMA ShownByTask ==
    ASSUME Held, Shown, NEW g \in Groups, Task(g)
    PROVE  Shown'
<1>1. ShownOK(job'[g], g, status', listed'[g]) /\ listed' = listed
  BY ShownTask
<1>2. /\ \A h \in Groups \ {g} : Alike(job[h], job'[h])
      /\ call' = call /\ \A f \in Files : f[1] # g => status'[f] = status[f]
  BY TaskTook DEF Took, Effect
<1>3. ASSUME NEW h \in Groups \ {g} PROVE ShownOK(job'[h], h, status', listed'[h])
  <2>1. \A d \in Dests : <<h, d>> \in Files => status'[<<h, d>>] = status[<<h, d>>]
    BY <1>2
  <2>2. job'[h].pc = job[h].pc /\ job'[h].todo = job[h].todo /\ job'[h].own = job[h].own
    BY <1>2 DEF Alike
  <2> QED BY <1>1, <2>1, <2>2, ShownStays
<1>4. \A h \in Groups : ShownOK(job'[h], h, status', listed'[h])
  BY <1>1, <1>3
<1>5. \A c \in Callers : Asked(call'[c])
  BY <1>2 DEF Shown
<1> QED BY <1>4, <1>5 DEF Shown

\* Jobs that stay or are launched, rows that give up at most what they showed.
LEMMA ShownSettled ==
    ASSUME Held, Shown, listed' = listed,
           \A h \in Groups : \/ job'[h].pc = job[h].pc /\ job'[h].todo = job[h].todo /\ job'[h].own = job[h].own
                             \/ job'[h].pc = "fresh" /\ job[h].pc = "none",
           \A f \in Files : status'[f] = status[f] \/ status'[f] \in {"queued", "failed", "none"}
    PROVE  \A h \in Groups : ShownOK(job'[h], h, status', listed'[h])
<1> SUFFICES ASSUME NEW h \in Groups PROVE ShownOK(job'[h], h, status', listed'[h])
  OBVIOUS
<1>1. CASE job'[h].pc = job[h].pc /\ job'[h].todo = job[h].todo /\ job'[h].own = job[h].own
  BY <1>1, ShownStays
<1>2. CASE job'[h].pc = "fresh" /\ job[h].pc = "none"
  <2>1. \A d \in Dests : <<h, d>> \in Files => status'[<<h, d>>] # "running"
    BY <1>2, NoneShown DEF Writers, Transfers
  <2> QED BY <1>2, <2>1, ShownAway
<1> QED BY <1>1, <1>2

\* A file that an enqueue() registers leaves its task without a row.
LEMMA ShownRegisters ==
    ASSUME Held, Shown, NEW c \in Callers, NEW s \in {"queued", "completed"}, Registers(c, s),
           part' = part, listed' = listed
    PROVE  /\ \A h \in Groups : ShownOK(job'[h], h, status', listed'[h])
           /\ call'[c].pc = "next" /\ call'[c].g = call[c].g
           /\ call'[c].todo = Tail(call[c].todo) /\ call'[c].ids = Append(call[c].ids, Head(call[c].todo))
<1> DEFINE d == Head(call[c].todo)
           g == call[c].g
<1>1. call[c].pc # "none" /\ call[c].todo # <<>> /\ Register(c, d, s) /\ cpu \notin Groups /\ s \in Statuses
  BY DEF Registers, Statuses
<1>2. /\ \A h \in Groups : /\ Still(job[h], job'[h])
                           /\ \/ job'[h].own = job[h].own
                              \/ job'[h].own = FALSE /\ h = g /\ Dest(h) = d
                           /\ h = g /\ job[h].pc \in Awaits /\ Dest(h) = d => job'[h].own = FALSE
      /\ call'[c].pc = "next" /\ call'[c].g = g
      /\ call'[c].todo = Tail(call[c].todo) /\ call'[c].ids = Append(call[c].ids, d)
  BY <1>1, RegisterHolds
<1>3. g \in Groups /\ <<g, d>> \in Files /\ status \in [Files -> Statuses]
  BY <1>1, CallFacts DEF Held
<1>4. status' = [status EXCEPT ![<<g, d>>] = s]
  BY <1>1 DEF Register
<1> HIDE DEF d, g
<1>5. status'[<<g, d>>] = s /\ \A h \in Groups, e \in Dests : <<h, e>> \in Files /\ (h # g \/ e # d) => status'[<<h, e>>] = status[<<h, e>>]
  BY <1>3, <1>4
<1>6. ASSUME NEW h \in Groups PROVE ShownOK(job'[h], h, status', listed'[h])
  <2>1. ShownOK(job[h], h, status, listed[h]) /\ job'[h].pc = job[h].pc /\ job'[h].todo = job[h].todo
    BY <1>2 DEF Shown, Still
  <2>2. job[h].pc \in AtFile => Dest(h) \in Dests /\ <<h, Dest(h)>> \in Files
    BY AtFileFacts
  <2>3. job[h].pc \in AtFile => job[h].pc \in Awaits
    <3>1. job[h].pc \notin Running
      BY <1>1 DEF Held
    <3> QED BY <3>1 DEF AtFile, Writers, Transfers, Awaits, Running
  <2>4. job[h].pc \in AtFile /\ job'[h].own => status'[<<h, Dest(h)>>] \notin {"paused", "canceled", "completed"}
    <3> SUFFICES ASSUME job[h].pc \in AtFile, job'[h].own PROVE status'[<<h, Dest(h)>>] \notin {"paused", "canceled", "completed"}
      OBVIOUS
    <3>1. job[h].pc \in Awaits /\ job[h].own /\ (h # g \/ Dest(h) # d)
      BY <1>2, <2>3
    <3> QED BY <1>5, <2>1, <2>2, <3>1 DEF ShownOK, Dest
  <2>5. ASSUME NEW e \in Dests, <<h, e>> \in Files, status'[<<h, e>>] = "running"
        PROVE  job'[h].pc \in Writers /\ job'[h].own /\ Head(job'[h].todo) = e
    <3>1. h # g \/ e # d
      BY <1>5, <2>5
    <3>2. status[<<h, e>>] = "running"
      BY <1>5, <2>5, <3>1
    <3>3. job[h].pc \in Writers /\ job[h].own /\ Dest(h) = e
      BY <2>1, <2>5, <3>2 DEF ShownOK, Dest
    <3>4. job'[h].own = job[h].own
      BY <1>2, <3>1, <3>3
    <3> QED BY <2>1, <3>3, <3>4 DEF Dest
  <2> QED BY <2>1, <2>4, <2>5 DEF ShownOK, Dest
<1> QED BY <1>2, <1>6 DEF d, g

\* The files of a call are those it has registered and those it has not.
LEMMA AskedOn ==
    ASSUME Held, Shown, NEW c \in Callers, call[c].pc # "none", call[c].todo # <<>>,
           call'[c].g = call[c].g,
           call'[c].todo = Tail(call[c].todo), call'[c].ids = Append(call[c].ids, Head(call[c].todo))
    PROVE  Asked(call'[c])
<1>1. \A d \in Dests : <<call[c].g, d>> \in Files => In(d, call[c].ids) \/ In(d, call[c].todo)
  BY DEF Shown, Asked
<1> QED BY <1>1, CallFacts DEF Asked

LEMMA ShownByCall ==
    ASSUME Held, Shown, NEW c \in Callers, part' = part, listed' = listed,
           \A k \in Callers \ {c} : call'[k] = call[k],
           \/ Passes(c) /\ call[c].pc = "next"
           \/ Drops(c)
           \/ Looks(c) /\ call[c].pc # "none"
           \/ Registers(c, "queued") \/ Registers(c, "completed")
    PROVE  Shown'
<1>1. \A k \in Callers \ {c} : Asked(call'[k])
  BY DEF Shown
<1>2. CASE UNCHANGED <<status, job>> /\ Asked(call'[c])
  <2>1. \A h \in Groups : ShownOK(job'[h], h, status', listed'[h])
    BY <1>2 DEF Shown
  <2> QED BY <1>1, <1>2, <2>1 DEF Shown
<1>3. ASSUME Passes(c), call[c].pc = "next" PROVE UNCHANGED <<status, job>> /\ Asked(call'[c])
  BY <1>3, AskedOn DEF Passes
<1>4. ASSUME Drops(c) PROVE UNCHANGED <<status, job>> /\ Asked(call'[c])
  BY <1>4, NoCallOK DEF Drops, Asked
<1>5. ASSUME Looks(c), call[c].pc # "none" PROVE UNCHANGED <<status, job>> /\ Asked(call'[c])
  BY <1>5 DEF Looks, Asked, Shown
<1>6. ASSUME NEW s \in {"queued", "completed"}, Registers(c, s) PROVE Shown'
  <2>1. /\ \A h \in Groups : ShownOK(job'[h], h, status', listed'[h])
        /\ call'[c].g = call[c].g
        /\ call'[c].todo = Tail(call[c].todo) /\ call'[c].ids = Append(call[c].ids, Head(call[c].todo))
    BY <1>6, ShownRegisters
  <2>2. Asked(call'[c])
    BY <1>6, <2>1, AskedOn DEF Registers
  <2> QED BY <1>1, <2>1, <2>2 DEF Shown
<1> QED BY <1>2, <1>3, <1>4, <1>5, <1>6

LEMMA ShownByResume ==
    ASSUME Held, Shown, NEW g \in Groups, Resume(g)
    PROVE  Shown'
<1>1. /\ Launched(g) /\ UNCHANGED <<part, cpu, listed, call>>
      /\ \A f \in Files : status'[f] = status[f] \/ status'[f] = "queued"
  BY DEF Resume, disk
<1>2. \A h \in Groups : \/ job'[h] = job[h]
                        \/ job'[h].pc = "fresh" /\ job[h].pc = "none"
  BY <1>1, LaunchedHolds
<1>3. \A h \in Groups : ShownOK(job'[h], h, status', listed'[h])
  BY <1>1, <1>2, ShownSettled
<1> QED BY <1>1, <1>3 DEF Shown

LEMMA ShownByInterrupt ==
    ASSUME Held, Shown, NEW g \in Groups, Interrupt(g)
    PROVE  Shown'
<1>1. UNCHANGED <<listed, call, cpu>>
  BY DEF Interrupt
<1>2. PICK why \in {"pause", "cancel", "cancel-keep"} :
          IF Has(g)
          THEN job' = [job EXCEPT ![g].cancelled = TRUE] /\ UNCHANGED <<part, status, rows>>
          ELSE Finalized(g, why, job)
  BY DEF Interrupt
<1>3. CASE Has(g)
  <2>1. job' = [h \in Groups |-> IF h \in {g} THEN [job[h] EXCEPT !.cancelled = TRUE] ELSE job[h]]
        /\ part' = part /\ status' = status
    BY <1>2, <1>3 DEF Held
  <2>2. \A h \in Groups : Still(job[h], job'[h]) /\ job'[h].own = job[h].own
    BY <1>1, <2>1, CancelHolds
  <2>3. \A h \in Groups : ShownOK(job'[h], h, status', listed'[h])
    BY <1>1, <2>1, <2>2, ShownSettled DEF Still
  <2> QED BY <1>1, <2>3 DEF Shown
<1>4. CASE ~Has(g)
  <2>1. job \in [Groups -> Jobs] /\ Finalized(g, why, job) /\ job[g].pc = "none"
    BY <1>2, <1>4 DEF Held, Has
  <2>2. \A f \in Files : \/ status'[f] = status[f]
                         \/ f[1] = g /\ status'[f] # "running"
    BY <2>1, FinalFacts
  <2>3. \A h \in Groups : Alike(job[h], job'[h])
    <3>1. \E gone \in SUBSET Dests : job' = Unlinked(job, gone)
      BY <2>1, FinalFacts
    <3> QED BY <2>1, <3>1, UnlinkedFacts
  <2>4. ASSUME NEW h \in Groups PROVE ShownOK(job'[h], h, status', listed'[h])
    <3>1. job'[h].pc = job[h].pc /\ job'[h].todo = job[h].todo /\ job'[h].own = job[h].own
      BY <2>3 DEF Alike
    <3>2. CASE h = g
      <4>1. \A d \in Dests : <<g, d>> \in Files => status'[<<g, d>>] # "running"
        BY <2>1, <2>2, NoneShown DEF Writers, Transfers
      <4> QED BY <2>1, <3>1, <3>2, <4>1, ShownAway
    <3>3. CASE h # g
      <4>1. \A d \in Dests : <<h, d>> \in Files => status'[<<h, d>>] = status[<<h, d>>]
        BY <2>2, <3>3
      <4> QED BY <1>1, <3>1, <4>1, ShownStays
    <3> QED BY <3>2, <3>3
  <2> QED BY <1>1, <2>4 DEF Shown
<1> QED BY <1>3, <1>4

LEMMA ShownByEnqueue ==
    ASSUME Held, Shown, ~MayDrop, NEW c \in Callers, NEW g \in Groups, Enqueue(c, g)
    PROVE  Shown'
<1>1. /\ UNCHANGED <<status, job, listed>>
      /\ \E force \in BOOLEAN, s \in Seq(Dests) :
            /\ call' = [call EXCEPT ![c] = [NoCall EXCEPT !.pc = "next", !.g = g, !.force = force, !.todo = s]]
            /\ ~MayDrop => s = FilesOf[g]
  BY EnqueueHeld
<1>2. PICK force \in BOOLEAN :
          call' = [call EXCEPT ![c] = [NoCall EXCEPT !.pc = "next", !.g = g, !.force = force, !.todo = FilesOf[g]]]
  BY <1>1
<1> DEFINE q == [NoCall EXCEPT !.pc = "next", !.g = g, !.force = force, !.todo = FilesOf[g]]
<1>3. q.g = g /\ q.todo = FilesOf[g]
  BY NoCallOK DEF Calls
<1> HIDE DEF q
<1>4. Asked(q)
  BY <1>3, FilesAre DEF Asked
<1>5. \A k \in Callers : Asked(call'[k])
  <2>1. call' = [call EXCEPT ![c] = q] /\ call \in [Callers -> Calls]
    BY <1>2 DEF q, Held
  <2> QED BY <1>4, <2>1 DEF Shown
<1> QED BY <1>1, <1>5 DEF Shown

LEMMA ShownByEnd ==
    ASSUME Held, Shown, NEW c \in Callers, EnqueueEnds(c)
    PROVE  Shown'
<1>1. /\ call[c].pc = "next" /\ call[c].todo = <<>>
      /\ listed' = [listed EXCEPT ![call[c].g] = call[c].ids]
      /\ call' = [call EXCEPT ![c] = NoCall] /\ call[c].g \in Groups
      /\ \A f \in Files : status'[f] = status[f] \/ status'[f] = "failed"
      /\ \A h \in Groups : job'[h] = job[h] \/ (job'[h].pc = "fresh" /\ job[h].pc = "none")
  BY EnqueueEndsHeld
<1>2. \A d \in Dests : <<call[c].g, d>> \in Files => In(d, call[c].ids)
  BY <1>1, NoneIn DEF Shown, Asked
<1>3. \A h \in Groups : listed'[h] = listed[h] \/ \A d \in Dests : <<h, d>> \in Files => In(d, listed'[h])
  <2>1. listed \in [Groups -> Seq(Dests)]
    BY DEF Held
  <2> QED BY <1>1, <1>2, <2>1
<1>4. ASSUME NEW h \in Groups PROVE ShownOK(job'[h], h, status', listed'[h])
  <2>1. CASE job'[h] = job[h]
    BY <1>1, <1>3, <2>1, ShownStays
  <2>2. CASE job'[h].pc = "fresh" /\ job[h].pc = "none"
    <3>1. \A d \in Dests : <<h, d>> \in Files => status'[<<h, d>>] # "running"
      BY <1>1, <2>2, NoneShown DEF Writers, Transfers
    <3> QED BY <2>2, <3>1, ShownAway
  <2> QED BY <1>1, <2>1, <2>2
<1>5. \A k \in Callers : Asked(call'[k])
  <2>1. call \in [Callers -> Calls]
    BY DEF Held
  <2> QED BY <1>1, <2>1, NoCallOK DEF Shown, Asked
<1> QED BY <1>4, <1>5 DEF Shown

LEMMA ShownByProcess ==
    ASSUME Held, Shown, Stop \/ Exit \/ Start \/ \E d \in Dests : ForeignWrite(d)
    PROVE  Shown'
<1>1. CASE Stop
  <2>1. UNCHANGED <<status, call, listed>> /\ \A h \in Groups : Still(job[h], job'[h]) /\ job'[h].own = job[h].own
    BY <1>1, StopHeld
  <2>2. \A h \in Groups : ShownOK(job'[h], h, status', listed'[h])
    BY <2>1, ShownSettled DEF Still
  <2> QED BY <2>1, <2>2 DEF Shown
<1>2. ASSUME NEW d \in Dests, ForeignWrite(d) PROVE Shown'
  <2>1. /\ UNCHANGED <<status, call, listed>>
        /\ \A h \in Groups : job'[h].pc = job[h].pc /\ job'[h].todo = job[h].todo /\ job'[h].own = job[h].own
    BY <1>2, ForeignHeld
  <2>2. \A h \in Groups : ShownOK(job'[h], h, status', listed'[h])
    BY <2>1, ShownSettled
  <2> QED BY <2>1, <2>2 DEF Shown
<1>3. CASE Exit
  <2>1. /\ job' = [g \in Groups |-> NoJob] /\ status' = [f \in Files |-> "none"]
        /\ call' = [c \in Callers |-> NoCall]
    BY <1>3, ExitHeld
  <2>2. \A h \in Groups : ShownOK(job'[h], h, status', listed'[h])
    BY <2>1, NoJobIs, ShownAway
  <2>3. \A k \in Callers : Asked(call'[k])
    BY <2>1, NoCallOK DEF Asked
  <2> QED BY <2>2, <2>3 DEF Shown
<1>4. CASE Start
  <2>1. /\ call' = call
        /\ \A h \in Groups : job'[h].pc \in {"none", "fresh"}
        /\ \A f \in Files : status'[f] # "running"
    BY <1>4, StartHeld
  <2>2. ASSUME NEW h \in Groups PROVE ShownOK(job'[h], h, status', listed'[h])
    <3>1. \A d \in Dests : <<h, d>> \in Files => status'[<<h, d>>] # "running"
      BY <2>1
    <3>2. job'[h].pc \in {"none", "fresh", "dead", "slot"}
      BY <2>1
    <3> QED BY <3>1, <3>2, ShownAway
  <2> QED BY <2>1, <2>2 DEF Shown
<1> QED BY <1>1, <1>2, <1>3, <1>4

LEMMA InitShown == Init => Shown
<1> SUFFICES ASSUME Init PROVE Shown
  OBVIOUS
<1>1. ASSUME NEW h \in Groups PROVE ShownOK(job[h], h, status, listed[h])
  <2>1. job[h] = NoJob /\ status = [f \in Files |-> "none"]
    BY DEF Init
  <2> QED BY <2>1, NoJobIs DEF ShownOK, AtFile, Writers, Transfers
<1>2. \A k \in Callers : Asked(call[k])
  BY NoCallOK DEF Init, Asked
<1> QED BY <1>1, <1>2 DEF Shown

LEMMA ShownNext ==
    ASSUME Held, Shown, ~MayDrop, [Next]_vars
    PROVE  Shown'
<1>1. CASE UNCHANGED vars
  BY <1>1 DEF vars, Shown, ShownOK, Asked, In
<1>2. ASSUME NEW c \in Callers, EnqueueFile(c) PROVE Shown'
  <2>1. /\ UNCHANGED <<part, listed>> /\ call[c].pc = "next"
        /\ \A k \in Callers \ {c} : call'[k] = call[k]
        /\ Passes(c) \/ Drops(c) \/ Looks(c) \/ Registers(c, "queued") \/ Registers(c, "completed")
    BY <1>2, EnqueueFileHeld
  <2> QED BY <2>1, ShownByCall
<1>3. ASSUME NEW c \in Callers, EnqueueHashed(c) PROVE Shown'
  <2>1. /\ UNCHANGED <<part, listed>>
        /\ \A k \in Callers \ {c} : call'[k] = call[k]
        /\ Drops(c) \/ Registers(c, "queued") \/ Registers(c, "completed")
    BY <1>3, EnqueueHashedHeld
  <2> QED BY <2>1, ShownByCall
<1>4. CASE Next
  BY <1>2, <1>3, <1>4, ShownByTask, ShownByResume, ShownByInterrupt, ShownByEnd, ShownByEnqueue, ShownByProcess DEF Next
<1> QED BY <1>1, <1>4

LEMMA RowsSay == Held /\ Shown => RowsTrue
<1> SUFFICES ASSUME Held, Shown PROVE RowsTrue
  OBVIOUS
<1>1. TypeOK
  BY DEF Held, JobOK, TypeOK, Dest
<1>2. RunningHasTask
  <2> SUFFICES ASSUME NEW g \in Groups, NEW d \in Dests, <<g, d>> \in Files, status[<<g, d>>] = "running"
               PROVE  job[g].pc # "none" /\ job[g].pc # "dead"
    BY DEF RunningHasTask, Files, Has
  <2>1. job[g].pc \in Writers
    BY DEF Shown, ShownOK
  <2> QED BY <2>1 DEF Writers, Transfers
<1>3. StoppedIsStill
  BY DEF Shown, ShownOK, StoppedIsStill, Awaits, AtFile, Writers, Transfers, Dest
<1> QED BY <1>1, <1>2, <1>3 DEF RowsTrue

\* What a row shows is what its task does: a file shown as running has a live task
\* behind it, and one that was paused, canceled or completed is not transferred on.
\* No call leaves a projector out that others include: such a call shortens the
\* group's list under its task.
THEOREM RowsHold ==
    ASSUME ~MayDrop
    PROVE  Spec => []RowsTrue
<1>1. Init => Held /\ Shown
  BY InitHeld, InitShown
<1>2. Held /\ Shown /\ [Next]_vars => Held' /\ Shown'
  BY HeldNext, ShownNext
<1>3. Held /\ Shown => RowsTrue
  BY RowsSay
<1> QED BY <1>1, <1>2, <1>3, PTL DEF Spec

-----------------------------------------------------------------------------
\* Who is at a file.

LEMMA DownNext ==
    ASSUME Held, Down, [Next]_vars
    PROVE  Down'
<1>1. CASE UNCHANGED vars
  BY <1>1 DEF vars, Down
<1>2. ASSUME NEW g \in Groups, Task(g) PROVE mode' # "down"
  <2>1. mode' = mode
    BY <1>2, TaskTook DEF Took, Effect
  <2>2. Idle \/ job[g].pc # "none"
    BY <1>2 DEF Task, FirstStep, SlotGranted, NextFile, Begin, SiblingDone, Check, AdoptDone, Open, Attempt, RehashDone,
       Unsatisfiable, Refused, SizeMismatch, Answered, Chunk, StreamBroken, StreamEnds, Synced, SleepOver, Finish,
       Published, Cancelled, Wakes
  <2> QED BY <2>1, <2>2 DEF Idle, Down
<1>3. ASSUME NEW g \in Groups, Resume(g) \/ Interrupt(g) PROVE mode' # "down"
  BY <1>3 DEF Resume, Interrupt, Op
<1>4. ASSUME NEW c \in Callers, EnqueueFile(c) \/ EnqueueHashed(c) \/ EnqueueEnds(c) \/ \E g \in Groups : Enqueue(c, g)
      PROVE  mode' # "down"
  BY <1>4 DEF EnqueueFile, EnqueueHashed, EnqueueEnds, Enqueue, Op, Idle, Down
<1>5. CASE Stop \/ Start \/ \E d \in Dests : ForeignWrite(d)
  BY <1>5 DEF Stop, Start, ForeignWrite, Idle, Down
<1>6. CASE Exit
  BY <1>6, ExitHeld, NoJobIs, NoCallOK DEF Down
<1> QED BY <1>1, <1>2, <1>3, <1>4, <1>5, <1>6 DEF Next, Down

\* A rushed claim stays on record, and a task that leaves its hash for a claim either
\* makes one or finds its destination as it left it.
LEMMA Rushes ==
    ASSUME NEW g \in Groups, Task(g)
    PROVE  /\ rushed \subseteq rushed' /\ rushed' \subseteq rushed \cup {Dest(g)}
           /\ AdoptDone(g) /\ job'[g].pc = "open" =>
                  \/ Dest(g) \in rushed'
                  \/ writing[Dest(g)] = Nobody /\ lib[Dest(g)] \in {NoFile, job[g].bytes}
<1>1. CASE AdoptDone(g)
  BY <1>1 DEF AdoptDone
<1>2. ASSUME ~AdoptDone(g) PROVE rushed' = rushed
  <2>1. CASE FirstStep(g) \/ SlotGranted(g) \/ NextFile(g) \/ Begin(g) \/ SiblingDone(g) \/ Check(g) \/ Open(g)
    BY <2>1 DEF FirstStep, SlotGranted, NextFile, Begin, SiblingDone, Check, Open, disk, fixed
  <2>2. CASE Attempt(g) \/ RehashDone(g) \/ Unsatisfiable(g) \/ Refused(g) \/ SizeMismatch(g) \/ Answered(g) \/ Chunk(g)
    BY <2>2 DEF Attempt, RehashDone, Unsatisfiable, Refused, SizeMismatch, Answered, Chunk, fixed
  <2>3. CASE StreamBroken(g) \/ StreamEnds(g) \/ Synced(g) \/ SleepOver(g) \/ Finish(g) \/ Published(g) \/ Cancelled(g)
    BY <2>3 DEF StreamBroken, StreamEnds, Synced, SleepOver, Finish, Published, Cancelled, disk, fixed
  <2> QED BY <1>2, <2>1, <2>2, <2>3 DEF Task
<1> QED BY <1>1, <1>2

LEMMA RushedGrows ==
    ASSUME [Next]_vars
    PROVE  rushed \subseteq rushed' /\ (rushed' = rushed \/ \E g \in Groups : Task(g))
<1>1. ASSUME NEW g \in Groups, Resume(g) \/ Interrupt(g) PROVE rushed' = rushed
  BY <1>1 DEF Resume, Interrupt, disk, fixed
<1>2. ASSUME NEW c \in Callers, EnqueueFile(c) \/ EnqueueHashed(c) \/ EnqueueEnds(c) \/ \E g \in Groups : Enqueue(c, g)
      PROVE  rushed' = rushed
  BY <1>2 DEF EnqueueFile, EnqueueHashed, EnqueueEnds, Enqueue, disk, fixed
<1>3. CASE Stop \/ Exit \/ Start \/ (\E d \in Dests : ForeignWrite(d)) \/ UNCHANGED vars
  BY <1>3 DEF Stop, Exit, Start, ForeignWrite, disk, fixed, vars
<1> QED BY <1>1, <1>2, <1>3, Rushes DEF Next

\* Where a task is one that writes, or is about to, nobody else's is.
LEMMA OneWriter ==
    ASSUME Held, Turns, NEW g \in Groups, NEW h \in Groups, g # h, job[g].pc \in Writers, Dest(h) = Dest(g),
           Dest(g) \notin rushed
    PROVE  job[h].pc \notin Writers \cup {"check", "open"}
<1>1. TurnOK(job[g], g, writing, part, lib) /\ TurnOK(job[h], h, writing, part, lib)
  BY DEF Turns
<1>2. writing[Dest(g)] = g
  BY <1>1 DEF TurnOK, Dest
<1> QED BY <1>1, <1>2 DEF TurnOK, Dest

\* What a task puts in the library.
LEMMA Shelved ==
    ASSUME Held, Turns, NEW g \in Groups, job[g].pc = "finish", Verified(g), part[Dest(g)] # NoFile,
           Dest(g) \notin rushed
    PROVE  Len(part[Dest(g)]) = Size /\ (Dest(g) \in Hashed => part[Dest(g)] = Whole)
<1>1. TurnOK(job[g], g, writing, part, lib) /\ JobOK(job[g], g, part)
  BY DEF Turns, Held
<1>2. part[Dest(g)] = job[g].bytes /\ job[g].bytes \in Blocks
  BY <1>1 DEF TurnOK, JobOK, Transfers, Dest
<1> DEFINE b == job[g].bytes
<1>3. b \in Seq({"g", "x"}) /\ job[g].n = Size /\ Len(b) = job[g].n /\ (Dest(g) \in Hashed => SubSeq(b, 1, job[g].n) = Whole)
  BY <1>2 DEF Verified, Blocks
<1> HIDE DEF b
<1>4. SubSeq(b, 1, Len(b)) = b
  BY <1>3
<1> QED BY <1>2, <1>3, <1>4 DEF b

LEMMA LibByTask ==
    ASSUME Held, Turns, NEW g \in Groups, Task(g)
    PROVE  \A d \in Dests : \/ lib'[d] = lib[d] \/ lib'[d] = NoFile
                            \/ d = Dest(g) /\ d \in rushed
                            \/ /\ d = Dest(g) /\ job[g].pc = "finish"
                               /\ lib'[d] # NoFile /\ Len(lib'[d]) = Size /\ (d \in Hashed => lib'[d] = Whole)
<1>1. \A d \in Dests : \/ lib'[d] = lib[d] \/ lib'[d] = NoFile
                       \/ /\ lib'[d] = part[d] /\ part[d] # NoFile
                          /\ d = Dest(g) /\ job[g].pc = "finish" /\ Verified(g)
  BY TaskTook DEF Took, Effect
<1> QED BY <1>1, Shelved

\* Another task's step leaves a task its turn.
LEMMA TurnOther ==
    ASSUME Held, Turns, NEW g \in Groups, Task(g), NEW h \in Groups \ {g}, Head(job'[h].todo) \notin rushed'
    PROVE  TurnOK(job'[h], h, writing', part', lib')
<1> DEFINE d == Dest(h)
<1>2. /\ Alike(job[h], job'[h]) /\ (job[h].linked /\ ~job'[h].linked => part'[d] = NoFile)
      /\ job'[g].linked => Head(job'[g].todo) = Dest(g) /\ (job[g].linked \/ (job[g].pc = "open" /\ ~Locked(Dest(g))))
      /\ cpu \in {Nobody, g}
      /\ \A e \in Dests : \/ part'[e] = part[e] \/ part'[e] = NoFile
                          \/ job'[g].linked /\ Head(job'[g].todo) = e
      /\ \A e \in Dests : \/ writing'[e] = writing[e]
                          \/ writing'[e] = Nobody /\ e = Dest(g) /\ (writing[e] = g \/ job[g].pc = "open")
                          \/ writing'[e] = g /\ job[g].pc = "open" /\ e = Dest(g)
  BY TaskTook DEF Took, Effect
<1>3. job'[h].pc = job[h].pc /\ job'[h].todo = job[h].todo /\ job'[h].bytes = job[h].bytes /\ (job'[h].linked => job[h].linked)
  BY <1>2 DEF Alike
<1>0. d \notin rushed
  BY <1>3, Rushes DEF Dest
<1>1. TurnOK(job[h], h, writing, part, lib) /\ JobOK(job[h], h, part)
  BY <1>0 DEF Turns, Held
<1>4. job[h].pc \notin Running
  <2>1. cpu # h
    BY <1>2
  <2> QED BY <2>1 DEF Held
<1>5. job[h].pc \in AtFile => d \in Dests /\ <<h, d>> \in Files
  BY AtFileFacts
<1>6. CASE job[h].pc \notin Writers
  BY <1>3, <1>4, <1>6 DEF TurnOK, Running, Writers
<1>7. CASE job[h].pc \in Writers
  <2>1. d \in Dests /\ writing[d] = h /\ d = Head(job[h].todo) /\ job[h].pc # "published"
    BY <1>1, <1>4, <1>5, <1>7 DEF AtFile, TurnOK, Dest, Running
  <2>2. Dest(g) = d => job[g].pc \notin Writers \cup {"check", "open"}
    BY <1>0, <1>7, OneWriter
  <2>3. writing'[d] = h
    BY <1>2, <2>1, <2>2, NotGroups
  <2>4. ~job'[h].linked => part'[d] = NoFile
    <3> SUFFICES ASSUME ~job'[h].linked, ~job[h].linked PROVE part'[d] = NoFile
      BY <1>2
    <3>1. part[d] = NoFile
      BY <1>1, <1>7, <2>1 DEF TurnOK, Writers
    <3>2. ~(job'[g].linked /\ Head(job'[g].todo) = d)
      <4>1. job[g].linked => job[g].pc \in Writers
        BY DEF Held, JobOK, Writers
      <4> QED BY <1>2, <2>2, <4>1
    <3> QED BY <1>2, <2>1, <3>1, <3>2
  <2> QED BY <1>3, <1>7, <2>1, <2>3, <2>4 DEF TurnOK, Writers, Transfers
<1> QED BY <1>6, <1>7

\* A task that is at no file, or has just come to one, has no turn to keep.
LEMMA TurnNone ==
    ASSUME NEW r, NEW g, NEW w, NEW p, NEW l, r.pc \in {"none", "fresh", "dead", "slot", "next", "begin", "sibling"}
    PROVE  TurnOK(r, g, w, p, l)
BY DEF TurnOK, Writers, Transfers

\* Its own step.
LEMMA TurnOwn ==
    ASSUME Held, Turns, NEW g \in Groups, Task(g), Head(job'[g].todo) \notin rushed'
    PROVE  TurnOK(job'[g], g, writing', part', lib')
<1> DEFINE d == Dest(g)
<1>0. Head(job'[g].todo) = d => d \notin rushed /\ TurnOK(job[g], g, writing, part, lib)
  BY Rushes DEF Turns
<1>1. JobOK(job[g], g, part) /\ job[g] \in Jobs
  BY DEF Held
<1>2. writing[d] = g => job[g].pc \in Writers \/ d \notin Dests
  BY NotGroups DEF Turns
<1>3. job[g].pc \in AtFile => d \in Dests /\ <<g, d>> \in Files
  BY AtFileFacts
<1>4. ASSUME Ends(g) \/ Done(g) PROVE TurnOK(job'[g], g, writing', part', lib')
  <2>1. job'[g].pc \in {"none", "next"}
    BY <1>4, NoJobIs, NextOfFacts DEF Ends, Done
  <2> QED BY <2>1, TurnNone
<1>5. CASE FirstStep(g) \/ SlotGranted(g)
  <2>1. \/ job'[g] = [job[g] EXCEPT !.pc = "next", !.todo = listed[g]]
        \/ job'[g] = [job[g] EXCEPT !.pc = "slot"]
    BY <1>5, TookFirstStep
  <2>2. job'[g].pc \in {"next", "slot"}
    BY <1>1, <2>1 DEF Jobs
  <2> QED BY <2>2, TurnNone
<1>6. CASE NextFile(g)
  <2>1. /\ job[g].pc = "next"
        /\ \/ job'[g] = NoJob
           \/ job'[g] = [job[g] EXCEPT !.todo = Tail(@)]
           \/ job'[g] = [NoJob EXCEPT !.pc = "begin", !.todo = job[g].todo]
    BY <1>6, TookNextFile
  <2>2. job'[g].pc \in {"none", "next", "begin"}
    <3>1. CASE job'[g] = NoJob
      BY <3>1, NoJobIs
    <3>2. CASE job'[g] = [job[g] EXCEPT !.todo = Tail(@)]
      BY <1>1, <2>1, <3>2 DEF Jobs
    <3>3. CASE job'[g] = [NoJob EXCEPT !.pc = "begin", !.todo = job[g].todo]
      BY <3>3, NoJobIs DEF Jobs
    <3> QED BY <2>1, <3>1, <3>2, <3>3
  <2> QED BY <2>2, TurnNone
<1>7. CASE Begin(g) \/ SiblingDone(g)
  <2>1. /\ UNCHANGED <<lib, part, status, rows, writing, listed>>
        /\ job[g].pc \in {"begin", "sibling"} /\ job'[g].pc \in {"begin", "sibling", "check"}
        /\ job'[g].todo = job[g].todo
        /\ job'[g].pc = "check" => job[g].pc = "begin" /\ writing[Dest(g)] \in {Nobody, g}
    BY <1>7, TookBegin
  <2>2. CASE job'[g].pc = "check"
    <3>1. writing'[Head(job'[g].todo)] = Nobody
      BY <1>2, <1>3, <2>1, <2>2 DEF Dest, AtFile, Writers, Transfers
    <3> QED BY <2>2, <3>1 DEF TurnOK, Writers, Transfers
  <2>3. CASE job'[g].pc \in {"begin", "sibling"}
    BY <2>3, TurnNone
  <2> QED BY <2>1, <2>2, <2>3
<1>8. CASE Check(g)
  <2>1. job[g].pc = "check"
    BY <1>8, TookCheck
  <2>2. CASE Goes(g) /\ UNCHANGED <<part, status, rows, writing>> /\ job'[g].pc = "open"
    BY <1>0, <2>1, <2>2 DEF Goes, TurnOK, Dest, Writers, Transfers
  <2>3. CASE job'[g].pc = "adopt"
    BY <2>3 DEF TurnOK, Writers, Transfers
  <2> QED BY <1>4, <1>8, <2>2, <2>3, TookCheck
<1>9. CASE AdoptDone(g)
  <2>1. CASE /\ Goes(g) /\ UNCHANGED <<part, status, rows, writing>> /\ job'[g].pc = "open"
    <3>1. Head(job'[g].todo) = d
      BY <2>1 DEF Goes, Dest
    <3>2. writing[d] = Nobody
      BY <1>9, <2>1, <3>1, Rushes
    <3> QED BY <2>1, <3>1, <3>2 DEF TurnOK, Writers, Transfers
  <2> QED BY <1>4, <1>9, <2>1, TookAdoptDone
<1>10. CASE Open(g)
  <2>1. CASE Goes(g) /\ job'[g].pc = "attempt" /\ job'[g].linked /\ writing'[d] = g
    BY <2>1 DEF Goes, TurnOK, Dest, Writers, Transfers
  <2> QED BY <1>4, <1>10, <2>1, TookOpen
<1>11. CASE \/ Attempt(g) \/ RehashDone(g) \/ Unsatisfiable(g) \/ Refused(g) \/ SizeMismatch(g) \/ Answered(g)
            \/ Chunk(g) \/ StreamBroken(g) \/ StreamEnds(g) \/ Synced(g) \/ SleepOver(g)
  <2>1. CASE Goes(g) /\ Carries(g)
    <3>1. /\ job[g].pc \in Transfers /\ job'[g].pc \in Transfers /\ writing' = writing
          /\ job'[g].linked = job[g].linked /\ (~job[g].linked => part' = part) /\ job'[g].todo = job[g].todo
      BY <2>1 DEF Goes, Carries
    <3> QED BY <1>0, <3>1 DEF TurnOK, Writers, Transfers, Dest
  <2> QED BY <1>4, <1>11, <2>1, TookTransfer
<1>12. CASE Finish(g)
  <2>1. CASE /\ Goes(g) /\ UNCHANGED <<status, rows, writing>>
             /\ job'[g].pc = "published"
             /\ Verified(g) /\ part[d] # NoFile
             /\ lib' = [lib EXCEPT ![d] = part[d]]
    <3>1. job[g].pc = "finish" /\ d \in Dests /\ lib \in [Dests -> Contents]
      BY <1>3, <1>12, TookFinish DEF AtFile, Writers, Transfers, Held
    <3>3. writing'[d] = g /\ Head(job'[g].todo) = d
      BY <1>0, <2>1, <3>1 DEF Goes, TurnOK, Dest, Writers, Transfers
    <3>2. lib'[d] # NoFile /\ Len(lib'[d]) = Size
      BY <1>0, <2>1, <3>1, <3>3, Shelved
    <3> QED BY <2>1, <3>2, <3>3 DEF TurnOK, Writers, Transfers
  <2> QED BY <1>4, <1>12, <2>1, TookFinish
<1>13. CASE Published(g)
  BY <1>4, <1>13, TookPublished
<1>14. CASE Cancelled(g)
  <2>1. job'[g].pc \in {"none", "dead"}
    BY <1>14, TookCancelled, NoJobIs
  <2> QED BY <2>1, TurnNone
<1> QED BY <1>5, <1>6, <1>7, <1>8, <1>9, <1>10, <1>11, <1>12, <1>13, <1>14 DEF Task

LEMMA TurnsByTask ==
    ASSUME Held, Turns, NEW g \in Groups, Task(g)
    PROVE  Turns'
<1>1. \A h \in Groups : Head(job'[h].todo) \in rushed' \/ TurnOK(job'[h], h, writing', part', lib')
  BY TurnOther, TurnOwn
<1>2. ASSUME NEW d \in Dests, writing'[d] # Nobody
      PROVE  job'[writing'[d]].pc \in Writers /\ Head(job'[writing'[d]].todo) = d
  <2>1. /\ writing' \in [Dests -> Groups \cup {Nobody}]
        /\ \A h \in Groups \ {g} : Alike(job[h], job'[h])
        /\ writing'[d] = writing[d] \/ writing'[d] \in {Nobody, g}
        /\ writing'[d] = g =>
               \/ job'[g].pc \in Writers /\ Head(job'[g].todo) = d
               \/ writing[d] = g /\ ~(job[g].pc \in Writers /\ Dest(g) = d)
    BY TaskTook DEF Took, Effect
  <2>2. writing[d] # Nobody => job[writing[d]].pc \in Writers /\ Dest(writing[d]) = d
    BY DEF Turns
  <2>3. CASE writing'[d] = g
    BY <2>1, <2>2, <2>3, NotGroups
  <2>4. CASE writing'[d] # g
    <3>1. writing'[d] = writing[d] /\ writing[d] \in Groups \ {g}
      BY <1>2, <2>1, <2>4
    <3> QED BY <1>2, <2>1, <2>2, <3>1 DEF Alike, Dest
  <2> QED BY <2>3, <2>4
<1> QED BY <1>1, <1>2 DEF Turns, Dest

\* Jobs that stay or are launched, claims and files that stay.
LEMMA TurnsStay ==
    ASSUME Held, Turns, UNCHANGED <<lib, part, writing>>, rushed \subseteq rushed',
           \A h \in Groups : Still(job[h], job'[h]) \/ (job'[h].pc = "fresh" /\ job[h].pc = "none")
    PROVE  Turns'
<1>1. ASSUME NEW h \in Groups PROVE Head(job'[h].todo) \in rushed' \/ TurnOK(job'[h], h, writing', part', lib')
  <2>1. Dest(h) \in rushed \/ TurnOK(job[h], h, writing, part, lib)
    BY DEF Turns
  <2>2. CASE Still(job[h], job'[h])
    BY <2>1, <2>2 DEF Still, TurnOK, Dest
  <2>3. CASE job'[h].pc = "fresh"
    BY <2>3, TurnNone
  <2> QED BY <2>2, <2>3
<1>2. ASSUME NEW d \in Dests, writing'[d] # Nobody
      PROVE  job'[writing'[d]].pc \in Writers /\ Head(job'[writing'[d]].todo) = d
  <2>1. writing[d] # Nobody /\ writing[d] \in Groups /\ job[writing[d]].pc \in Writers /\ Head(job[writing[d]].todo) = d
    BY <1>2 DEF Turns, Held, Dest
  <2>2. Still(job[writing[d]], job'[writing[d]])
    BY <2>1 DEF Writers, Transfers
  <2> QED BY <2>1, <2>2 DEF Still
<1> QED BY <1>1, <1>2 DEF Turns, Dest

\* The same with files that another hand takes away or adds to.
LEMMA TurnsFiles ==
    ASSUME Held, Turns, writing' = writing, rushed \subseteq rushed',
           \A h \in Groups : job'[h].pc = job[h].pc /\ job'[h].todo = job[h].todo,
           \A h \in Groups : job'[h].linked => job[h].linked,
           \A h \in Groups : job[h].pc \in Transfers /\ ~job[h].linked /\ Dest(h) \notin rushed =>
               part'[Dest(h)] = part[Dest(h)] \/ part'[Dest(h)] = NoFile,
           \A h \in Groups : job[h].linked /\ ~job'[h].linked => part'[Dest(h)] = NoFile,
           \A d \in Dests : lib'[d] = lib[d] \/ lib'[d] = NoFile,
           \A h \in Groups : job[h].pc = "published" => lib' = lib
    PROVE  Turns'
<1>1. ASSUME NEW h \in Groups, Head(job'[h].todo) \notin rushed' PROVE TurnOK(job'[h], h, writing', part', lib')
  <2> DEFINE d == Dest(h)
  <2>1. TurnOK(job[h], h, writing, part, lib) /\ Head(job'[h].todo) = d /\ Head(job[h].todo) = d /\ job'[h].pc = job[h].pc
    BY <1>1 DEF Turns, Dest
  <2>2. CASE job[h].pc \notin AtFile
    BY <2>1, <2>2 DEF TurnOK, AtFile, Writers, Transfers
  <2>3. CASE job[h].pc \in AtFile
    <3>1. d \in Dests
      BY <2>3, AtFileFacts
    <3>2. job[h].pc \in Transfers /\ ~job'[h].linked => part'[d] = NoFile
      BY <1>1, <2>1 DEF TurnOK
    <3>4. job[h].pc = "published" => lib'[d] # NoFile /\ Len(lib'[d]) = Size
      BY <2>1, <3>1 DEF TurnOK
    <3>5. /\ job[h].pc \in Writers => writing'[d] = h
          /\ job[h].pc \in {"check", "open"} => writing'[d] = Nobody
      BY <2>1 DEF TurnOK
    <3> HIDE DEF d
    <3> QED BY <2>1, <3>2, <3>4, <3>5 DEF TurnOK
  <2> QED BY <2>2, <2>3
<1>2. ASSUME NEW d \in Dests, writing'[d] # Nobody
      PROVE  job'[writing'[d]].pc \in Writers /\ Head(job'[writing'[d]].todo) = d
  <2>1. writing[d] # Nobody /\ writing[d] \in Groups /\ job[writing[d]].pc \in Writers /\ Head(job[writing[d]].todo) = d
    BY <1>2 DEF Turns, Held, Dest
  <2> QED BY <2>1
<1> QED BY <1>1, <1>2 DEF Turns, Dest

LEMMA TurnsByInterrupt ==
    ASSUME Held, Turns, rushed \subseteq rushed', NEW g \in Groups, Interrupt(g)
    PROVE  Turns'
<1>1. UNCHANGED <<lib, writing, cpu>>
  BY DEF Interrupt
<1>2. PICK why \in {"pause", "cancel", "cancel-keep"} :
          IF Has(g)
          THEN job' = [job EXCEPT ![g].cancelled = TRUE] /\ UNCHANGED <<part, status, rows>>
          ELSE Finalized(g, why, job)
  BY DEF Interrupt
<1>3. CASE Has(g)
  <2>1. job' = [h \in Groups |-> IF h \in {g} THEN [job[h] EXCEPT !.cancelled = TRUE] ELSE job[h]] /\ part' = part
    BY <1>2, <1>3 DEF Held
  <2>2. \A h \in Groups : Still(job[h], job'[h])
    BY <1>1, <2>1, CancelHolds
  <2> QED BY <1>1, <2>1, <2>2, TurnsStay
<1>4. CASE ~Has(g)
  <2>1. job \in [Groups -> Jobs] /\ Finalized(g, why, job)
    BY <1>2, <1>4 DEF Held
  <2>2. \E gone \in SUBSET Dests : /\ part' = [d \in Dests |-> IF d \in gone THEN NoFile ELSE part[d]]
                                   /\ job' = Unlinked(job, gone)
    BY <2>1, FinalGone
  <2>3. PICK gone \in SUBSET Dests : /\ part' = [d \in Dests |-> IF d \in gone THEN NoFile ELSE part[d]]
                                     /\ job' = Unlinked(job, gone)
    BY <2>2
  <2>4. \A h \in Groups : Alike(job[h], job'[h]) /\ (job'[h].linked <=> job[h].linked /\ Dest(h) \notin gone)
    BY <2>1, <2>3, UnlinkedFacts DEF Dest
  <2>5. ASSUME NEW h \in Groups
        PROVE  /\ job'[h].pc = job[h].pc /\ job'[h].todo = job[h].todo /\ job'[h].bytes = job[h].bytes
               /\ job'[h].linked => job[h].linked
               /\ job[h].pc \in Transfers /\ ~job[h].linked => part'[Dest(h)] = part[Dest(h)] \/ part'[Dest(h)] = NoFile
               /\ job[h].linked /\ ~job'[h].linked => part'[Dest(h)] = NoFile
    <3>1. job[h].linked => job[h].pc \in Transfers
      BY DEF Held, JobOK
    <3>2. job[h].pc \in Transfers => Dest(h) \in Dests
      BY AtFileFacts DEF AtFile, Writers
    <3>3. \A d \in Dests : part'[d] = IF d \in gone THEN NoFile ELSE part[d]
      BY <2>3
    <3> QED BY <2>4, <3>1, <3>2, <3>3 DEF Alike
  <2>6. lib' = lib /\ writing' = writing
    BY <1>1
  <2> QED BY <2>5, <2>6, TurnsFiles
<1> QED BY <1>3, <1>4

LEMMA TurnsByForeign ==
    ASSUME Held, Turns, rushed \subseteq rushed', NEW d \in Dests, ForeignWrite(d)
    PROVE  Turns'
<1>1. /\ UNCHANGED <<lib, writing>> /\ part' = [part EXCEPT ![d] = Append(part[d], "x")] /\ part[d] # NoFile
      /\ \A h \in Groups : /\ job'[h].pc = job[h].pc /\ job'[h].todo = job[h].todo /\ job'[h].linked = job[h].linked
                           /\ ~job[h].linked => job'[h] = job[h]
  BY ForeignHeld
<1>2. ASSUME NEW h \in Groups
      PROVE  job[h].pc \in Transfers /\ ~job[h].linked /\ Dest(h) \notin rushed => part'[Dest(h)] = part[Dest(h)]
  <2>1. Dest(h) \in rushed \/ TurnOK(job[h], h, writing, part, lib)
    BY DEF Turns
  <2>2. job[h].pc \in Transfers /\ ~job[h].linked /\ Dest(h) \notin rushed => Dest(h) # d
    BY <1>1, <2>1 DEF TurnOK, Dest
  <2> QED BY <1>1, <2>2
<1> QED BY <1>1, <1>2, TurnsFiles

LEMMA TurnsByFile ==
    ASSUME Held, Turns, rushed \subseteq rushed', NEW c \in Callers, EnqueueFile(c)
    PROVE  Turns'
<1>1. /\ UNCHANGED <<part, writing>> /\ cpu = c /\ call[c].pc = "next"
      /\ lib' = lib \/ lib' = [lib EXCEPT ![Head(call[c].todo)] = NoFile]
      /\ Passes(c) \/ Drops(c) \/ Looks(c) \/ Registers(c, "queued") \/ Registers(c, "completed")
  BY EnqueueFileHeld
<1>2. \A d \in Dests : lib'[d] = lib[d] \/ lib'[d] = NoFile
  BY <1>1 DEF Held
<1>3. \A h \in Groups : Still(job[h], job'[h])
  <2>1. ASSUME NEW s \in Statuses, Registers(c, s) PROVE \A h \in Groups : Still(job[h], job'[h])
    BY <1>1, <2>1, RegisterHolds DEF Registers
  <2>2. CASE job' = job
    BY <2>2 DEF Held, Still
  <2> QED BY <1>1, <2>1, <2>2 DEF Passes, Drops, Looks, Statuses
<1>4. \A h \in Groups : job[h].pc # "published"
  <2>1. \A h \in Groups : cpu # h
    BY <1>1
  <2> QED BY <2>1 DEF Held, Running
<1>5. /\ \A h \in Groups : /\ job'[h].pc = job[h].pc /\ job'[h].todo = job[h].todo
                           /\ job'[h].linked = job[h].linked /\ job'[h].bytes = job[h].bytes
  BY <1>3 DEF Still
<1> QED BY <1>1, <1>2, <1>4, <1>5, TurnsFiles

LEMMA TurnsByRest ==
    ASSUME Held, Turns, Down, rushed \subseteq rushed',
           \/ \E g \in Groups : Resume(g)
           \/ \E c \in Callers : EnqueueHashed(c) \/ EnqueueEnds(c) \/ \E g \in Groups : Enqueue(c, g)
           \/ Stop \/ Exit \/ Start
    PROVE  Turns'
<1>1. job \in [Groups -> Jobs]
  BY DEF Held
<1>2. ASSUME NEW g \in Groups, Resume(g) PROVE Turns'
  <2>1. Launched(g) /\ UNCHANGED <<lib, part, writing, cpu>>
    BY <1>2 DEF Resume, disk
  <2>2. \A h \in Groups : \/ job'[h] = job[h]
                          \/ job'[h].pc = "fresh" /\ job[h].pc = "none"
    BY <2>1, LaunchedHolds
  <2> QED BY <1>1, <2>1, <2>2, TurnsStay DEF Still
<1>3. ASSUME NEW c \in Callers, EnqueueHashed(c) PROVE Turns'
  <2>1. /\ UNCHANGED <<lib, part, writing>>
        /\ Drops(c) \/ Registers(c, "queued") \/ Registers(c, "completed")
    BY <1>3, EnqueueHashedHeld
  <2>2. ASSUME NEW s \in Statuses, Registers(c, s) PROVE \A h \in Groups : Still(job[h], job'[h])
    BY <2>1, <2>2, RegisterHolds DEF Registers
  <2>3. CASE job' = job
    BY <1>1, <2>1, <2>3, TurnsStay DEF Still
  <2> QED BY <2>1, <2>2, <2>3, TurnsStay DEF Drops, Statuses
<1>4. ASSUME NEW c \in Callers, EnqueueEnds(c) PROVE Turns'
  <2>1. /\ UNCHANGED <<lib, part, writing>>
        /\ \A h \in Groups : job'[h] = job[h] \/ (job'[h].pc = "fresh" /\ job[h].pc = "none")
    BY <1>4, EnqueueEndsHeld
  <2> QED BY <1>1, <2>1, TurnsStay DEF Still
<1>5. ASSUME NEW c \in Callers, NEW g \in Groups, Enqueue(c, g) PROVE Turns'
  <2>1. UNCHANGED <<lib, part, writing, job>>
    BY <1>5, EnqueueHeld
  <2> QED BY <1>1, <2>1, TurnsStay DEF Still
<1>6. CASE Stop
  BY <1>6, StopHeld, TurnsStay
<1>7. CASE Exit
  <2>1. /\ UNCHANGED <<lib, part, rows>> /\ job' = [g \in Groups |-> NoJob] /\ writing' = [d \in Dests |-> Nobody]
    BY <1>7, ExitHeld
  <2>2. \A h \in Groups : TurnOK(job'[h], h, writing', part', lib')
    BY <2>1, NoJobIs, TurnNone
  <2> QED BY <2>1, <2>2 DEF Turns
<1>8. CASE Start
  <2>1. /\ UNCHANGED <<lib, part, writing>> /\ mode = "down"
        /\ \A h \in Groups : job'[h].pc \in {"none", "fresh"}
    BY <1>8, StartHeld DEF Start
  <2>2. \A h \in Groups : TurnOK(job'[h], h, writing', part', lib')
    BY <2>1, TurnNone
  <2>3. \A d \in Dests : writing[d] = Nobody
    <3> SUFFICES ASSUME NEW d \in Dests, writing[d] # Nobody PROVE FALSE
      OBVIOUS
    <3>1. writing[d] \in Groups /\ job[writing[d]].pc \in Writers
      BY DEF Held, Turns
    <3>2. job[writing[d]].pc = "none"
      BY <2>1, <3>1 DEF Down
    <3> QED BY <3>1, <3>2 DEF Writers, Transfers
  <2> QED BY <2>1, <2>2, <2>3 DEF Turns
<1> QED BY <1>2, <1>3, <1>4, <1>5, <1>6, <1>7, <1>8

LEMMA InitTurns == Init => Turns /\ Down
<1> SUFFICES ASSUME Init PROVE Turns /\ Down
  OBVIOUS
<1>1. \A h \in Groups : TurnOK(job[h], h, writing, part, lib)
  BY NoJobIs, TurnNone DEF Init
<1>2. \A d \in Dests : writing[d] = Nobody
  BY DEF Init
<1> QED BY <1>1, <1>2 DEF Turns, Down, Init

LEMMA TurnsNext ==
    ASSUME Held, Turns, Down, [Next]_vars
    PROVE  Turns'
<1>1. CASE UNCHANGED vars
  <2>1. UNCHANGED <<lib, part, writing, job>>
    BY <1>1 DEF vars
  <2> QED BY <2>1, RushedGrows, TurnsStay DEF Still, Held
<1>2. CASE Next
  BY <1>2, RushedGrows, TurnsByTask, TurnsByInterrupt, TurnsByForeign, TurnsByFile, TurnsByRest DEF Next
<1> QED BY <1>1, <1>2

LEMMA TurnsSay == Held /\ Turns => SiblingsTakeTurns
<1> SUFFICES ASSUME Held, Turns, NEW g \in Groups, job[g].pc = "open", NEW h \in Groups, job[h].linked, Dest(h) = Dest(g),
                    Dest(g) \notin rushed
             PROVE  FALSE
  BY DEF SiblingsTakeTurns, Locked
<1>1. job[h].pc \in Writers
  BY DEF Held, JobOK, Writers
<1>2. g # h
  BY <1>1 DEF Writers, Transfers
<1> QED BY <1>1, <1>2, OneWriter

\* Groups that share a file take turns, whatever is found at the start: none comes to
\* claim a destination its sibling has locked, unless one of them came out of the hash of
\* a whole-size file that was wrong, after its one look at _writing, and found it claimed
\* or replaced.
THEOREM TurnsHold == Spec => []SiblingsTakeTurns
<1>1. Init => Held /\ Turns /\ Down
  BY InitHeld, InitTurns
<1>2. Held /\ Turns /\ Down /\ [Next]_vars => Held' /\ Turns' /\ Down'
  BY HeldNext, TurnsNext, DownNext
<1>3. Held /\ Turns => SiblingsTakeTurns
  BY TurnsSay
<1> QED BY <1>1, <1>2, <1>3, PTL DEF Spec

-----------------------------------------------------------------------------
\* The library its readers see.

Shows(l, U) == [d \in Hashed |-> IF l[d] = NoFile \/ d \in U THEN "empty"
                                 ELSE IF l[d] = Whole THEN "whole" ELSE "other"]

LibraryStep == [Library!Next]_(Library!vars)
Only(d) ==
    \A e \in Dests :
        \/ lib'[e] = lib[e] /\ (e \in rushed' <=> e \in rushed)
        \/ e = d /\ (lib'[e] = NoFile \/ e \in rushed' \/ (e \in Hashed => lib'[e] = Whole))

\* One destination is filled with the published bytes or cleared, or the library stays.
LEMMA OneShelf ==
    ASSUME NEW d, Only(d)
    PROVE  LibraryStep
<1>0. \A e \in Dests :
          \/ lib'[e] = lib[e] /\ (e \in rushed' <=> e \in rushed)
          \/ e = d /\ (lib'[e] = NoFile \/ e \in rushed' \/ (e \in Hashed => lib'[e] = Whole))
  BY DEF Only
<1> DEFINE s == Shows(lib, rushed)
           t == Shows(lib', rushed')
<1>1. \A e \in Hashed : e # d => t[e] = s[e]
  BY <1>0 DEF Shows
<1>2. d \in Hashed => t[d] \in {s[d], "empty", "whole"}
  BY <1>0, WholeFacts DEF Shows, Blocks
<1>3. s = [e \in Hashed |-> s[e]] /\ t = [e \in Hashed |-> t[e]]
  BY DEF Shows
<1> HIDE DEF s, t
<1>4. t = s \/ (d \in Hashed /\ (t = [s EXCEPT ![d] = "empty"] \/ t = [s EXCEPT ![d] = "whole"]))
  <2>1. CASE d \notin Hashed \/ t[d] = s[d]
    BY <1>1, <1>3, <2>1
  <2>2. CASE d \in Hashed /\ t[d] = "empty"
    BY <1>1, <1>3, <2>2
  <2>3. CASE d \in Hashed /\ t[d] = "whole"
    BY <1>1, <1>3, <2>3
  <2> QED BY <1>2, <2>1, <2>2, <2>3
<1> QED BY <1>4 DEF s, t, LibraryStep, Shows, Library!Next, Library!Shelve, Library!Clear, Library!vars

LEMMA LibraryNext ==
    ASSUME Held, Turns, [Next]_vars
    PROVE  LibraryStep
<1>1. ASSUME lib' = lib, rushed' = rushed PROVE LibraryStep
  <2>1. Only(0)
    BY <1>1 DEF Only
  <2> QED BY <2>1, OneShelf
<1>2. ASSUME NEW g \in Groups, Task(g) PROVE LibraryStep
  <2>1. \A e \in Dests : \/ lib'[e] = lib[e] \/ lib'[e] = NoFile \/ e \in rushed'
                         \/ e \in Hashed => lib'[e] = Whole
    BY <1>2, LibByTask, Rushes
  <2>2. \A e \in Dests : e # Dest(g) => lib'[e] = lib[e]
    <3>1. CASE Check(g) \/ AdoptDone(g) \/ Finish(g)
      <4>1. lib' = lib \/ \E x : lib' = [lib EXCEPT ![Dest(g)] = x]
        BY <3>1, TookCheck, TookAdoptDone, TookFinish DEF Done
      <4> QED BY <4>1 DEF Held
    <3>2. CASE ~(Check(g) \/ AdoptDone(g) \/ Finish(g))
      <4>1. lib' = lib
        BY <1>2, <3>2, TookFirstStep, TookNextFile, TookBegin, TookOpen, TookTransfer, TookPublished, TookCancelled DEF Task, Done
      <4> QED BY <4>1
    <3> QED BY <3>1, <3>2
  <2>3. \A e \in Dests :
            \/ lib'[e] = lib[e] /\ (e \in rushed' <=> e \in rushed)
            \/ e = Dest(g) /\ (lib'[e] = NoFile \/ e \in rushed' \/ (e \in Hashed => lib'[e] = Whole))
    BY <1>2, <2>1, <2>2, Rushes
  <2>4. ASSUME NEW k, k = Dest(g) PROVE LibraryStep
    <3>1. Only(k)
      BY <2>3, <2>4 DEF Only
    <3> QED BY <3>1, OneShelf
  <2> QED BY <2>4
<1>3. ASSUME NEW c \in Callers, EnqueueFile(c), rushed' = rushed PROVE LibraryStep
  <2>1. lib' = lib \/ lib' = [lib EXCEPT ![Head(call[c].todo)] = NoFile]
    BY <1>3, EnqueueFileHeld
  <2> DEFINE d == Head(call[c].todo)
  <2>2. \A e \in Dests : lib'[e] = lib[e] \/ (e = d /\ lib'[e] = NoFile)
    BY <2>1 DEF Held
  <2> HIDE DEF d
  <2>3. ASSUME NEW k, k = d PROVE LibraryStep
    <3>1. Only(k)
      BY <1>3, <2>2, <2>3 DEF Only
    <3> QED BY <3>1, OneShelf
  <2> QED BY <2>3
<1>4. ASSUME NEW c \in Callers, EnqueueHashed(c) \/ EnqueueEnds(c) \/ \E g \in Groups : Enqueue(c, g) PROVE lib' = lib
  BY <1>4, EnqueueHashedHeld, EnqueueEndsHeld, EnqueueHeld
<1>5. ASSUME NEW g \in Groups, Resume(g) \/ Interrupt(g) PROVE lib' = lib
  BY <1>5 DEF Resume, Interrupt, disk
<1>6. ASSUME NEW d \in Dests, ForeignWrite(d) PROVE lib' = lib
  BY <1>6 DEF ForeignWrite
<1>7. CASE Stop \/ Exit \/ Start \/ UNCHANGED vars
  <2>1. lib' = lib
    BY <1>7 DEF Stop, Exit, Start, disk, vars
  <2>2. rushed' = rushed
    BY <1>7 DEF Stop, Exit, Start, disk, vars
  <2> QED BY <1>1, <2>1, <2>2
<1>8. Next \/ UNCHANGED vars
  OBVIOUS
<1>12. rushed' = rushed \/ \E g \in Groups : Task(g)
  BY RushedGrows
<1>9. CASE \E g \in Groups : Task(g) \/ Resume(g) \/ Interrupt(g)
  BY <1>1, <1>2, <1>5, <1>9, <1>12
<1>10. CASE \E c \in Callers : EnqueueFile(c) \/ EnqueueHashed(c) \/ EnqueueEnds(c) \/ \E g \in Groups : Enqueue(c, g)
  BY <1>1, <1>2, <1>3, <1>4, <1>10, <1>12
<1>11. CASE \E d \in Dests : ForeignWrite(d)
  BY <1>1, <1>2, <1>6, <1>11, <1>12
<1> QED BY <1>7, <1>8, <1>9, <1>10, <1>11 DEF Next

LEMMA LibraryInit == Init => Library!Init
BY DEF Library!Init, Init

\* The library as its readers see it: a destination with a published checksum is
\* filled with the published bytes in one step or cleared, and never anything else.
THEOREM LibraryImplemented == Spec => ImplementsLibrary
<1>1. Init => Held /\ Turns /\ Down
  BY InitHeld, InitTurns
<1>2. Held /\ Turns /\ Down /\ [Next]_vars => Held' /\ Turns' /\ Down'
  BY HeldNext, TurnsNext, DownNext
<1>3. Held /\ Turns /\ [Next]_vars => [Library!Next]_(Library!vars)
  BY LibraryNext DEF LibraryStep
<1> QED BY <1>1, <1>2, <1>3, LibraryInit, PTL DEF Spec, ImplementsLibrary, Library!Spec

-----------------------------------------------------------------------------
\* Whole bytes.

\* What a task's step, short of its cancellation, does to the files under way.
PartStep(g) ==
    /\ \A e \in Dests \ {Dest(g)} : part'[e] = part[e]
    /\ \/ part' = part
       \/ job[g].pc = "open" /\ part[Dest(g)] = NoFile
       \/ job[g].pc = "attempt" /\ job[g].bytes = <<>>
       \/ job[g].pc = "rehash" /\ (Len(job[g].bytes) # Size \/ job[g].bytes # Whole)
       \/ job[g].pc = "http"
       \/ job[g].pc = "stream" /\ job[g].n < Size
       \/ job[g].pc = "finish" /\ ~Verified(g)
       \/ job[g].pc = "finish" /\ lib' = [lib EXCEPT ![Dest(g)] = part[Dest(g)]]

LEMMA PartSteps ==
    ASSUME Held, NEW g \in Groups, Task(g), ~Cancelled(g)
    PROVE  PartStep(g)
<1>0. part \in [Dests -> Blocks \cup {NoFile}]
  BY DEF Held
<1>1. ASSUME NEW b, WriteTo(g, b) PROVE \A e \in Dests \ {Dest(g)} : part'[e] = part[e]
  BY <1>0, <1>1 DEF WriteTo
<1>2. ASSUME NEW garbage \in BOOLEAN, Fail(g, garbage)
      PROVE  (\A e \in Dests \ {Dest(g)} : part'[e] = part[e]) /\ (~garbage => part' = part)
  BY <1>0, <1>2 DEF Fail
<1>3. ASSUME NEW n, NEW b, NEW ranged, Request(g, n, b, ranged)
      PROVE  \A e \in Dests \ {Dest(g)} : part'[e] = part[e]
  BY <1>1, <1>3 DEF Request
<1>4. CASE FirstStep(g) \/ SlotGranted(g) \/ NextFile(g) \/ Begin(g) \/ SiblingDone(g)
  BY <1>4 DEF FirstStep, SlotGranted, NextFile, Begin, SiblingDone, disk, PartStep
<1>5. CASE Check(g) \/ AdoptDone(g)
  <2>1. part' = part
    BY <1>2, <1>5 DEF Check, AdoptDone, SetAside, Adopt
  <2> QED BY <2>1 DEF PartStep
<1>6. CASE Open(g)
  BY <1>0, <1>6, TookOpen, ZenonT(60) DEF Open, PartStep
<1>7. CASE Attempt(g)
  <2>1. job[g].pc = "attempt" /\ (part' = part \/ (job[g].bytes = <<>> /\ Request(g, 0, <<>>, TRUE)))
    BY <1>7 DEF Attempt
  <2> QED BY <1>3, <2>1 DEF PartStep
<1>8. CASE RehashDone(g)
  <2> DEFINE b == job[g].bytes
  <2>1. /\ job[g].pc = "rehash"
        /\ \/ Len(b) # Size /\ Request(g, Len(b), b, TRUE)
           \/ b # Whole /\ Request(g, 0, <<>>, TRUE)
           \/ part' = part
    BY <1>8 DEF RehashDone, Wakes
  <2> QED BY <1>3, <2>1 DEF PartStep
<1>9. CASE Unsatisfiable(g)
  <2>1. job[g].pc = "http" /\ (Request(g, 0, <<>>, FALSE) \/ Fail(g, FALSE))
    BY <1>9 DEF Unsatisfiable, Wakes
  <2> QED BY <1>2, <1>3, <2>1 DEF PartStep
<1>10. CASE Refused(g) \/ StreamBroken(g)
  <2>1. part' = part
    BY <1>2, <1>10 DEF Refused, StreamBroken, Retry
  <2> QED BY <2>1 DEF PartStep
<1>11. CASE SizeMismatch(g)
  <2>1. job[g].pc = "http" /\ Fail(g, TRUE)
    BY <1>11 DEF SizeMismatch, Wakes
  <2> QED BY <1>2, <2>1 DEF PartStep
<1>12. CASE Answered(g)
  <2>1. job[g].pc = "http" /\ \E b : WriteTo(g, b)
    BY <1>12 DEF Answered, Wakes
  <2> QED BY <1>1, <2>1 DEF PartStep
<1>13. CASE Chunk(g)
  <2>1. job[g].pc = "stream" /\ job[g].n < Size /\ \E b : WriteTo(g, b)
    BY <1>13 DEF Chunk, Wakes
  <2> QED BY <1>1, <2>1 DEF PartStep
<1>14. CASE StreamEnds(g) \/ Synced(g) \/ SleepOver(g) \/ Published(g)
  BY <1>14 DEF StreamEnds, Synced, SleepOver, Published, disk, PartStep
<1>15. CASE Finish(g)
  <2>1. job[g].pc = "finish"
    BY <1>15 DEF Finish
  <2>2. CASE ~Verified(g) /\ Fail(g, TRUE)
    BY <1>2, <2>1, <2>2 DEF PartStep
  <2>3. CASE /\ lib' = [lib EXCEPT ![Dest(g)] = part[Dest(g)]]
             /\ part' = [part EXCEPT ![Dest(g)] = NoFile]
    BY <1>0, <2>1, <2>3 DEF PartStep
  <2>4. CASE Fail(g, FALSE)
    BY <1>2, <2>4 DEF PartStep
  <2> QED BY <1>15, <2>2, <2>3, <2>4 DEF Finish
<1> QED BY <1>4, <1>5, <1>6, <1>7, <1>8, <1>9, <1>10, <1>11, <1>12, <1>13, <1>14, <1>15 DEF Task

\* A task at a file that is whole believes so: no request for it is under way.
LEMMA WholeHere ==
    ASSUME Held, Turns, NEW g \in Groups, job[g].pc \in Transfers, part[Dest(g)] = Whole,
           Dest(g) \notin rushed
    PROVE  /\ job[g].bytes = Whole /\ job[g].pc # "http"
           /\ job[g].pc \in {"stream", "finish"} => job[g].n = Size
           /\ job[g].pc = "finish" => Verified(g)
<1>1. TurnOK(job[g], g, writing, part, lib) /\ JobOK(job[g], g, part) /\ job[g] \in Jobs
  BY DEF Turns, Held
<1>2. job[g].bytes = Whole
  BY <1>1, WholeFacts DEF TurnOK, JobOK, Dest
<1>3. Foreign(job[g]) /\ job[g].n \in Nat
  BY <1>1 DEF JobOK, Jobs
<1>4. Len(Whole) = Size /\ \A i \in 1..Size : Whole[i] # "x"
  BY WholeFacts DEF Whole
<1>5. job[g].pc \in {"http", "stream", "finish"} => job[g].n = Size
  <2> SUFFICES ASSUME job[g].pc \in {"http", "stream", "finish"}, job[g].n # Size PROVE FALSE
    OBVIOUS
  <2>1. job[g].n <= Size /\ \A i \in (job[g].n + 1)..Size : Whole[i] = "x"
    BY <1>2, <1>3, <1>4 DEF Foreign
  <2>2. job[g].n + 1 \in (job[g].n + 1)..Size /\ job[g].n + 1 \in 1..Size
    BY <1>3, <2>1
  <2> QED BY <1>4, <2>1, <2>2
<1>6. job[g].pc # "http"
  BY <1>3, <1>5 DEF Foreign
<1>7. SubSeq(Whole, 1, Size) = Whole
  BY WholeFacts DEF Blocks
<1> QED BY <1>2, <1>4, <1>5, <1>6, <1>7 DEF Verified

LEMMA PartByTask ==
    ASSUME Held, Turns, NEW g \in Groups, Task(g), NEW d \in Hashed, part[d] = Whole, part'[d] # Whole,
           d \notin rushed'
    PROVE  lib'[d] = Whole \/ (<<g, d>> \in Files /\ status'[<<g, d>>] = "canceled")
<1>0. d \in Dests /\ lib \in [Dests -> Contents]
  BY DEF Held
<1>1. CASE Cancelled(g)
  <2>1. PICK jobs \in [Groups -> Jobs] : Finalized(g, intent[g], jobs)
    BY <1>1, TookCancelled
  <2>2. PICK gone \in SUBSET Dests : /\ part' = [e \in Dests |-> IF e \in gone THEN NoFile ELSE part[e]]
                                     /\ \A e \in gone : <<g, e>> \in Files /\ status'[<<g, e>>] = "canceled"
    BY <2>1, FinalFacts
  <2> QED BY <1>0, <2>2
<1>2. CASE ~Cancelled(g)
  <2>1. PartStep(g)
    BY <1>2, PartSteps
  <2>2. d = Dest(g) /\ part' # part
    BY <1>0, <2>1 DEF PartStep
  <2>3. job[g].pc \in Transfers \/ (job[g].pc = "open" /\ part[Dest(g)] = NoFile)
    BY <2>1, <2>2 DEF PartStep, Transfers
  <2>4. job[g].pc \in Transfers
    BY <2>2, <2>3, WholeFacts
  <2>5. /\ job[g].bytes = Whole /\ job[g].pc # "http"
        /\ job[g].pc \in {"stream", "finish"} => job[g].n = Size
        /\ job[g].pc = "finish" => Verified(g)
    BY <2>2, <2>4, Rushes, WholeHere
  <2>6. lib' = [lib EXCEPT ![d] = part[d]]
    BY <2>1, <2>2, <2>4, <2>5, WholeFacts DEF PartStep, Transfers
  <2> QED BY <1>0, <2>6
<1> QED BY <1>1, <1>2

PartialKept ==
    \A d \in Hashed : part[d] = Whole /\ part'[d] # Whole =>
          \/ lib'[d] = Whole
          \/ part'[d] = Append(Whole, "x")
          \/ \E g \in Groups : <<g, d>> \in Files /\ status'[<<g, d>>] = "canceled"
          \/ d \in rushed'

LEMMA PartialKeeps ==
    ASSUME Held, Turns, [Next]_vars
    PROVE  PartialKept
<1>1. CASE part' = part
  BY <1>1 DEF PartialKept
<1>2. ASSUME NEW g \in Groups, Task(g) PROVE PartialKept
  BY <1>2, PartByTask DEF PartialKept
<1>3. ASSUME NEW g \in Groups, Interrupt(g) PROVE PartialKept
  <2>1. part' = part \/ \E why \in {"pause", "cancel", "cancel-keep"} : Finalized(g, why, job)
    BY <1>3 DEF Interrupt
  <2>2. ASSUME NEW why, Finalized(g, why, job) PROVE PartialKept
    <3>1. job \in [Groups -> Jobs]
      BY DEF Held
    <3>2. PICK gone \in SUBSET Dests : /\ part' = [e \in Dests |-> IF e \in gone THEN NoFile ELSE part[e]]
                                       /\ \A e \in gone : <<g, e>> \in Files /\ status'[<<g, e>>] = "canceled"
      BY <2>2, <3>1, FinalFacts
    <3> QED BY <3>2 DEF PartialKept
  <2> QED BY <1>1, <2>1, <2>2
<1>4. ASSUME NEW e \in Dests, ForeignWrite(e) PROVE PartialKept
  <2>1. part' = [part EXCEPT ![e] = Append(part[e], "x")] /\ part \in [Dests -> Blocks \cup {NoFile}]
    BY <1>4, ForeignHeld DEF Held
  <2> QED BY <2>1 DEF PartialKept
<1>5. ASSUME NEW g \in Groups, Resume(g) PROVE part' = part
  BY <1>5 DEF Resume, disk
<1>6. ASSUME NEW c \in Callers, EnqueueFile(c) \/ EnqueueHashed(c) \/ EnqueueEnds(c) \/ \E g \in Groups : Enqueue(c, g)
      PROVE  part' = part
  BY <1>6 DEF EnqueueFile, EnqueueHashed, EnqueueEnds, Enqueue, disk
<1>7. CASE Stop \/ Exit \/ Start \/ UNCHANGED vars
  <2>1. part' = part
    BY <1>7 DEF Stop, Exit, Start, disk, vars
  <2> QED BY <1>1, <2>1
<1> QED BY <1>1, <1>2, <1>3, <1>4, <1>5, <1>6, <1>7 DEF Next

FilesStay ==
    \A d \in Hashed : lib[d] = Whole /\ lib'[d] # Whole =>
          (\E c \in Callers : cpu = c /\ call[c].force) \/ d \in rushed'

LEMMA FilesKeep ==
    ASSUME Held, Turns, [Next]_vars
    PROVE  FilesStay
<1>0. Hashed \subseteq Dests /\ lib \in [Dests -> Contents] /\ Len(Whole) = Size /\ Whole # NoFile
  BY WholeFacts DEF Held, Blocks
<1>1. CASE lib' = lib
  BY <1>1 DEF FilesStay
<1>2. ASSUME NEW g \in Groups, Task(g) PROVE FilesStay
  <2> SUFFICES ASSUME NEW d \in Hashed, lib[d] = Whole, lib'[d] # Whole, d \notin rushed' PROVE FALSE
    BY DEF FilesStay
  <2>1. lib'[d] = NoFile
    BY <1>0, <1>2, LibByTask, Rushes
  <2>2. CASE Check(g)
    <3>1. lib' = lib \/ (lib' = [lib EXCEPT ![Dest(g)] = NoFile] /\ Len(lib[Dest(g)]) # Size)
      BY <2>2, TookCheck DEF Done
    <3> QED BY <1>0, <2>1, <3>1
  <2>3. CASE AdoptDone(g)
    <3>1. CASE lib' = lib
      BY <1>0, <2>1, <3>1
    <3>2. CASE /\ lib' = [lib EXCEPT ![Dest(g)] = NoFile] /\ job'[g].pc = "open"
               /\ \E seen \in {job[g].bytes, lib[Dest(g)]} : seen \notin {NoFile, Whole}
      <4>1. d = Dest(g)
        BY <1>0, <2>1, <3>2
      <4>2. lib[d] \in {NoFile, job[g].bytes}
        BY <1>2, <2>3, <3>2, <4>1, Rushes
      <4> QED BY <1>0, <3>2, <4>1, <4>2
    <3> QED BY <2>3, <3>1, <3>2, TookAdoptDone DEF Done
  <2>4. CASE Finish(g)
    <3>1. CASE lib' = lib
      BY <1>0, <2>1, <3>1
    <3>2. CASE /\ lib' = [lib EXCEPT ![Dest(g)] = part[Dest(g)]] /\ part[Dest(g)] # NoFile
      BY <1>0, <2>1, <3>2
    <3> QED BY <2>4, <3>1, <3>2, TookFinish
  <2>5. CASE ~(Check(g) \/ AdoptDone(g) \/ Finish(g))
    <3>1. lib' = lib
      BY <1>2, <2>5, TookFirstStep, TookNextFile, TookBegin, TookOpen, TookTransfer, TookPublished, TookCancelled DEF Task, Done
    <3> QED BY <1>0, <2>1, <3>1
  <2> QED BY <2>2, <2>3, <2>4, <2>5
<1>3. ASSUME NEW c \in Callers, EnqueueFile(c) PROVE FilesStay
  BY <1>1, <1>3, EnqueueFileHeld DEF FilesStay
<1>4. ASSUME NEW c \in Callers, EnqueueHashed(c) \/ EnqueueEnds(c) \/ \E g \in Groups : Enqueue(c, g) PROVE lib' = lib
  BY <1>4, EnqueueHashedHeld, EnqueueEndsHeld, EnqueueHeld
<1>5. ASSUME NEW g \in Groups, Resume(g) \/ Interrupt(g) PROVE lib' = lib
  BY <1>5 DEF Resume, Interrupt, disk
<1>6. ASSUME NEW d \in Dests, ForeignWrite(d) PROVE lib' = lib
  BY <1>6 DEF ForeignWrite
<1>7. CASE Stop \/ Exit \/ Start \/ UNCHANGED vars
  <2>1. lib' = lib
    BY <1>7 DEF Stop, Exit, Start, disk, vars
  <2> QED BY <1>1, <2>1
<1> QED BY <1>1, <1>2, <1>3, <1>4, <1>5, <1>6, <1>7 DEF Next

RowsAre ==
    \A f \in Files : rows'[f] = "completed" /\ rows[f] # "completed" =>
          \/ lib'[f[2]] # NoFile /\ Len(lib'[f[2]]) = Size
          \/ job[f[1]].pc = "adopt" \/ \E c \in Callers : call[c].pc = "hash" /\ call[c].g = f[1]
          \/ f[2] \in rushed'

\* Of a task's file: what its row comes to say.
LEMMA RowSaid ==
    ASSUME Held, NEW g \in Groups, job[g].pc \in AtFile, NEW s \in Statuses, SetOwn(g, s),
           s = "completed" => \/ lib'[Dest(g)] # NoFile /\ Len(lib'[Dest(g)]) = Size
                              \/ job[g].pc = "adopt" \/ Dest(g) \in rushed'
    PROVE  RowsAre
<1>1. <<g, Dest(g)>> \in Files
  BY AtFileFacts
<1>2. rows'[<<g, Dest(g)>>] = s /\ \A f \in Files : f # <<g, Dest(g)>> => rows'[f] = rows[f]
  BY <1>1, OwnFacts
<1>3. ASSUME NEW f \in Files, rows'[f] = "completed", rows[f] # "completed"
      PROVE  (lib'[f[2]] # NoFile /\ Len(lib'[f[2]]) = Size) \/ job[f[1]].pc = "adopt" \/ f[2] \in rushed'
  <2>1. f = <<g, Dest(g)>>
    BY <1>2, <1>3
  <2>2. rows'[f] = s
    BY <1>2, <2>1
  <2>3. f[1] = g /\ f[2] = Dest(g) /\ s = "completed"
    BY <1>3, <2>1, <2>2
  <2> QED BY <2>3
<1> QED BY <1>3 DEF RowsAre

LEMMA RowsTold ==
    ASSUME Held, Turns, NEW g \in Groups, Task(g)
    PROVE  RowsAre
<1>0. ASSUME rows' = rows PROVE RowsAre
  BY <1>0 DEF RowsAre
<1>1. ASSUME Ends(g) PROVE RowsAre
  <2>1. job[g].pc \in AtFile /\ SetOwn(g, "failed") /\ "failed" \in Statuses
    BY <1>1 DEF Ends, Statuses
  <2> QED BY <2>1, RowSaid
<1>2. ASSUME Goes(g) PROVE RowsAre
  <2>1. job[g].pc \in AtFile /\ (rows' = rows \/ SetOwn(g, "running")) /\ "running" \in Statuses
    BY <1>2 DEF Goes, Statuses
  <2> QED BY <1>0, <2>1, RowSaid
<1>3. ASSUME Done(g), (lib[Dest(g)] # NoFile /\ Len(lib[Dest(g)]) = Size) \/ job[g].pc = "adopt" \/ Dest(g) \in rushed'
      PROVE  RowsAre
  <2>1. job[g].pc \in AtFile /\ SetOwn(g, "completed") /\ lib' = lib /\ "completed" \in Statuses
    BY <1>3 DEF Done, Statuses
  <2>2. (lib'[Dest(g)] # NoFile /\ Len(lib'[Dest(g)]) = Size) \/ job[g].pc = "adopt" \/ Dest(g) \in rushed'
    BY <1>3, <2>1
  <2> QED BY <2>1, <2>2, RowSaid
<1>4. CASE FirstStep(g) \/ SlotGranted(g) \/ NextFile(g) \/ Begin(g) \/ SiblingDone(g)
  BY <1>0, <1>4, TookFirstStep, TookNextFile, TookBegin
<1>5. CASE Check(g) \/ Open(g) \/ Finish(g)
  BY <1>0, <1>1, <1>2, <1>3, <1>5, TookCheck, TookOpen, TookFinish
<1>6. CASE AdoptDone(g)
  BY <1>1, <1>2, <1>3, <1>6, TookAdoptDone
<1>7. CASE \/ Attempt(g) \/ RehashDone(g) \/ Unsatisfiable(g) \/ Refused(g) \/ SizeMismatch(g) \/ Answered(g)
           \/ Chunk(g) \/ StreamBroken(g) \/ StreamEnds(g) \/ Synced(g) \/ SleepOver(g)
  BY <1>1, <1>2, <1>7, TookTransfer
<1>8. CASE Published(g)
  <2>1. /\ Done(g) /\ job[g].pc = "published"
        /\ Dest(g) \in rushed' \/ TurnOK(job[g], g, writing, part, lib)
    BY <1>8, TookPublished, Rushes DEF Turns
  <2>2. (lib[Dest(g)] # NoFile /\ Len(lib[Dest(g)]) = Size) \/ Dest(g) \in rushed'
    BY <2>1 DEF TurnOK, Dest
  <2> QED BY <1>3, <2>1, <2>2
<1>9. CASE Cancelled(g)
  <2>1. CASE rows' = rows
    BY <1>0, <2>1
  <2>2. CASE \E jobs \in [Groups -> Jobs] : Finalized(g, intent[g], jobs)
    <3>1. \A f \in Files : rows'[f] = rows[f] \/ rows'[f] # "completed"
      BY <2>2, FinalFacts
    <3> QED BY <3>1 DEF RowsAre
  <2> QED BY <1>9, <2>1, <2>2, TookCancelled
<1> QED BY <1>4, <1>5, <1>6, <1>7, <1>8, <1>9 DEF Task

LEMMA RowsRegistered ==
    ASSUME Held, NEW c \in Callers, NEW s \in Statuses, Registers(c, s),
           s = "completed" => \/ lib'[Head(call[c].todo)] # NoFile /\ Len(lib'[Head(call[c].todo)]) = Size
                              \/ call[c].pc = "hash"
    PROVE  RowsAre
<1> DEFINE g == call[c].g
           d == Head(call[c].todo)
<1>1. rows' = [rows EXCEPT ![<<g, d>>] = s] /\ rows \in [Files -> Statuses]
  BY DEF Registers, Register, Held
<1>2. \A f \in Files : rows'[f] = rows[f] \/ (f = <<g, d>> /\ rows'[f] = s)
  BY <1>1
<1> QED BY <1>2 DEF RowsAre

LEMMA RowsByRest ==
    ASSUME Held, [Next]_vars, \A g \in Groups : ~Task(g)
    PROVE  RowsAre
<1>0. ASSUME \A f \in Files : rows'[f] = rows[f] \/ rows'[f] # "completed" PROVE RowsAre
  BY <1>0 DEF RowsAre
<1>1. ASSUME rows' = rows PROVE RowsAre
  BY <1>1 DEF RowsAre
<1>2. "queued" \in Statuses /\ "completed" \in Statuses /\ "queued" # "completed"
  BY DEF Statuses
<1>3. ASSUME NEW c \in Callers, EnqueueFile(c) PROVE RowsAre
  <2>1. CASE Passes(c) \/ Drops(c) \/ Looks(c)
    BY <1>1, <2>1 DEF Passes, Drops, Looks
  <2>2. CASE Registers(c, "queued")
    BY <1>2, <2>2, RowsRegistered
  <2>3. CASE /\ Registers(c, "completed") /\ lib' = lib
             /\ lib[Head(call[c].todo)] # NoFile /\ Len(lib[Head(call[c].todo)]) = Size
    <3>1. lib'[Head(call[c].todo)] # NoFile /\ Len(lib'[Head(call[c].todo)]) = Size
      BY <2>3
    <3> QED BY <1>2, <2>3, <3>1, RowsRegistered
  <2> QED BY <1>3, <2>1, <2>2, <2>3, EnqueueFileHeld
<1>4. ASSUME NEW c \in Callers, EnqueueHashed(c) PROVE RowsAre
  <2>1. call[c].pc = "hash" /\ (Drops(c) \/ Registers(c, "queued") \/ Registers(c, "completed"))
    BY <1>4, EnqueueHashedHeld
  <2>2. CASE Drops(c)
    BY <1>1, <2>2 DEF Drops
  <2>3. CASE Registers(c, "queued")
    BY <1>2, <2>3, RowsRegistered
  <2>4. CASE Registers(c, "completed")
    BY <1>2, <2>1, <2>4, RowsRegistered
  <2> QED BY <2>1, <2>2, <2>3, <2>4
<1>5. ASSUME NEW c \in Callers, EnqueueEnds(c) PROVE RowsAre
  BY <1>0, <1>5, EnqueueEndsHeld
<1>6. ASSUME NEW c \in Callers, NEW g \in Groups, Enqueue(c, g) PROVE RowsAre
  BY <1>1, <1>6 DEF Enqueue, queue
<1>7. ASSUME NEW g \in Groups, Resume(g) PROVE RowsAre
  <2>1. \A f \in Files : rows'[f] = rows[f] \/ rows'[f] = "queued"
    BY <1>7 DEF Resume
  <2> QED BY <1>0, <2>1
<1>8. ASSUME NEW g \in Groups, Interrupt(g) PROVE RowsAre
  <2>1. rows' = rows \/ \E why \in {"pause", "cancel", "cancel-keep"} : Finalized(g, why, job)
    BY <1>8 DEF Interrupt
  <2>2. ASSUME NEW why, Finalized(g, why, job) PROVE RowsAre
    <3>1. job \in [Groups -> Jobs]
      BY DEF Held
    <3>2. \A f \in Files : rows'[f] = rows[f] \/ rows'[f] # "completed"
      BY <2>2, <3>1, FinalFacts
    <3> QED BY <1>0, <3>2
  <2> QED BY <1>1, <2>1, <2>2
<1>9. ASSUME Stop \/ Exit \/ UNCHANGED vars \/ \E d \in Dests : ForeignWrite(d) PROVE RowsAre
  <2>1. rows' = rows
    BY <1>9, ExitHeld DEF Stop, ForeignWrite, queue, vars
  <2> QED BY <1>1, <2>1
<1>10. CASE Start
  BY <1>10, StartHeld DEF RowsAre
<1> QED BY <1>3, <1>4, <1>5, <1>6, <1>7, <1>8, <1>9, <1>10 DEF Next

\* No whole file is lost on its way from the .part to the library and its row: whole
\* bytes leave the .part for the library, or another process spoils them, or a cancel
\* deletes them; they leave the library in a forced enqueue(); a row says completed
\* once they are there.
THEOREM BytesStay == Spec => BytesKept
<1>1. Init => Held /\ Turns /\ Down
  BY InitHeld, InitTurns
<1>2. Held /\ Turns /\ Down /\ [Next]_vars => Held' /\ Turns' /\ Down'
  BY HeldNext, TurnsNext, DownNext
<1>3. Held /\ Turns /\ [Next]_vars => PartialKept /\ FilesStay /\ RowsAre
  BY PartialKeeps, FilesKeep, RowsTold, RowsByRest
<1>4. Spec => [][PartialKept]_vars /\ [][FilesStay]_vars /\ [][RowsAre]_vars
  BY <1>1, <1>2, <1>3, PTL DEF Spec
<1> QED BY <1>4 DEF BytesKept, WholePartialKept, WholeFileStays, CompletedIsThere, PartialKept, FilesStay, RowsAre

=============================================================================
