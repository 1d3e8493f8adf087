------------------------------ MODULE Tenants ------------------------------
(***************************************************************************)
(* The VRAM Tenant Protocol end to end (packages/studioforge-tenant): the  *)
(* programs that lease cards through TenantClient, their keep-alive loops, *)
(* their answers to a request to vacate and their boot, against the        *)
(* server's lease book, over calls that may be lost before or after they   *)
(* are served, and processes that die on either side.                      *)
(*                                                                         *)
(* The book is what LeaseBook makes of it: ids are fresh, a restart brings *)
(* the leases back, an idle one is swept.  A claim names its card.  A tick *)
(* is a keep-alive interval and a window to vacate; calls, whose timeout is*)
(* shorter, end between two ticks.  What a tenant does around the client   *)
(* is what the package's README has it do.                                 *)
(***************************************************************************)
EXTENDS Naturals, FiniteSets

CONSTANTS
    Cards,
    Tenants,        \* programs
    FamilyOf,       \* their holder families
    Wants,          \* the cards a tenant asks for
    TierOf,         \* the class of a tenant's claims, 1 the best
    Ttl,            \* idle_ttl_s in ticks
    Stoppers,       \* tenants that stop their keep-alive before they release; the others
                    \* start it as the package's README does, without `stop`
    MaxIds,         \* bound: leases granted
    MaxFaults,      \* bound: calls lost, server crashes, ticks without a server
    MaxDeaths,      \* bound: tenants that die
    None

ASSUME TenantsAssumption ==
    /\ TierOf \in [Tenants -> 1..3] /\ DOMAIN FamilyOf = Tenants
    /\ Wants \in [Tenants -> SUBSET Cards]
    /\ Ttl \in Nat \ {0} /\ Stoppers \subseteq Tenants
    /\ MaxIds \in Nat /\ MaxFaults \in Nat /\ MaxDeaths \in Nat
    /\ None \notin Tenants \cup Cards \cup Nat \cup BOOLEAN

VARIABLES
    up,             \* whether the server runs
    book,           \* its leases by id
    next,           \* the next id it draws
    prog,           \* each tenant: where its session stands, what it believes
    calls,          \* calls in flight
    posts,          \* vacate POSTs in flight
    faults, deaths  \* how many so far

vars == <<up, book, next, prog, calls, posts, faults, deaths>>

Ids == 1..MaxIds

\* age: ticks since the last touch.  asked: "no", "open" (a request to vacate is
\* out), "heard" (its holder took it), "cooling".  old: its holder died since, and
\* with it the token the lease carries.
Lease == [by : Tenants, card : Cards, age : 0..Ttl,
          asked : {"no", "open", "heard", "cooling"}, old : BOOLEAN]

\* pc: "off", "boot" (release_stale: asks for its leases, then releases todo),
\* "idle", "asking" (acquire), "refused", "using" a card, "closing" (release).
\* loops: the leases with a running touch_loop, due those whose next touch is due.  hasty: a
\* request to vacate came for a lease while its grant was still on the way.
Off == [pc |-> "off", mine |-> None, card |-> None, loops |-> {}, due |-> {},
        todo |-> {}, hasty |-> FALSE]

Resting(r) == [r EXCEPT !.pc = "idle", !.mine = None, !.card = None, !.hasty = FALSE]

\* A call of a tenant about a lease (or a card, to acquire).  A caller that has
\* given up or died does not wait; answer is None for a refusal and for an error.
Call(t, kind, l) ==
    [by |-> t, kind |-> kind, about |-> l, waits |-> TRUE, old |-> FALSE,
     served |-> FALSE, answer |-> None]

Waiting == {c \in calls : c.waits}

Family(t) == {l \in DOMAIN book : FamilyOf[book[l].by] = FamilyOf[t]}

Holders(c) == {l \in DOMAIN book : book[l].card = c}

Without(l) == [k \in DOMAIN book \ {l} |-> book[k]]

-----------------------------------------------------------------------------

Init ==
    /\ up = TRUE
    /\ book = [l \in {} |-> None]
    /\ next = 1
    /\ prog = [t \in Tenants |-> Off]
    /\ calls = {}
    /\ posts = {}
    /\ faults = 0
    /\ deaths = 0

-----------------------------------------------------------------------------
\* The server

Answered(c, a) ==
    calls' = (calls \ {c}) \cup (IF c.waits THEN {[c EXCEPT !.served = TRUE, !.answer = a]} ELSE {})

\* GET /api/leases.
ServeList(c) ==
    /\ c.kind = "list"
    /\ Answered(c, Family(c.by))
    /\ UNCHANGED <<book, next, posts>>

\* POST /api/leases: a free card is granted; a card held by a worse class, not
\* asked lately, has its holder asked to leave.  Models that are busy or pinned on the
\* card, and a waiting better class, refuse a claim as well.
ServeAcquire(c) ==
    /\ c.kind = "acquire"
    /\ \/ /\ Holders(c.about) = {}
          /\ book' = [l \in DOMAIN book \cup {next} |->
                         IF l \in DOMAIN book THEN book[l]
                         ELSE [by |-> c.by, card |-> c.about, age |-> 0, asked |-> "no", old |-> c.old]]
          /\ next' = next + 1
          /\ Answered(c, next)
          /\ UNCHANGED posts
       \/ \E l \in Holders(c.about) :
             /\ IF TierOf[book[l].by] > TierOf[c.by] /\ book[l].asked = "no"
                THEN /\ book' = [book EXCEPT ![l].asked = "open"]
                     /\ posts' = posts \cup {[lease |-> l, to |-> book[l].by, old |-> book[l].old]}
                ELSE UNCHANGED <<book, posts>>
             /\ Answered(c, None)
             /\ UNCHANGED next
       \/ /\ Answered(c, None)
          /\ UNCHANGED <<book, next, posts>>

\* POST /api/leases/{id}/touch: TRUE, or FALSE for a 404.
ServeTouch(c) ==
    /\ c.kind = "touch"
    /\ book' = IF c.about \in DOMAIN book THEN [book EXCEPT ![c.about].age = 0] ELSE book
    /\ Answered(c, c.about \in DOMAIN book)
    /\ UNCHANGED <<next, posts>>

\* DELETE /api/leases/{id}: a 404 is success.
ServeRelease(c) ==
    /\ c.kind \in {"release", "vacated"}
    /\ book' = Without(c.about)
    /\ Answered(c, TRUE)
    /\ UNCHANGED <<next, posts>>

Serve(c) ==
    /\ up
    /\ ~c.served
    /\ ServeList(c) \/ ServeAcquire(c) \/ ServeTouch(c) \/ ServeRelease(c)
    /\ UNCHANGED <<up, prog, faults, deaths>>

\* The sweep releases a lease nobody touched for its ttl.
Sweep(l) ==
    /\ up
    /\ l \in DOMAIN book /\ book[l].age = Ttl
    /\ book' = Without(l)
    /\ UNCHANGED <<up, next, prog, calls, posts, faults, deaths>>

-----------------------------------------------------------------------------
\* What a tenant makes of an answer, and of none

\* Mutant: an error is taken for a kept lease's last word: the loop ends.
TouchHeardOnce(r, l, alive) ==
    IF alive = TRUE THEN r ELSE [r EXCEPT !.loops = @ \ {l}, !.due = @ \ {l}]

\* Mutant: a 404 is one more error.
TouchHeardNever(r, l, alive) == r

\* touch_loop: a 404 ends the loop, and its session by on_lost; an error does not.
TouchHeard(r, l, alive) ==
    IF alive # FALSE THEN r
    ELSE LET q == [r EXCEPT !.loops = @ \ {l}, !.due = @ \ {l}] IN
         IF r.pc = "using" /\ r.mine = l THEN Resting(q) ELSE q

\* acquire: on a grant, the session opens and its keep-alive starts, a touch first;
\* refused, or not reached, it asks again an interval later.
GrantHeard(r, c, l) ==
    IF l = None THEN [Resting(r) EXCEPT !.pc = "refused"]
    ELSE [r EXCEPT !.pc = "using", !.mine = l, !.card = c.about,
                   !.loops = @ \cup {l}, !.due = @ \cup {l}]

\* release_stale: the next of the leases left, or done.
NextStale(t, r, rest) ==
    \/ /\ r.todo = {}
       /\ prog' = [prog EXCEPT ![t] = Resting(r)]
       /\ calls' = rest
    \/ \E l \in r.todo :
          /\ prog' = [prog EXCEPT ![t] = r]
          /\ calls' = rest \cup {Call(t, "release", l)}

\* Call c ends with answer a, and leaves the calls rest.
Hear(c, a, rest) ==
    LET t == c.by
        r == prog[t] IN
    \/ /\ c.kind = "list"
       /\ NextStale(t, [r EXCEPT !.todo = IF a = None THEN {} ELSE a], rest)
    \/ /\ c.kind = "release" /\ r.pc = "boot"
       /\ NextStale(t, [r EXCEPT !.todo = @ \ {c.about}], rest)
    \/ /\ ~(c.kind = "list" \/ (c.kind = "release" /\ r.pc = "boot"))
       /\ calls' = rest
       /\ prog' = [prog EXCEPT ![t] =
                      CASE c.kind = "release" -> Resting(r)
                        [] c.kind = "acquire" -> GrantHeard(r, c, a)
                        [] c.kind = "touch" -> TouchHeard(r, c.about, a)
                        [] c.kind = "vacated" -> r]

Answer(c) ==
    /\ c.waits /\ c.served
    /\ Hear(c, c.answer, calls \ {c})
    /\ UNCHANGED <<up, book, next, posts, faults, deaths>>

\* The client gives up: refused for want of a server, or the request or its
\* answer is lost; a request on its way may still be served.
Fail(c) ==
    /\ c.waits
    /\ ~up \/ faults < MaxFaults
    /\ LET late == IF up /\ ~c.served THEN {[c EXCEPT !.waits = FALSE]} ELSE {} IN
       \E kept \in SUBSET late : Hear(c, None, (calls \ {c}) \cup kept)
    /\ faults' = IF up THEN faults + 1 ELSE faults
    /\ UNCHANGED <<up, book, next, posts, deaths>>

-----------------------------------------------------------------------------
\* What a tenant does of its own

\* A process starts: release_stale first.
Boot(t) ==
    /\ prog[t].pc = "off"
    /\ prog' = [prog EXCEPT ![t].pc = "boot"]
    /\ calls' = calls \cup {Call(t, "list", None)}
    /\ UNCHANGED <<up, book, next, posts, faults, deaths>>

Acquire(t, c) ==
    /\ prog[t].pc = "idle" /\ c \in Wants[t]
    /\ next + Cardinality({d \in calls : d.kind = "acquire" /\ ~d.served}) <= MaxIds
    /\ prog' = [prog EXCEPT ![t].pc = "asking"]
    /\ calls' = calls \cup {Call(t, "acquire", c)}
    /\ UNCHANGED <<up, book, next, posts, faults, deaths>>

\* Mutant: the keep-alive touches while nothing is done too.
TouchIdle(t, l) ==
    /\ l \in prog[t].due
    /\ prog' = [prog EXCEPT ![t].due = @ \ {l}]
    /\ calls' = calls \cup {Call(t, "touch", l)}
    /\ UNCHANGED <<up, book, next, posts, faults, deaths>>

\* touch_loop's next touch, while the session is active.
Touch(t, l) ==
    /\ prog[t].pc = "using" /\ l \in prog[t].due
    /\ prog' = [prog EXCEPT ![t].due = @ \ {l}]
    /\ calls' = calls \cup {Call(t, "touch", l)}
    /\ UNCHANGED <<up, book, next, posts, faults, deaths>>

\* The session ends: the work stops, its keep-alive if the tenant stops it, then the
\* lease is released.
Closed(t, r) ==
    LET over == IF t \in Stoppers THEN {r.mine} ELSE {} IN
    [r EXCEPT !.pc = "closing", !.loops = @ \ over, !.due = @ \ over]

Close(t) ==
    /\ prog[t].pc = "using"
    /\ prog' = [prog EXCEPT ![t] = Closed(t, prog[t])]
    /\ calls' = calls \cup {Call(t, "release", prog[t].mine)}
    /\ UNCHANGED <<up, book, next, posts, faults, deaths>>

\* on_vacate: the session of that lease is closed; any other lease is released.
Vacated(t, l) ==
    LET r == prog[t] IN
    IF r.pc = "using" /\ r.mine = l
    THEN /\ prog' = [prog EXCEPT ![t] = Closed(t, r)]
         /\ calls' = calls \cup {Call(t, "release", l)}
    ELSE /\ prog' = [prog EXCEPT ![t].hasty = @ \/ r.pc = "asking"]
         /\ calls' = calls \cup {Call(t, "vacated", l)}

\* The POST ends: taken by the route, if the holder lives and knows the token, or
\* undeliverable, which closes the window; or taken, and given up by the server
\* before the answer.
PostEnds(p) ==
    LET asked(a) == IF p.lease \in DOMAIN book /\ book[p.lease].asked = "open"
                    THEN [book EXCEPT ![p.lease].asked = a] ELSE book
        known == prog[p.to].pc # "off" /\ ~p.old IN
    /\ up /\ p \in posts
    /\ posts' = posts \ {p}
    /\ \/ /\ known
          /\ Vacated(p.to, p.lease)
          /\ book' = asked("heard")
          /\ UNCHANGED faults
       \/ /\ known /\ faults < MaxFaults
          /\ Vacated(p.to, p.lease)
          /\ book' = asked("cooling")
          /\ faults' = faults + 1
       \/ /\ ~known \/ faults < MaxFaults
          /\ book' = asked("cooling")
          /\ faults' = IF known THEN faults + 1 ELSE faults
          /\ UNCHANGED <<prog, calls>>
    /\ UNCHANGED <<up, next, deaths>>

-----------------------------------------------------------------------------
\* Crashes and time

\* A tenant dies: its leases stand, its requests may still be served.
Die(t) ==
    /\ prog[t].pc # "off" /\ deaths < MaxDeaths
    /\ deaths' = deaths + 1
    /\ prog' = [prog EXCEPT ![t] = Off]
    /\ book' = [l \in DOMAIN book |-> [book[l] EXCEPT !.old = @ \/ book[l].by = t]]
    /\ posts' = {[p EXCEPT !.old = @ \/ p.to = t] : p \in posts}
    /\ LET late == {[c EXCEPT !.waits = FALSE, !.old = TRUE] :
                       c \in {d \in calls : d.by = t /\ ~d.served}} IN
       \E kept \in SUBSET late : calls' = {c \in calls : c.by # t} \cup kept
    /\ UNCHANGED <<up, next, faults>>

\* The server dies: every call in flight ends in an error.
Crash ==
    /\ up /\ faults < MaxFaults
    /\ up' = FALSE
    /\ faults' = faults + 1
    /\ posts' = {}
    /\ calls' = {[c EXCEPT !.served = TRUE, !.answer = None] : c \in Waiting}
    /\ UNCHANGED <<book, next, prog, deaths>>

\* restore(): the leases are back with the touch last written, up to an interval older
\* than the last one made, less those idle past their ttl and less the window to vacate.
Restart ==
    /\ ~up
    /\ up' = TRUE
    /\ \E lag \in [DOMAIN book -> {0, 1}] :
          book' = [l \in {k \in DOMAIN book : book[k].age + lag[k] < Ttl} |->
                      [book[l] EXCEPT !.age = @ + lag[l], !.asked = "no"]]
    /\ UNCHANGED <<next, prog, calls, posts, faults, deaths>>

Later(a) == IF a \in {"open", "heard"} THEN "cooling" ELSE "no"

\* A keep-alive interval passes.
Tick ==
    /\ Waiting = {} /\ posts = {}
    /\ \A t \in Tenants : prog[t].pc = "using" => prog[t].due = {}
    /\ up \/ faults < MaxFaults
    /\ faults' = IF up THEN faults ELSE faults + 1
    /\ book' = [l \in DOMAIN book |->
                   [book[l] EXCEPT !.age = IF @ = Ttl THEN Ttl ELSE @ + 1,
                                   !.asked = Later(@)]]
    /\ prog' = [t \in Tenants |-> [prog[t] EXCEPT !.due = prog[t].loops,
                                                 !.pc = IF @ = "refused" THEN "idle" ELSE @]]
    /\ UNCHANGED <<up, next, calls, posts, deaths>>

-----------------------------------------------------------------------------

Kinds == {"list", "acquire", "touch", "release", "vacated"}

Next ==
    \/ \E t \in Tenants : \/ Boot(t) \/ Close(t) \/ Die(t)
                          \/ \E c \in Cards : Acquire(t, c)
                          \/ \E l \in Ids : Touch(t, l)
    \/ \E c \in calls : Serve(c) \/ Answer(c) \/ Fail(c)
    \/ \E p \in posts : PostEnds(p)
    \/ \E l \in Ids : Sweep(l)
    \/ Crash \/ Restart \/ Tick

Spec == Init /\ [][Next]_vars

\* Calls and POSTs end, time passes, the sweep and every touch_loop run, and a
\* server that died is restarted.  No tick passes a call by, so that it is enough that
\* some call proceeds.
FairSpec ==
    /\ Spec
    /\ WF_vars(\E c \in calls : Serve(c) \/ Answer(c))
    /\ WF_vars(\E t \in Tenants, l \in Ids : Touch(t, l))
    /\ WF_vars(\E p \in posts : PostEnds(p))
    /\ WF_vars(\E l \in Ids : Sweep(l))
    /\ WF_vars(Restart) /\ WF_vars(Tick)

-----------------------------------------------------------------------------

TypeOK ==
    /\ up \in BOOLEAN
    /\ next \in 1..MaxIds + 1
    /\ DOMAIN book \subseteq 1..next - 1 /\ \A l \in DOMAIN book : book[l] \in Lease
    /\ \A t \in Tenants :
          /\ prog[t].pc \in {"off", "boot", "idle", "asking", "refused", "using", "closing"}
          /\ (prog[t].mine # None) <=> prog[t].pc \in {"using", "closing"}
          /\ prog[t].due \subseteq prog[t].loops /\ prog[t].loops \cup prog[t].todo \subseteq Ids
          /\ prog[t].pc = "off" => prog[t] = Off
    /\ \A c \in calls : c.by \in Tenants /\ c.kind \in Kinds
    /\ \A p \in posts : p.lease \in Ids /\ p.to \in Tenants
    /\ faults \in 0..MaxFaults /\ deaths \in 0..MaxDeaths

\* "How several GPU programs share one box without stepping on each other's
\* memory": no two tenants work on one card, whatever calls are lost and whoever
\* dies, while the ttl bears the touches lost and the lag of those written; but for
\* one asked to vacate before it heard of its grant.
OneUser ==
    \A t, u \in Tenants :
        /\ prog[t].pc = "using" /\ prog[u].pc = "using" /\ prog[t].card = prog[u].card
        /\ ~prog[t].hasty /\ ~prog[u].hasty
        => t = u

\* The book, the tenants' beliefs and the calls between them agree on who works where.
CardsInTurn == TypeOK /\ OneUser

\* Whether somebody works under l or is about to hear of it.
Held(l) ==
    \/ \E t \in Tenants : prog[t].pc = "using" /\ prog[t].mine = l
    \/ \E c \in Waiting : c.kind = "acquire" /\ c.served /\ c.answer = l

\* The exception to "StudioForge's idle TTL will reclaim it": a tenant that never
\* stopped the keep-alive of l is busy with another lease, and so keeps l alive too.
KeptForgotten(l) ==
    \E t \in Tenants \ Stoppers :
        l \in prog[t].loops /\ prog[t].pc = "using" /\ prog[t].mine # l

\* "StudioForge's idle TTL will reclaim it": a lease nobody works under, its grant or
\* its release lost or its holder dead, is gone in the end, unless it is KeptForgotten
\* again and again.
GhostsEnd ==
    \A l \in Ids : <>[](l \in DOMAIN book /\ ~Held(l)) => []<>KeptForgotten(l)

\* "The lease was released or swept under us": a session whose lease is gone ends.
LostIsNoticed ==
    \A t \in Tenants :
        (prog[t].pc = "using" /\ prog[t].mine \notin DOMAIN book) ~> prog[t].pc # "using"

\* "The holder then has deadline_s to drain, free and DELETE its lease": who took a
\* request to vacate works under that lease no more (and it ends as ghosts do); but
\* for one who took it before it heard of its grant.
VacateHonoured ==
    \A l \in DOMAIN book :
        book[l].asked = "heard" /\ Held(l) => prog[book[l].by].hasty

\* No lease outlives its use: neither one nobody works under nor one that was asked
\* back, but for those exceptions.
LeasesEnd == GhostsEnd /\ []VacateHonoured

\* "Releasing them first is what keeps a card from being held by a ghost": a boot
\* that is over leaves no lease of an earlier process of its tenant.
BootClears ==
    [][\A t \in Tenants :
          prog[t].pc = "boot" /\ prog'[t].pc = "idle"
          => \A l \in DOMAIN book' : book'[l].by = t => ~book'[l].old]_vars

\* on_lost is called for a lease that was taken away, not one just given back.
LostWasHeld ==
    [][\A c \in calls \ calls' :
          c.waits /\ c.served /\ c.kind = "touch" /\ c.answer = FALSE /\ c.about \notin DOMAIN book
          => prog[c.by].mine = c.about /\ prog[c.by].pc = "using"]_vars

=============================================================================
