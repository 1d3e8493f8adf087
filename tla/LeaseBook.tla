----------------------------- MODULE LeaseBook -----------------------------
(***************************************************************************)
(* GPU leases (core/leases.py, and the lease methods of core/manager.py):  *)
(* the in-memory book of claims on cards, its mirror in the registry, the  *)
(* idle sweep, the request to vacate with its POST, and what a crash and a *)
(* restart make of them.                                                   *)
(*                                                                         *)
(* Python's book is single-threaded: a step is the code between two        *)
(* awaits.  Each claim a client may make is an element of Ids; it becomes  *)
(* a lease once at most (the code draws a fresh uuid).  Stamps are ticks.  *)
(***************************************************************************)
EXTENDS Naturals, FiniteSets

CONSTANTS
    Ids,            \* the claims clients may make, numbers
    Devices,        \* CUDA devices
    DevicesOf,      \* the cards each claim names
    TierOf,         \* its class, 1 the best
    TtlOf,          \* its idle_ttl_s, 0 for "until released"
    Askable,        \* the claims that register a vacate_url
    Owned,          \* the claims that name models
    Own,            \* the claims of this server's own benchmarks
    CardSets,       \* the sets of cards the box may come up with
    MaxClock,       \* bound: ticks
    PersistInterval,    \* TOUCH_PERSIST_INTERVAL_S
    Window,             \* leases.vacate_timeout_s
    CallbackTimeout,    \* leases.vacate_callback_timeout_s
    MaxHiccups      \* bound: the steps in which the registry refuses a write or a read

ASSUME LeaseBookAssumption ==
    /\ Ids \subseteq Nat /\ MaxClock \in Nat \ {0}
    /\ DevicesOf \in [Ids -> SUBSET Devices \ {{}}]
    /\ TierOf \in [Ids -> 1..3] /\ TtlOf \in [Ids -> Nat]
    /\ Askable \subseteq Ids /\ Owned \subseteq Ids /\ Own \subseteq Ids
    /\ CardSets \subseteq SUBSET Devices
    /\ PersistInterval \in Nat /\ Window \in Nat \ {0} /\ CallbackTimeout \in Nat
    /\ MaxHiccups \in Nat

VARIABLES
    clock,          \* time.time()
    up,             \* whether the server runs
    cards,          \* the devices the box reports
    book,           \* LeaseBook._leases; while down, what stood at the crash
    written,        \* LeaseBook._written_at
    rows,           \* the gpu_leases table
    posts,          \* vacate POSTs in flight
    spent,          \* the ids granted so far
    released,       \* history: the leases released
    hiccups         \* history: the steps in which the store failed

vars == <<clock, up, cards, book, written, rows, posts, spent, released, hiccups>>

-----------------------------------------------------------------------------
\* Dictionaries

With(d, S, v) == [k \in DOMAIN d \cup S |-> IF k \in S THEN v[k] ELSE d[k]]

Without(d, S) == [k \in DOMAIN d \ S |-> d[k]]

-----------------------------------------------------------------------------

Never == 0          \* a vacate stamp that is None; stamps are 1 or later

Stamps == 0..(MaxClock + 2 * Window)

Lease == [created : Stamps, last : Stamps, restored : BOOLEAN,
          requested : Stamps, deadline : Stamps, reask : Stamps]

Row == [created : Stamps, last : Stamps]

Fresh == [created |-> clock, last |-> clock, restored |-> FALSE,
          requested |-> Never, deadline |-> Never, reask |-> Never]

\* lease_row: the vacate window and the restore mark are not stored.
RowOf(lease) == [created |-> lease.created, last |-> lease.last]

Clash(k, l) == DevicesOf[k] \cap DevicesOf[l] # {}

\* Mutant: claims are compared by their whole set of cards.
ConflictsExact(l) == {k \in DOMAIN book : DevicesOf[k] = DevicesOf[l]}

\* Mutant: a holder of a worse class is no conflict.
ConflictsOfPeers(l) == {k \in DOMAIN book : Clash(k, l) /\ TierOf[k] <= TierOf[l]}

\* conflicts(): the leases that hold a card the claim names.
Conflicts(l) == {k \in DOMAIN book : Clash(k, l)}

Idle(last, l) == TtlOf[l] # 0 /\ clock >= last + TtlOf[l]

\* Mutant: the window's end alone decides, not the pause after it.
ReaskableEarly(lease) == lease.deadline = Never \/ clock >= lease.deadline

\* vacate_reaskable(): never asked, or the window and the pause after it are over.
Reaskable(lease) ==
    lease.deadline = Never \/ (clock >= lease.deadline /\ clock >= lease.reask)

\* The writes of a step, of which the store takes all, or may refuse some.
Accepted(S) == IF hiccups < MaxHiccups THEN SUBSET S ELSE {S}

\* _persist for the leases S of book', stamped at[k]; done holds those written.
Persist(S, done, at) ==
    /\ rows' = With(rows, done, [k \in done |-> RowOf(book'[k])])
    /\ written' = With(written, done, at)
    /\ hiccups' = IF done = S THEN hiccups ELSE hiccups + 1

\* Mutant: the book forgets the lease, not when its row was written.
ForgetRowOnly(S, done) ==
    /\ rows' = Without(rows, done)
    /\ UNCHANGED written
    /\ hiccups' = IF done = S THEN hiccups ELSE hiccups + 1
    /\ released' = released \cup S

\* Mutant: the row stays.
ForgetBookOnly(S, done) ==
    /\ UNCHANGED rows
    /\ written' = Without(written, S)
    /\ hiccups' = IF done = S THEN hiccups ELSE hiccups + 1
    /\ released' = released \cup S

\* The end of leases S: out of the book and, if the store takes it, the rows.
Forget(S, done) ==
    /\ rows' = Without(rows, done)
    /\ written' = Without(written, S)
    /\ hiccups' = IF done = S THEN hiccups ELSE hiccups + 1
    /\ released' = released \cup S

-----------------------------------------------------------------------------

Init ==
    /\ clock = 1
    /\ up = TRUE
    /\ cards \in CardSets
    /\ book = [k \in {} |-> Fresh]
    /\ written = [k \in {} |-> 0]
    /\ rows = [k \in {} |-> RowOf(Fresh)]
    /\ posts = {}
    /\ spent = {}
    /\ released = {}
    /\ hiccups = 0

\* acquire_lease on free cards enters the lease before any eviction awaits.
Grant(l) ==
    /\ up
    /\ l \notin spent
    /\ DevicesOf[l] \subseteq cards
    /\ Conflicts(l) = {}
    /\ spent' = spent \cup {l}
    /\ book' = With(book, {l}, [k \in {l} |-> Fresh])
    /\ \E done \in Accepted({l}) : Persist({l}, done, [k \in done |-> clock])
    /\ UNCHANGED <<clock, up, cards, posts, released>>

\* acquire_lease on held cards: when every holder is of a worse class and can
\* be asked, those whose last ask has lapsed are marked and sent one POST.
Ask(l) ==
    /\ up
    /\ l \notin spent
    /\ DevicesOf[l] \subseteq cards
    /\ Conflicts(l) # {}
    /\ \A k \in Conflicts(l) : k \in Askable /\ TierOf[k] > TierOf[l]
    /\ LET asked == {k \in Conflicts(l) : Reaskable(book[k])} IN
       /\ asked # {}
       /\ book' = With(book, asked,
                     [k \in asked |-> [book[k] EXCEPT !.requested = clock,
                                                      !.deadline = clock + Window,
                                                      !.reask = clock + 2 * Window]])
       /\ \E done \in Accepted(asked) : Persist(asked, done, [k \in done |-> clock])
       /\ posts' = posts \cup {[lease |-> k, at |-> clock] : k \in asked}
    /\ UNCHANGED <<clock, up, cards, spent, released>>

\* The POST ends.  If the lease still stands and was asked, the outcome is
\* marked; a failure closes the window now, with one more before the next ask.
PostEnds(p, delivered) ==
    /\ up
    /\ p \in posts
    /\ posts' = posts \ {p}
    /\ LET k == p.lease
           marked == k \in DOMAIN book /\ book[k].deadline # Never IN
       \/ /\ marked
          /\ book' = IF delivered THEN book
                     ELSE [book EXCEPT ![k].deadline = IF clock < @ THEN clock ELSE @,
                                       ![k].reask = clock + Window]
          /\ \E done \in Accepted({k}) : Persist({k}, done, [j \in done |-> clock])
       \/ /\ ~marked
          /\ UNCHANGED <<book, rows, written, hiccups>>
    /\ UNCHANGED <<clock, up, cards, spent, released>>

\* A holder releases its lease, or a grant whose eviction failed takes it back.
Release(l) ==
    /\ up
    /\ l \in DOMAIN book
    /\ book' = Without(book, {l})
    /\ \E done \in Accepted({l}) : Forget({l}, done)
    /\ UNCHANGED <<clock, up, cards, posts, spent>>

\* The touches that move a clock, and of them the ones whose row is due.
Moved(at) == {k \in DOMAIN at : at[k] > book[k].last}

\* Mutant: a row is due only after two intervals.
DueLate(at) == {k \in Moved(at) :
                  k \notin DOMAIN written \/ at[k] >= written[k] + 2 * PersistInterval}

Due(at) == {k \in Moved(at) :
              k \notin DOMAIN written \/ at[k] >= written[k] + PersistInterval}

Touched(at) == With(book, Moved(at), [k \in Moved(at) |-> [book[k] EXCEPT !.last = at[k]]])

\* The holder touches its lease.
Touch(l) ==
    /\ up
    /\ l \in DOMAIN book
    /\ LET at == [k \in {l} |-> clock] IN
       /\ Moved(at) # {}
       /\ book' = Touched(at)
       /\ \E done \in Accepted(Due(at)) : Persist(Due(at), done, at)
    /\ UNCHANGED <<clock, up, cards, posts, spent, released>>

\* The sweep: the leases that name models are touched at their models' last
\* activity, then the ones idle past their ttl are released.
Sweep ==
    /\ up
    /\ \E at \in [DOMAIN book \cap Owned -> 1..clock] :
       LET now == Touched(at)
           gone == {k \in DOMAIN book : Idle(now[k].last, k)} IN
       /\ book' = Without(now, gone)
       /\ \E put \in Accepted(Due(at)), cut \in Accepted(gone) :
             /\ rows' = Without(With(rows, put, [k \in put |-> RowOf(now[k])]), cut)
             /\ written' = Without(With(written, put, at), gone)
             /\ hiccups' = IF put = Due(at) /\ cut = gone THEN hiccups ELSE hiccups + 1
       /\ released' = released \cup gone
    /\ UNCHANGED <<clock, up, cards, posts, spent>>

-----------------------------------------------------------------------------

\* The server dies: the POSTs in flight with it; what stood is remembered.
Crash ==
    /\ up
    /\ up' = FALSE
    /\ posts' = {}
    /\ UNCHANGED <<clock, cards, book, written, rows, spent, released, hiccups>>

\* restore()'s order.
Older(k, l) ==
    rows[k].created < rows[l].created \/ (rows[k].created = rows[l].created /\ k < l)

\* The rows restore() puts back: oldest first, none idle past its ttl, none of
\* our own benchmarks', none on a card one already put back holds.
Restored(back) ==
    \A l \in DOMAIN rows :
        l \in back <=> /\ ~Idle(rows[l].last, l)
                       /\ l \notin Own
                       /\ ~\E k \in back : Older(k, l) /\ Clash(k, l)

\* _restore_leases: the rows are put back, dropped ones deleted, and a lease on
\* a card the box came up without is released again.
Restart ==
    /\ ~up
    /\ up' = TRUE
    /\ cards' \in CardSets
    /\ \/ \E back \in SUBSET DOMAIN rows :
             /\ Restored(back)
             /\ LET kept == {l \in back : DevicesOf[l] \subseteq cards'}
                    gone == DOMAIN rows \ kept IN
                /\ book' = [l \in kept |-> [created |-> rows[l].created, last |-> rows[l].last,
                                            restored |-> TRUE, requested |-> Never,
                                            deadline |-> Never, reask |-> Never]]
                /\ written' = [l \in kept |-> clock]
                /\ \E done \in Accepted(gone) :
                      /\ rows' = Without(rows, done)
                      /\ hiccups' = IF done = gone THEN hiccups ELSE hiccups + 1
                /\ released' = released \cup gone
       \/ /\ hiccups < MaxHiccups
          /\ book' = [l \in {} |-> Fresh]
          /\ written' = [l \in {} |-> 0]
          /\ hiccups' = hiccups + 1
          /\ UNCHANGED <<rows, released>>
    /\ UNCHANGED <<clock, posts, spent>>

\* Time passes, up or down; a POST is answered or given up by its timeout.
Tick ==
    /\ clock < MaxClock
    /\ \A p \in posts : clock < p.at + CallbackTimeout
    /\ clock' = clock + 1
    /\ UNCHANGED <<up, cards, book, written, rows, posts, spent, released, hiccups>>

Next ==
    \/ \E l \in Ids : Grant(l) \/ Ask(l) \/ Release(l) \/ Touch(l)
    \/ \E p \in posts, delivered \in BOOLEAN : PostEnds(p, delivered)
    \/ Sweep \/ Crash \/ Restart \/ Tick

Spec == Init /\ [][Next]_vars

-----------------------------------------------------------------------------

TypeOK ==
    /\ clock \in 1..MaxClock
    /\ up \in BOOLEAN
    /\ cards \in CardSets
    /\ DOMAIN book \subseteq spent /\ book \in [DOMAIN book -> Lease]
    /\ written \in [DOMAIN written -> Stamps] /\ DOMAIN written \subseteq DOMAIN book
    /\ DOMAIN rows \subseteq spent /\ rows \in [DOMAIN rows -> Row]
    /\ posts \subseteq [lease : spent, at : 1..MaxClock]
    /\ spent \subseteq Ids
    /\ released \subseteq spent
    /\ hiccups \in 0..MaxHiccups

\* No card is leased twice: not by two overlapping grants, nor by a restart
\* whose rows overlap because a store hiccup left a released lease's row.
CardsApart == \A k, l \in DOMAIN book : Clash(k, l) => k = l

\* "A card already leased is a conflict, never a takeover": a card passes from
\* one lease to another only after a release, over a crash and restart too.
NeverTakenOver ==
    [][hiccups' = 0 => \A k \in DOMAIN book, l \in DOMAIN book' : Clash(k, l) => k = l]_vars

\* While the store has not failed, the registry mirrors the book: a row for
\* each standing lease and no other, none with a younger activity clock.
Mirrored ==
    hiccups = 0 => /\ DOMAIN rows = DOMAIN book
                   /\ \A l \in DOMAIN rows : rows[l].last <= book[l].last

\* "The cost of the gap is bounded by it: a restore can see a last_activity_at
\* at most this much older than the holder's last touch."
TouchGapBounded ==
    \A l \in DOMAIN book \cap DOMAIN rows :
        hiccups = 0 => book[l].last <= rows[l].last + PersistInterval

\* "A holder that did everything right keeps its card": without a store
\* failure, a lease that was never asked to leave or restored before, on cards
\* the box still has and touched within its ttl less the write interval, stands
\* again after the restart.
HolderKeepsItsCard ==
    [][~up /\ up' /\ hiccups' = 0 =>
          \A l \in DOMAIN book \ Own :
              /\ DevicesOf[l] \subseteq cards'
              /\ ~book[l].restored /\ book[l].requested = Never
              /\ TtlOf[l] = 0 \/ clock + PersistInterval < book[l].last + TtlOf[l]
              => l \in DOMAIN book']_vars

\* The answer to a POST is marked on the window it was sent for, and no holder
\* has two requests open, however fast others ask and whatever fails.
AnswersMeetTheirWindow ==
    \A p \in posts : p.lease \in DOMAIN book => book[p.lease].requested = p.at

\* "A disk hiccup must never refuse or lose a lease": what was released does
\* not stand again, to refuse the next claim on its cards.
ReleasedStaysReleased == up => released \cap DOMAIN book = {}

=============================================================================
