--------------------------- MODULE LeaseBookProofs ---------------------------
(***************************************************************************)
(* Proofs about the book of GPU leases and its table, for any claims,      *)
(* cards, ttls, intervals and clock.  CardsApart is inductive as it stands.*)
(* Mirrored is too, but what a restart gives back to a holder needs        *)
(* RowsLag, how far a row may lag behind its lease, and what an answer     *)
(* marks needs OneAskAtATime, when a holder may be asked again.            *)
(***************************************************************************)
EXTENDS LeaseBook, TLAPS

-----------------------------------------------------------------------------
\* Rows, stamps and the store.

LEMMA RowType == ASSUME NEW lease \in Lease PROVE RowOf(lease) \in Row
BY DEF Lease, Row, RowOf

LEMMA StampType ==
    ASSUME TypeOK
    PROVE  /\ clock \in Stamps /\ clock + Window \in Stamps /\ clock + 2 * Window \in Stamps
           /\ Never \in Stamps /\ Stamps \subseteq Nat
           /\ 1..clock \subseteq Stamps
BY LeaseBookAssumption DEF TypeOK, Stamps, Never

\* The store takes all of a step's writes, or this is one of its refusals.
LEMMA HiccupType ==
    ASSUME TypeOK, NEW S, NEW done \in Accepted(S)
    PROVE  /\ done \subseteq S
           /\ (IF done = S THEN hiccups ELSE hiccups + 1) \in 0..MaxHiccups
<1>1. CASE hiccups < MaxHiccups
  BY <1>1, LeaseBookAssumption DEF Accepted, TypeOK
<1>2. CASE ~(hiccups < MaxHiccups)
  BY <1>2 DEF Accepted, TypeOK
<1> QED BY <1>1, <1>2

LEMMA PersistType ==
    ASSUME TypeOK, NEW S, NEW done \in Accepted(S), NEW at,
           \A k \in done : at[k] \in Stamps,
           Persist(S, done, at),
           DOMAIN book \cup S \subseteq DOMAIN book', DOMAIN book' \subseteq spent',
           book' \in [DOMAIN book' -> Lease], spent \subseteq spent'
    PROVE  /\ written' \in [DOMAIN written' -> Stamps] /\ DOMAIN written' \subseteq DOMAIN book'
           /\ DOMAIN rows' \subseteq spent' /\ rows' \in [DOMAIN rows' -> Row]
           /\ hiccups' \in 0..MaxHiccups
<1> DEFINE put == [k \in done |-> RowOf(book'[k])]
<1>1. done \subseteq S /\ hiccups' \in 0..MaxHiccups
  BY HiccupType DEF Persist
<1>2. \A k \in done : put[k] \in Row
  BY <1>1, RowType
<1>3. rows' = With(rows, done, put) /\ written' = With(written, done, at)
  BY DEF Persist
<1>4. rows \in [DOMAIN rows -> Row] /\ written \in [DOMAIN written -> Stamps]
  BY DEF TypeOK
<1> HIDE DEF put
<1>5. rows' \in [DOMAIN rows' -> Row] /\ DOMAIN rows' = DOMAIN rows \cup done
  <2>1. /\ With(rows, done, put) \in [DOMAIN With(rows, done, put) -> Row]
        /\ DOMAIN With(rows, done, put) = DOMAIN rows \cup done
    BY <1>2, <1>4 DEF With
  <2> QED BY <2>1, <1>3
<1>6. written' \in [DOMAIN written' -> Stamps] /\ DOMAIN written' = DOMAIN written \cup done
  BY <1>1, <1>3, <1>4 DEF With
<1> QED BY <1>1, <1>5, <1>6 DEF TypeOK

LEMMA ForgetType ==
    ASSUME TypeOK, NEW S, S \subseteq DOMAIN book, NEW done \in Accepted(S), Forget(S, done),
           book' = Without(book, S), UNCHANGED spent
    PROVE  /\ DOMAIN book' \subseteq spent' /\ book' \in [DOMAIN book' -> Lease]
           /\ written' \in [DOMAIN written' -> Stamps] /\ DOMAIN written' \subseteq DOMAIN book'
           /\ DOMAIN rows' \subseteq spent' /\ rows' \in [DOMAIN rows' -> Row]
           /\ released' \subseteq spent' /\ hiccups' \in 0..MaxHiccups
<1>1. hiccups' \in 0..MaxHiccups
  BY HiccupType DEF Forget
<1>2. book' \in [DOMAIN book' -> Lease] /\ DOMAIN book' = DOMAIN book \ S
  BY DEF TypeOK, Without
<1>3. rows' \in [DOMAIN rows' -> Row] /\ DOMAIN rows' = DOMAIN rows \ done
  BY DEF TypeOK, Forget, Without
<1>4. written' \in [DOMAIN written' -> Stamps] /\ DOMAIN written' = DOMAIN written \ S
  BY DEF TypeOK, Forget, Without
<1> QED BY <1>1, <1>2, <1>3, <1>4 DEF TypeOK, Forget

LEMMA TypeStep == TypeOK /\ [Next]_vars => TypeOK'
<1> SUFFICES ASSUME TypeOK, [Next]_vars PROVE TypeOK'
  OBVIOUS
<1>1. ASSUME NEW l \in Ids, Grant(l) PROVE TypeOK'
  <2>1. Fresh \in Lease
    BY StampType DEF Fresh, Lease
  <2>2. book' \in [DOMAIN book' -> Lease] /\ DOMAIN book' = DOMAIN book \cup {l}
    BY <1>1, <2>1 DEF Grant, With, TypeOK
  <2>3. PICK done \in Accepted({l}) : Persist({l}, done, [k \in done |-> clock])
    BY <1>1 DEF Grant
  <2>4. done \subseteq {l}
    BY HiccupType
  <2>5. /\ written' \in [DOMAIN written' -> Stamps] /\ DOMAIN written' \subseteq DOMAIN book'
        /\ DOMAIN rows' \subseteq spent' /\ rows' \in [DOMAIN rows' -> Row]
        /\ hiccups' \in 0..MaxHiccups
    <3>1. spent' = spent \cup {l}
      BY <1>1 DEF Grant
    <3> QED BY <2>2, <2>3, <2>4, <3>1, StampType, PersistType DEF TypeOK
  <2> QED BY <1>1, <2>2, <2>5 DEF Grant, TypeOK
<1>2. ASSUME NEW l \in Ids, Ask(l) PROVE TypeOK'
  <2> DEFINE asked == {k \in Conflicts(l) : Reaskable(book[k])}
             marks == [k \in asked |-> [book[k] EXCEPT !.requested = clock,
                                                       !.deadline = clock + Window,
                                                       !.reask = clock + 2 * Window]]
  <2>1. asked \subseteq DOMAIN book
    BY DEF Conflicts
  <2>2. \A k \in asked : marks[k] \in Lease
    <3> SUFFICES ASSUME NEW k \in asked PROVE marks[k] \in Lease
      OBVIOUS
    <3>1. book[k] \in Lease
      BY <2>1 DEF TypeOK
    <3> QED BY <3>1, StampType DEF Lease
  <2>3. book' = With(book, asked, marks)
    BY <1>2 DEF Ask
  <2>4. PICK done \in Accepted(asked) : Persist(asked, done, [k \in done |-> clock])
    BY <1>2 DEF Ask
  <2>5. posts' = posts \cup {[lease |-> k, at |-> clock] : k \in asked}
    BY <1>2 DEF Ask
  <2> HIDE DEF asked, marks
  <2>6. book' \in [DOMAIN book' -> Lease] /\ DOMAIN book' = DOMAIN book
    BY <2>1, <2>2, <2>3 DEF With, TypeOK
  <2>7. UNCHANGED <<clock, up, cards, spent, released>>
    BY <1>2 DEF Ask
  <2>8. /\ written' \in [DOMAIN written' -> Stamps] /\ DOMAIN written' \subseteq DOMAIN book'
        /\ DOMAIN rows' \subseteq spent' /\ rows' \in [DOMAIN rows' -> Row]
        /\ hiccups' \in 0..MaxHiccups
    BY <2>1, <2>4, <2>6, <2>7, StampType, PersistType DEF TypeOK
  <2>9. posts' \subseteq [lease : spent', at : 1..MaxClock]
    BY <2>1, <2>5, <2>7 DEF TypeOK
  <2> QED BY <2>6, <2>7, <2>8, <2>9 DEF TypeOK
<1>3. ASSUME NEW p \in posts, NEW delivered \in BOOLEAN, PostEnds(p, delivered) PROVE TypeOK'
  <2>1. /\ UNCHANGED <<clock, up, cards, spent, released>>
        /\ posts' = posts \ {p}
    BY <1>3 DEF PostEnds
  <2>2. CASE UNCHANGED <<book, rows, written, hiccups>>
    BY <2>1, <2>2 DEF TypeOK
  <2>3. ASSUME p.lease \in DOMAIN book,
               book' = (IF delivered THEN book
                        ELSE [book EXCEPT ![p.lease].deadline = IF clock < @ THEN clock ELSE @,
                                          ![p.lease].reask = clock + Window]),
               NEW done \in Accepted({p.lease}),
               Persist({p.lease}, done, [j \in done |-> clock])
        PROVE  TypeOK'
    <3>1. book[p.lease] \in Lease
      BY <2>3 DEF TypeOK
    <3>2. [book[p.lease] EXCEPT !.deadline = IF clock < @ THEN clock ELSE @,
                                !.reask = clock + Window] \in Lease
      BY <3>1, StampType DEF Lease
    <3>3. book' \in [DOMAIN book' -> Lease] /\ DOMAIN book' = DOMAIN book
      BY <2>3, <3>2 DEF TypeOK
    <3>4. /\ written' \in [DOMAIN written' -> Stamps] /\ DOMAIN written' \subseteq DOMAIN book'
          /\ DOMAIN rows' \subseteq spent' /\ rows' \in [DOMAIN rows' -> Row]
          /\ hiccups' \in 0..MaxHiccups
      BY <2>1, <2>3, <3>3, StampType, PersistType DEF TypeOK
    <3> QED BY <2>1, <3>3, <3>4 DEF TypeOK
  <2> QED BY <1>3, <2>2, <2>3 DEF PostEnds
<1>4. ASSUME NEW l \in Ids, Release(l) PROVE TypeOK'
  <2>1. PICK done \in Accepted({l}) : Forget({l}, done)
    BY <1>4 DEF Release
  <2>2. l \in DOMAIN book /\ book' = Without(book, {l}) /\ UNCHANGED <<clock, up, cards, posts, spent>>
    BY <1>4 DEF Release
  <2> QED BY <2>1, <2>2, ForgetType DEF TypeOK
<1>5. ASSUME NEW l \in Ids, Touch(l) PROVE TypeOK'
  <2> DEFINE at == [k \in {l} |-> clock]
  <2>1. /\ l \in DOMAIN book /\ book' = Touched(at)
        /\ UNCHANGED <<clock, up, cards, posts, spent, released>>
    BY <1>5 DEF Touch
  <2>2. PICK done \in Accepted(Due(at)) : Persist(Due(at), done, at)
    BY <1>5 DEF Touch
  <2>3. Due(at) \subseteq Moved(at) /\ Moved(at) \subseteq {l}
    BY DEF Due, Moved
  <2>4. [book[l] EXCEPT !.last = clock] \in Lease
    BY <2>1, StampType DEF TypeOK, Lease
  <2>5. book' \in [DOMAIN book' -> Lease] /\ DOMAIN book' = DOMAIN book
    BY <2>1, <2>3, <2>4 DEF Touched, With, TypeOK
  <2>6. \A k \in done : at[k] \in Stamps
    BY <2>2, <2>3, StampType, HiccupType
  <2> HIDE DEF at
  <2>7. /\ written' \in [DOMAIN written' -> Stamps] /\ DOMAIN written' \subseteq DOMAIN book'
        /\ DOMAIN rows' \subseteq spent' /\ rows' \in [DOMAIN rows' -> Row]
        /\ hiccups' \in 0..MaxHiccups
    BY <2>1, <2>2, <2>3, <2>5, <2>6, PersistType DEF TypeOK
  <2> QED BY <2>1, <2>5, <2>7 DEF TypeOK
<1>6. ASSUME Sweep PROVE TypeOK'
  <2>1. PICK at \in [DOMAIN book \cap Owned -> 1..clock] :
           LET now == Touched(at)
               gone == {k \in DOMAIN book : Idle(now[k].last, k)} IN
           /\ book' = Without(now, gone)
           /\ \E put \in Accepted(Due(at)), cut \in Accepted(gone) :
                 /\ rows' = Without(With(rows, put, [k \in put |-> RowOf(now[k])]), cut)
                 /\ written' = Without(With(written, put, at), gone)
                 /\ hiccups' = IF put = Due(at) /\ cut = gone THEN hiccups ELSE hiccups + 1
           /\ released' = released \cup gone
    BY <1>6 DEF Sweep
  <2> DEFINE now == Touched(at)
             gone == {k \in DOMAIN book : Idle(now[k].last, k)}
  <2>2. PICK put \in Accepted(Due(at)), cut \in Accepted(gone) :
           /\ rows' = Without(With(rows, put, [k \in put |-> RowOf(now[k])]), cut)
           /\ written' = Without(With(written, put, at), gone)
           /\ hiccups' = IF put = Due(at) /\ cut = gone THEN hiccups ELSE hiccups + 1
    BY <2>1
  <2>3. now \in [DOMAIN book -> Lease]
    <3>1. Moved(at) \subseteq DOMAIN at /\ DOMAIN at \subseteq DOMAIN book
      BY DEF Moved
    <3>2. ASSUME NEW k \in Moved(at) PROVE [book[k] EXCEPT !.last = at[k]] \in Lease
      <4>1. at[k] \in Stamps /\ book[k] \in Lease
        BY <3>1, StampType DEF TypeOK
      <4> QED BY <4>1 DEF Lease
    <3> QED BY <3>1, <3>2 DEF Touched, With, TypeOK
  <2>4. UNCHANGED <<clock, up, cards, posts, spent>> /\ released' = released \cup gone
    BY <1>6, <2>1 DEF Sweep
  <2>5. /\ put \subseteq Due(at) /\ Due(at) \subseteq DOMAIN book
        /\ Due(at) \subseteq DOMAIN at /\ cut \subseteq gone
    BY HiccupType DEF Due, Moved
  <2>6. hiccups' \in 0..MaxHiccups
    <3>1. CASE put = Due(at) /\ cut = gone
      BY <2>2, <3>1 DEF TypeOK
    <3>2. CASE put # Due(at)
      BY <2>2, <3>2, HiccupType
    <3>3. CASE cut # gone
      BY <2>2, <3>3, HiccupType
    <3> QED BY <3>1, <3>2, <3>3
  <2>7. gone \subseteq DOMAIN book /\ book' = Without(now, gone)
    BY <2>1
  <2> HIDE DEF now, gone
  <2>8. book' \in [DOMAIN book' -> Lease] /\ DOMAIN book' = DOMAIN book \ gone
    BY <2>3, <2>7 DEF Without
  <2>9. rows' \in [DOMAIN rows' -> Row] /\ DOMAIN rows' = (DOMAIN rows \cup put) \ cut
    <3>1. \A k \in put : RowOf(now[k]) \in Row
      BY <2>3, <2>5, RowType
    <3>2. /\ With(rows, put, [k \in put |-> RowOf(now[k])]) \in [DOMAIN rows \cup put -> Row]
      BY <3>1 DEF With, TypeOK
    <3> QED BY <2>2, <3>2 DEF Without
  <2>10. written' \in [DOMAIN written' -> Stamps] /\ DOMAIN written' = (DOMAIN written \cup put) \ gone
    <3>1. \A k \in put : at[k] \in Stamps
      BY <2>5, StampType
    <3>2. With(written, put, at) \in [DOMAIN written \cup put -> Stamps]
      BY <3>1 DEF With, TypeOK
    <3> QED BY <2>2, <3>2 DEF Without
  <2> QED BY <2>4, <2>5, <2>6, <2>7, <2>8, <2>9, <2>10 DEF TypeOK
<1>7. ASSUME Crash PROVE TypeOK'
  BY <1>7 DEF Crash, TypeOK
<1>8. ASSUME Restart PROVE TypeOK'
  <2>1. up' = TRUE /\ cards' \in CardSets /\ UNCHANGED <<clock, posts, spent>>
    BY <1>8 DEF Restart
  <2>2. ASSUME hiccups < MaxHiccups, book' = [l \in {} |-> Fresh], written' = [l \in {} |-> 0],
               hiccups' = hiccups + 1, UNCHANGED <<rows, released>>
        PROVE  TypeOK'
    BY <2>1, <2>2, LeaseBookAssumption DEF TypeOK
  <2>3. ASSUME NEW kept \in SUBSET DOMAIN rows, NEW done \in Accepted(DOMAIN rows \ kept),
               book' = [l \in kept |-> [created |-> rows[l].created, last |-> rows[l].last,
                                        restored |-> TRUE, requested |-> Never,
                                        deadline |-> Never, reask |-> Never]],
               written' = [l \in kept |-> clock],
               rows' = Without(rows, done),
               hiccups' = IF done = DOMAIN rows \ kept THEN hiccups ELSE hiccups + 1,
               released' = released \cup (DOMAIN rows \ kept)
        PROVE  TypeOK'
    <3>1. hiccups' \in 0..MaxHiccups
      BY <2>3, HiccupType
    <3>2. \A l \in kept : rows[l].created \in Stamps /\ rows[l].last \in Stamps
      BY DEF TypeOK, Row
    <3>3. book' \in [kept -> Lease]
      BY <2>3, <3>2, StampType DEF Lease
    <3>4. written' \in [kept -> Stamps]
      BY <2>3, StampType
    <3>5. rows' \in [DOMAIN rows' -> Row] /\ DOMAIN rows' = DOMAIN rows \ done
      BY <2>3 DEF Without, TypeOK
    <3> QED BY <2>1, <2>3, <3>1, <3>3, <3>4, <3>5 DEF TypeOK
  <2>4. CASE \E back \in SUBSET DOMAIN rows :
                LET kept == {l \in back : DevicesOf[l] \subseteq cards'}
                    gone == DOMAIN rows \ kept IN
                /\ book' = [l \in kept |-> [created |-> rows[l].created, last |-> rows[l].last,
                                            restored |-> TRUE, requested |-> Never,
                                            deadline |-> Never, reask |-> Never]]
                /\ written' = [l \in kept |-> clock]
                /\ \E done \in Accepted(gone) :
                      /\ rows' = Without(rows, done)
                      /\ hiccups' = IF done = gone THEN hiccups ELSE hiccups + 1
                /\ released' = released \cup gone
    BY <2>3, <2>4
  <2> QED BY <1>8, <2>2, <2>4 DEF Restart
<1>9. ASSUME Tick PROVE TypeOK'
  BY <1>9, LeaseBookAssumption DEF Tick, TypeOK
<1>10. CASE UNCHANGED vars
  BY <1>10 DEF vars, TypeOK
<1> QED BY <1>1, <1>2, <1>3, <1>4, <1>5, <1>6, <1>7, <1>8, <1>9, <1>10 DEF Next

\* Every variable keeps its type; the book and the table never hold a claim
\* that was not granted.
THEOREM Typing == Spec => []TypeOK
<1>1. Init => TypeOK
  BY LeaseBookAssumption DEF Init, TypeOK
<1> QED BY <1>1, TypeStep, PTL DEF Spec

-----------------------------------------------------------------------------
\* What a step does to the book.

LEMMA HiccupsGrow == TypeOK /\ [Next]_vars => hiccups <= hiccups'
<1> SUFFICES ASSUME TypeOK, [Next]_vars PROVE hiccups' \in {hiccups, hiccups + 1}
  BY LeaseBookAssumption DEF TypeOK
<1>1. ASSUME NEW l \in Ids, Grant(l) \/ Ask(l) \/ Release(l) \/ Touch(l)
      PROVE  hiccups' \in {hiccups, hiccups + 1}
  BY <1>1 DEF Grant, Ask, Release, Touch, Persist, Forget
<1>2. ASSUME NEW p \in posts, NEW delivered \in BOOLEAN, PostEnds(p, delivered)
      PROVE  hiccups' \in {hiccups, hiccups + 1}
  BY <1>2 DEF PostEnds, Persist
<1>3. ASSUME Sweep \/ Crash \/ Restart \/ Tick \/ UNCHANGED vars
      PROVE  hiccups' \in {hiccups, hiccups + 1}
  BY <1>3 DEF Sweep, Crash, Restart, Tick, vars
<1> QED BY <1>1, <1>2, <1>3 DEF Next

LEMMA BookShrinks ==
    ASSUME TypeOK, [Next]_vars
    PROVE  \/ DOMAIN book' \subseteq DOMAIN book
           \/ \E l \in Ids : Grant(l)
           \/ Restart
<1>1. ASSUME NEW l \in Ids, Ask(l) PROVE DOMAIN book' \subseteq DOMAIN book
  <2>1. {k \in Conflicts(l) : Reaskable(book[k])} \subseteq DOMAIN book
    BY DEF Conflicts
  <2> QED BY <1>1, <2>1 DEF Ask, With
<1>2. ASSUME NEW l \in Ids, Release(l) PROVE DOMAIN book' \subseteq DOMAIN book
  BY <1>2 DEF Release, Without
<1>3. ASSUME NEW l \in Ids, Touch(l) PROVE DOMAIN book' \subseteq DOMAIN book
  BY <1>3 DEF Touch, Touched, Moved, With
<1>4. ASSUME NEW p \in posts, NEW delivered \in BOOLEAN, PostEnds(p, delivered)
      PROVE  DOMAIN book' \subseteq DOMAIN book
  BY <1>4 DEF PostEnds, TypeOK
<1>5. ASSUME Sweep PROVE DOMAIN book' \subseteq DOMAIN book
  <2>1. PICK at \in [DOMAIN book \cap Owned -> 1..clock] :
           book' = Without(Touched(at), {k \in DOMAIN book : Idle(Touched(at)[k].last, k)})
    BY <1>5 DEF Sweep
  <2> QED BY <2>1 DEF Touched, Moved, With, Without
<1>6. ASSUME Crash \/ Tick \/ UNCHANGED vars PROVE DOMAIN book' \subseteq DOMAIN book
  BY <1>6 DEF Crash, Tick, vars
<1> QED BY <1>1, <1>2, <1>3, <1>4, <1>5, <1>6 DEF Next

\* A restart that reads the table: kept is what stands afterwards.
RestartKeeps(back, kept, done) ==
    /\ Restored(back)
    /\ kept = {l \in back : DevicesOf[l] \subseteq cards'}
    /\ book' = [l \in kept |-> [created |-> rows[l].created, last |-> rows[l].last,
                                restored |-> TRUE, requested |-> Never,
                                deadline |-> Never, reask |-> Never]]
    /\ rows' = Without(rows, done)
    /\ hiccups' = IF done = DOMAIN rows \ kept THEN hiccups ELSE hiccups + 1

LEMMA RestartCases ==
    ASSUME TypeOK, Restart
    PROVE  \/ DOMAIN book' = {} /\ hiccups' > 0
           \/ \E back, kept \in SUBSET DOMAIN rows : \E done : RestartKeeps(back, kept, done)
<1>1. CASE book' = [l \in {} |-> Fresh] /\ hiccups' = hiccups + 1
  BY <1>1, LeaseBookAssumption DEF TypeOK
<1>2. ASSUME NEW back \in SUBSET DOMAIN rows, NEW kept, NEW done, RestartKeeps(back, kept, done)
      PROVE  \E b, k \in SUBSET DOMAIN rows : \E d : RestartKeeps(b, k, d)
  <2>1. kept \in SUBSET DOMAIN rows
    BY <1>2 DEF RestartKeeps
  <2> QED BY <1>2, <2>1
<1>3. CASE \E back \in SUBSET DOMAIN rows : \E kept, done : RestartKeeps(back, kept, done)
  BY <1>2, <1>3
<1> QED BY <1>1, <1>3 DEF Restart, RestartKeeps

\* Of two rows on one card, restore() puts the older back.
LEMMA RestoredApart ==
    ASSUME TypeOK, NEW back \in SUBSET DOMAIN rows, Restored(back)
    PROVE  \A k, l \in back : Clash(k, l) => k = l
<1> SUFFICES ASSUME NEW k \in back, NEW l \in back, Clash(k, l), k # l PROVE FALSE
  OBVIOUS
<1>1. Clash(l, k)
  BY DEF Clash
<1>2. rows[k].created \in Nat /\ rows[l].created \in Nat /\ k \in Nat /\ l \in Nat
  BY StampType, LeaseBookAssumption DEF TypeOK, Row
<1>3. Older(k, l) \/ Older(l, k)
  BY <1>2 DEF Older
<1> QED BY <1>1, <1>3 DEF Restored

-----------------------------------------------------------------------------

LEMMA ApartStep == TypeOK /\ CardsApart /\ [Next]_vars => CardsApart'
<1> SUFFICES ASSUME TypeOK, CardsApart, [Next]_vars PROVE CardsApart'
  OBVIOUS
<1>1. CASE DOMAIN book' \subseteq DOMAIN book
  BY <1>1 DEF CardsApart, Clash
<1>2. ASSUME NEW l \in Ids, Grant(l) PROVE CardsApart'
  <2>1. DOMAIN book' = DOMAIN book \cup {l} /\ Conflicts(l) = {}
    BY <1>2 DEF Grant, With
  <2> QED BY <2>1 DEF CardsApart, Conflicts, Clash
<1>3. CASE Restart
  BY <1>3, RestartCases, RestoredApart DEF RestartKeeps, CardsApart, Clash
<1> QED BY <1>1, <1>2, <1>3, BookShrinks

\* No card is leased twice, whatever is granted, released, restored from an
\* overlapping table or refused by the store.
THEOREM NoCardLeasedTwice == Spec => []CardsApart
<1>1. Init => CardsApart
  BY DEF Init, CardsApart
<1> QED BY <1>1, Typing, ApartStep, PTL DEF Spec

-----------------------------------------------------------------------------

(***************************************************************************)
(* While the store has not failed, the table mirrors the book.  To know    *)
(* how far a row may lag behind its lease, follow the clock of the last    *)
(* write: it is the row's own until a vacate mark, which is written too,   *)
(* moves it alone, or a restart.                                           *)
(***************************************************************************)
RowsLag ==
    \A l \in DOMAIN book :
        /\ book[l].requested = Never => book[l].deadline = Never
        /\ hiccups = 0 /\ ~book[l].restored /\ book[l].requested = Never =>
              /\ l \in DOMAIN written /\ written[l] = rows[l].last
              /\ book[l].last <= written[l] + PersistInterval

Synced == Mirrored /\ RowsLag

\* A store that took all of a step's writes.
LEMMA AllWritten ==
    ASSUME TypeOK, NEW S, NEW done \in Accepted(S), NEW at, Persist(S, done, at)
    PROVE  hiccups' = 0 => /\ hiccups = 0
                           /\ rows' = With(rows, S, [k \in S |-> RowOf(book'[k])])
                           /\ written' = With(written, S, at)
BY LeaseBookAssumption DEF Persist, TypeOK

LEMMA SyncGrant ==
    ASSUME TypeOK, Synced, NEW l \in Ids, Grant(l)
    PROVE  Synced'
<1>1. book' = With(book, {l}, [k \in {l} |-> Fresh]) /\ l \notin spent
  BY DEF Grant
<1>2. ASSUME hiccups' = 0
      PROVE  /\ hiccups = 0
             /\ rows' = With(rows, {l}, [k \in {l} |-> RowOf(book'[k])])
             /\ DOMAIN written' = DOMAIN written \cup {l}
             /\ \A k \in DOMAIN written' : written'[k] = IF k = l THEN clock ELSE written[k]
  <2>1. PICK done \in Accepted({l}) : Persist({l}, done, [k \in done |-> clock])
    BY DEF Grant
  <2>2. done = {l}
    BY <1>2, <2>1, LeaseBookAssumption DEF Persist, TypeOK
  <2>3. /\ hiccups = 0
        /\ rows' = With(rows, {l}, [k \in {l} |-> RowOf(book'[k])])
        /\ written' = With(written, {l}, [k \in {l} |-> clock])
    BY <1>2, <2>1, <2>2, AllWritten
  <2> QED BY <2>3 DEF With
<1>3. /\ DOMAIN book' = DOMAIN book \cup {l} /\ book'[l] = Fresh
      /\ \A k \in DOMAIN book : book'[k] = book[k] /\ k # l
  BY <1>1 DEF With, TypeOK
<1>4. ASSUME hiccups' = 0
      PROVE  /\ DOMAIN rows' = DOMAIN rows \cup {l} /\ rows'[l] = RowOf(Fresh)
             /\ \A k \in DOMAIN rows \ {l} : rows'[k] = rows[k]
  BY <1>2, <1>3, <1>4 DEF With
<1>5. Mirrored'
  <2> SUFFICES ASSUME hiccups' = 0
               PROVE  /\ DOMAIN rows' = DOMAIN book'
                      /\ \A k \in DOMAIN rows' : rows'[k].last <= book'[k].last
    BY DEF Mirrored
  <2>1. DOMAIN rows = DOMAIN book /\ \A k \in DOMAIN rows : rows[k].last <= book[k].last
    BY <1>2 DEF Synced, Mirrored
  <2>2. rows'[l].last <= book'[l].last
    BY <1>3, <1>4, StampType DEF RowOf, Fresh
  <2> QED BY <1>3, <1>4, <2>1, <2>2
<1>6. RowsLag'
  BY <1>2, <1>3, <1>4, StampType, LeaseBookAssumption DEF Synced, Mirrored, RowsLag, RowOf, Fresh
<1> QED BY <1>5, <1>6 DEF Synced

LEMMA SyncAsk ==
    ASSUME TypeOK, Synced, NEW l \in Ids, Ask(l)
    PROVE  Synced'
<1> DEFINE asked == {k \in Conflicts(l) : Reaskable(book[k])}
           marks == [k \in asked |-> [book[k] EXCEPT !.requested = clock,
                                                     !.deadline = clock + Window,
                                                     !.reask = clock + 2 * Window]]
<1>1. asked \subseteq DOMAIN book
  BY DEF Conflicts
<1>2. \A k \in asked : book[k] \in Lease
  BY <1>1 DEF TypeOK
<1>3. \A k \in asked : /\ marks[k].last = book[k].last
                       /\ marks[k].requested = clock
  BY <1>2 DEF Lease
<1>4. book' = With(book, asked, marks)
  BY DEF Ask
<1>5. PICK done \in Accepted(asked) : Persist(asked, done, [k \in done |-> clock])
  BY DEF Ask
<1> HIDE DEF asked, marks
<1>6. /\ DOMAIN book' = DOMAIN book
      /\ \A k \in DOMAIN book : book'[k] = IF k \in asked THEN marks[k] ELSE book[k]
  BY <1>1, <1>4 DEF With
<1>7. clock # Never
  BY LeaseBookAssumption DEF TypeOK, Never
<1>8. ASSUME hiccups' = 0
      PROVE  /\ hiccups = 0
             /\ rows' = With(rows, asked, [k \in asked |-> RowOf(book'[k])])
             /\ written' = With(written, asked, [k \in asked |-> clock])
  <2>1. done = asked
    BY <1>5, <1>8, LeaseBookAssumption DEF Persist, TypeOK
  <2> QED BY <1>5, <1>8, <2>1, AllWritten
<1>9. Mirrored'
  <2> SUFFICES ASSUME hiccups' = 0
               PROVE  /\ DOMAIN rows' = DOMAIN book'
                      /\ \A k \in DOMAIN rows' : rows'[k].last <= book'[k].last
    BY DEF Mirrored
  <2>1. DOMAIN rows = DOMAIN book /\ \A k \in DOMAIN rows : rows[k].last <= book[k].last
    BY <1>8 DEF Synced, Mirrored
  <2>2. /\ DOMAIN rows' = DOMAIN book
        /\ \A k \in DOMAIN book : rows'[k] = IF k \in asked THEN RowOf(book'[k]) ELSE rows[k]
    BY <1>1, <1>8, <2>1 DEF With
  <2>3. \A k \in asked : RowOf(book'[k]).last = book[k].last /\ book[k].last \in Nat
    BY <1>1, <1>2, <1>3, <1>6, StampType DEF RowOf, Lease
  <2> QED BY <1>3, <1>6, <2>1, <2>2, <2>3
<1>10. RowsLag'
  <2> SUFFICES ASSUME NEW k \in DOMAIN book
               PROVE  /\ book'[k].requested = Never => book'[k].deadline = Never
                      /\ hiccups' = 0 /\ ~book'[k].restored /\ book'[k].requested = Never =>
                            /\ k \in DOMAIN written' /\ written'[k] = rows'[k].last
                            /\ book'[k].last <= written'[k] + PersistInterval
    BY <1>6 DEF RowsLag
  <2>1. CASE k \in asked
    BY <1>3, <1>6, <1>7, <2>1
  <2>2. CASE k \notin asked
    BY <1>6, <1>8, <2>2 DEF Synced, Mirrored, RowsLag, With
  <2> QED BY <2>1, <2>2
<1> QED BY <1>9, <1>10 DEF Synced

LEMMA SyncRelease ==
    ASSUME TypeOK, Synced, NEW l \in Ids, Release(l)
    PROVE  Synced'
<1>1. PICK done \in Accepted({l}) : Forget({l}, done)
  BY DEF Release
<1>2. DOMAIN book' = DOMAIN book \ {l} /\ \A k \in DOMAIN book' : book'[k] = book[k]
  BY DEF Release, Without
<1>3. DOMAIN written' = DOMAIN written \ {l} /\ \A k \in DOMAIN written' : written'[k] = written[k]
  BY <1>1 DEF Forget, Without
<1>4. ASSUME hiccups' = 0
      PROVE  /\ hiccups = 0
             /\ DOMAIN rows' = DOMAIN rows \ {l}
             /\ \A k \in DOMAIN rows' : rows'[k] = rows[k]
  <2>1. done = {l} /\ hiccups = 0
    BY <1>1, <1>4, LeaseBookAssumption DEF Forget, TypeOK
  <2> QED BY <1>1, <2>1 DEF Forget, Without
<1>5. Mirrored'
  BY <1>2, <1>4 DEF Synced, Mirrored
<1>6. RowsLag'
  BY <1>2, <1>3, <1>4 DEF Synced, Mirrored, RowsLag
<1> QED BY <1>5, <1>6 DEF Synced

LEMMA SyncTouch ==
    ASSUME TypeOK, Synced, NEW l \in Ids, Touch(l)
    PROVE  Synced'
<1> DEFINE at == [k \in {l} |-> clock]
<1>1. l \in DOMAIN book /\ Moved(at) # {} /\ book' = Touched(at)
  BY DEF Touch
<1>2. PICK done \in Accepted(Due(at)) : Persist(Due(at), done, at)
  BY DEF Touch
<1>3. Moved(at) = {l} /\ Due(at) \subseteq {l}
  BY <1>1 DEF Moved, Due
<1>4. /\ DOMAIN book' = DOMAIN book /\ book'[l] = [book[l] EXCEPT !.last = clock]
      /\ \A k \in DOMAIN book \ {l} : book'[k] = book[k]
  BY <1>1, <1>3 DEF Touched, With
<1>5. /\ book'[l].last = clock /\ book'[l].requested = book[l].requested
      /\ book'[l].deadline = book[l].deadline /\ book'[l].restored = book[l].restored
      /\ book[l].last \in Nat /\ clock \in Nat
  BY <1>1, <1>4, StampType DEF TypeOK, Lease
<1>6. book[l].last < clock
  BY <1>1, <1>3 DEF Moved
<1>7. ASSUME hiccups' = 0
      PROVE  /\ hiccups = 0
             /\ DOMAIN rows' = DOMAIN rows \cup Due(at)
             /\ \A k \in DOMAIN rows' : rows'[k] = IF k \in Due(at) THEN RowOf(book'[k]) ELSE rows[k]
             /\ DOMAIN written' = DOMAIN written \cup Due(at)
             /\ \A k \in DOMAIN written' : written'[k] = IF k \in Due(at) THEN clock ELSE written[k]
  <2>1. /\ hiccups = 0
        /\ rows' = With(rows, Due(at), [k \in Due(at) |-> RowOf(book'[k])])
        /\ written' = With(written, Due(at), at)
    BY <1>2, <1>7, AllWritten
  <2> QED BY <1>3, <2>1 DEF With
<1>8. Mirrored'
  <2> SUFFICES ASSUME hiccups' = 0
               PROVE  /\ DOMAIN rows' = DOMAIN book'
                      /\ \A k \in DOMAIN rows' : rows'[k].last <= book'[k].last
    BY DEF Mirrored
  <2>1. DOMAIN rows = DOMAIN book /\ \A k \in DOMAIN rows : rows[k].last <= book[k].last
    BY <1>7 DEF Synced, Mirrored
  <2>2. DOMAIN rows' = DOMAIN book'
    BY <1>1, <1>3, <1>4, <1>7, <2>1
  <2>3. ASSUME NEW k \in DOMAIN book \ {l} PROVE rows'[k].last <= book'[k].last
    BY <1>3, <1>4, <1>7, <2>1
  <2>4. rows'[l].last <= book'[l].last
    <3>1. rows[l].last \in Nat /\ rows[l].last <= book[l].last
      BY <1>1, <2>1, StampType DEF TypeOK, Row
    <3>2. RowOf(book'[l]).last = clock
      BY <1>5 DEF RowOf
    <3> QED BY <1>1, <1>5, <1>6, <1>7, <2>1, <3>1, <3>2
  <2> QED BY <1>4, <2>2, <2>3, <2>4
<1>9. RowsLag'
  <2> SUFFICES ASSUME NEW k \in DOMAIN book
               PROVE  /\ book'[k].requested = Never => book'[k].deadline = Never
                      /\ hiccups' = 0 /\ ~book'[k].restored /\ book'[k].requested = Never =>
                            /\ k \in DOMAIN written' /\ written'[k] = rows'[k].last
                            /\ book'[k].last <= written'[k] + PersistInterval
    BY <1>4 DEF RowsLag
  <2>1. CASE k # l
    BY <1>3, <1>4, <1>7, <2>1 DEF Synced, Mirrored, RowsLag
  <2>2. CASE k = l
    <3>1. book'[l].requested = Never => book'[l].deadline = Never
      BY <1>1, <1>5 DEF Synced, RowsLag
    <3> SUFFICES ASSUME hiccups' = 0, ~book'[l].restored, book'[l].requested = Never
                 PROVE  /\ l \in DOMAIN written' /\ written'[l] = rows'[l].last
                        /\ book'[l].last <= written'[l] + PersistInterval
      BY <2>2, <3>1
    <3>2. /\ l \in DOMAIN written /\ written[l] = rows[l].last
          /\ l \in DOMAIN rows /\ written[l] \in Nat
      BY <1>1, <1>5, <1>7, StampType DEF Synced, Mirrored, RowsLag, TypeOK
    <3>3. CASE l \in Due(at)
      <4>1. RowOf(book'[l]).last = clock
        BY <1>5 DEF RowOf
      <4> QED BY <1>5, <1>7, <3>2, <3>3, <4>1, LeaseBookAssumption
    <3>4. CASE l \notin Due(at)
      <4>1. clock < written[l] + PersistInterval
        BY <1>3, <1>5, <3>2, <3>4, LeaseBookAssumption DEF Due
      <4> QED BY <1>5, <1>7, <3>2, <3>4, <4>1, LeaseBookAssumption
    <3> QED BY <3>3, <3>4
  <2> QED BY <2>1, <2>2
<1> QED BY <1>8, <1>9 DEF Synced

LEMMA SyncPostEnds ==
    ASSUME TypeOK, Synced, NEW p \in posts, NEW delivered \in BOOLEAN, PostEnds(p, delivered)
    PROVE  Synced'
<1>1. CASE UNCHANGED <<book, rows, written, hiccups>>
  BY <1>1 DEF Synced, Mirrored, RowsLag
<1>2. ASSUME NEW l, l = p.lease, l \in DOMAIN book, book[l].deadline # Never,
             book' = (IF delivered THEN book
                      ELSE [book EXCEPT ![l].deadline = IF clock < @ THEN clock ELSE @,
                                        ![l].reask = clock + Window]),
             NEW done \in Accepted({l}), Persist({l}, done, [j \in done |-> clock])
      PROVE  Synced'
  <2>1. book[l] \in Lease
    BY <1>2 DEF TypeOK
  <2>2. /\ DOMAIN book' = DOMAIN book
        /\ book'[l].last = book[l].last /\ book'[l].requested = book[l].requested
        /\ \A k \in DOMAIN book \ {l} : book'[k] = book[k]
    BY <1>2, <2>1 DEF TypeOK, Lease
  <2>3. book[l].requested # Never /\ book[l].last \in Nat
    BY <1>2, <2>1, StampType DEF Synced, RowsLag, Lease
  <2>4. ASSUME hiccups' = 0
        PROVE  /\ hiccups = 0
               /\ DOMAIN rows' = DOMAIN rows \cup {l}
               /\ \A k \in DOMAIN rows' : rows'[k] = IF k = l THEN RowOf(book'[l]) ELSE rows[k]
               /\ DOMAIN written' = DOMAIN written \cup {l}
               /\ \A k \in DOMAIN written' \ {l} : written'[k] = written[k]
    <3>1. done = {l}
      BY <1>2, <2>4, LeaseBookAssumption DEF Persist, TypeOK
    <3>2. /\ hiccups = 0
          /\ rows' = With(rows, {l}, [k \in {l} |-> RowOf(book'[k])])
          /\ written' = With(written, {l}, [k \in {l} |-> clock])
      BY <1>2, <2>4, <3>1, AllWritten
    <3> QED BY <3>2 DEF With
  <2>5. Mirrored'
    <3> SUFFICES ASSUME hiccups' = 0
                 PROVE  /\ DOMAIN rows' = DOMAIN book'
                        /\ \A k \in DOMAIN rows' : rows'[k].last <= book'[k].last
      BY DEF Mirrored
    <3>1. DOMAIN rows = DOMAIN book /\ \A k \in DOMAIN rows : rows[k].last <= book[k].last
      BY <2>4 DEF Synced, Mirrored
    <3>2. RowOf(book'[l]).last = book'[l].last
      BY DEF RowOf
    <3>3. DOMAIN rows' = DOMAIN book'
      BY <1>2, <2>2, <2>4, <3>1
    <3>4. rows'[l].last <= book'[l].last
      BY <1>2, <2>2, <2>3, <2>4, <3>2
    <3>5. \A k \in DOMAIN rows' \ {l} : rows'[k].last <= book'[k].last
      BY <2>2, <2>4, <3>1, <3>3
    <3> QED BY <3>3, <3>4, <3>5
  <2>6. RowsLag'
    BY <1>2, <2>2, <2>3, <2>4 DEF Synced, Mirrored, RowsLag
  <2> QED BY <2>5, <2>6 DEF Synced
<1> QED BY <1>1, <1>2 DEF PostEnds

LEMMA SyncSweep ==
    ASSUME TypeOK, Synced, Sweep
    PROVE  Synced'
<1>1. PICK at \in [DOMAIN book \cap Owned -> 1..clock] :
         LET now == Touched(at)
             gone == {k \in DOMAIN book : Idle(now[k].last, k)} IN
         /\ book' = Without(now, gone)
         /\ \E put \in Accepted(Due(at)), cut \in Accepted(gone) :
               /\ rows' = Without(With(rows, put, [k \in put |-> RowOf(now[k])]), cut)
               /\ written' = Without(With(written, put, at), gone)
               /\ hiccups' = IF put = Due(at) /\ cut = gone THEN hiccups ELSE hiccups + 1
  BY DEF Sweep
<1> DEFINE now == Touched(at)
           gone == {k \in DOMAIN book : Idle(now[k].last, k)}
<1>2. book' = Without(now, gone)
  BY <1>1
<1>3. ASSUME hiccups' = 0
      PROVE  /\ hiccups = 0
             /\ rows' = Without(With(rows, Due(at), [k \in Due(at) |-> RowOf(now[k])]), gone)
             /\ written' = Without(With(written, Due(at), at), gone)
  <2>1. PICK put \in Accepted(Due(at)), cut \in Accepted(gone) :
           /\ rows' = Without(With(rows, put, [k \in put |-> RowOf(now[k])]), cut)
           /\ written' = Without(With(written, put, at), gone)
           /\ hiccups' = IF put = Due(at) /\ cut = gone THEN hiccups ELSE hiccups + 1
    BY <1>1
  <2>2. put = Due(at) /\ cut = gone /\ hiccups = 0
    BY <1>3, <2>1, LeaseBookAssumption DEF TypeOK
  <2> QED BY <2>1, <2>2
<1>4. /\ Due(at) \subseteq Moved(at) /\ Moved(at) \subseteq DOMAIN book
      /\ \A k \in Moved(at) : at[k] \in Nat /\ at[k] > book[k].last
  BY LeaseBookAssumption DEF Due, Moved, TypeOK
<1>5. /\ DOMAIN now = DOMAIN book
      /\ \A k \in DOMAIN book :
            now[k] = IF k \in Moved(at) THEN [book[k] EXCEPT !.last = at[k]] ELSE book[k]
  BY <1>4 DEF Touched, With
<1>6. \A k \in DOMAIN book :
         /\ book[k].last \in Nat
         /\ now[k].last = IF k \in Moved(at) THEN at[k] ELSE book[k].last
         /\ now[k].requested = book[k].requested /\ now[k].deadline = book[k].deadline
         /\ now[k].restored = book[k].restored
  BY <1>5, StampType DEF TypeOK, Lease
<1>7. /\ DOMAIN book' = DOMAIN book \ gone
      /\ \A k \in DOMAIN book' : book'[k] = now[k]
  BY <1>2, <1>5 DEF Without
<1> HIDE DEF now, gone
<1>8. ASSUME hiccups' = 0
      PROVE  /\ hiccups = 0
             /\ DOMAIN rows' = (DOMAIN rows \cup Due(at)) \ gone
             /\ \A k \in DOMAIN rows' : rows'[k] = IF k \in Due(at) THEN RowOf(now[k]) ELSE rows[k]
             /\ DOMAIN written' = (DOMAIN written \cup Due(at)) \ gone
             /\ \A k \in DOMAIN written' : written'[k] = IF k \in Due(at) THEN at[k] ELSE written[k]
  BY <1>3, <1>8 DEF With, Without
<1>9. \A k \in Due(at) : RowOf(now[k]).last = at[k]
  BY <1>4, <1>6 DEF RowOf
<1>10. Mirrored'
  <2> SUFFICES ASSUME hiccups' = 0
               PROVE  /\ DOMAIN rows' = DOMAIN book'
                      /\ \A k \in DOMAIN rows' : rows'[k].last <= book'[k].last
    BY DEF Mirrored
  <2>1. DOMAIN rows = DOMAIN book /\ \A k \in DOMAIN rows : rows[k].last <= book[k].last
    BY <1>8 DEF Synced, Mirrored
  <2>2. DOMAIN rows' = DOMAIN book'
    BY <1>4, <1>7, <1>8, <2>1
  <2>3. ASSUME NEW k \in DOMAIN rows' PROVE rows'[k].last <= book'[k].last
    <3>1. CASE k \in Due(at)
      BY <1>4, <1>6, <1>7, <1>8, <1>9, <2>2, <2>3, <3>1
    <3>2. CASE k \notin Due(at)
      <4>1. rows'[k] = rows[k] /\ book'[k] = now[k] /\ k \in DOMAIN book
        BY <1>7, <1>8, <2>2, <2>3, <3>2
      <4>2. rows[k].last \in Nat /\ rows[k].last <= book[k].last
        BY <2>1, <4>1, StampType DEF TypeOK, Row
      <4> QED BY <1>4, <1>6, <4>1, <4>2
    <3> QED BY <3>1, <3>2
  <2> QED BY <2>2, <2>3
<1>11. RowsLag'
  <2> SUFFICES ASSUME NEW k \in DOMAIN book'
               PROVE  /\ book'[k].requested = Never => book'[k].deadline = Never
                      /\ hiccups' = 0 /\ ~book'[k].restored /\ book'[k].requested = Never =>
                            /\ k \in DOMAIN written' /\ written'[k] = rows'[k].last
                            /\ book'[k].last <= written'[k] + PersistInterval
    BY DEF RowsLag
  <2>1. k \in DOMAIN book /\ k \notin gone /\ book'[k] = now[k]
    BY <1>7
  <2>2. book'[k].requested = Never => book'[k].deadline = Never
    BY <1>6, <2>1 DEF Synced, RowsLag
  <2> SUFFICES ASSUME hiccups' = 0, ~book'[k].restored, book'[k].requested = Never
               PROVE  /\ k \in DOMAIN written' /\ written'[k] = rows'[k].last
                      /\ book'[k].last <= written'[k] + PersistInterval
    BY <2>2
  <2>3. /\ k \in DOMAIN written /\ written[k] = rows[k].last /\ k \in DOMAIN rows
        /\ book[k].last <= written[k] + PersistInterval /\ written[k] \in Nat
    BY <1>6, <1>8, <2>1, StampType DEF Synced, Mirrored, RowsLag, TypeOK
  <2>4. k \in DOMAIN written' /\ k \in DOMAIN rows'
    BY <1>8, <2>1, <2>3
  <2>5. CASE k \in Due(at)
    BY <1>4, <1>6, <1>8, <1>9, <2>1, <2>4, <2>5, LeaseBookAssumption
  <2>6. CASE k \notin Due(at)
    <3>1. written'[k] = written[k] /\ rows'[k] = rows[k]
      BY <1>8, <2>4, <2>6
    <3>2. CASE k \in Moved(at)
      <4>1. at[k] < written[k] + PersistInterval
        BY <1>4, <2>3, <2>6, <3>2, LeaseBookAssumption DEF Due
      <4> QED BY <1>4, <1>6, <2>1, <2>3, <2>4, <3>1, <3>2, <4>1, LeaseBookAssumption
    <3>3. CASE k \notin Moved(at)
      BY <1>6, <2>1, <2>3, <2>4, <3>1, <3>3
    <3> QED BY <3>2, <3>3
  <2> QED BY <2>5, <2>6
<1> QED BY <1>10, <1>11 DEF Synced

LEMMA SyncRestart ==
    ASSUME TypeOK, Restart
    PROVE  Synced'
<1>1. CASE DOMAIN book' = {} /\ hiccups' > 0
  BY <1>1 DEF Synced, Mirrored, RowsLag
<1>2. ASSUME NEW back \in SUBSET DOMAIN rows, NEW kept \in SUBSET DOMAIN rows, NEW done,
             RestartKeeps(back, kept, done)
      PROVE  Synced'
  <2>1. /\ DOMAIN book' = kept
        /\ \A l \in kept : /\ book'[l].last = rows[l].last /\ book'[l].restored
                           /\ book'[l].requested = Never /\ book'[l].deadline = Never
                           /\ rows[l].last \in Nat
    BY <1>2, StampType DEF RestartKeeps, TypeOK, Row
  <2>2. ASSUME hiccups' = 0
        PROVE  DOMAIN rows' = kept /\ \A l \in kept : rows'[l] = rows[l]
    <3>1. done = DOMAIN rows \ kept
      BY <1>2, <2>2, LeaseBookAssumption DEF RestartKeeps, TypeOK
    <3> QED BY <1>2, <3>1 DEF RestartKeeps, Without
  <2>3. Mirrored'
    BY <2>1, <2>2 DEF Mirrored
  <2>4. RowsLag'
    BY <2>1 DEF RowsLag
  <2> QED BY <2>3, <2>4 DEF Synced
<1> QED BY <1>1, <1>2, RestartCases

LEMMA SyncStep == TypeOK /\ Synced /\ [Next]_vars => Synced'
<1> SUFFICES ASSUME TypeOK, Synced, [Next]_vars PROVE Synced'
  OBVIOUS
<1>1. CASE Crash \/ Tick \/ UNCHANGED vars
  BY <1>1 DEF Crash, Tick, vars, Synced, Mirrored, RowsLag
<1> QED BY <1>1, SyncGrant, SyncAsk, SyncRelease, SyncTouch, SyncPostEnds, SyncSweep, SyncRestart
        DEF Next

LEMMA AlwaysSynced == Spec => []Synced
<1>1. Init => Synced
  BY DEF Init, Synced, Mirrored, RowsLag
<1> QED BY <1>1, Typing, SyncStep, PTL DEF Spec

\* The table has a row for each standing lease and no other, none with a
\* younger activity clock, as long as the store has not failed.
THEOREM TableMirrorsBook == Spec => []Mirrored
<1>1. Synced => Mirrored
  BY DEF Synced
<1> QED BY <1>1, AlwaysSynced, PTL

\* A card passes from one lease to another only after a release: not by a
\* claim, and not by a restart, which has no other rows than what stood.
THEOREM NoTakeover == Spec => NeverTakenOver
<1> DEFINE Kept == hiccups' = 0 => \A k \in DOMAIN book, l \in DOMAIN book' : Clash(k, l) => k = l
<1>1. ASSUME TypeOK, Synced, CardsApart, [Next]_vars PROVE Kept
  <2>1. CASE DOMAIN book' \subseteq DOMAIN book
    BY <1>1, <2>1 DEF CardsApart
  <2>2. ASSUME NEW l \in Ids, Grant(l) PROVE Kept
    <3>1. DOMAIN book' = DOMAIN book \cup {l} /\ Conflicts(l) = {}
      BY <2>2 DEF Grant, With
    <3> QED BY <1>1, <3>1 DEF CardsApart, Conflicts, Clash
  <2>3. CASE Restart
    <3>1. CASE DOMAIN book' = {}
      BY <3>1
    <3>2. ASSUME hiccups' = 0,
                 NEW back \in SUBSET DOMAIN rows, NEW kept \in SUBSET DOMAIN rows, NEW done,
                 RestartKeeps(back, kept, done)
          PROVE  Kept
      <4>1. hiccups = 0
        BY <1>1, <3>2, HiccupsGrow, LeaseBookAssumption DEF TypeOK
      <4>2. DOMAIN book' \subseteq DOMAIN book
        BY <1>1, <3>2, <4>1 DEF RestartKeeps, Synced, Mirrored
      <4> QED BY <1>1, <4>2 DEF CardsApart
    <3> QED BY <1>1, <2>3, <3>1, <3>2, RestartCases
  <2> QED BY <1>1, <2>1, <2>2, <2>3, BookShrinks
<1>2. TypeOK /\ Synced /\ CardsApart /\ [Next]_vars => [Kept]_vars
  BY <1>1
<1> QED BY <1>2, Typing, AlwaysSynced, NoCardLeasedTwice, PTL DEF Spec, NeverTakenOver

\* A holder that kept in touch, and was not asked to leave, has its lease again
\* after a restart: its row lags by less than the slack, nobody else has a row
\* on its cards, and so restore() takes it back.
THEOREM HoldersComeBack == Spec => HolderKeepsItsCard
<1> DEFINE Entitled(l) == /\ DevicesOf[l] \subseteq cards'
                          /\ ~book[l].restored /\ book[l].requested = Never
                          /\ TtlOf[l] = 0 \/ clock + PersistInterval < book[l].last + TtlOf[l]
           Back == ~up /\ up' /\ hiccups' = 0 =>
                      \A l \in DOMAIN book \ Own : Entitled(l) => l \in DOMAIN book'
<1>1. ASSUME TypeOK, Synced, CardsApart, [Next]_vars PROVE Back
  <2> SUFFICES ASSUME ~up, up', hiccups' = 0, NEW l \in DOMAIN book \ Own, Entitled(l)
               PROVE  l \in DOMAIN book'
    OBVIOUS
  <2>1. Restart
    BY <1>1 DEF Next, Grant, Ask, Release, Touch, PostEnds, Sweep, Crash, Tick, vars
  <2>2. PICK back \in SUBSET DOMAIN rows, kept \in SUBSET DOMAIN rows :
           \E done : RestartKeeps(back, kept, done)
    BY <1>1, <2>1, RestartCases
  <2>3. hiccups = 0
    BY <1>1, HiccupsGrow, LeaseBookAssumption DEF TypeOK
  <2>4. DOMAIN rows = DOMAIN book
    BY <1>1, <2>3 DEF Synced, Mirrored
  <2>5. ~Idle(rows[l].last, l)
    <3>1. rows[l].last = written[l] /\ book[l].last <= written[l] + PersistInterval
      BY <1>1, <2>3 DEF Synced, RowsLag
    <3>2. book[l].last \in Nat /\ rows[l].last \in Nat /\ TtlOf[l] \in Nat /\ clock \in Nat
      BY <1>1, <2>4, StampType, LeaseBookAssumption DEF TypeOK, Lease, Row
    <3> QED BY <3>1, <3>2, LeaseBookAssumption DEF Idle
  <2>6. \A k \in back : Clash(k, l) => k = l
    BY <1>1, <2>4 DEF CardsApart
  <2>7. ~Older(l, l)
    <3>1. rows[l].created \in Nat /\ l \in Nat
      BY <1>1, <2>4, StampType, LeaseBookAssumption DEF TypeOK, Row
    <3> QED BY <3>1 DEF Older
  <2>8. l \in back
    BY <2>2, <2>4, <2>5, <2>6, <2>7 DEF RestartKeeps, Restored
  <2> QED BY <2>2, <2>8 DEF RestartKeeps
<1>2. TypeOK /\ Synced /\ CardsApart /\ [Next]_vars => [Back]_vars
  BY <1>1
<1> QED BY <1>2, Typing, AlwaysSynced, NoCardLeasedTwice, PTL DEF Spec, HolderKeepsItsCard

-----------------------------------------------------------------------------

(***************************************************************************)
(* A POST ends before its window and the pause after it do, if its timeout *)
(* is shorter than both together; until then its holder is not asked again.*)
(***************************************************************************)
OneAskAtATime ==
    /\ ~up => posts = {}
    /\ \A p \in posts :
          /\ clock <= p.at + CallbackTimeout
          /\ p.lease \in DOMAIN book =>
                /\ book[p.lease].requested = p.at
                /\ book[p.lease].deadline # Never
                /\ book[p.lease].reask = p.at + 2 * Window

LEMMA AskStep ==
    ASSUME CallbackTimeout < 2 * Window, TypeOK, OneAskAtATime, [Next]_vars
    PROVE  OneAskAtATime'
<1>1. ASSUME NEW l \in Ids, Grant(l) PROVE OneAskAtATime'
  <2>1. \A k \in DOMAIN book : k # l /\ book'[k] = book[k]
    BY <1>1 DEF Grant, With, TypeOK
  <2>2. DOMAIN book' = DOMAIN book \cup {l} /\ \A p \in posts : p.lease # l
    BY <1>1 DEF Grant, With, TypeOK
  <2>3. UNCHANGED <<clock, up, posts>>
    BY <1>1 DEF Grant
  <2> QED BY <2>1, <2>2, <2>3 DEF OneAskAtATime
<1>2. ASSUME NEW l \in Ids, Ask(l) PROVE OneAskAtATime'
  <2> DEFINE asked == {k \in Conflicts(l) : Reaskable(book[k])}
             marks == [k \in asked |-> [book[k] EXCEPT !.requested = clock,
                                                       !.deadline = clock + Window,
                                                       !.reask = clock + 2 * Window]]
  <2>1. /\ asked \subseteq DOMAIN book /\ book' = With(book, asked, marks)
        /\ posts' = posts \cup {[lease |-> k, at |-> clock] : k \in asked}
        /\ UNCHANGED <<clock, up>> /\ up
    BY <1>2 DEF Ask, Conflicts
  <2>2. clock \in Nat /\ clock + Window # Never
    BY StampType, LeaseBookAssumption DEF Never
  <2>3. \A k \in asked : /\ marks[k].requested = clock /\ marks[k].deadline # Never
                         /\ marks[k].reask = clock + 2 * Window
    <3>1. \A k \in asked : book[k] \in Lease
      BY <2>1 DEF TypeOK
    <3> QED BY <2>2, <3>1 DEF Lease
  <2>4. \A p \in posts : p.lease \notin asked
    <3> SUFFICES ASSUME NEW p \in posts, p.lease \in asked PROVE FALSE
      OBVIOUS
    <3>1. clock >= p.at + 2 * Window
      BY <2>1 DEF Reaskable, OneAskAtATime
    <3>2. clock <= p.at + CallbackTimeout /\ p.at \in Nat
      BY DEF OneAskAtATime, TypeOK
    <3> QED BY <2>2, <3>1, <3>2, LeaseBookAssumption
  <2> HIDE DEF asked, marks
  <2>5. /\ DOMAIN book' = DOMAIN book
        /\ \A k \in DOMAIN book : book'[k] = IF k \in asked THEN marks[k] ELSE book[k]
    BY <2>1 DEF With
  <2>6. ASSUME NEW p \in posts'
        PROVE  /\ clock' <= p.at + CallbackTimeout
               /\ p.lease \in DOMAIN book' =>
                     /\ book'[p.lease].requested = p.at
                     /\ book'[p.lease].deadline # Never
                     /\ book'[p.lease].reask = p.at + 2 * Window
    <3>1. CASE p \in posts
      BY <2>1, <2>4, <2>5, <3>1 DEF OneAskAtATime
    <3>2. ASSUME NEW k \in asked, p = [lease |-> k, at |-> clock]
          PROVE  /\ clock' <= p.at + CallbackTimeout
                 /\ p.lease \in DOMAIN book' =>
                       /\ book'[p.lease].requested = p.at
                       /\ book'[p.lease].deadline # Never
                       /\ book'[p.lease].reask = p.at + 2 * Window
      BY <2>1, <2>2, <2>3, <2>5, <3>2, LeaseBookAssumption
    <3> QED BY <2>1, <3>1, <3>2
  <2> QED BY <2>1, <2>6 DEF OneAskAtATime
<1>3. ASSUME NEW p \in posts, NEW delivered \in BOOLEAN, PostEnds(p, delivered)
      PROVE  OneAskAtATime'
  <2>1. posts' = posts \ {p} /\ UNCHANGED <<clock, up>> /\ up
    BY <1>3 DEF PostEnds
  <2>2. DOMAIN book' = DOMAIN book /\ \A k \in DOMAIN book \ {p.lease} : book'[k] = book[k]
    BY <1>3 DEF PostEnds, TypeOK
  <2>3. ASSUME NEW q \in posts, q # p, q.lease \in DOMAIN book PROVE q.lease # p.lease
    <3> SUFFICES ASSUME q.lease = p.lease PROVE FALSE
      OBVIOUS
    <3>1. q.at = p.at
      BY <2>3 DEF OneAskAtATime
    <3>2. /\ q \in [lease : spent, at : 1..MaxClock]
          /\ p \in [lease : spent, at : 1..MaxClock]
      BY DEF TypeOK
    <3> QED BY <2>3, <3>1, <3>2
  <2> QED BY <2>1, <2>2, <2>3 DEF OneAskAtATime
<1>4. ASSUME NEW l \in Ids, Release(l) PROVE OneAskAtATime'
  BY <1>4 DEF Release, Without, OneAskAtATime
<1>5. ASSUME NEW at, Moved(at) \subseteq DOMAIN book, NEW gone,
             book' = Without(Touched(at), gone), UNCHANGED <<clock, up, posts>>
      PROVE  OneAskAtATime'
  <2>1. DOMAIN book' = DOMAIN book \ gone
    BY <1>5 DEF Without, Touched, With
  <2>2. ASSUME NEW k \in DOMAIN book'
        PROVE  /\ book'[k].requested = book[k].requested /\ book'[k].deadline = book[k].deadline
               /\ book'[k].reask = book[k].reask
    <3>1. book[k] \in Lease
      BY <2>1 DEF TypeOK
    <3>2. book'[k] = IF k \in Moved(at) THEN [book[k] EXCEPT !.last = at[k]] ELSE book[k]
      BY <1>5, <2>1 DEF Without, Touched, With
    <3> QED BY <3>1, <3>2 DEF Lease
  <2> QED BY <1>5, <2>1, <2>2 DEF OneAskAtATime
<1>6. ASSUME NEW l \in Ids, Touch(l) PROVE OneAskAtATime'
  <2> DEFINE at == [k \in {l} |-> clock]
  <2>1. l \in DOMAIN book /\ book' = Touched(at) /\ UNCHANGED <<clock, up, posts>>
    BY <1>6 DEF Touch
  <2>2. Moved(at) \subseteq DOMAIN book
    BY <2>1 DEF Moved
  <2>3. Touched(at) = Without(Touched(at), {})
    BY DEF Touched, With, Without
  <2> QED BY <1>5, <2>1, <2>2, <2>3
<1>7. ASSUME Sweep PROVE OneAskAtATime'
  <2>1. PICK at \in [DOMAIN book \cap Owned -> 1..clock] :
           book' = Without(Touched(at), {k \in DOMAIN book : Idle(Touched(at)[k].last, k)})
    BY <1>7 DEF Sweep
  <2>2. Moved(at) \subseteq DOMAIN book
    BY DEF Moved
  <2> QED BY <1>5, <1>7, <2>1, <2>2 DEF Sweep
<1>8. ASSUME Crash \/ Restart PROVE OneAskAtATime'
  BY <1>8 DEF Crash, Restart, OneAskAtATime
<1>9. ASSUME Tick PROVE OneAskAtATime'
  <2>1. /\ UNCHANGED <<up, book, posts>> /\ clock' = clock + 1
        /\ \A p \in posts : clock < p.at + CallbackTimeout /\ p.at \in Nat
    BY <1>9 DEF Tick, TypeOK
  <2>2. clock \in Nat
    BY StampType
  <2> QED BY <2>1, <2>2, LeaseBookAssumption DEF OneAskAtATime
<1>10. CASE UNCHANGED vars
  BY <1>10 DEF vars, OneAskAtATime
<1> QED BY <1>1, <1>2, <1>3, <1>4, <1>6, <1>7, <1>8, <1>9, <1>10 DEF Next

\* The answer to a POST marks the window it was sent for, if POSTs time out
\* within a window and the pause after it.
THEOREM AnswersInTime ==
    ASSUME CallbackTimeout < 2 * Window
    PROVE  Spec => []AnswersMeetTheirWindow
<1>1. Init => OneAskAtATime
  BY DEF Init, OneAskAtATime
<1>2. TypeOK /\ OneAskAtATime /\ [Next]_vars => OneAskAtATime'
  BY AskStep
<1>3. OneAskAtATime => AnswersMeetTheirWindow
  BY DEF OneAskAtATime, AnswersMeetTheirWindow
<1> QED BY <1>1, <1>2, <1>3, Typing, PTL DEF Spec

=============================================================================
