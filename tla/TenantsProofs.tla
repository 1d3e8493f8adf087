---------------------------- MODULE TenantsProofs ----------------------------
(***************************************************************************)
(* Proof that no two tenants work on one card, for any tenants, cards,     *)
(* ttls, and any calls lost, crashes and deaths, as long as each tenant is *)
(* a holder family of its own and the ttl bears twice the faults.          *)
(* SessionInv says who may still release a lease (References), that a      *)
(* tenant waits for one answer at a time (OneCall), and that a lease in    *)
(* use is in the book, young enough and with no release under way (Kept).  *)
(***************************************************************************)
EXTENDS Tenants, FiniteSetTheorems, TLAPS

\* Two processes of one program are one family: each releases at its boot what the other holds.
FamiliesApart == \A t, u \in Tenants : FamilyOf[t] = FamilyOf[u] => t = u

Session ==
    [pc : {"off", "boot", "idle", "asking", "refused", "using", "closing"},
     mine : Ids \cup {None}, card : Cards \cup {None}, loops : SUBSET Ids, due : SUBSET Ids,
     todo : SUBSET Ids, hasty : BOOLEAN]

\* An answer is an id, a set of ids, TRUE, FALSE or None, as the kind has it.
IsCall(c) == c \in [by : Tenants, kind : Kinds, about : {c.about}, waits : BOOLEAN,
                    old : BOOLEAN, served : BOOLEAN, answer : {c.answer}]

\* Requests for a card that may still draw an id.
Drawing(S) == {d \in S : d.kind = "acquire" /\ ~d.served}

\* A tenant's session is of one piece.
Whole(r) ==
    /\ r \in Session /\ r.due \subseteq r.loops
    /\ r.mine # None <=> r.pc \in {"using", "closing"}
    /\ r.pc = "using" => r.mine \in r.loops /\ r.card \in Cards
    /\ r.pc = "off" => r = Off

Typed ==
    /\ up \in BOOLEAN /\ next \in 1..MaxIds + 1
    /\ DOMAIN book \subseteq 1..next - 1 /\ book \in [DOMAIN book -> Lease]
    /\ prog \in [Tenants -> Session] /\ \A t \in Tenants : Whole(prog[t])
    /\ IsFiniteSet(calls) /\ \A c \in calls : IsCall(c)
    /\ next + Cardinality(Drawing(calls)) <= MaxIds + 1
    /\ posts \subseteq [lease : Ids, to : Tenants, old : BOOLEAN]
    /\ faults \in 0..MaxFaults /\ deaths \in 0..MaxDeaths

\* u may ask for the release of l: it is u's lease, if there is one.
Ref(l, u) == l < next /\ (l \in DOMAIN book => book[l].by = u)

CallKnown(c) ==
    /\ c.kind = "acquire" =>
          c.about \in Cards /\ c.answer \in Ids \cup {None} /\ (c.answer # None => Ref(c.answer, c.by))
    /\ c.kind \in {"touch", "release", "vacated"} => c.about \in Ids
    /\ c.kind \in {"release", "vacated"} => Ref(c.about, c.by)
    /\ c.kind = "list" /\ c.answer # None => c.answer \subseteq Ids /\ \A l \in c.answer : Ref(l, c.by)

References ==
    /\ \A c \in calls : CallKnown(c)
    /\ \A t \in Tenants :
          /\ prog[t].mine # None => Ref(prog[t].mine, t)
          /\ \A l \in prog[t].todo : Ref(l, t)
    /\ \A p \in posts : Ref(p.lease, p.to)

\* What a tenant's coroutine awaits, its keep-alives and the route of on_vacate apart.
Awaited(t) == {c \in calls : c.by = t /\ c.waits /\ c.kind \in {"list", "acquire", "release"}}

OneCall ==
    \A t \in Tenants : \A c \in Awaited(t) :
        /\ \A d \in Awaited(t) : c = d
        /\ prog[t].pc \in IF c.kind = "list" THEN {"boot"} ELSE
                          IF c.kind = "acquire" THEN {"asking"} ELSE {"boot", "closing"}

OneLeasePerCard == \A k, l \in DOMAIN book : book[k].card = book[l].card => k = l

Granted(t, l, k) ==
    \E c \in calls : c.by = t /\ c.kind = "acquire" /\ c.waits /\ c.served /\ c.answer = l /\ c.about = k

Using(t, l, k) == prog[t].pc = "using" /\ prog[t].mine = l /\ prog[t].card = k

\* l is in the book, and nobody is about to release it.
Stable(t, l, k) ==
    /\ l \in DOMAIN book /\ book[l].by = t /\ book[l].card = k
    /\ \A c \in calls : c.kind \in {"release", "vacated"} => c.about # l

TouchUnderWay(t, l) ==
    \/ l \in prog[t].due
    \/ \E c \in calls : c.by = t /\ c.kind = "touch" /\ c.about = l /\ c.waits /\ ~c.served

\* A fault makes a lease a tick older, and another one when a restart finds its last
\* touch unwritten; a touch under way, one more.
Young(t, l) ==
    /\ book[l].age <= 2 * faults + 1
    /\ ~TouchUnderWay(t, l) => book[l].age <= 2 * faults
    /\ ~up => book[l].age + 1 <= 2 * faults

Kept ==
    \A t \in Tenants, l \in Ids, k \in Cards : ~prog[t].hasty =>
        /\ Granted(t, l, k) => up /\ Stable(t, l, k) /\ book[l].age <= 2 * faults
        /\ Using(t, l, k) => Stable(t, l, k) /\ Young(t, l)

SessionInv == Typed /\ References /\ OneCall /\ OneLeasePerCard /\ Kept

-----------------------------------------------------------------------------
\* Sessions, calls and how many may still draw an id.

LEMMA OffWhole == Whole(Off)
BY TenantsAssumption DEF Whole, Off, Session, Ids

LEMMA RestingWhole ==
    ASSUME NEW r, r \in Session, r.due \subseteq r.loops
    PROVE  /\ Whole(Resting(r)) /\ Resting(r).pc = "idle" /\ Resting(r).mine = None
           /\ Resting(r).todo = r.todo /\ Resting(r).hasty = FALSE
           /\ Resting(r).due = r.due /\ Resting(r).loops = r.loops
BY DEF Whole, Resting, Session

LEMMA CallIsCall ==
    ASSUME NEW t \in Tenants, NEW kind \in Kinds, NEW l
    PROVE  /\ IsCall(Call(t, kind, l)) /\ Call(t, kind, l).by = t /\ Call(t, kind, l).kind = kind
           /\ Call(t, kind, l).about = l /\ Call(t, kind, l).waits /\ ~Call(t, kind, l).served
           /\ Call(t, kind, l).answer = None
BY DEF IsCall, Call

\* What becomes of a call: its caller gives up, its caller dies, it is answered.
GivenUp(c) == [c EXCEPT !.waits = FALSE]
Orphan(c) == [c EXCEPT !.waits = FALSE, !.old = TRUE]
Served(c, a) == [c EXCEPT !.served = TRUE, !.answer = a]

LEMMA CallChanges ==
    ASSUME NEW c, IsCall(c)
    PROVE  /\ \A d \in {GivenUp(c), Orphan(c)} :
                 /\ IsCall(d) /\ d.by = c.by /\ d.kind = c.kind /\ d.about = c.about
                 /\ ~d.waits /\ d.served = c.served /\ d.answer = c.answer
           /\ \A a : /\ IsCall(Served(c, a)) /\ Served(c, a).by = c.by /\ Served(c, a).kind = c.kind
                     /\ Served(c, a).about = c.about /\ Served(c, a).waits = c.waits
                     /\ Served(c, a).served /\ Served(c, a).answer = a
<1>1. c \in [by : Tenants, kind : Kinds, about : {c.about}, waits : BOOLEAN, old : BOOLEAN,
             served : BOOLEAN, answer : {c.answer}]
  BY DEF IsCall
<1>2. ASSUME NEW d \in {GivenUp(c), Orphan(c)}
      PROVE  /\ IsCall(d) /\ d.by = c.by /\ d.kind = c.kind /\ d.about = c.about
             /\ ~d.waits /\ d.served = c.served /\ d.answer = c.answer
  BY <1>1 DEF IsCall, GivenUp, Orphan
<1>3. ASSUME NEW a
      PROVE  /\ IsCall(Served(c, a)) /\ Served(c, a).by = c.by /\ Served(c, a).kind = c.kind
             /\ Served(c, a).about = c.about /\ Served(c, a).waits = c.waits
             /\ Served(c, a).served /\ Served(c, a).answer = a
  BY <1>1 DEF IsCall, Served
<1> QED BY <1>2, <1>3

\* Calls that are answered, dropped or orphaned draw no more ids than before.
LEMMA FewerDrawing ==
    ASSUME NEW S, IsFiniteSet(S), NEW T, NEW f, f = [x \in S |-> f[x]],
           \A y \in T : \E x \in S : y = f[x],
           \A x \in S : f[x].kind = "acquire" /\ ~f[x].served => x.kind = "acquire" /\ ~x.served
    PROVE  /\ IsFiniteSet(T) /\ IsFiniteSet(Drawing(S)) /\ IsFiniteSet(Drawing(T))
           /\ Cardinality(Drawing(T)) <= Cardinality(Drawing(S))
           /\ Cardinality(Drawing(S)) \in Nat /\ Cardinality(Drawing(T)) \in Nat
<1>1. ASSUME NEW U, IsFiniteSet(U), U \subseteq S, NEW V, \A y \in V : \E x \in U : y = f[x]
      PROVE  IsFiniteSet(V) /\ Cardinality(V) <= Cardinality(U)
  <2> DEFINE I == {f[x] : x \in U}
             g == [x \in U |-> f[x]]
  <2>1. g \in Surjection(U, I)
    BY DEF Surjection
  <2>2. IsFiniteSet(I) /\ Cardinality(I) <= Cardinality(U)
    <3> HIDE DEF g, I
    <3> QED BY <1>1, <2>1, FS_Surjection
  <2>3. V \subseteq I
    BY <1>1
  <2>4. IsFiniteSet(V) /\ Cardinality(V) <= Cardinality(I)
    <3> HIDE DEF I
    <3> QED BY <2>2, <2>3, FS_Subset
  <2>5. Cardinality(U) \in Nat /\ Cardinality(I) \in Nat /\ Cardinality(V) \in Nat
    <3> HIDE DEF I
    <3> QED BY <1>1, <2>2, <2>4, FS_CardinalityType
  <2> QED BY <2>2, <2>4, <2>5
<1>2. Drawing(S) \subseteq S /\ IsFiniteSet(Drawing(S))
  <2>1. Drawing(S) \subseteq S
    BY DEF Drawing
  <2> QED BY <2>1, FS_Subset
<1>3. \A y \in Drawing(T) : \E x \in Drawing(S) : y = f[x]
  BY DEF Drawing
<1>4. IsFiniteSet(T)
  BY <1>1
<1>5. IsFiniteSet(Drawing(T)) /\ Cardinality(Drawing(T)) <= Cardinality(Drawing(S))
  BY <1>1, <1>2, <1>3
<1> QED BY <1>2, <1>4, <1>5, FS_CardinalityType

LEMMA SameDrawing ==
    ASSUME NEW S, IsFiniteSet(S), NEW d, d.kind # "acquire"
    PROVE  IsFiniteSet(S \cup {d}) /\ Drawing(S \cup {d}) = Drawing(S)
BY FS_AddElement DEF Drawing

LEMMA ClosedWhole ==
    ASSUME NEW t, NEW r, Whole(r), r.pc = "using"
    PROVE  /\ Whole(Closed(t, r)) /\ Closed(t, r).pc = "closing" /\ Closed(t, r).mine = r.mine
           /\ Closed(t, r).todo = r.todo /\ Closed(t, r).hasty = r.hasty
<1> DEFINE over == IF t \in Stoppers THEN {r.mine} ELSE {}
           q == [r EXCEPT !.pc = "closing", !.loops = @ \ over, !.due = @ \ over]
<1>1. Closed(t, r) = q
  BY DEF Closed
<1>2. /\ q \in Session /\ q.pc = "closing" /\ q.mine = r.mine /\ q.todo = r.todo /\ q.hasty = r.hasty
      /\ q.card = r.card /\ q.loops = r.loops \ over /\ q.due = r.due \ over
  <2> HIDE DEF over
  <2> QED BY DEF Whole, Session
<1>3. Whole(q)
  <2> HIDE DEF q
  <2> QED BY <1>2 DEF Whole
<1> QED BY <1>1, <1>2, <1>3

\* q: what the session of the caller of c is once c ended with answer a.
Outcome(c, a, q) ==
    /\ Whole(q)
    /\ q.mine # None => q.mine = prog[c.by].mine \/ (c.kind = "acquire" /\ q.mine = a)
    /\ \A l \in q.todo : l \in Ids /\ Ref(l, c.by)
    /\ q.pc = "using" =>
          \/ /\ prog[c.by].pc = "using" /\ q.mine = prog[c.by].mine /\ q.card = prog[c.by].card
             /\ q.hasty = prog[c.by].hasty
             /\ (q.mine \in q.due <=> q.mine \in prog[c.by].due)
          \/ /\ c.kind = "acquire" /\ q.mine = a /\ a # None /\ q.card = c.about
             /\ q.hasty = prog[c.by].hasty
    /\ c.kind \in {"touch", "vacated"} =>
          \/ q.pc = prog[c.by].pc /\ q.hasty = prog[c.by].hasty
          \/ prog[c.by].pc = "using" /\ q.pc = "idle"
    /\ q.pc = "asking" => prog[c.by].pc = "asking" /\ q.hasty = prog[c.by].hasty

\* What a tenant makes of an answer, or of none.
LEMMA HearFacts ==
    ASSUME SessionInv, NEW c \in calls, c.waits, NEW a, NEW rest, Hear(c, a, rest),
           c.kind = "list" /\ a # None => a \subseteq Ids /\ \A l \in a : Ref(l, c.by),
           c.kind = "acquire" => a \in Ids \cup {None} /\ (a # None => Ref(a, c.by))
    PROVE  \E q :
              /\ prog' = [prog EXCEPT ![c.by] = q] /\ Outcome(c, a, q)
              /\ \/ calls' = rest
                 \/ /\ c.kind \in {"list", "release"} /\ q.pc = "boot"
                    /\ \E l \in q.todo : calls' = rest \cup {Call(c.by, "release", l)}
<1> DEFINE t == c.by
           r == prog[c.by]
<1>1. /\ IsCall(c) /\ t \in Tenants /\ c.kind \in Kinds /\ CallKnown(c)
      /\ Whole(r) /\ r \in Session /\ \A l \in r.todo : l \in Ids /\ Ref(l, t)
      /\ prog \in [Tenants -> Session] /\ None \notin Ids
  BY TenantsAssumption DEF SessionInv, Typed, IsCall, References, Session, Ids, Whole
<1>2. c.kind \in {"list", "acquire", "release"} =>
         r.pc \in IF c.kind = "list" THEN {"boot"} ELSE
                  IF c.kind = "acquire" THEN {"asking"} ELSE {"boot", "closing"}
  BY <1>1 DEF SessionInv, OneCall, Awaited
<1>3. ASSUME NEW todo, todo \subseteq Ids, \A l \in todo : Ref(l, t), r.pc = "boot",
             c.kind \in {"list", "release"}, NextStale(t, [r EXCEPT !.todo = todo], rest)
      PROVE  \E q :
              /\ prog' = [prog EXCEPT ![t] = q] /\ Whole(q) /\ q.mine = None
              /\ \A l \in q.todo : l \in Ids /\ Ref(l, t)
              /\ \/ calls' = rest
                 \/ /\ q.pc = "boot"
                    /\ \E l \in q.todo : calls' = rest \cup {Call(t, "release", l)}
              /\ q.pc \notin {"using", "asking"}
  <2> DEFINE s == [r EXCEPT !.todo = todo]
  <2>1. s \in Session /\ s.todo = todo /\ s.pc = "boot" /\ s.due = r.due /\ s.loops = r.loops /\ s.mine = r.mine
    BY <1>1, <1>3 DEF Session
  <2>2. Whole(s) /\ s.mine = None
    BY <1>1, <1>3, <2>1 DEF Whole
  <2> HIDE DEF s
  <2>3. CASE prog' = [prog EXCEPT ![t] = Resting(s)] /\ calls' = rest
    <3>1. Whole(Resting(s)) /\ Resting(s).pc = "idle" /\ Resting(s).todo = todo /\ Resting(s).mine = None
      BY <2>1, <2>2, RestingWhole DEF Whole
    <3> QED BY <1>3, <2>3, <3>1
  <2>4. CASE \E l \in s.todo : prog' = [prog EXCEPT ![t] = s] /\ calls' = rest \cup {Call(t, "release", l)}
    BY <1>3, <2>1, <2>2, <2>4
  <2> QED BY <1>3, <2>3, <2>4 DEF NextStale, s
<1>4. CASE c.kind = "list"
  <2> DEFINE todo == IF a = None THEN {} ELSE a
  <2>1. todo \subseteq Ids /\ (\A l \in todo : Ref(l, t)) /\ r.pc = "boot"
    BY <1>2, <1>4
  <2>2. NextStale(t, [r EXCEPT !.todo = todo], rest)
    BY <1>4 DEF Hear
  <2> HIDE DEF todo
  <2> QED BY <1>3, <1>4, <2>1, <2>2 DEF Outcome
<1>5. CASE c.kind = "release" /\ r.pc = "boot"
  <2> DEFINE todo == r.todo \ {c.about}
  <2>1. todo \subseteq Ids /\ (\A l \in todo : Ref(l, t))
    BY <1>1
  <2>2. NextStale(t, [r EXCEPT !.todo = todo], rest)
    BY <1>5 DEF Hear
  <2> HIDE DEF todo
  <2> QED BY <1>3, <1>5, <2>1, <2>2 DEF Outcome
<1>6. CASE ~(c.kind = "list" \/ (c.kind = "release" /\ r.pc = "boot"))
  <2>1. /\ calls' = rest
        /\ prog' = [prog EXCEPT ![t] =
                      CASE c.kind = "release" -> Resting(r)
                        [] c.kind = "acquire" -> GrantHeard(r, c, a)
                        [] c.kind = "touch" -> TouchHeard(r, c.about, a)
                        [] c.kind = "vacated" -> r]
    BY <1>6 DEF Hear
  <2>2. CASE c.kind = "release"
    <3>1. prog' = [prog EXCEPT ![t] = Resting(r)]
      BY <2>1, <2>2
    <3> QED BY <1>1, <2>1, <2>2, <3>1, RestingWhole DEF Whole, Outcome
  <2>3. CASE c.kind = "acquire"
    <3>1. prog' = [prog EXCEPT ![t] = GrantHeard(r, c, a)]
      BY <2>1, <2>3
    <3>2. CASE a = None
      <4> DEFINE q == [Resting(r) EXCEPT !.pc = "refused"]
      <4>1. prog' = [prog EXCEPT ![t] = q]
        BY <3>1, <3>2 DEF GrantHeard
      <4>2. Whole(Resting(r)) /\ Resting(r).mine = None /\ Resting(r).todo = r.todo
        BY <1>1, RestingWhole DEF Whole
      <4>3. Whole(q) /\ q.mine = None /\ q.todo = r.todo /\ q.pc = "refused"
        BY <4>2 DEF Whole, Session
      <4> HIDE DEF q
      <4> QED BY <1>1, <2>1, <2>3, <4>1, <4>3 DEF Outcome
    <3>3. CASE a # None
      <4> DEFINE q == [r EXCEPT !.pc = "using", !.mine = a, !.card = c.about,
                                !.loops = @ \cup {a}, !.due = @ \cup {a}]
      <4>1. prog' = [prog EXCEPT ![t] = q]
        BY <3>1, <3>3 DEF GrantHeard
      <4>2. a \in Ids /\ c.about \in Cards
        BY <1>1, <2>3, <3>3 DEF CallKnown
      <4>3. q \in Session /\ q.pc = "using" /\ q.mine = a /\ q.card = c.about /\ q.todo = r.todo
            /\ q.hasty = r.hasty /\ q.loops = r.loops \cup {a} /\ q.due = r.due \cup {a}
        BY <1>1, <4>2 DEF Session
      <4> HIDE DEF q
      <4>4. Whole(q)
        BY <1>1, <4>2, <4>3 DEF Whole
      <4> QED BY <1>1, <2>1, <2>3, <3>3, <4>1, <4>3, <4>4 DEF Outcome
    <3> QED BY <3>2, <3>3
  <2>4. CASE c.kind = "touch"
    <3>1. prog' = [prog EXCEPT ![t] = TouchHeard(r, c.about, a)]
      BY <2>1, <2>4
    <3>2. CASE a # FALSE
      <4>1. prog' = [prog EXCEPT ![t] = r]
        BY <3>1, <3>2 DEF TouchHeard
      <4> QED BY <1>1, <2>1, <2>4, <4>1 DEF Outcome
    <3>3. CASE a = FALSE
      <4> DEFINE q == [r EXCEPT !.loops = @ \ {c.about}, !.due = @ \ {c.about}]
      <4>1. /\ q \in Session /\ q.pc = r.pc /\ q.mine = r.mine /\ q.card = r.card /\ q.todo = r.todo
            /\ q.hasty = r.hasty /\ q.due = r.due \ {c.about} /\ q.loops = r.loops \ {c.about}
            /\ q.due \subseteq q.loops
        BY <1>1 DEF Session, Whole
      <4>2. CASE r.pc = "using" /\ r.mine = c.about
        <5>1. prog' = [prog EXCEPT ![t] = Resting(q)]
          BY <3>1, <3>3, <4>2 DEF TouchHeard
        <5> HIDE DEF q
        <5>2. Whole(Resting(q)) /\ Resting(q).pc = "idle" /\ Resting(q).mine = None /\ Resting(q).todo = r.todo
          BY <4>1, RestingWhole
        <5> QED BY <1>1, <2>1, <2>4, <4>2, <5>1, <5>2 DEF Outcome
      <4>3. CASE ~(r.pc = "using" /\ r.mine = c.about)
        <5>1. prog' = [prog EXCEPT ![t] = q]
          BY <3>1, <3>3, <4>3 DEF TouchHeard
        <5>2. r.pc = "off" => q = r
          <6> SUFFICES ASSUME r.pc = "off" PROVE q = r
            OBVIOUS
          <6>1. r.loops = {} /\ r.due = {}
            BY <1>1 DEF Whole, Off
          <6>2. r.loops \ {c.about} = r.loops /\ r.due \ {c.about} = r.due
            BY <6>1
          <6>3. [r EXCEPT !.loops = r.loops, !.due = r.due] = r
            BY <1>1 DEF Session
          <6> QED BY <6>2, <6>3
        <5> HIDE DEF q
        <5>3. Whole(q)
          BY <1>1, <4>1, <4>3, <5>2 DEF Whole
        <5> QED BY <1>1, <2>1, <2>4, <4>1, <4>3, <5>1, <5>3 DEF Outcome
      <4> QED BY <4>2, <4>3
    <3> QED BY <3>2, <3>3
  <2>5. CASE c.kind = "vacated"
    <3>1. prog' = [prog EXCEPT ![t] = r]
      BY <2>1, <2>5
    <3> QED BY <1>1, <2>1, <2>5, <3>1 DEF Outcome
  <2> QED BY <1>1, <1>6, <2>2, <2>3, <2>4, <2>5 DEF Kinds
<1> QED BY <1>4, <1>5, <1>6

-----------------------------------------------------------------------------
\* What a step does to the book and to the calls.

\* A restart makes a lease at most one tick older, and drops none younger than that.
LEMMA RestartFacts ==
    ASSUME Restart, book \in [DOMAIN book -> Lease]
    PROVE  /\ up' = TRUE /\ ~up /\ UNCHANGED <<next, prog, calls, posts, faults, deaths>>
           /\ book' = [l \in DOMAIN book' |-> book'[l]] /\ DOMAIN book' \subseteq DOMAIN book
           /\ \A l \in DOMAIN book' :
                 /\ book'[l] \in Lease /\ book'[l].by = book[l].by /\ book'[l].card = book[l].card
                 /\ book'[l].age \in {book[l].age, book[l].age + 1}
           /\ \A l \in DOMAIN book : book[l].age + 1 < Ttl => l \in DOMAIN book'
<1>1. PICK lag \in [DOMAIN book -> {0, 1}] :
         book' = [l \in {k \in DOMAIN book : book[k].age + lag[k] < Ttl} |->
                     [book[l] EXCEPT !.age = @ + lag[l], !.asked = "no"]]
  BY DEF Restart
<1>2. Ttl \in Nat /\ \A l \in DOMAIN book : book[l] \in Lease /\ book[l].age \in Nat /\ lag[l] \in {0, 1}
  BY TenantsAssumption DEF Lease
<1>3. DOMAIN book' = {k \in DOMAIN book : book[k].age + lag[k] < Ttl}
  BY <1>1
<1>4. ASSUME NEW l \in DOMAIN book'
      PROVE  /\ book'[l] \in Lease /\ book'[l].by = book[l].by /\ book'[l].card = book[l].card
             /\ book'[l].age \in {book[l].age, book[l].age + 1}
  <2>1. l \in DOMAIN book /\ book[l].age + lag[l] < Ttl
    BY <1>3
  <2>2. book'[l] = [book[l] EXCEPT !.age = book[l].age + lag[l], !.asked = "no"]
    BY <1>1, <1>3
  <2>3. book[l].age + lag[l] \in 0..Ttl /\ book[l].age + lag[l] \in {book[l].age, book[l].age + 1}
    BY <1>2, <2>1
  <2> QED BY <1>2, <2>1, <2>2, <2>3 DEF Lease
<1>5. ASSUME NEW l \in DOMAIN book, book[l].age + 1 < Ttl PROVE l \in DOMAIN book'
  <2>1. book[l].age + lag[l] < Ttl
    BY <1>2, <1>5
  <2> QED BY <1>3, <2>1
<1> QED BY <1>1, <1>3, <1>4, <1>5 DEF Restart

\* A lease keeps its tenant and its card; a new one has a new id and a free card.
LEMMA BookStep ==
    ASSUME SessionInv, [Next]_vars
    PROVE  /\ next \in Nat /\ next' \in {next, next + 1} /\ faults <= faults' /\ faults \in Nat /\ faults' \in Nat
           /\ book' = [l \in DOMAIN book' |-> book'[l]]
           /\ \A l \in DOMAIN book' :
                 \/ l \in DOMAIN book /\ book'[l].by = book[l].by /\ book'[l].card = book[l].card
                 \/ /\ l = next /\ next' = next + 1 /\ next \in Ids /\ book'[l].age = 0
                    /\ \E c \in calls : /\ c.kind = "acquire" /\ ~c.served /\ Holders(c.about) = {}
                                        /\ book'[l].by = c.by /\ book'[l].card = c.about
           /\ \A l \in DOMAIN book' : book'[l] \in Lease
<1>0. /\ next \in 1..MaxIds + 1 /\ DOMAIN book \subseteq 1..next - 1 /\ book \in [DOMAIN book -> Lease]
      /\ faults \in 0..MaxFaults /\ MaxFaults \in Nat /\ MaxIds \in Nat /\ Ttl \in Nat \ {0}
  BY TenantsAssumption DEF SessionInv, Typed
<1> DEFINE Same == /\ next' = next /\ faults' \in {faults, faults + 1}
                   /\ book' = [l \in DOMAIN book' |-> book'[l]]
                   /\ \A l \in DOMAIN book' :
                        /\ l \in DOMAIN book /\ book'[l].by = book[l].by /\ book'[l].card = book[l].card
                        /\ book'[l] \in Lease
<1>1. UNCHANGED <<book, next>> /\ faults' \in {faults, faults + 1} => Same
  BY <1>0
<1>2. ASSUME NEW S \in SUBSET DOMAIN book, UNCHANGED <<next, faults>>, book' = [k \in S |-> book[k]]
      PROVE  Same
  BY <1>0, <1>2
<1>3. ASSUME NEW t \in Tenants,
             Boot(t) \/ Close(t) \/ (\E c \in Cards : Acquire(t, c)) \/ (\E l \in Ids : Touch(t, l))
      PROVE  Same
  BY <1>1, <1>3 DEF Boot, Close, Acquire, Touch
<1>4. ASSUME NEW t \in Tenants, Die(t) PROVE Same
  <2>1. book' = [l \in DOMAIN book |-> [book[l] EXCEPT !.old = @ \/ book[l].by = t]] /\ UNCHANGED <<next, faults>>
    BY <1>4 DEF Die
  <2>2. \A l \in DOMAIN book : book[l].old \in BOOLEAN /\ book[l] \in Lease
    BY <1>0 DEF Lease
  <2> QED BY <1>0, <2>1, <2>2 DEF Lease
<1>5. ASSUME NEW c \in calls, Answer(c) \/ Fail(c) PROVE Same
  BY <1>0, <1>1, <1>5 DEF Answer, Fail
<1>6. ASSUME NEW p \in posts, PostEnds(p) PROVE Same
  <2>1. ASSUME NEW a \in {"heard", "cooling"},
               book' = IF p.lease \in DOMAIN book /\ book[p.lease].asked = "open"
                       THEN [book EXCEPT ![p.lease].asked = a] ELSE book
        PROVE  /\ book' = [l \in DOMAIN book' |-> book'[l]]
               /\ \A l \in DOMAIN book' :
                     /\ l \in DOMAIN book /\ book'[l].by = book[l].by /\ book'[l].card = book[l].card
                     /\ book'[l] \in Lease
    BY <1>0, <2>1 DEF Lease
  <2>2. next' = next /\ faults' \in {faults, faults + 1}
    BY <1>6 DEF PostEnds
  <2>3. \E a \in {"heard", "cooling"} :
           book' = IF p.lease \in DOMAIN book /\ book[p.lease].asked = "open"
                   THEN [book EXCEPT ![p.lease].asked = a] ELSE book
    BY <1>6 DEF PostEnds
  <2> QED BY <2>1, <2>2, <2>3
<1>7. ASSUME NEW l \in Ids, Sweep(l) PROVE Same
  BY <1>2, <1>7 DEF Sweep, Without
<1>8. ASSUME Crash PROVE Same
  BY <1>1, <1>8 DEF Crash
<1>9. ASSUME Restart PROVE Same
  BY <1>0, <1>9, RestartFacts
<1>10. ASSUME Tick PROVE Same
  <2>1. /\ UNCHANGED next /\ faults' \in {faults, faults + 1}
        /\ book' = [l \in DOMAIN book |->
                      [book[l] EXCEPT !.age = IF @ = Ttl THEN Ttl ELSE @ + 1, !.asked = Later(@)]]
    BY <1>10 DEF Tick
  <2>2. \A l \in DOMAIN book : Later(book[l].asked) \in {"no", "open", "heard", "cooling"}
    BY DEF Later
  <2>3. \A l \in DOMAIN book : (IF book[l].age = Ttl THEN Ttl ELSE book[l].age + 1) \in 0..Ttl /\ book[l] \in Lease
    BY <1>0 DEF Lease
  <2> QED BY <1>0, <2>1, <2>2, <2>3 DEF Lease
<1>11. ASSUME UNCHANGED vars PROVE Same
  BY <1>1, <1>11 DEF vars
<1>12. ASSUME NEW c \in calls, ServeList(c) \/ ServeTouch(c) \/ ServeRelease(c), UNCHANGED faults PROVE Same
  <2>1. CASE ServeList(c)
    BY <1>1, <1>12, <2>1 DEF ServeList
  <2>2. CASE ServeTouch(c)
    BY <1>0, <1>12, <2>2 DEF ServeTouch, Lease
  <2>3. CASE ServeRelease(c)
    BY <1>2, <1>12, <2>3 DEF ServeRelease, Without
  <2> QED BY <1>12, <2>1, <2>2, <2>3
<1>13. ASSUME NEW c \in calls, ServeAcquire(c), UNCHANGED <<next, faults>>
       PROVE  Same
  BY <1>0, <1>13 DEF ServeAcquire, Lease
<1>14. ASSUME NEW c \in calls, ServeAcquire(c), ~c.served, UNCHANGED faults, next' # next
       PROVE  /\ next' = next + 1 /\ Holders(c.about) = {} /\ next \in Ids
              /\ book' = [l \in DOMAIN book' |-> book'[l]] /\ DOMAIN book' = DOMAIN book \cup {next}
              /\ \A l \in DOMAIN book : book'[l] = book[l]
              /\ book'[next] \in Lease /\ book'[next].by = c.by /\ book'[next].card = c.about
              /\ book'[next].age = 0 /\ c.kind = "acquire"
  <2>1. /\ book' = [l \in DOMAIN book \cup {next} |->
                         IF l \in DOMAIN book THEN book[l]
                         ELSE [by |-> c.by, card |-> c.about, age |-> 0, asked |-> "no", old |-> c.old]]
        /\ next' = next + 1 /\ c.kind = "acquire" /\ Holders(c.about) = {}
    BY <1>14 DEF ServeAcquire
  <2>2. c.by \in Tenants /\ c.about \in Cards /\ c.old \in BOOLEAN
    BY <2>1 DEF SessionInv, Typed, IsCall, References, CallKnown
  <2>3. next \notin DOMAIN book /\ next <= MaxIds
    <3>1. c \in Drawing(calls) /\ IsFiniteSet(calls) /\ next + Cardinality(Drawing(calls)) <= MaxIds + 1
      BY <1>14, <2>1 DEF SessionInv, Typed, Drawing
    <3>2. IsFiniteSet(Drawing(calls))
      BY <3>1, FS_Subset DEF Drawing
    <3>3. Cardinality(Drawing(calls)) \in Nat /\ Cardinality(Drawing(calls)) # 0
      BY <3>1, <3>2, FS_CardinalityType, FS_EmptySet
    <3> QED BY <1>0, <3>1, <3>3
  <2> QED BY <1>0, <2>1, <2>2, <2>3 DEF Lease, Ids
<1>15. ASSUME NEW c \in calls, Serve(c), ~Same
       PROVE  ServeAcquire(c) /\ ~c.served /\ next' # next /\ UNCHANGED faults
  BY <1>12, <1>13, <1>15 DEF Serve
<1>16. ASSUME NEW c \in calls, Serve(c), ~Same
       PROVE  /\ next' = next + 1 /\ next \in Ids
              /\ book' = [l \in DOMAIN book' |-> book'[l]] /\ DOMAIN book' = DOMAIN book \cup {next}
              /\ \A l \in DOMAIN book : book'[l] = book[l]
              /\ book'[next] \in Lease /\ book'[next].by = c.by /\ book'[next].card = c.about
              /\ book'[next].age = 0 /\ c.kind = "acquire" /\ ~c.served /\ Holders(c.about) = {} /\ UNCHANGED faults
  BY <1>14, <1>15, <1>16
<1>17. Same \/ \E c \in calls : Serve(c) /\ ~Same
  BY <1>3, <1>4, <1>5, <1>6, <1>7, <1>8, <1>9, <1>10, <1>11 DEF Next
<1>18. CASE Same
  BY <1>0, <1>18
<1>19. CASE ~Same
  <2>1. PICK c \in calls : Serve(c)
    BY <1>17, <1>19
  <2> HIDE DEF Same
  <2> QED BY <1>0, <1>16, <1>19, <2>1
<1> QED BY <1>18, <1>19

LEMMA RefStays ==
    ASSUME SessionInv, [Next]_vars, NEW l, NEW u, Ref(l, u), l \in Nat
    PROVE  Ref(l, u)'
<1>1. next \in Nat /\ next' \in {next, next + 1}
  BY BookStep
<1>2. l < next' /\ l # next
  BY <1>1 DEF Ref
<1>3. l \in DOMAIN book' => l \in DOMAIN book /\ book'[l].by = book[l].by
  BY <1>2, BookStep
<1> QED BY <1>2, <1>3 DEF Ref

LEMMA KnownStays ==
    ASSUME SessionInv, [Next]_vars, NEW c \in calls,
           NEW d, d.by = c.by, d.kind = c.kind, d.about = c.about, d.answer \in {c.answer, None}
    PROVE  CallKnown(d)'
<1>1. CallKnown(c) /\ Ids \subseteq Nat
  BY DEF SessionInv, References, Ids
<1>2. \A l \in Ids : Ref(l, c.by) => Ref(l, c.by)'
  BY <1>1, RefStays
<1> QED BY <1>1, <1>2 DEF CallKnown

\* c's request opens a lease.
Granting(c) ==
    /\ next' = next + 1 /\ next \in DOMAIN book'
    /\ book'[next].by = c.by /\ book'[next].card = c.about /\ book'[next].age = 0

\* What the server puts in an answer is the tenant's own.
LEMMA ServeCalls ==
    ASSUME SessionInv, FamiliesApart, [Next]_vars, NEW c \in calls, Serve(c)
    PROVE  \E a, d : /\ d = Served(c, a) /\ calls' = (calls \ {c}) \cup (IF c.waits THEN {d} ELSE {})
                     /\ CallKnown(d)'
                     /\ c.kind = "acquire" /\ a # None => a = next /\ Granting(c)
<1>1. IsCall(c) /\ CallKnown(c) /\ DOMAIN book \subseteq Ids /\ Ids \subseteq Nat /\ next \in Nat
      /\ DOMAIN book \subseteq 1..next - 1 /\ None \notin Ids
  BY TenantsAssumption DEF SessionInv, Typed, References, Ids
<1>2. ASSUME NEW a
      PROVE  Served(c, a).by = c.by /\ Served(c, a).kind = c.kind /\ Served(c, a).about = c.about
             /\ Served(c, a).answer = a
  <2>1. IsCall(c)
    BY <1>1
  <2> QED BY <2>1, CallChanges
<1>3. ASSUME NEW d, d = Served(c, None) PROVE CallKnown(d)'
  BY <1>2, <1>3, KnownStays
<1>4. ASSUME NEW a, NEW d, d = Served(c, a), c.kind \notin {"list", "acquire"} PROVE CallKnown(d)'
  <2>1. d.by = c.by /\ d.kind = c.kind /\ d.about = c.about
    BY <1>2, <1>4
  <2>2. c.kind \in {"release", "vacated"} => Ref(c.about, c.by)'
    BY <1>1, RefStays DEF CallKnown
  <2> QED BY <1>1, <1>4, <2>1, <2>2 DEF CallKnown
<1>5. CASE ServeList(c)
  <2>1. \A l \in Family(c.by) : l \in DOMAIN book /\ l \in Ids /\ book[l].by = c.by /\ l < next
    BY <1>1 DEF Family, FamiliesApart, SessionInv, Typed, Lease, IsCall
  <2>2. \A l \in Family(c.by) : l \in Ids /\ Ref(l, c.by)'
    BY <1>1, <2>1, RefStays DEF Ref
  <2>3. ASSUME NEW d, d = Served(c, Family(c.by)) PROVE CallKnown(d)'
    BY <1>2, <1>5, <2>2, <2>3 DEF CallKnown, ServeList
  <2>4. calls' = (calls \ {c}) \cup (IF c.waits THEN {Served(c, Family(c.by))} ELSE {}) /\ c.kind = "list"
    BY <1>5 DEF ServeList, Answered, Served
  <2> QED BY <2>3, <2>4
<1>6. CASE ServeAcquire(c)
  <2>1. CASE calls' = (calls \ {c}) \cup (IF c.waits THEN {Served(c, None)} ELSE {})
    BY <1>3, <2>1
  <2>2. CASE /\ calls' = (calls \ {c}) \cup (IF c.waits THEN {Served(c, next)} ELSE {})
             /\ next' = next + 1 /\ c.kind = "acquire"
             /\ book' = [l \in DOMAIN book \cup {next} |->
                            IF l \in DOMAIN book THEN book[l]
                            ELSE [by |-> c.by, card |-> c.about, age |-> 0, asked |-> "no", old |-> c.old]]
    <3>1. next \notin DOMAIN book /\ next \in DOMAIN book' /\ book'[next].by = c.by
      BY <1>1, <2>2
    <3>2. next \in Ids
      BY <3>1, BookStep
    <3>3. ASSUME NEW d, d = Served(c, next) PROVE CallKnown(d)'
      <4>1. d.by = c.by /\ d.kind = "acquire" /\ d.about = c.about /\ d.answer = next
        BY <1>2, <2>2, <3>3
      <4>2. next < next'
        BY <1>1, <2>2
      <4> QED BY <1>1, <2>2, <3>1, <3>2, <4>1, <4>2 DEF CallKnown, Ref
    <3>4. Granting(c)
      BY <1>1, <2>2 DEF Granting
    <3> QED BY <2>2, <3>3, <3>4
  <2> QED BY <1>6, <2>1, <2>2 DEF ServeAcquire, Answered, Served
<1>7. CASE ServeTouch(c)
  BY <1>4, <1>7 DEF ServeTouch, Answered, Served
<1>8. CASE ServeRelease(c)
  BY <1>4, <1>8 DEF ServeRelease, Answered, Served
<1> QED BY <1>5, <1>6, <1>7, <1>8 DEF Serve

\* A call ends: what its tenant makes of it, and what is left of the calls.
LEMMA EndFacts ==
    ASSUME SessionInv, NEW c \in calls, Answer(c) \/ Fail(c)
    PROVE  /\ c.waits /\ UNCHANGED <<up, book, next, posts, deaths>>
           /\ faults' \in 0..MaxFaults
           /\ faults' = faults + 1 \/ (faults' = faults /\ (c.served \/ ~up))
           /\ \E a, q, kept, new :
                 /\ a = None \/ (c.served /\ a = c.answer)
                 /\ kept \in SUBSET {GivenUp(c)} /\ (c.served => kept = {})
                 /\ calls' = ((calls \ {c}) \cup kept) \cup new
                 /\ \/ new = {}
                    \/ /\ c.kind \in {"list", "release"} /\ q.pc = "boot"
                       /\ \E l \in q.todo : new = {Call(c.by, "release", l)}
                 /\ prog' = [prog EXCEPT ![c.by] = q] /\ Outcome(c, a, q)
<1>1. CallKnown(c) /\ None \notin Ids /\ c.by \in Tenants /\ faults \in 0..MaxFaults /\ MaxFaults \in Nat
  BY TenantsAssumption DEF SessionInv, References, Ids, Typed, IsCall
<1>2. CASE Answer(c)
  <2>1. /\ c.waits /\ c.served /\ Hear(c, c.answer, calls \ {c})
        /\ UNCHANGED <<up, book, next, posts, faults, deaths>>
    BY <1>2 DEF Answer
  <2>2. /\ c.kind = "list" /\ c.answer # None => c.answer \subseteq Ids /\ \A l \in c.answer : Ref(l, c.by)
        /\ c.kind = "acquire" => c.answer \in Ids \cup {None} /\ (c.answer # None => Ref(c.answer, c.by))
    BY <1>1 DEF CallKnown
  <2>3. PICK q :
           /\ prog' = [prog EXCEPT ![c.by] = q] /\ Outcome(c, c.answer, q)
           /\ \/ calls' = calls \ {c}
              \/ /\ c.kind \in {"list", "release"} /\ q.pc = "boot"
                 /\ \E l \in q.todo : calls' = (calls \ {c}) \cup {Call(c.by, "release", l)}
    BY <2>1, <2>2, HearFacts
  <2>4. \E kept, new :
           /\ kept \in SUBSET {GivenUp(c)} /\ kept = {}
           /\ calls' = ((calls \ {c}) \cup kept) \cup new
           /\ \/ new = {}
              \/ /\ c.kind \in {"list", "release"} /\ q.pc = "boot"
                 /\ \E l \in q.todo : new = {Call(c.by, "release", l)}
    <3> DEFINE P(kept, new) ==
                  /\ kept \in SUBSET {GivenUp(c)} /\ kept = {}
                  /\ calls' = ((calls \ {c}) \cup kept) \cup new
                  /\ \/ new = {}
                     \/ /\ c.kind \in {"list", "release"} /\ q.pc = "boot"
                        /\ \E l \in q.todo : new = {Call(c.by, "release", l)}
    <3>1. calls' = calls \ {c} => P({}, {})
      OBVIOUS
    <3>2. ASSUME c.kind \in {"list", "release"}, q.pc = "boot", NEW l \in q.todo,
                 calls' = (calls \ {c}) \cup {Call(c.by, "release", l)}
          PROVE  P({}, {Call(c.by, "release", l)})
      BY <3>2
    <3> HIDE DEF P
    <3>3. \E kept, new : P(kept, new)
      BY <2>3, <3>1, <3>2
    <3> QED BY <3>3 DEF P
  <2> QED BY <1>1, <2>1, <2>3, <2>4
<1>3. CASE Fail(c)
  <2>1. PICK kept \in SUBSET (IF up /\ ~c.served THEN {GivenUp(c)} ELSE {}) :
           Hear(c, None, (calls \ {c}) \cup kept)
    BY <1>3 DEF Fail, GivenUp
  <2>2. /\ c.waits /\ UNCHANGED <<up, book, next, posts, deaths>>
        /\ faults' = IF up THEN faults + 1 ELSE faults
        /\ ~up \/ faults < MaxFaults
    BY <1>3 DEF Fail
  <2>3. kept \in SUBSET {GivenUp(c)} /\ (c.served => kept = {})
    BY <2>1
  <2>4. PICK q :
           /\ prog' = [prog EXCEPT ![c.by] = q] /\ Outcome(c, None, q)
           /\ \/ calls' = (calls \ {c}) \cup kept
              \/ /\ c.kind \in {"list", "release"} /\ q.pc = "boot"
                 /\ \E l \in q.todo : calls' = ((calls \ {c}) \cup kept) \cup {Call(c.by, "release", l)}
    BY <2>1, <2>2, HearFacts
  <2>5. \E new :
           /\ calls' = ((calls \ {c}) \cup kept) \cup new
           /\ \/ new = {}
              \/ /\ c.kind \in {"list", "release"} /\ q.pc = "boot"
                 /\ \E l \in q.todo : new = {Call(c.by, "release", l)}
    <3>1. (calls \ {c}) \cup kept = ((calls \ {c}) \cup kept) \cup {}
      OBVIOUS
    <3> QED BY <2>4, <3>1
  <2>6. PICK new :
           /\ calls' = ((calls \ {c}) \cup kept) \cup new
           /\ \/ new = {}
              \/ /\ c.kind \in {"list", "release"} /\ q.pc = "boot"
                 /\ \E l \in q.todo : new = {Call(c.by, "release", l)}
    BY <2>5
  <2>7. faults' \in 0..MaxFaults /\ (faults' = faults + 1 \/ (faults' = faults /\ (c.served \/ ~up)))
    BY <1>1, <2>2
  <2> QED BY <2>2, <2>3, <2>4, <2>6, <2>7
<1> QED BY <1>2, <1>3

\* A session stays of one piece, and what it names is its tenant's.
LEMMA SessionsStep ==
    ASSUME SessionInv, [Next]_vars
    PROVE  /\ prog' \in [Tenants -> Session]
           /\ \A t \in Tenants :
                 /\ Whole(prog'[t])
                 /\ prog'[t].mine # None => prog'[t].mine \in Ids /\ Ref(prog'[t].mine, t)
                 /\ \A l \in prog'[t].todo : l \in Ids /\ Ref(l, t)
<1> DEFINE Good(t, q) == /\ Whole(q) /\ q \in Session
                         /\ q.mine # None => q.mine \in Ids /\ Ref(q.mine, t)
                         /\ \A l \in q.todo : l \in Ids /\ Ref(l, t)
           Goal == prog' \in [Tenants -> Session] /\ \A t \in Tenants : Good(t, prog'[t])
<1>1. prog \in [Tenants -> Session] /\ \A t \in Tenants : Good(t, prog[t])
  BY DEF SessionInv, Typed, References, Session
<1>2. ASSUME NEW t \in Tenants, NEW q, Good(t, q), prog' = [prog EXCEPT ![t] = q] PROVE Goal
  BY <1>1, <1>2
<1>3. ASSUME UNCHANGED prog PROVE Goal
  BY <1>1, <1>3
<1> HIDE DEF Goal
<1>4. ASSUME NEW t \in Tenants, NEW q \in Session, Whole(q), q.mine = prog[t].mine, q.todo = prog[t].todo
      PROVE  Good(t, q)
  BY <1>1, <1>4
<1>5. ASSUME NEW t \in Tenants, Boot(t) PROVE Goal
  <2> DEFINE q == [prog[t] EXCEPT !.pc = "boot"]
  <2>1. /\ q \in Session /\ q.pc = "boot" /\ q.mine = prog[t].mine /\ q.todo = prog[t].todo
        /\ q.due = prog[t].due /\ q.loops = prog[t].loops
    BY <1>1 DEF Session
  <2>2. Whole(q)
    BY <1>1, <1>5, <2>1 DEF Whole, Boot
  <2>3. prog' = [prog EXCEPT ![t] = q]
    BY <1>5 DEF Boot
  <2> HIDE DEF q
  <2> QED BY <1>2, <1>4, <2>1, <2>2, <2>3
<1>6. ASSUME NEW t \in Tenants, Close(t) PROVE Goal
  <2>1. Whole(Closed(t, prog[t])) /\ Closed(t, prog[t]).mine = prog[t].mine /\ Closed(t, prog[t]).todo = prog[t].todo
    BY <1>1, <1>6, ClosedWhole DEF Close
  <2> QED BY <1>2, <1>4, <1>6, <2>1 DEF Close, Whole
<1>7. ASSUME NEW t \in Tenants, NEW k \in Cards, Acquire(t, k) PROVE Goal
  <2> DEFINE q == [prog[t] EXCEPT !.pc = "asking"]
  <2>1. /\ q \in Session /\ q.pc = "asking" /\ q.mine = prog[t].mine /\ q.todo = prog[t].todo
        /\ q.due = prog[t].due /\ q.loops = prog[t].loops
    BY <1>1 DEF Session
  <2>2. Whole(q)
    BY <1>1, <1>7, <2>1 DEF Whole, Acquire
  <2>3. prog' = [prog EXCEPT ![t] = q]
    BY <1>7 DEF Acquire
  <2> HIDE DEF q
  <2> QED BY <1>2, <1>4, <2>1, <2>2, <2>3
<1>8. ASSUME NEW t \in Tenants, NEW l \in Ids, Touch(t, l) PROVE Goal
  <2> DEFINE q == [prog[t] EXCEPT !.due = @ \ {l}]
  <2>1. /\ q \in Session /\ q.pc = "using" /\ q.mine = prog[t].mine /\ q.todo = prog[t].todo
        /\ q.due = prog[t].due \ {l} /\ q.loops = prog[t].loops /\ q.card = prog[t].card
    BY <1>1, <1>8 DEF Session, Touch
  <2>2. Whole(q)
    BY <1>1, <1>8, <2>1 DEF Whole, Touch
  <2>3. prog' = [prog EXCEPT ![t] = q]
    BY <1>8 DEF Touch
  <2> HIDE DEF q
  <2> QED BY <1>2, <1>4, <2>1, <2>2, <2>3
<1>9. ASSUME NEW t \in Tenants, Die(t) PROVE Goal
  <2>1. prog' = [prog EXCEPT ![t] = Off] /\ Whole(Off) /\ Off.mine = None /\ Off.todo = {} /\ Off \in Session
    BY <1>9, OffWhole DEF Die, Off, Whole
  <2> QED BY <1>2, <2>1
<1>10. ASSUME NEW c \in calls, Answer(c) \/ Fail(c) PROVE Goal
  <2>1. PICK a, q : /\ a = None \/ (c.served /\ a = c.answer)
                    /\ prog' = [prog EXCEPT ![c.by] = q] /\ Outcome(c, a, q)
    BY <1>10, EndFacts
  <2>2. c.by \in Tenants /\ CallKnown(c)
    BY DEF SessionInv, Typed, References, IsCall
  <2>3. Good(c.by, q)
    BY <1>1, <2>1, <2>2 DEF Outcome, CallKnown, Whole
  <2> QED BY <1>2, <2>1, <2>2, <2>3
<1>11. ASSUME NEW p \in posts, PostEnds(p) PROVE Goal
  <2>1. p.to \in Tenants
    BY DEF SessionInv, Typed
  <2>2. CASE Vacated(p.to, p.lease)
    <3> DEFINE r == prog[p.to]
    <3>1. CASE r.pc = "using" /\ prog' = [prog EXCEPT ![p.to] = Closed(p.to, r)]
      <4>1. Whole(Closed(p.to, r)) /\ Closed(p.to, r).mine = r.mine /\ Closed(p.to, r).todo = r.todo
        BY <1>1, <2>1, <3>1, ClosedWhole
      <4> QED BY <1>2, <1>4, <2>1, <3>1, <4>1 DEF Whole
    <3>2. CASE prog' = [prog EXCEPT ![p.to].hasty = @ \/ r.pc = "asking"]
      <4> DEFINE q == [r EXCEPT !.hasty = @ \/ r.pc = "asking"]
      <4>1. /\ q \in Session /\ q.pc = r.pc /\ q.mine = r.mine /\ q.todo = r.todo /\ q.card = r.card
            /\ q.due = r.due /\ q.loops = r.loops
        BY <1>1, <2>1 DEF Session
      <4>2. r.pc = "off" => q = r
        <5>1. r.pc = "off" => (r.hasty \/ r.pc = "asking") = r.hasty
          BY <1>1, <2>1 DEF Session
        <5>2. [r EXCEPT !.hasty = r.hasty] = r
          BY <1>1, <2>1 DEF Session
        <5> QED BY <5>1, <5>2
      <4>3. prog' = [prog EXCEPT ![p.to] = q]
        BY <3>2
      <4> HIDE DEF q
      <4>4. Whole(q)
        BY <1>1, <2>1, <4>1, <4>2 DEF Whole
      <4> QED BY <1>2, <1>4, <2>1, <4>1, <4>3, <4>4
    <3> QED BY <2>2, <3>1, <3>2 DEF Vacated
  <2> QED BY <1>3, <1>11, <2>2 DEF PostEnds
<1>12. ASSUME Tick PROVE Goal
  <2>1. /\ prog' = [t \in Tenants |-> [prog[t] EXCEPT !.due = prog[t].loops,
                                                 !.pc = IF @ = "refused" THEN "idle" ELSE @]]
    BY <1>12 DEF Tick
  <2>2. ASSUME NEW t \in Tenants
        PROVE  Good(t, prog'[t])
    <3> DEFINE r == prog[t]
               pc == IF r.pc = "refused" THEN "idle" ELSE r.pc
               q == [r EXCEPT !.due = r.loops, !.pc = pc]
    <3>1. pc \in {"off", "boot", "idle", "asking", "refused", "using", "closing"} /\ r \in Session /\ Whole(r)
      BY <1>1 DEF Session
    <3>2. prog'[t] = q
      BY <2>1
    <3>3. /\ q \in Session /\ q.pc = pc /\ q.mine = r.mine /\ q.todo = r.todo /\ q.card = r.card
          /\ q.due = r.loops /\ q.loops = r.loops
      <4> HIDE DEF pc
      <4> QED BY <3>1 DEF Session
    <3>4. r.pc = "off" => q = r
      <4>1. r.pc = "off" => pc = r.pc /\ r.loops = r.due
        BY <3>1 DEF Whole, Off
      <4>2. [r EXCEPT !.due = r.due, !.pc = r.pc] = r
        BY <3>1 DEF Session
      <4> QED BY <4>1, <4>2
    <3> HIDE DEF q
    <3>5. Whole(q)
      BY <3>1, <3>3, <3>4 DEF Whole
    <3> QED BY <1>4, <3>2, <3>3, <3>5
  <2>3. prog' \in [Tenants -> Session]
    BY <2>1, <2>2
  <2> QED BY <2>2, <2>3 DEF Goal
<1>13. ASSUME Crash \/ Restart \/ UNCHANGED vars PROVE Goal
  BY <1>3, <1>13 DEF Crash, Restart, vars
<1>14. ASSUME NEW l \in Ids, Sweep(l) PROVE Goal
  BY <1>3, <1>14 DEF Sweep
<1>15. ASSUME NEW c \in calls, Serve(c) PROVE Goal
  BY <1>3, <1>15 DEF Serve
<1>16. Goal
  BY <1>5, <1>6, <1>7, <1>8, <1>9, <1>10, <1>11, <1>12, <1>13, <1>14, <1>15 DEF Next
<1> QED BY <1>16 DEF Goal
-----------------------------------------------------------------------------
\* What a step does to the calls: those in S become f[c], and at most one is new.

Await == {"list", "acquire", "release"}

\* c became d.
Follows(c, d) ==
    /\ IsCall(d) /\ CallKnown(d)' /\ d.by = c.by /\ d.kind = c.kind /\ d.about = c.about
    /\ d.waits => c.waits
    /\ ~d.served => ~c.served
    /\ d.waits /\ d.kind \in Await => prog'[d.by].pc = prog[d.by].pc
    /\ d.kind = "acquire" /\ d.answer # None =>
          (d.served = c.served /\ d.answer = c.answer) \/ (d.answer = next /\ Granting(d))

\* What makes t send a call.
Sends(t, kind, l) ==
    \/ kind = "list" /\ prog'[t].pc = "boot"
    \/ kind = "acquire" /\ prog'[t].pc = "asking" /\ l \in Cards /\ Acquire(t, l)
    \/ kind = "touch" /\ l \in Ids
    \/ kind = "release" /\ l \in Ids /\ Ref(l, t) /\ prog'[t].pc \in {"boot", "closing"}
    \/ /\ kind = "vacated" /\ l \in Ids /\ Ref(l, t)
       /\ ~(prog'[t].pc = "using" /\ prog'[t].mine = l)
       /\ prog'[t].pc = "asking" => prog'[t].hasty

CallsBecome(S, f, new) ==
    /\ S \subseteq calls /\ f = [c \in calls |-> f[c]]
    /\ calls' = {f[c] : c \in S} \cup new
    /\ \A c \in S : Follows(c, f[c])
    /\ new = {} \/ \E t \in Tenants, kind \in Kinds : \E l :
                      /\ new = {Call(t, kind, l)} /\ Sends(t, kind, l)
                      /\ kind \in Await =>
                            \A c \in S : f[c].by = t /\ f[c].waits => f[c].kind \notin Await

\* The calls stay, and perhaps one is added.
LEMMA CallsAdded ==
    ASSUME SessionInv, [Next]_vars, NEW new, calls' = calls \cup new,
           \A c \in calls : c.waits /\ c.kind \in Await => prog'[c.by].pc = prog[c.by].pc,
           new = {} \/ \E t \in Tenants, kind \in Kinds : \E l :
                          /\ new = {Call(t, kind, l)} /\ Sends(t, kind, l)
                          /\ kind \in Await => Awaited(t) = {}
    PROVE  \E S, f : CallsBecome(S, f, new)
<1> PICK f : f = [c \in calls |-> c]
  OBVIOUS
<1>1. \A c \in calls : f[c] = c
  OBVIOUS
<1>2. f = [c \in calls |-> f[c]] /\ {f[c] : c \in calls} = calls
  BY <1>1
<1>3. \A c \in calls : Follows(c, c)
  <2> SUFFICES ASSUME NEW c \in calls PROVE Follows(c, c)
    OBVIOUS
  <2>1. CallKnown(c)' /\ IsCall(c)
    BY KnownStays DEF SessionInv, Typed
  <2> QED BY <2>1 DEF Follows
<1>4. CallsBecome(calls, f, new)
  <2>1. CASE new = {}
    BY <1>1, <1>2, <1>3, <2>1 DEF CallsBecome
  <2>2. ASSUME NEW t \in Tenants, NEW kind \in Kinds, NEW l,
               new = {Call(t, kind, l)}, Sends(t, kind, l), kind \in Await => Awaited(t) = {}
        PROVE  CallsBecome(calls, f, new)
    <3>1. kind \in Await => \A c \in calls : f[c].by = t /\ f[c].waits => f[c].kind \notin Await
      BY <1>1, <2>2 DEF Awaited, Await
    <3> QED BY <1>1, <1>2, <1>3, <2>2, <3>1 DEF CallsBecome
  <2> QED BY <2>1, <2>2
<1> QED BY <1>4

\* A tenant at rest, off or at work awaits nothing.
LEMMA AwaitsNothing ==
    ASSUME SessionInv, NEW t \in Tenants, prog[t].pc \in {"off", "idle", "refused", "using"}
    PROVE  Awaited(t) = {}
BY DEF SessionInv, OneCall, Awaited

LEMMA OwnCalls ==
    ASSUME SessionInv, [Next]_vars, NEW t \in Tenants,
           Boot(t) \/ Close(t) \/ (\E k \in Cards : Acquire(t, k)) \/ (\E l \in Ids : Touch(t, l))
    PROVE  \E S, f, new : CallsBecome(S, f, new)
<1>1. prog \in [Tenants -> Session] /\ Whole(prog[t]) /\ (prog[t].mine # None => Ref(prog[t].mine, t)) /\ None \notin Ids
  BY TenantsAssumption DEF SessionInv, Typed, References, Ids
<1>2. ASSUME NEW kind \in Kinds, NEW l, calls' = calls \cup {Call(t, kind, l)}, Sends(t, kind, l),
             Awaited(t) = {}, NEW q, prog' = [prog EXCEPT ![t] = q]
      PROVE  \E S, f, new : CallsBecome(S, f, new)
  <2>1. \A c \in calls : c.waits /\ c.kind \in Await => prog'[c.by].pc = prog[c.by].pc
    <3>1. \A c \in calls : c.waits /\ c.kind \in Await => c.by # t
      BY <1>2 DEF Awaited, Await
    <3> QED BY <1>1, <1>2, <3>1 DEF SessionInv, Typed, IsCall
  <2>2. \E S, f : CallsBecome(S, f, {Call(t, kind, l)})
    BY <1>2, <2>1, CallsAdded
  <2> QED BY <2>2
<1>3. CASE Boot(t)
  <2>1. /\ prog[t].pc = "off" /\ prog' = [prog EXCEPT ![t].pc = "boot"]
        /\ calls' = calls \cup {Call(t, "list", None)}
    BY <1>3 DEF Boot
  <2>2. prog'[t].pc = "boot"
    BY <1>1, <2>1 DEF Session
  <2> QED BY <1>2, <2>1, <2>2, AwaitsNothing DEF Sends, Kinds
<1>4. CASE Close(t)
  <2>1. /\ prog[t].pc = "using" /\ prog' = [prog EXCEPT ![t] = Closed(t, prog[t])]
        /\ calls' = calls \cup {Call(t, "release", prog[t].mine)}
    BY <1>4 DEF Close
  <2>2. prog'[t].pc = "closing"
    BY <1>1, <2>1, ClosedWhole
  <2>3. prog[t].mine \in Ids /\ Ref(prog[t].mine, t)
    BY <1>1, <2>1 DEF Whole, Session
  <2>4. Sends(t, "release", prog[t].mine)
    BY <2>2, <2>3 DEF Sends
  <2> QED BY <1>2, <2>1, <2>4, AwaitsNothing DEF Kinds
<1>5. ASSUME NEW k \in Cards, Acquire(t, k) PROVE \E S, f, new : CallsBecome(S, f, new)
  <2>1. /\ prog[t].pc = "idle" /\ prog' = [prog EXCEPT ![t].pc = "asking"]
        /\ calls' = calls \cup {Call(t, "acquire", k)}
    BY <1>5 DEF Acquire
  <2>2. prog'[t].pc = "asking"
    BY <1>1, <2>1 DEF Session
  <2> QED BY <1>2, <1>5, <2>1, <2>2, AwaitsNothing DEF Sends, Kinds
<1>6. ASSUME NEW l \in Ids, Touch(t, l) PROVE \E S, f, new : CallsBecome(S, f, new)
  <2>1. /\ prog[t].pc = "using" /\ prog' = [prog EXCEPT ![t].due = @ \ {l}]
        /\ calls' = calls \cup {Call(t, "touch", l)}
    BY <1>6 DEF Touch
  <2>2. Sends(t, "touch", l)
    BY DEF Sends
  <2> QED BY <1>2, <2>1, <2>2, AwaitsNothing DEF Kinds
<1> QED BY <1>3, <1>4, <1>5, <1>6

LEMMA PostCalls ==
    ASSUME SessionInv, [Next]_vars, NEW p \in posts, PostEnds(p)
    PROVE  \E S, f, new : CallsBecome(S, f, new)
<1> DEFINE t == p.to
           r == prog[p.to]
           l == p.lease
<1>1. /\ prog \in [Tenants -> Session] /\ t \in Tenants /\ l \in Ids /\ Ref(l, t) /\ Whole(r)
      /\ \A c \in calls : c.by \in Tenants
  BY DEF SessionInv, Typed, References, IsCall
<1>2. ASSUME UNCHANGED <<prog, calls>> PROVE \E S, f, new : CallsBecome(S, f, new)
  <2>1. calls' = calls \cup {} /\ \A c \in calls : c.waits /\ c.kind \in Await => prog'[c.by].pc = prog[c.by].pc
    BY <1>2
  <2>2. \E S, f : CallsBecome(S, f, {})
    BY <2>1, CallsAdded
  <2> QED BY <2>2
<1>3. ASSUME r.pc = "using", prog' = [prog EXCEPT ![t] = Closed(t, r)], calls' = calls \cup {Call(t, "release", l)}
      PROVE  \E S, f, new : CallsBecome(S, f, new)
  <2>1. Awaited(t) = {}
    BY <1>1, <1>3, AwaitsNothing
  <2>2. prog'[t].pc = "closing"
    BY <1>1, <1>3, ClosedWhole
  <2>3. Sends(t, "release", l)
    BY <1>1, <2>2 DEF Sends
  <2>4. \A c \in calls : c.waits /\ c.kind \in Await => prog'[c.by].pc = prog[c.by].pc
    <3>1. \A c \in calls : c.waits /\ c.kind \in Await => c.by # t
      BY <2>1 DEF Awaited, Await
    <3> QED BY <1>1, <1>3, <3>1
  <2>5. \E S, f : CallsBecome(S, f, {Call(t, "release", l)})
    BY <1>1, <1>3, <2>1, <2>3, <2>4, CallsAdded DEF Kinds
  <2> QED BY <2>5
<1>4. ASSUME ~(r.pc = "using" /\ r.mine = l), prog' = [prog EXCEPT ![t].hasty = @ \/ r.pc = "asking"],
             calls' = calls \cup {Call(t, "vacated", l)}
      PROVE  \E S, f, new : CallsBecome(S, f, new)
  <2>1. \A u \in Tenants : prog'[u].pc = prog[u].pc /\ prog'[u].mine = prog[u].mine
    BY <1>1, <1>4 DEF Session
  <2>2. r.pc = "asking" => prog'[t].hasty
    <3>1. prog'[t] = [r EXCEPT !.hasty = @ \/ r.pc = "asking"]
      BY <1>1, <1>4
    <3>2. prog'[t].hasty = (r.hasty \/ r.pc = "asking")
      BY <1>1, <3>1 DEF Session
    <3> QED BY <3>2
  <2>3. Sends(t, "vacated", l)
    BY <1>1, <1>4, <2>1, <2>2 DEF Sends
  <2>4. \A c \in calls : c.waits /\ c.kind \in Await => prog'[c.by].pc = prog[c.by].pc
    BY <1>1, <2>1
  <2>5. \E S, f : CallsBecome(S, f, {Call(t, "vacated", l)})
    BY <1>1, <1>4, <2>3, <2>4, CallsAdded DEF Kinds, Await
  <2> QED BY <2>5
<1> QED BY <1>2, <1>3, <1>4 DEF PostEnds, Vacated

LEMMA EndCalls ==
    ASSUME SessionInv, [Next]_vars, NEW c \in calls, Answer(c) \/ Fail(c)
    PROVE  \E S, f, new : CallsBecome(S, f, new)
<1>1. PICK a, q, kept, new :
         /\ kept \in SUBSET {GivenUp(c)}
         /\ calls' = ((calls \ {c}) \cup kept) \cup new
         /\ \/ new = {}
            \/ /\ c.kind \in {"list", "release"} /\ q.pc = "boot"
               /\ \E l \in q.todo : new = {Call(c.by, "release", l)}
         /\ prog' = [prog EXCEPT ![c.by] = q] /\ Outcome(c, a, q)
  BY EndFacts
<1>2. /\ c.waits /\ c.by \in Tenants /\ IsCall(c) /\ prog \in [Tenants -> Session]
      /\ \A d \in calls : d.by \in Tenants /\ IsCall(d)
  BY EndFacts DEF SessionInv, Typed, IsCall
<1> DEFINE S == (calls \ {c}) \cup {x \in {c} : kept # {}}
<1> PICK f : f = [x \in calls |-> IF x = c THEN GivenUp(c) ELSE x]
  OBVIOUS
<1>3. /\ S \subseteq calls /\ f = [x \in calls |-> f[x]] /\ {f[x] : x \in S} = (calls \ {c}) \cup kept
      /\ f[c] = GivenUp(c) /\ \A x \in calls \ {c} : f[x] = x
  BY <1>1
<1> HIDE DEF S
<1>4. /\ IsCall(f[c]) /\ f[c].by = c.by /\ f[c].kind = c.kind /\ f[c].about = c.about
      /\ ~f[c].waits /\ f[c].served = c.served /\ f[c].answer = c.answer
  BY <1>2, <1>3, CallChanges
<1>5. Follows(c, f[c])
  <2>1. CallKnown(f[c])'
    BY <1>4, KnownStays
  <2> QED BY <1>2, <1>4, <2>1 DEF Follows
<1>6. \A x \in S \ {c} : Follows(x, f[x])
  <2> SUFFICES ASSUME NEW x \in calls, x # c PROVE Follows(x, x)
    BY <1>3
  <2>1. CallKnown(x)' /\ IsCall(x)
    BY <1>2, KnownStays
  <2>2. x.waits /\ x.kind \in Await => prog'[x.by].pc = prog[x.by].pc
    <3> SUFFICES ASSUME x.waits, x.kind \in Await, x.by = c.by PROVE q.pc = prog[c.by].pc
      BY <1>1, <1>2
    <3>1. x \in Awaited(c.by) /\ c.kind \notin Await
      BY <1>2 DEF SessionInv, OneCall, Awaited, Await
    <3>2. c.kind \in {"touch", "vacated"}
      BY <1>2, <3>1 DEF IsCall, Kinds, Await
    <3>3. prog[c.by].pc # "using"
      BY <1>2, <3>1, AwaitsNothing
    <3> QED BY <1>1, <3>2, <3>3 DEF Outcome
  <2> QED BY <2>1, <2>2 DEF Follows
<1>7. ASSUME NEW l \in q.todo, c.kind \in {"list", "release"}, q.pc = "boot"
      PROVE  Sends(c.by, "release", l)
  BY <1>1, <1>2, <1>7 DEF Outcome, Sends
<1>8. c.kind \in Await => \A x \in S : f[x].by = c.by /\ f[x].waits => f[x].kind \notin Await
  BY <1>2, <1>3, <1>4 DEF SessionInv, OneCall, Awaited, Await
<1>9. CallsBecome(S, f, new)
  <2>1. calls' = {f[x] : x \in S} \cup new /\ \A x \in S : Follows(x, f[x])
    BY <1>1, <1>3, <1>5, <1>6
  <2>2. new = {} \/ \E t \in Tenants, kind \in Kinds : \E l :
                      /\ new = {Call(t, kind, l)} /\ Sends(t, kind, l)
                      /\ kind \in Await =>
                            \A x \in S : f[x].by = t /\ f[x].waits => f[x].kind \notin Await
    <3> SUFFICES ASSUME NEW l \in q.todo, c.kind \in {"list", "release"}, q.pc = "boot",
                        new = {Call(c.by, "release", l)}
                 PROVE  \E t \in Tenants, kind \in Kinds : \E m :
                      /\ new = {Call(t, kind, m)} /\ Sends(t, kind, m)
                      /\ kind \in Await =>
                            \A x \in S : f[x].by = t /\ f[x].waits => f[x].kind \notin Await
      BY <1>1
    <3> QED BY <1>2, <1>7, <1>8 DEF Kinds, Await
  <2> QED BY <1>3, <2>1, <2>2 DEF CallsBecome
<1> QED BY <1>9

\* One call becomes another, or is gone; the rest stay.
LEMMA OneFollows ==
    ASSUME SessionInv, [Next]_vars, UNCHANGED prog, NEW c \in calls, NEW d, Follows(c, d),
           calls' = (calls \ {c}) \cup (IF c.waits THEN {d} ELSE {})
    PROVE  \E S, f : CallsBecome(S, f, {})
<1> DEFINE S == (calls \ {c}) \cup {x \in {c} : c.waits}
<1> PICK f : f = [x \in calls |-> IF x = c THEN d ELSE x]
  OBVIOUS
<1>1. /\ S \subseteq calls /\ f = [x \in calls |-> f[x]] /\ {f[x] : x \in S} = calls'
      /\ f[c] = d /\ \A x \in calls \ {c} : f[x] = x
  OBVIOUS
<1> HIDE DEF S
<1>2. \A x \in S : Follows(x, f[x])
  <2> SUFFICES ASSUME NEW x \in calls, x # c PROVE Follows(x, x)
    BY <1>1
  <2>1. CallKnown(x)' /\ IsCall(x)
    BY KnownStays DEF SessionInv, Typed
  <2> QED BY <2>1 DEF Follows
<1>3. calls' = {f[x] : x \in S} \cup {}
  BY <1>1
<1>4. CallsBecome(S, f, {})
  BY <1>1, <1>2, <1>3 DEF CallsBecome
<1> QED BY <1>4

LEMMA ServedCalls ==
    ASSUME SessionInv, FamiliesApart, [Next]_vars, NEW c \in calls, Serve(c)
    PROVE  \E S, f, new : CallsBecome(S, f, new)
<1>1. PICK a, d : /\ d = Served(c, a) /\ calls' = (calls \ {c}) \cup (IF c.waits THEN {d} ELSE {})
                  /\ CallKnown(d)'
                  /\ c.kind = "acquire" /\ a # None => a = next /\ Granting(c)
  BY ServeCalls
<1>2. IsCall(c)
  BY DEF SessionInv, Typed
<1>3. /\ IsCall(d) /\ d.by = c.by /\ d.kind = c.kind /\ d.about = c.about /\ d.waits = c.waits
      /\ d.served /\ d.answer = a
  BY <1>1, <1>2, CallChanges
<1>4. UNCHANGED prog
  BY DEF Serve
<1>5. Follows(c, d)
  BY <1>1, <1>3, <1>4 DEF Follows, Granting
<1>6. \E S, f : CallsBecome(S, f, {})
  BY <1>1, <1>4, <1>5, OneFollows
<1> QED BY <1>6

LEMMA OrphanedCalls ==
    ASSUME SessionInv, [Next]_vars, NEW t \in Tenants, Die(t)
    PROVE  \E S, f, new : CallsBecome(S, f, new)
<1>1. prog \in [Tenants -> Session] /\ prog' = [prog EXCEPT ![t] = Off] /\ \A c \in calls : IsCall(c) /\ c.by \in Tenants
  BY DEF SessionInv, Typed, Die, IsCall
<1>2. PICK kept \in SUBSET {Orphan(c) : c \in {d \in calls : d.by = t /\ ~d.served}} :
         calls' = {c \in calls : c.by # t} \cup kept
  BY DEF Die, Orphan
<1> DEFINE S == {c \in calls : c.by # t \/ Orphan(c) \in kept}
<1> PICK f : f = [x \in calls |-> IF x.by = t THEN Orphan(x) ELSE x]
  OBVIOUS
<1>3. \A x \in calls : f[x] = IF x.by = t THEN Orphan(x) ELSE x
  OBVIOUS
<1>4. calls' = {f[x] : x \in S}
  BY <1>2, <1>3
<1>5. S \subseteq calls /\ f = [x \in calls |-> f[x]]
  BY <1>3
<1> HIDE DEF S
<1>6. ASSUME NEW x \in calls PROVE Follows(x, f[x])
  <2>1. CASE x.by # t
    <3>1. CallKnown(x)'
      BY KnownStays
    <3> QED BY <1>1, <1>3, <2>1, <3>1 DEF Follows
  <2>2. CASE x.by = t
    <3>1. f[x] = Orphan(x)
      BY <1>3, <2>2
    <3>2. /\ IsCall(f[x]) /\ f[x].by = x.by /\ f[x].kind = x.kind /\ f[x].about = x.about
          /\ ~f[x].waits /\ f[x].served = x.served /\ f[x].answer = x.answer
      BY <1>1, <3>1, CallChanges
    <3>3. CallKnown(f[x])'
      BY <3>2, KnownStays
    <3> QED BY <3>2, <3>3 DEF Follows
  <2> QED BY <2>1, <2>2
<1>7. CallsBecome(S, f, {})
  <2>1. calls' = {f[x] : x \in S} \cup {} /\ \A x \in S : Follows(x, f[x])
    BY <1>4, <1>5, <1>6
  <2> QED BY <1>5, <2>1 DEF CallsBecome
<1> QED BY <1>7

LEMMA CrashedCalls ==
    ASSUME SessionInv, [Next]_vars, Crash
    PROVE  \E S, f, new : CallsBecome(S, f, new)
<1>1. UNCHANGED prog /\ calls' = {Served(c, None) : c \in Waiting} /\ \A c \in calls : IsCall(c)
  BY DEF SessionInv, Typed, Crash, Served
<1> PICK f : f = [x \in calls |-> Served(x, None)]
  OBVIOUS
<1>2. \A x \in calls : f[x] = Served(x, None)
  OBVIOUS
<1>3. Waiting \subseteq calls /\ f = [x \in calls |-> f[x]] /\ calls' = {f[x] : x \in Waiting} \cup {}
  BY <1>1, <1>2 DEF Waiting
<1>4. ASSUME NEW x \in calls PROVE Follows(x, f[x])
  <2>1. /\ IsCall(f[x]) /\ f[x].by = x.by /\ f[x].kind = x.kind /\ f[x].about = x.about
        /\ f[x].waits = x.waits /\ f[x].served /\ f[x].answer = None
    BY <1>1, <1>2, CallChanges
  <2>2. CallKnown(f[x])'
    BY <2>1, KnownStays
  <2> QED BY <1>1, <2>1, <2>2 DEF Follows
<1>5. CallsBecome(Waiting, f, {})
  BY <1>3, <1>4 DEF CallsBecome
<1> QED BY <1>5

LEMMA CallsStep ==
    ASSUME SessionInv, FamiliesApart, [Next]_vars
    PROVE  \E S, f, new : CallsBecome(S, f, new)
<1> DEFINE Goal == \E S, f, new : CallsBecome(S, f, new)
<1>1. ASSUME UNCHANGED calls, UNCHANGED prog \/ Waiting = {} PROVE Goal
  <2>1. calls' = calls \cup {} /\ \A c \in calls : c.waits /\ c.kind \in Await => prog'[c.by].pc = prog[c.by].pc
    BY <1>1 DEF Waiting
  <2>2. \E S, f : CallsBecome(S, f, {})
    BY <2>1, CallsAdded
  <2> QED BY <2>2
<1> HIDE DEF Goal
<1>2. ASSUME NEW l \in Ids, Sweep(l) PROVE Goal
  BY <1>1, <1>2 DEF Sweep
<1>3. ASSUME Tick \/ Restart \/ UNCHANGED vars PROVE Goal
  BY <1>1, <1>3 DEF Tick, Restart, vars
<1>4. ASSUME NEW t \in Tenants,
             Boot(t) \/ Close(t) \/ (\E k \in Cards : Acquire(t, k)) \/ (\E l \in Ids : Touch(t, l))
      PROVE  Goal
  BY <1>4, OwnCalls DEF Goal
<1>5. ASSUME NEW t \in Tenants, Die(t) PROVE Goal
  BY <1>5, OrphanedCalls DEF Goal
<1>6. ASSUME NEW c \in calls, Answer(c) \/ Fail(c) PROVE Goal
  BY <1>6, EndCalls DEF Goal
<1>7. ASSUME NEW c \in calls, Serve(c) PROVE Goal
  BY <1>7, ServedCalls DEF Goal
<1>8. ASSUME NEW p \in posts, PostEnds(p) PROVE Goal
  BY <1>8, PostCalls DEF Goal
<1>9. ASSUME Crash PROVE Goal
  BY <1>9, CrashedCalls DEF Goal
<1>10. Goal
  BY <1>2, <1>3, <1>4, <1>5, <1>6, <1>7, <1>8, <1>9 DEF Next
<1> QED BY <1>10 DEF Goal

\* The ids the calls may still draw are there.
LEMMA CountStep ==
    ASSUME SessionInv, FamiliesApart, [Next]_vars
    PROVE  /\ IsFiniteSet(calls') /\ next' \in 1..MaxIds + 1
           /\ next' + Cardinality(Drawing(calls')) <= MaxIds + 1
<1>1. /\ next \in 1..MaxIds + 1 /\ MaxIds \in Nat /\ IsFiniteSet(calls)
      /\ next + Cardinality(Drawing(calls)) <= MaxIds + 1
  BY TenantsAssumption DEF SessionInv, Typed
<1>2. IsFiniteSet(Drawing(calls)) /\ Cardinality(Drawing(calls)) \in Nat
  <2>1. Drawing(calls) \subseteq calls
    BY DEF Drawing
  <2> QED BY <1>1, <2>1, FS_Subset, FS_CardinalityType
<1>3. ASSUME next' # next
      PROVE  \E c \in calls : Serve(c) /\ ServeAcquire(c) /\ next' = next + 1
                              /\ calls' = (calls \ {c}) \cup (IF c.waits THEN {Served(c, next)} ELSE {})
  <2>1. ASSUME NEW c \in calls, Serve(c)
        PROVE  ServeAcquire(c) /\ next' = next + 1
               /\ calls' = (calls \ {c}) \cup (IF c.waits THEN {Served(c, next)} ELSE {})
    BY <1>3, <2>1 DEF Serve, ServeList, ServeTouch, ServeRelease, ServeAcquire, Answered, Served
  <2>2. \E c \in calls : Serve(c)
    BY <1>3 DEF Next, Boot, Close, Die, Acquire, Touch, Answer, Fail, PostEnds, Sweep, Crash, Restart, Tick, vars
  <2> QED BY <2>1, <2>2
<1>4. CASE next' # next
  <2>1. PICK c \in calls : Serve(c) /\ ServeAcquire(c) /\ next' = next + 1
                           /\ calls' = (calls \ {c}) \cup (IF c.waits THEN {Served(c, next)} ELSE {})
    BY <1>3, <1>4
  <2>2. IsCall(c) /\ c \in Drawing(calls)
    BY <2>1 DEF SessionInv, Typed, Serve, ServeAcquire, Drawing
  <2>3. Drawing(calls') = Drawing(calls) \ {c}
    <3>1. Served(c, next).served
      BY <2>2, CallChanges
    <3> QED BY <2>1, <3>1 DEF Drawing
  <2>4. Cardinality(Drawing(calls')) = Cardinality(Drawing(calls)) - 1
    BY <1>2, <2>2, <2>3, FS_RemoveElement
  <2>5. Cardinality(Drawing(calls)) # 0
    BY <1>2, <2>2, FS_EmptySet
  <2>6. IsFiniteSet(calls')
    <3>1. IsFiniteSet(calls \ {c})
      BY <1>1, FS_Subset
    <3>2. IsFiniteSet((calls \ {c}) \cup {Served(c, next)})
      BY <3>1, FS_AddElement
    <3> QED BY <2>1, <3>1, <3>2
  <2> QED BY <1>1, <1>2, <2>1, <2>4, <2>5, <2>6
<1>5. ASSUME NEW t \in Tenants, NEW k \in Cards, Acquire(t, k)
      PROVE  IsFiniteSet(calls') /\ next' = next /\ next + Cardinality(Drawing(calls')) <= MaxIds + 1
  <2>1. calls' = calls \cup {Call(t, "acquire", k)} /\ next' = next
        /\ next + Cardinality(Drawing(calls)) <= MaxIds
    BY <1>5 DEF Acquire, Drawing
  <2>2. Drawing(calls') = Drawing(calls) \cup {Call(t, "acquire", k)}
    <3>1. Call(t, "acquire", k).kind = "acquire" /\ ~Call(t, "acquire", k).served
      BY CallIsCall DEF Kinds
    <3> QED BY <2>1, <3>1 DEF Drawing
  <2>3. Cardinality(Drawing(calls')) \in {Cardinality(Drawing(calls)), Cardinality(Drawing(calls)) + 1}
    BY <1>2, <2>2, FS_AddElement
  <2> QED BY <1>1, <1>2, <2>1, <2>3, FS_AddElement
<1>6. CASE next' = next
  <2>1. PICK S, f, new : CallsBecome(S, f, new)
    BY CallsStep
  <2> DEFINE T == {f[c] : c \in S}
             g == [c \in S |-> f[c]]
  <2>2. /\ S \subseteq calls /\ calls' = T \cup new /\ g = [c \in S |-> g[c]]
        /\ \A y \in T : \E x \in S : y = g[x]
        /\ \A x \in S : g[x].kind = "acquire" /\ ~g[x].served => x.kind = "acquire" /\ ~x.served
    BY <2>1 DEF CallsBecome, Follows
  <2>3. IsFiniteSet(S) /\ Drawing(S) \subseteq Drawing(calls)
    BY <1>1, <2>2, FS_Subset DEF Drawing
  <2>4. IsFiniteSet(T) /\ Cardinality(Drawing(T)) <= Cardinality(Drawing(S))
        /\ Cardinality(Drawing(S)) \in Nat /\ Cardinality(Drawing(T)) \in Nat
    <3> HIDE DEF T, g
    <3> QED BY <2>2, <2>3, FewerDrawing
  <2>5. Cardinality(Drawing(S)) <= Cardinality(Drawing(calls))
    BY <1>2, <2>3, FS_Subset
  <2> HIDE DEF T, g
  <2>6. CASE new = {}
    BY <1>1, <1>2, <1>6, <2>2, <2>4, <2>5, <2>6
  <2>7. ASSUME NEW t \in Tenants, NEW kind \in Kinds, NEW l, new = {Call(t, kind, l)}, Sends(t, kind, l)
        PROVE  IsFiniteSet(calls') /\ next + Cardinality(Drawing(calls')) <= MaxIds + 1
    <3>1. CASE kind = "acquire"
      BY <1>5, <2>7, <3>1 DEF Sends
    <3>2. CASE kind # "acquire"
      <4>1. Call(t, kind, l).kind # "acquire"
        BY <3>2, CallIsCall
      <4>2. IsFiniteSet(calls') /\ Drawing(calls') = Drawing(T)
        BY <2>2, <2>4, <2>7, <4>1, SameDrawing
      <4> QED BY <1>1, <1>2, <2>4, <2>5, <4>2
    <3> QED BY <3>1, <3>2
  <2>8. IsFiniteSet(calls') /\ next + Cardinality(Drawing(calls')) <= MaxIds + 1
    BY <1>6, <2>1, <2>6, <2>7 DEF CallsBecome
  <2> QED BY <1>1, <1>6, <2>8
<1> QED BY <1>4, <1>6

-----------------------------------------------------------------------------
\* The parts of the invariant that hold whatever the ttl.

\* A request to vacate goes to the tenant of its lease.
LEMMA PostsStep ==
    ASSUME SessionInv, [Next]_vars, NEW p \in posts'
    PROVE  p \in [lease : Ids, to : Tenants, old : BOOLEAN] /\ Ref(p.lease, p.to)
<1>1. /\ \A x \in posts : x \in [lease : Ids, to : Tenants, old : BOOLEAN] /\ Ref(x.lease, x.to)
      /\ DOMAIN book \subseteq 1..next - 1 /\ next \in 1..MaxIds + 1 /\ book \in [DOMAIN book -> Lease] /\ MaxIds \in Nat
  BY TenantsAssumption DEF SessionInv, Typed, References
<1>2. CASE posts' \subseteq posts
  BY <1>1, <1>2
<1>3. ASSUME NEW t \in Tenants, Die(t)
      PROVE  p \in [lease : Ids, to : Tenants, old : BOOLEAN] /\ Ref(p.lease, p.to)
  <2>1. PICK x \in posts : p = [x EXCEPT !.old = @ \/ x.to = t]
    BY <1>3 DEF Die
  <2>2. p = [x EXCEPT !.old = (x.old \/ x.to = t)] /\ (x.old \/ x.to = t) \in BOOLEAN
    BY <1>1, <2>1
  <2> QED BY <1>1, <2>2
<1>4. ASSUME NEW c \in calls, Serve(c)
      PROVE  p \in [lease : Ids, to : Tenants, old : BOOLEAN] /\ Ref(p.lease, p.to)
  <2>1. CASE p \in posts
    BY <1>1, <2>1
  <2>2. CASE p \notin posts
    <3>1. \E l \in DOMAIN book : p = [lease |-> l, to |-> book[l].by, old |-> book[l].old]
      BY <1>4, <2>2 DEF Serve, ServeList, ServeTouch, ServeRelease, ServeAcquire, Holders
    <3> QED BY <1>1, <3>1 DEF Lease, Ids, Ref
  <2> QED BY <2>1, <2>2
<1>5. posts' \subseteq posts \/ (\E t \in Tenants : Die(t)) \/ \E c \in calls : Serve(c)
  BY DEF Next, Boot, Close, Acquire, Touch, Answer, Fail, PostEnds, Sweep, Crash, Restart, Tick, vars
<1> QED BY <1>2, <1>3, <1>4, <1>5

LEMMA TypedStep ==
    ASSUME SessionInv, FamiliesApart, [Next]_vars
    PROVE  Typed'
<1>1. /\ up \in BOOLEAN /\ next \in Nat /\ faults \in 0..MaxFaults /\ deaths \in 0..MaxDeaths
      /\ MaxFaults \in Nat /\ MaxDeaths \in Nat /\ MaxIds \in Nat /\ DOMAIN book \subseteq 1..next - 1
  BY TenantsAssumption DEF SessionInv, Typed
<1>2. up' \in BOOLEAN
  BY <1>1 DEF Next, Boot, Close, Die, Acquire, Touch, Serve, Answer, Fail, PostEnds, Sweep, Crash, Restart, Tick, vars
<1>3. faults' \in 0..MaxFaults
  <2>1. faults' = faults \/ (faults' = faults + 1 /\ faults < MaxFaults)
    BY DEF Next, Boot, Close, Die, Acquire, Touch, Serve, Answer, Fail, PostEnds, Sweep, Crash, Restart, Tick, vars
  <2> QED BY <1>1, <2>1
<1>4. deaths' \in 0..MaxDeaths
  <2>1. deaths' = deaths \/ (deaths' = deaths + 1 /\ deaths < MaxDeaths)
    BY DEF Next, Boot, Close, Die, Acquire, Touch, Serve, Answer, Fail, PostEnds, Sweep, Crash, Restart, Tick, vars
  <2> QED BY <1>1, <2>1
<1>5. IsFiniteSet(calls') /\ next' \in 1..MaxIds + 1 /\ next' + Cardinality(Drawing(calls')) <= MaxIds + 1
  BY CountStep
<1>6. ASSUME NEW c \in calls' PROVE IsCall(c)
  <2>1. PICK S, f, new : CallsBecome(S, f, new)
    BY CallsStep
  <2>2. CASE c \in new
    BY <2>1, <2>2, CallIsCall DEF CallsBecome
  <2>3. CASE \E x \in S : c = f[x]
    BY <2>1, <2>3 DEF CallsBecome, Follows
  <2> QED BY <2>1, <2>2, <2>3 DEF CallsBecome
<1>7. posts' \subseteq [lease : Ids, to : Tenants, old : BOOLEAN]
  BY PostsStep
<1>8. DOMAIN book' \subseteq 1..next' - 1 /\ book' \in [DOMAIN book' -> Lease]
  <2>1. next \in 1..MaxIds + 1 /\ next' \in {next, next + 1}
    BY BookStep DEF SessionInv, Typed
  <2>2. \A l \in DOMAIN book' : l \in DOMAIN book \/ (l = next /\ next' = next + 1)
    BY BookStep
  <2>3. book' \in [DOMAIN book' -> Lease]
    BY BookStep
  <2> QED BY <1>1, <2>1, <2>2, <2>3
<1>9. prog' \in [Tenants -> Session] /\ \A t \in Tenants : Whole(prog'[t])
  BY SessionsStep
<1>10. (\A t \in Tenants : Whole(prog[t]))' <=> \A t \in Tenants : Whole(prog'[t])
  BY DEF Whole, Session, Off
<1>11. Drawing(calls)' = Drawing(calls')
  BY DEF Drawing
<1> QED BY <1>2, <1>3, <1>4, <1>5, <1>6, <1>7, <1>8, <1>9, <1>10, <1>11 DEF Typed, IsCall

LEMMA ReferencesStep ==
    ASSUME SessionInv, FamiliesApart, [Next]_vars
    PROVE  References'
<1>0. None \notin Ids /\ Ids \subseteq Nat
  BY TenantsAssumption DEF Ids
<1>1. ASSUME NEW c \in calls' PROVE CallKnown(c)'
  <2>1. PICK S, f, new : CallsBecome(S, f, new)
    BY CallsStep
  <2>2. ASSUME NEW t \in Tenants, NEW kind \in Kinds, NEW l, c = Call(t, kind, l), Sends(t, kind, l)
        PROVE  CallKnown(c)'
    <3>1. c.by = t /\ c.kind = kind /\ c.about = l /\ c.answer = None
      BY <2>2, CallIsCall
    <3>2. l \in Ids /\ Ref(l, t) => Ref(l, t)'
      BY <1>0, RefStays
    <3> QED BY <2>2, <3>1, <3>2 DEF CallKnown, Sends
  <2>3. CASE \E x \in S : c = f[x]
    <3>1. PICK x \in S : c = f[x]
      BY <2>3
    <3>2. Follows(x, c)
      BY <2>1, <3>1 DEF CallsBecome
    <3> QED BY <3>2 DEF Follows
  <2> QED BY <2>1, <2>2, <2>3 DEF CallsBecome
<1>2. ASSUME NEW t \in Tenants
      PROVE  /\ \A l : prog'[t].mine = l /\ l # None => Ref(l, t)'
             /\ \A l \in prog'[t].todo : Ref(l, t)'
  <2>1. \A l \in Ids : Ref(l, t) => Ref(l, t)'
    BY <1>0, RefStays
  <2>2. prog'[t].mine # None => prog'[t].mine \in Ids /\ Ref(prog'[t].mine, t)
    BY SessionsStep
  <2>3. \A l \in prog'[t].todo : l \in Ids /\ Ref(l, t)
    BY SessionsStep
  <2> QED BY <2>1, <2>2, <2>3
<1>3. ASSUME NEW p \in posts' PROVE Ref(p.lease, p.to)'
  BY <1>0, PostsStep, RefStays
<1>4. ASSUME NEW t \in Tenants PROVE (prog[t].mine # None => Ref(prog[t].mine, t))'
  BY <1>2, <1>4 DEF Ref
<1> QED BY <1>1, <1>2, <1>3, <1>4 DEF References

LEMMA OneCallStep ==
    ASSUME SessionInv, FamiliesApart, [Next]_vars
    PROVE  OneCall'
<1>1. PICK S, f, new : CallsBecome(S, f, new)
  BY CallsStep
<1>2. ASSUME NEW t \in Tenants, NEW c \in calls', c.by = t, c.waits, c.kind \in Await
      PROVE  /\ \A d \in calls' : d.by = t /\ d.waits /\ d.kind \in Await => c = d
             /\ prog'[t].pc \in IF c.kind = "list" THEN {"boot"} ELSE
                                IF c.kind = "acquire" THEN {"asking"} ELSE {"boot", "closing"}
  <2>1. \A x \in S : x \in calls /\ Follows(x, f[x])
    BY <1>1 DEF CallsBecome
  <2>2. ASSUME NEW x \in S, f[x].by = t, f[x].waits, f[x].kind \in Await
        PROVE  /\ x \in Awaited(t) /\ x.kind = f[x].kind
               /\ prog'[t].pc \in IF x.kind = "list" THEN {"boot"} ELSE
                                  IF x.kind = "acquire" THEN {"asking"} ELSE {"boot", "closing"}
    <3>1. x \in Awaited(t) /\ x.kind = f[x].kind /\ prog'[t].pc = prog[t].pc
      BY <2>1, <2>2 DEF Follows, Awaited, Await
    <3> QED BY <3>1 DEF SessionInv, OneCall
  <2>3. \A x, y \in S : x \in Awaited(t) /\ y \in Awaited(t) => x = y
    BY DEF SessionInv, OneCall
  <2>4. CASE \E x \in S : c = f[x]
    <3>1. PICK x \in S : c = f[x]
      BY <2>4
    <3>2. ASSUME NEW d \in calls', d.by = t, d.waits, d.kind \in Await PROVE c = d
      <4>1. CASE \E y \in S : d = f[y]
        BY <1>2, <2>2, <2>3, <3>1, <3>2, <4>1
      <4>2. CASE d \in new
        <5>1. PICK u, kind, l :
                 /\ u \in Tenants /\ kind \in Kinds
                 /\ new = {Call(u, kind, l)} /\ Sends(u, kind, l)
                 /\ kind \in Await => \A y \in S : f[y].by = u /\ f[y].waits => f[y].kind \notin Await
          BY <1>1, <4>2 DEF CallsBecome
        <5>2. d.by = u /\ d.kind = kind
          BY <4>2, <5>1, CallIsCall
        <5> QED BY <1>2, <3>1, <3>2, <5>1, <5>2
      <4> QED BY <1>1, <4>1, <4>2 DEF CallsBecome
    <3> QED BY <1>2, <2>2, <3>1, <3>2
  <2>5. CASE c \in new
    <3>1. PICK u, kind, l :
             /\ u \in Tenants /\ kind \in Kinds
             /\ new = {Call(u, kind, l)} /\ Sends(u, kind, l)
             /\ kind \in Await => \A y \in S : f[y].by = u /\ f[y].waits => f[y].kind \notin Await
      BY <1>1, <2>5 DEF CallsBecome
    <3>2. c.by = u /\ c.kind = kind /\ new = {c}
      BY <2>5, <3>1, CallIsCall
    <3>3. ASSUME NEW d \in calls', d.by = t, d.waits, d.kind \in Await PROVE c = d
      BY <1>1, <1>2, <3>1, <3>2, <3>3 DEF CallsBecome
    <3> QED BY <1>2, <3>1, <3>2, <3>3 DEF Sends, Await
  <2> QED BY <1>1, <2>4, <2>5 DEF CallsBecome
<1> QED BY <1>2 DEF OneCall, Awaited, Await

LEMMA OneLeaseStep ==
    ASSUME SessionInv, [Next]_vars
    PROVE  OneLeasePerCard'
<1> SUFFICES ASSUME NEW k \in DOMAIN book', NEW l \in DOMAIN book', book'[k].card = book'[l].card
             PROVE  k = l
  BY DEF OneLeasePerCard
<1>1. /\ \A m \in DOMAIN book' :
            \/ m \in DOMAIN book /\ book'[m].card = book[m].card
            \/ m = next /\ \A j \in DOMAIN book : book[j].card # book'[m].card
  BY BookStep DEF Holders
<1>2. \A m \in DOMAIN book, j \in DOMAIN book : book[m].card = book[j].card => m = j
  BY DEF SessionInv, OneLeasePerCard
<1> QED BY <1>1, <1>2

-----------------------------------------------------------------------------
\* A lease in use stays in the book.

\* Who works now worked before, or hears of the grant; and was not asked to leave.
LEMMA UsingStep ==
    ASSUME SessionInv, [Next]_vars, NEW t \in Tenants, prog'[t].pc \in {"asking", "using"}, ~prog'[t].hasty
    PROVE  /\ ~prog[t].hasty
           /\ prog'[t].pc = "using" =>
                 \/ /\ prog[t].pc = "using" /\ prog'[t].mine = prog[t].mine /\ prog'[t].card = prog[t].card
                 \/ \E c \in calls : /\ c.waits /\ c.served /\ c.by = t /\ c.kind = "acquire"
                                     /\ c.answer = prog'[t].mine /\ c.about = prog'[t].card
                                     /\ UNCHANGED <<up, book, next>>
<1> DEFINE Same == /\ ~prog[t].hasty
                   /\ prog'[t].pc = "using" =>
                        prog[t].pc = "using" /\ prog'[t].mine = prog[t].mine /\ prog'[t].card = prog[t].card
           Goal == /\ ~prog[t].hasty
                   /\ prog'[t].pc = "using" =>
                        \/ prog[t].pc = "using" /\ prog'[t].mine = prog[t].mine /\ prog'[t].card = prog[t].card
                        \/ \E c \in calls : /\ c.waits /\ c.served /\ c.by = t /\ c.kind = "acquire"
                                            /\ c.answer = prog'[t].mine /\ c.about = prog'[t].card
                                            /\ UNCHANGED <<up, book, next>>
<1>1. prog \in [Tenants -> Session] /\ prog[t] \in Session
  BY DEF SessionInv, Typed
<1>2. ASSUME UNCHANGED prog PROVE Same
  BY <1>2
<1>3. ASSUME NEW u \in Tenants, NEW q, prog' = [prog EXCEPT ![u] = q], u # t PROVE Same
  BY <1>1, <1>3
<1>4. ASSUME NEW q, prog' = [prog EXCEPT ![t] = q] PROVE prog'[t] = q
  BY <1>1, <1>4
<1>5. ASSUME NEW u \in Tenants, Boot(u) \/ Close(u) \/ Die(u) \/ (\E k \in Cards : Acquire(u, k)) \/ (\E l \in Ids : Touch(u, l))
      PROVE  Same
  <2>1. CASE u # t
    BY <1>3, <1>5, <2>1 DEF Boot, Close, Die, Acquire, Touch
  <2>2. CASE Boot(t)
    <3>1. prog'[t].pc = "boot"
      BY <1>1, <2>2 DEF Boot, Session
    <3> QED BY <3>1
  <2>3. CASE Close(t)
    <3>1. prog' = [prog EXCEPT ![t] = Closed(t, prog[t])] /\ prog[t].pc = "using" /\ Whole(prog[t])
      BY <2>3 DEF Close, SessionInv, Typed
    <3>2. prog'[t].pc = "closing"
      BY <1>4, <3>1, ClosedWhole
    <3> QED BY <3>2
  <2>4. CASE Die(t)
    BY <1>1, <2>4 DEF Die, Off
  <2>5. CASE \E k \in Cards : Acquire(t, k)
    BY <1>1, <2>5 DEF Acquire, Session
  <2>6. CASE \E l \in Ids : Touch(t, l)
    BY <1>1, <2>6 DEF Touch, Session
  <2> QED BY <1>5, <2>1, <2>2, <2>3, <2>4, <2>5, <2>6
<1>6. ASSUME NEW c \in calls, Answer(c) \/ Fail(c) PROVE Goal
  <2>1. PICK a, q : /\ a = None \/ (c.served /\ a = c.answer)
                    /\ prog' = [prog EXCEPT ![c.by] = q] /\ Outcome(c, a, q)
                    /\ c.waits /\ UNCHANGED <<up, book, next>>
    BY <1>6, EndFacts
  <2>2. c.by \in Tenants
    BY DEF SessionInv, Typed, IsCall
  <2>3. CASE c.by # t
    BY <1>3, <2>1, <2>2, <2>3
  <2>4. CASE c.by = t
    <3>1. prog'[t] = q
      BY <1>4, <2>1, <2>4
    <3> QED BY <2>1, <2>4, <3>1 DEF Outcome
  <2> QED BY <2>3, <2>4
<1>7. ASSUME NEW p \in posts, PostEnds(p) PROVE Same
  <2>1. p.to \in Tenants /\ Whole(prog[p.to])
    BY DEF SessionInv, Typed
  <2>2. CASE Vacated(p.to, p.lease)
    <3>1. CASE p.to # t
      <4>1. \E q : prog' = [prog EXCEPT ![p.to] = q]
        BY <2>2 DEF Vacated
      <4> QED BY <1>3, <2>1, <3>1, <4>1
    <3>2. CASE p.to = t /\ prog[t].pc = "using" /\ prog' = [prog EXCEPT ![t] = Closed(t, prog[t])]
      <4>1. prog'[t].pc = "closing"
        BY <1>4, <2>1, <3>2, ClosedWhole
      <4> QED BY <4>1
    <3>3. CASE p.to = t /\ prog' = [prog EXCEPT ![t].hasty = @ \/ prog[t].pc = "asking"]
      <4> DEFINE h == prog[t].hasty \/ prog[t].pc = "asking"
      <4>1. prog'[t] = [prog[t] EXCEPT !.hasty = h]
        BY <1>1, <3>3
      <4>2. prog'[t].hasty = h /\ prog'[t].pc = prog[t].pc /\ prog'[t].mine = prog[t].mine /\ prog'[t].card = prog[t].card
        <5> HIDE DEF h
        <5> QED BY <1>1, <4>1 DEF Session
      <4>3. ~prog[t].hasty
        BY <4>2
      <4> QED BY <4>2, <4>3
    <3> QED BY <2>2, <3>1, <3>2, <3>3 DEF Vacated
  <2> QED BY <1>2, <1>7, <2>2 DEF PostEnds
<1>8. ASSUME Tick PROVE Same
  <2>1. prog'[t] = [prog[t] EXCEPT !.due = prog[t].loops, !.pc = IF @ = "refused" THEN "idle" ELSE @]
    BY <1>8 DEF Tick
  <2>2. /\ prog'[t].hasty = prog[t].hasty /\ prog'[t].mine = prog[t].mine /\ prog'[t].card = prog[t].card
        /\ prog'[t].pc = IF prog[t].pc = "refused" THEN "idle" ELSE prog[t].pc
    BY <1>1, <2>1 DEF Session
  <2> QED BY <2>2
<1>9. UNCHANGED prog \/ (\E u \in Tenants : Boot(u) \/ Close(u) \/ Die(u) \/ (\E k \in Cards : Acquire(u, k)) \/ (\E l \in Ids : Touch(u, l)))
      \/ (\E c \in calls : Answer(c) \/ Fail(c)) \/ (\E p \in posts : PostEnds(p)) \/ Tick
  BY DEF Next, Serve, Sweep, Crash, Restart, vars
<1>10. Goal
  <2>1. Same => Goal
    OBVIOUS
  <2> HIDE DEF Same, Goal
  <2> QED BY <1>2, <1>5, <1>6, <1>7, <1>8, <1>9, <2>1
<1> QED BY <1>10

\* Before: l is in the book, t's, on k, young, and nobody is about to release it.
Safe(t, l, k) ==
    /\ Stable(t, l, k) /\ book[l].age <= 2 * faults + 1 /\ (~up => book[l].age + 1 <= 2 * faults)
    /\ Granted(t, l, k) => up /\ book[l].age <= 2 * faults
    /\ Using(t, l, k) => Young(t, l)

\* Who works at a lease, or is to hear of it, did before, or is granted it now.
LEMMA Before ==
    ASSUME SessionInv, FamiliesApart, [Next]_vars, NEW t \in Tenants, NEW l \in Ids, NEW k \in Cards, ~prog'[t].hasty,
           Granted(t, l, k)' \/ Using(t, l, k)'
    PROVE  /\ prog'[t].pc \in {"asking", "using"}
           /\ \/ Safe(t, l, k) /\ (Granted(t, l, k) \/ Using(t, l, k))
              \/ /\ l = next /\ next' = next + 1 /\ l \in DOMAIN book'
                 /\ book'[l].by = t /\ book'[l].card = k /\ book'[l].age = 0
           /\ Using(t, l, k)' => (Granted(t, l, k) /\ UNCHANGED <<up, book, next>>) \/ Using(t, l, k)
           /\ Granted(t, l, k)' => Granted(t, l, k) \/ (l = next /\ next' = next + 1)
<1>0. None \notin Ids /\ faults \in 0..MaxFaults /\ MaxFaults \in Nat
  BY TenantsAssumption DEF Ids, SessionInv, Typed
<1>1. ~prog[t].hasty /\ (Granted(t, l, k) \/ Using(t, l, k)) => Safe(t, l, k)
  <2>1. ASSUME ~prog[t].hasty
        PROVE  /\ Granted(t, l, k) => up /\ Stable(t, l, k) /\ book[l].age <= 2 * faults
               /\ Using(t, l, k) => Stable(t, l, k) /\ Young(t, l)
    BY <2>1 DEF SessionInv, Kept
  <2>2. l \in DOMAIN book => book[l].age \in Nat
    <3>1. l \in DOMAIN book => book[l] \in Lease
      BY DEF SessionInv, Typed
    <3> QED BY <3>1, TenantsAssumption DEF Lease
  <2> QED BY <1>0, <2>1, <2>2 DEF Safe, Young, Stable
<1>2. CASE Using(t, l, k)'
  <2>1. prog'[t].pc = "using" /\ prog'[t].mine = l /\ prog'[t].card = k
    BY <1>2 DEF Using
  <2>2. (Granted(t, l, k) /\ UNCHANGED <<up, book, next>>) \/ Using(t, l, k)
    BY <2>1, UsingStep DEF Granted, Using
  <2>3. ~prog[t].hasty
    BY <2>1, UsingStep
  <2>4. ~Granted(t, l, k)'
    <3>1. OneCall'
      BY OneCallStep
    <3>2. ASSUME NEW c \in calls', c.by = t, c.kind = "acquire", c.waits PROVE FALSE
      BY <2>1, <3>1, <3>2 DEF OneCall, Awaited
    <3> QED BY <3>2 DEF Granted
  <2> QED BY <1>1, <2>1, <2>2, <2>3, <2>4
<1>3. CASE Granted(t, l, k)'
  <2>1. PICK d \in calls' : /\ d.by = t /\ d.kind = "acquire" /\ d.waits /\ d.served
                            /\ d.answer = l /\ d.about = k
    BY <1>3 DEF Granted
  <2>2. PICK S, f, new : CallsBecome(S, f, new)
    BY CallsStep
  <2>3. d \notin new
    <3>1. ASSUME NEW u \in Tenants, NEW kind \in Kinds, NEW m, new = {Call(u, kind, m)}, d \in new PROVE FALSE
      BY <2>1, <3>1, CallIsCall
    <3> QED BY <2>2, <3>1 DEF CallsBecome
  <2>4. PICK x \in S : d = f[x]
    BY <2>2, <2>3 DEF CallsBecome
  <2>5. x \in calls /\ Follows(x, d)
    BY <2>2, <2>4 DEF CallsBecome
  <2>6. Granted(t, l, k) \/ (l = next /\ Granting(d))
    BY <1>0, <2>1, <2>5 DEF Follows, Granted
  <2>7. prog'[t].pc = "asking"
    <3>1. OneCall'
      BY OneCallStep
    <3> QED BY <2>1, <3>1 DEF OneCall, Awaited
  <2>8. ~prog[t].hasty
    BY <2>7, UsingStep
  <2>9. ~Using(t, l, k)'
    BY <2>7 DEF Using
  <2> QED BY <1>1, <2>1, <2>6, <2>7, <2>8, <2>9 DEF Granting
<1> QED BY <1>2, <1>3

\* A lease somebody works at is neither swept nor released.
LEMMA SafeStays ==
    ASSUME SessionInv, [Next]_vars, 2 * MaxFaults + 1 < Ttl, NEW t \in Tenants, NEW l \in Ids, NEW k \in Cards,
           Safe(t, l, k)
    PROVE  l \in DOMAIN book' /\ book'[l].by = t /\ book'[l].card = k
<1>1. /\ l \in DOMAIN book /\ book[l].by = t /\ book[l].card = k /\ book[l].age < Ttl /\ book[l].age # Ttl
      /\ \A c \in calls : c.kind \in {"release", "vacated"} => c.about # l
      /\ l < next /\ next \in Nat
  <2>1. faults \in 0..MaxFaults /\ MaxFaults \in Nat /\ Ttl \in Nat /\ book[l].age <= 2 * faults + 1 /\ l \in DOMAIN book
    BY TenantsAssumption DEF SessionInv, Typed, Safe, Stable
  <2>2. book[l].age \in Nat
    BY <2>1 DEF SessionInv, Typed, Lease
  <2>3. l < next /\ next \in Nat
    BY <2>1, TenantsAssumption DEF SessionInv, Typed
  <2> QED BY <2>1, <2>2, <2>3 DEF Safe, Stable
<1>2. l \in DOMAIN book'
  <2>1. CASE UNCHANGED book
    BY <1>1, <2>1
  <2>2. ASSUME NEW m \in Ids, Sweep(m) PROVE l \in DOMAIN book'
    <3>1. m # l
      BY <1>1, <2>2 DEF Sweep
    <3> QED BY <1>1, <2>2, <3>1 DEF Sweep, Without
  <2>3. ASSUME NEW c \in calls, Serve(c) PROVE l \in DOMAIN book'
    <3>1. CASE ServeRelease(c)
      <4>1. c.about # l
        BY <1>1, <3>1 DEF ServeRelease
      <4> QED BY <1>1, <3>1, <4>1 DEF ServeRelease, Without
    <3>2. CASE ServeList(c)
      BY <1>1, <3>2 DEF ServeList
    <3>3. CASE ServeTouch(c)
      BY <1>1, <3>3 DEF ServeTouch
    <3>4. CASE ServeAcquire(c)
      BY <1>1, <3>4 DEF ServeAcquire
    <3> QED BY <2>3, <3>1, <3>2, <3>3, <3>4 DEF Serve
  <2>4. ASSUME NEW p \in posts, PostEnds(p) PROVE l \in DOMAIN book'
    BY <1>1, <2>4 DEF PostEnds
  <2>5. CASE Restart
    <3>1. book \in [DOMAIN book -> Lease] /\ faults \in 0..MaxFaults /\ MaxFaults \in Nat /\ Ttl \in Nat
      BY TenantsAssumption DEF SessionInv, Typed
    <3>2. book[l].age \in Nat /\ book[l].age + 1 <= 2 * faults
      <4>1. ~up /\ book[l] \in Lease
        BY <1>1, <2>5, <3>1, RestartFacts
      <4> QED BY <4>1 DEF Safe, Lease
    <3>3. book[l].age + 1 < Ttl
      BY <3>1, <3>2
    <3> QED BY <1>1, <2>5, <3>1, <3>3, RestartFacts
  <2>6. CASE Tick \/ \E u \in Tenants : Die(u)
    BY <1>1, <2>6 DEF Tick, Die
  <2> QED BY <2>1, <2>2, <2>3, <2>4, <2>5, <2>6
          DEF Next, Boot, Close, Acquire, Touch, Answer, Fail, Crash, vars
<1> QED BY <1>1, <1>2, BookStep

\* Nobody is about to release it.
LEMMA NobodyReleases ==
    ASSUME SessionInv, FamiliesApart, [Next]_vars, NEW t \in Tenants, NEW l \in Ids, NEW k \in Cards, ~prog'[t].hasty,
           Granted(t, l, k)' \/ Using(t, l, k)', Safe(t, l, k) \/ l = next,
           l \in DOMAIN book', book'[l].by = t,
           NEW d \in calls', d.kind \in {"release", "vacated"}
    PROVE  d.about # l
<1> SUFFICES ASSUME d.about = l PROVE FALSE
  OBVIOUS
<1>1. d.by = t
  <2>1. References'
    BY ReferencesStep
  <2>2. Ref(l, d.by)'
    BY <2>1 DEF References, CallKnown
  <2> QED BY <2>2 DEF Ref
<1>2. PICK S, f, new : CallsBecome(S, f, new)
  BY CallsStep
<1>3. CASE \E x \in S : d = f[x]
  <2>1. PICK x \in calls : Follows(x, d)
    BY <1>2, <1>3 DEF CallsBecome
  <2>2. x.kind \in {"release", "vacated"} /\ x.about = l
    BY <2>1 DEF Follows
  <2>3. l < next /\ next \in Nat
    BY <2>2, TenantsAssumption DEF SessionInv, References, CallKnown, Ref, Typed
  <2> QED BY <2>2, <2>3 DEF Safe, Stable
<1>4. CASE d \in new
  <2>1. PICK u, kind, m :
           u \in Tenants /\ kind \in Kinds /\ new = {Call(u, kind, m)} /\ Sends(u, kind, m)
    BY <1>2, <1>4 DEF CallsBecome
  <2>2. u = t /\ kind = d.kind /\ m = l
    BY <1>1, <1>4, <2>1, CallIsCall
  <2>3. prog'[t].pc \in {"asking", "using"}
    BY Before
  <2>4. d.kind = "vacated" /\ prog'[t].pc = "using" /\ prog'[t].mine # l
    BY <2>1, <2>2, <2>3 DEF Sends
  <2>5. ~Using(t, l, k)'
    BY <2>4 DEF Using
  <2>6. ~Granted(t, l, k)'
    <3>1. OneCall'
      BY OneCallStep
    <3> QED BY <2>4, <3>1 DEF OneCall, Awaited, Granted
  <2> QED BY <2>5, <2>6
<1> QED BY <1>2, <1>3, <1>4 DEF CallsBecome

\* Only a tick and a restart make a lease older.
LEMMA AgeStep ==
    ASSUME SessionInv, [Next]_vars, NEW l \in DOMAIN book, l \in DOMAIN book'
    PROVE  /\ book[l].age \in Nat /\ book'[l].age \in Nat
           /\ book'[l].age <= book[l].age + 1
           /\ ~Tick /\ ~(~up /\ up' /\ faults' = faults) => book'[l].age <= book[l].age
<1>1. book[l] \in Lease /\ book[l].age \in Nat /\ l # next
  BY TenantsAssumption DEF SessionInv, Typed, Lease
<1>2. book'[l].age \in Nat
  BY BookStep, TenantsAssumption DEF Lease
<1>3. CASE Tick
  <2>1. book'[l].age = IF book[l].age = Ttl THEN Ttl ELSE book[l].age + 1
    BY <1>1, <1>3 DEF Tick, Lease
  <2> QED BY <1>1, <1>2, <1>3, <2>1
<1>4. ASSUME ~Tick, ~Restart PROVE book'[l].age \in {book[l].age, 0}
  <2>1. CASE UNCHANGED book
    BY <2>1
  <2>2. ASSUME NEW m \in Ids, Sweep(m) PROVE book'[l].age = book[l].age
    BY <2>2 DEF Sweep, Without
  <2>3. ASSUME NEW c \in calls, Serve(c) PROVE book'[l].age \in {book[l].age, 0}
    <3>1. CASE ServeRelease(c)
      BY <3>1 DEF ServeRelease, Without
    <3>2. CASE ServeList(c)
      BY <3>2 DEF ServeList
    <3>3. CASE ServeTouch(c)
      BY <1>1, <3>3 DEF ServeTouch, Lease
    <3>4. CASE ServeAcquire(c)
      BY <1>1, <3>4 DEF ServeAcquire, Lease
    <3> QED BY <2>3, <3>1, <3>2, <3>3, <3>4 DEF Serve
  <2>4. ASSUME NEW p \in posts, PostEnds(p) PROVE book'[l].age = book[l].age
    BY <1>1, <2>4 DEF PostEnds, Lease
  <2>6. ASSUME NEW u \in Tenants, Die(u) PROVE book'[l].age = book[l].age
    BY <1>1, <2>6 DEF Die, Lease
  <2> QED BY <1>4, <2>1, <2>2, <2>3, <2>4, <2>6
          DEF Next, Boot, Close, Acquire, Touch, Answer, Fail, Crash, vars
<1>5. CASE Restart
  <2>1. book \in [DOMAIN book -> Lease]
    BY DEF SessionInv, Typed
  <2>2. book'[l].age \in {book[l].age, book[l].age + 1} /\ up' /\ ~up /\ faults' = faults
    BY <1>5, <2>1, RestartFacts
  <2> QED BY <1>1, <1>2, <2>2
<1> QED BY <1>1, <1>2, <1>3, <1>4, <1>5

\* A touch under way gets through, or a fault is spent.
LEMMA TouchStep ==
    ASSUME SessionInv, [Next]_vars, ~Tick, NEW t \in Tenants, NEW l \in Ids, NEW k \in Cards,
           Using(t, l, k), Using(t, l, k)', l \in DOMAIN book, l \in DOMAIN book',
           up, TouchUnderWay(t, l), ~up' \/ ~TouchUnderWay(t, l)'
    PROVE  faults' = faults + 1 \/ book'[l].age = 0
<1> DEFINE Goal == faults' = faults + 1 \/ book'[l].age = 0
           Sent(c) == c.by = t /\ c.kind = "touch" /\ c.about = l /\ c.waits /\ ~c.served
<1>1. /\ prog \in [Tenants -> Session] /\ prog[t] \in Session /\ None \notin Ids
      /\ prog[t].pc = "using" /\ prog[t].mine = l /\ prog'[t].pc = "using" /\ prog'[t].mine = l
      /\ book[l] \in Lease
  BY TenantsAssumption DEF SessionInv, Typed, Ids, Using
<1>2. ASSUME NEW c, Sent(c), c \in calls' PROVE TouchUnderWay(t, l)'
  BY <1>2 DEF TouchUnderWay
<1>3. l \in prog'[t].due => TouchUnderWay(t, l)'
  BY DEF TouchUnderWay
<1>4. l \in prog[t].due \/ \E c \in calls : Sent(c)
  BY DEF TouchUnderWay
<1> HIDE DEF Goal, Sent
<1>5. ASSUME calls \subseteq calls', l \in prog[t].due => l \in prog'[t].due, up' = up PROVE FALSE
  BY <1>2, <1>3, <1>4, <1>5
<1>6. ASSUME NEW u \in Tenants, NEW q, prog' = [prog EXCEPT ![u] = q], l \notin prog'[t].due, l \in prog[t].due
      PROVE  u = t
  BY <1>1, <1>6
<1>7. ASSUME NEW u \in Tenants, Boot(u) \/ Close(u) \/ Die(u) \/ (\E j \in Cards : Acquire(u, j)) \/ (\E m \in Ids : Touch(u, m))
      PROVE  Goal
  <2>1. CASE Boot(u) \/ \E j \in Cards : Acquire(u, j)
    <3>1. u # t
      BY <1>1, <2>1 DEF Boot, Acquire
    <3>2. calls \subseteq calls' /\ up' = up /\ prog'[t] = prog[t]
      BY <1>1, <2>1, <3>1 DEF Boot, Acquire
    <3> QED BY <1>5, <3>2
  <2>2. CASE Close(u)
    <3>1. u # t
      <4>1. u = t => prog'[t].pc = "closing"
        BY <1>1, <2>2, ClosedWhole DEF Close, SessionInv, Typed
      <4> QED BY <1>1, <4>1
    <3>2. calls \subseteq calls' /\ up' = up /\ prog'[t] = prog[t]
      BY <1>1, <2>2, <3>1 DEF Close
    <3> QED BY <1>5, <3>2
  <2>3. CASE Die(u)
    <3>1. u # t
      BY <1>1, <2>3 DEF Die, Off
    <3>2. up' = up /\ prog'[t] = prog[t] /\ \A c \in calls : c.by = t => c \in calls'
      BY <1>1, <2>3, <3>1 DEF Die
    <3> QED BY <1>2, <1>3, <1>4, <3>2 DEF Sent
  <2>4. ASSUME NEW m \in Ids, Touch(u, m) PROVE Goal
    <3>1. calls' = calls \cup {Call(u, "touch", m)} /\ up' = up /\ prog' = [prog EXCEPT ![u].due = @ \ {m}]
      BY <2>4 DEF Touch
    <3>2. CASE u = t /\ m = l
      <4>1. Sent(Call(u, "touch", m))
        BY <3>2, CallIsCall DEF Sent, Kinds
      <4> QED BY <1>2, <3>1, <4>1
    <3>3. CASE ~(u = t /\ m = l)
      <4>1. l \in prog[t].due => l \in prog'[t].due
        BY <1>1, <3>1, <3>3 DEF Session
      <4> QED BY <1>5, <3>1, <4>1
    <3> QED BY <3>2, <3>3
  <2> QED BY <1>7, <2>1, <2>2, <2>3, <2>4
<1>8. ASSUME NEW c \in calls, Answer(c) \/ Fail(c) PROVE Goal
  <2>1. PICK a, q, kept, new :
           /\ kept \in SUBSET {GivenUp(c)}
           /\ calls' = ((calls \ {c}) \cup kept) \cup new
           /\ \/ new = {}
              \/ /\ c.kind \in {"list", "release"} /\ q.pc = "boot"
                 /\ \E m \in q.todo : new = {Call(c.by, "release", m)}
           /\ prog' = [prog EXCEPT ![c.by] = q] /\ Outcome(c, a, q)
    BY <1>8, EndFacts
  <2>2. UNCHANGED up /\ (faults' = faults + 1 \/ c.served)
    BY <1>8, EndFacts
  <2>3. c.by \in Tenants /\ IsCall(c) /\ CallKnown(c)
    BY DEF SessionInv, Typed, References, IsCall
  <2>4. l \in prog[t].due => l \in prog'[t].due
    <3>1. CASE c.by # t
      BY <1>1, <2>1, <3>1
    <3>2. CASE c.by = t
      <4>1. prog'[t] = q
        BY <1>1, <2>1, <3>2
      <4>2. c.kind # "acquire"
        <5>1. Awaited(t) = {}
          BY <1>1, AwaitsNothing
        <5>2. c.waits
          BY <1>8, EndFacts
        <5> QED BY <3>2, <5>1, <5>2 DEF Awaited
      <4> QED BY <1>1, <2>1, <3>2, <4>1, <4>2 DEF Outcome
    <3> QED BY <3>1, <3>2
  <2>5. CASE c.served
    <3>1. \A x \in calls : Sent(x) => x \in calls'
      BY <2>1, <2>5 DEF Sent
    <3> QED BY <1>2, <1>3, <1>4, <2>2, <2>4, <3>1
  <2> QED BY <2>2, <2>5 DEF Goal
<1>9. ASSUME NEW c \in calls, Serve(c) PROVE Goal
  <2>1. UNCHANGED <<up, prog>> /\ calls \ {c} \subseteq calls'
    BY <1>9 DEF Serve, ServeList, ServeAcquire, ServeTouch, ServeRelease, Answered
  <2>2. CASE Sent(c)
    <3>1. ServeTouch(c) /\ c.about = l
      BY <1>9, <2>2 DEF Serve, ServeList, ServeAcquire, ServeRelease, Sent
    <3>2. book'[l].age = 0
      BY <1>1, <3>1 DEF ServeTouch, Lease
    <3> QED BY <3>2 DEF Goal
  <2>3. CASE ~Sent(c)
    <3>1. \A x \in calls : Sent(x) => x \in calls'
      BY <2>1, <2>3
    <3> QED BY <1>2, <1>3, <1>4, <2>1, <3>1
  <2> QED BY <2>2, <2>3
<1>10. ASSUME NEW p \in posts, PostEnds(p) PROVE Goal
  <2>1. UNCHANGED up /\ calls \subseteq calls' /\ p.to \in Tenants
    BY <1>10 DEF PostEnds, Vacated, SessionInv, Typed
  <2>2. prog'[t].due = prog[t].due
    <3>1. CASE prog' = prog \/ p.to # t
      BY <1>1, <1>10, <2>1, <3>1 DEF PostEnds, Vacated
    <3>2. CASE p.to = t /\ prog' = [prog EXCEPT ![t] = Closed(t, prog[t])]
      <4>1. prog'[t].pc = "closing"
        BY <1>1, <3>2, ClosedWhole DEF SessionInv, Typed
      <4> QED BY <1>1, <4>1
    <3>3. CASE p.to = t /\ prog' = [prog EXCEPT ![t].hasty = @ \/ prog[t].pc = "asking"]
      BY <1>1, <3>3 DEF Session
    <3> QED BY <1>10, <3>1, <3>2, <3>3 DEF PostEnds, Vacated
  <2> QED BY <1>5, <2>1, <2>2
<1>11. ASSUME Crash PROVE Goal
  BY <1>11 DEF Crash, Goal
<1>12. ASSUME UNCHANGED <<prog, calls>>, up' = up \/ up' PROVE Goal
  BY <1>5, <1>12
<1>13. ASSUME Restart \/ UNCHANGED vars \/ \E m \in Ids : Sweep(m) PROVE Goal
  BY <1>12, <1>13 DEF Restart, vars, Sweep
<1>14. Goal
  BY <1>7, <1>8, <1>9, <1>10, <1>11, <1>13 DEF Next
<1> QED BY <1>14 DEF Goal

\* A grant on its way is an answer of a server that runs.
LEMMA GrantedByServer ==
    ASSUME SessionInv, [Next]_vars, NEW t \in Tenants, NEW l \in Ids, NEW k \in Cards, Granted(t, l, k)',
           (Granted(t, l, k) /\ up) \/ next' = next + 1
    PROVE  up'
<1>1. next \in Nat /\ None \notin Ids /\ \A c \in calls : IsCall(c)
  BY TenantsAssumption DEF SessionInv, Typed, Ids
<1>2. ~Crash
  <2>1. ASSUME Crash PROVE FALSE
    <3>1. \A d \in calls' : d.answer = None
      <4>1. \A c \in calls : Served(c, None).answer = None
        BY <1>1, CallChanges
      <4> QED BY <2>1, <4>1 DEF Crash, Served, Waiting
    <3> QED BY <1>1, <3>1 DEF Granted
  <2> QED BY <2>1
<1>3. up \/ up'
  <2>1. CASE up
    BY <2>1
  <2>2. CASE next' = next + 1
    <3>1. next' # next
      BY <1>1, <2>2
    <3>2. \E c \in calls : Serve(c)
      BY <3>1 DEF Next, Boot, Close, Die, Acquire, Touch, Answer, Fail, PostEnds, Sweep, Crash, Restart, Tick, vars
    <3> QED BY <3>2 DEF Serve
  <2> QED BY <2>1, <2>2
<1>4. up => up'
  BY <1>2 DEF Next, Boot, Close, Die, Acquire, Touch, Serve, Answer, Fail, PostEnds, Sweep, Restart, Tick, vars
<1> QED BY <1>3, <1>4

\* A step that neither ages nor restarts: the bounds of a lease in use stand.
LEMMA YoungStep ==
    ASSUME SessionInv, [Next]_vars, ~Tick, NEW t \in Tenants, NEW l \in Ids, NEW k \in Cards,
           Using(t, l, k), Using(t, l, k)', l \in DOMAIN book, l \in DOMAIN book', Young(t, l)
    PROVE  Young(t, l)'
<1>1. /\ faults \in Nat /\ faults' \in Nat /\ faults <= faults'
      /\ book[l].age \in Nat /\ book'[l].age \in Nat /\ book'[l].age <= book[l].age + 1
      /\ ~(~up /\ up' /\ faults' = faults) => book'[l].age <= book[l].age
  BY BookStep, AgeStep
<1>2. up /\ ~up' => faults' = faults + 1
  BY DEF Next, Boot, Close, Die, Acquire, Touch, Serve, Answer, Fail, PostEnds, Sweep, Crash, Restart, Tick, vars
<1>3. up \in BOOLEAN /\ up' \in BOOLEAN
  BY DEF SessionInv, Typed, Next, Boot, Close, Die, Acquire, Touch, Serve, Answer, Fail, PostEnds, Sweep, Crash, Restart, Tick, vars
<1>4. CASE ~up /\ up'
  <2>1. book[l].age + 1 <= 2 * faults
    BY <1>4 DEF Young
  <2>2. book'[l].age <= 2 * faults' /\ book'[l].age <= 2 * faults' + 1
    BY <1>1, <2>1
  <2> QED BY <1>4, <2>2 DEF Young
<1>5. CASE ~up /\ ~up'
  <2>1. book[l].age + 1 <= 2 * faults /\ book'[l].age <= book[l].age
    BY <1>1, <1>5 DEF Young
  <2>2. book'[l].age + 1 <= 2 * faults' /\ book'[l].age <= 2 * faults' /\ book'[l].age <= 2 * faults' + 1
    BY <1>1, <2>1
  <2> QED BY <2>2 DEF Young
<1>6. CASE up
  <2>1. book[l].age <= 2 * faults + 1 /\ book'[l].age <= book[l].age
    BY <1>1, <1>6 DEF Young
  <2>2. book'[l].age <= 2 * faults' + 1
    BY <1>1, <2>1
  <2>3. ~up' => book'[l].age + 1 <= 2 * faults'
    BY <1>1, <1>2, <1>6, <2>1
  <2>4. ASSUME ~TouchUnderWay(t, l)' PROVE book'[l].age <= 2 * faults'
    <3>1. CASE ~TouchUnderWay(t, l)
      <4>1. book[l].age <= 2 * faults
        BY <3>1 DEF Young
      <4> QED BY <1>1, <2>1, <4>1
    <3>2. CASE TouchUnderWay(t, l)
      <4>1. faults' = faults + 1 \/ book'[l].age = 0
        BY <1>6, <2>4, <3>2, TouchStep
      <4> QED BY <1>1, <2>1, <4>1
    <3> QED BY <3>1, <3>2
  <2> QED BY <2>2, <2>3, <2>4 DEF Young
<1> QED BY <1>3, <1>4, <1>5, <1>6

\* A tick makes a lease in use older, and its next touch due.
LEMMA YoungTick ==
    ASSUME SessionInv, [Next]_vars, Tick, NEW t \in Tenants, NEW l \in Ids, NEW k \in Cards,
           Using(t, l, k), l \in DOMAIN book, l \in DOMAIN book', Young(t, l)
    PROVE  Young(t, l)'
<1>1. /\ faults \in Nat /\ faults' \in Nat /\ faults <= faults'
      /\ book[l].age \in Nat /\ book'[l].age \in Nat /\ book'[l].age <= book[l].age + 1
  BY BookStep, AgeStep
<1>2. up' = up /\ (~up => faults' = faults + 1)
  BY DEF Tick
<1>3. ~TouchUnderWay(t, l)
  BY DEF Tick, Waiting, TouchUnderWay, Using
<1>4. book[l].age <= 2 * faults /\ (~up => book[l].age + 1 <= 2 * faults)
  BY <1>3 DEF Young
<1>5. book'[l].age <= 2 * faults' + 1
  BY <1>1, <1>4
<1>6. l \in prog'[t].due
  <2>1. prog'[t] = [prog[t] EXCEPT !.due = prog[t].loops, !.pc = IF @ = "refused" THEN "idle" ELSE @]
    BY DEF Tick
  <2>2. prog[t] \in Session /\ Whole(prog[t]) /\ prog[t].pc = "using" /\ prog[t].mine = l
    BY DEF SessionInv, Typed, Using
  <2>3. prog'[t].due = prog[t].loops
    BY <2>1, <2>2 DEF Session
  <2> QED BY <2>2, <2>3 DEF Whole
<1>7. TouchUnderWay(t, l)'
  BY <1>6 DEF TouchUnderWay
<1>8. ~up' => book'[l].age + 1 <= 2 * faults'
  BY <1>1, <1>2, <1>4
<1> QED BY <1>5, <1>7, <1>8 DEF Young

LEMMA KeptStep ==
    ASSUME SessionInv, FamiliesApart, 2 * MaxFaults + 1 < Ttl, [Next]_vars
    PROVE  Kept'
<1> SUFFICES ASSUME NEW t \in Tenants, NEW l \in Ids, NEW k \in Cards, ~prog'[t].hasty,
                    Granted(t, l, k)' \/ Using(t, l, k)'
             PROVE  /\ Stable(t, l, k)'
                    /\ Granted(t, l, k)' => up' /\ book'[l].age <= 2 * faults'
                    /\ Using(t, l, k)' => Young(t, l)'
  BY DEF Kept
<1>1. /\ prog'[t].pc \in {"asking", "using"}
      /\ \/ Safe(t, l, k) /\ (Granted(t, l, k) \/ Using(t, l, k))
         \/ /\ l = next /\ next' = next + 1 /\ l \in DOMAIN book'
            /\ book'[l].by = t /\ book'[l].card = k /\ book'[l].age = 0
      /\ Using(t, l, k)' => (Granted(t, l, k) /\ UNCHANGED <<up, book, next>>) \/ Using(t, l, k)
      /\ Granted(t, l, k)' => Granted(t, l, k) \/ (l = next /\ next' = next + 1)
  BY Before
<1>2. /\ faults \in Nat /\ faults' \in Nat /\ faults <= faults' /\ next \in Nat
      /\ 0 <= 2 * faults' /\ 0 <= 2 * faults' + 1 /\ 2 * faults <= 2 * faults'
  <2>1. faults \in Nat /\ faults' \in Nat /\ faults <= faults' /\ next \in Nat
    BY BookStep
  <2>2. \A m, n \in Nat : m <= n => 0 <= 2 * n /\ 0 <= 2 * n + 1 /\ 2 * m <= 2 * n
    OBVIOUS
  <2> QED BY <2>1, <2>2
<1>3. l \in DOMAIN book' /\ book'[l].by = t /\ book'[l].card = k
  BY <1>1, SafeStays
<1>4. Stable(t, l, k)'
  <2>1. \A d \in calls' : d.kind \in {"release", "vacated"} => d.about # l
    BY <1>1, <1>3, NobodyReleases
  <2> QED BY <1>3, <2>1 DEF Stable
<1>5. Granted(t, l, k)' => up'
  <2>1. Granted(t, l, k) => Granted(t, l, k) /\ (Safe(t, l, k) \/ next' = next + 1)
    BY <1>1
  <2> QED BY <1>1, <2>1, GrantedByServer DEF Safe
<1>6. CASE l = next /\ next' = next + 1 /\ book'[l].age = 0
  <2>1. book'[l].age <= 2 * faults'
    BY <1>2, <1>6
  <2>2. ~Using(t, l, k)'
    <3>1. next \notin DOMAIN book
      BY <1>2 DEF SessionInv, Typed
    <3>2. ASSUME Granted(t, l, k) \/ Using(t, l, k) PROVE FALSE
      <4>1. Safe(t, l, k) \/ ~prog[t].hasty
        BY <1>1, <3>2, UsingStep
      <4>2. l \in DOMAIN book
        BY <3>2, <4>1 DEF Safe, Stable, SessionInv, Kept
      <4> QED BY <1>6, <3>1, <4>2
    <3> QED BY <1>1, <3>2
  <2> QED BY <1>4, <1>5, <2>1, <2>2
<1>7. CASE Safe(t, l, k) /\ (Granted(t, l, k) \/ Using(t, l, k))
  <2>1. /\ l \in DOMAIN book /\ book[l].age \in Nat /\ book'[l].age \in Nat
        /\ ~Tick /\ ~(~up /\ up' /\ faults' = faults) => book'[l].age <= book[l].age
    BY <1>3, <1>7, AgeStep DEF Safe, Stable
  <2>2. Granted(t, l, k) => ~Tick
    BY DEF Tick, Waiting, Granted
  <2>3. CASE Granted(t, l, k)
    <3>1. up /\ book[l].age <= 2 * faults /\ book'[l].age <= book[l].age
      BY <1>7, <2>1, <2>2, <2>3 DEF Safe
    <3>2. book'[l].age <= 2 * faults' /\ book'[l].age <= 2 * faults' + 1
      BY <1>2, <2>1, <3>1
    <3>3. ASSUME Using(t, l, k)' PROVE up'
      <4>1. ~Using(t, l, k)
        BY <2>3 DEF SessionInv, OneCall, Awaited, Granted, Using
      <4> QED BY <1>1, <3>1, <3>3, <4>1
    <3> QED BY <1>4, <1>5, <3>2, <3>3 DEF Young
  <2>4. ASSUME Using(t, l, k), ~Granted(t, l, k)
        PROVE  ~Granted(t, l, k)'
    <3>1. l < next
      BY <2>1 DEF SessionInv, Typed
    <3> QED BY <1>1, <1>2, <2>4, <3>1
  <2>5. ASSUME Using(t, l, k), Using(t, l, k)'
        PROVE  Young(t, l)'
    <3>1. Young(t, l)
      BY <1>7, <2>5 DEF Safe
    <3> QED BY <1>3, <2>1, <2>5, <3>1, YoungStep, YoungTick
  <2> QED BY <1>1, <1>4, <1>7, <2>3, <2>4, <2>5
<1> QED BY <1>1, <1>6, <1>7

-----------------------------------------------------------------------------

LEMMA SessionInit == Init => SessionInv
<1> SUFFICES ASSUME Init PROVE SessionInv
  OBVIOUS
<1>1. /\ up = TRUE /\ DOMAIN book = {} /\ book = [l \in {} |-> None] /\ next = 1
      /\ prog = [t \in Tenants |-> Off] /\ calls = {} /\ posts = {} /\ faults = 0 /\ deaths = 0
  BY DEF Init
<1>2. Drawing(calls) = {} /\ IsFiniteSet(calls) /\ Cardinality(Drawing(calls)) = 0
  BY <1>1, FS_EmptySet DEF Drawing
<1>3. \A t \in Tenants : prog[t] = Off /\ Whole(prog[t]) /\ prog[t] \in Session
  BY <1>1, OffWhole DEF Whole
<1>4. Typed
  BY <1>1, <1>2, <1>3, TenantsAssumption DEF Typed
<1>5. References
  BY <1>1, <1>3 DEF References, Off
<1>6. OneCall /\ OneLeasePerCard
  BY <1>1 DEF OneCall, Awaited, OneLeasePerCard
<1>7. Kept
  BY <1>1, <1>3 DEF Kept, Granted, Using, Off
<1> QED BY <1>4, <1>5, <1>6, <1>7 DEF SessionInv

\* A step leaves every part of the invariant as it found it.
LEMMA SessionStep ==
    ASSUME FamiliesApart, 2 * MaxFaults + 1 < Ttl
    PROVE  SessionInv /\ [Next]_vars => SessionInv'
BY TypedStep, ReferencesStep, OneCallStep, OneLeaseStep, KeptStep DEF SessionInv

\* Two tenants at one card would work at one lease, and a lease has one tenant.
LEMMA SessionsInTurn == SessionInv => CardsInTurn
<1> SUFFICES ASSUME SessionInv PROVE CardsInTurn
  OBVIOUS
<1>1. TypeOK
  <2>1. \A t \in Tenants : Whole(prog[t]) /\ prog[t] \in Session
    BY DEF SessionInv, Typed
  <2>2. /\ next \in 1..MaxIds + 1 /\ DOMAIN book \subseteq 1..next - 1 /\ \A l \in DOMAIN book : book[l] \in Lease
    BY DEF SessionInv, Typed
  <2>3. \A t \in Tenants :
          /\ prog[t].pc \in {"off", "boot", "idle", "asking", "refused", "using", "closing"}
          /\ (prog[t].mine # None) <=> prog[t].pc \in {"using", "closing"}
          /\ prog[t].due \subseteq prog[t].loops /\ prog[t].loops \cup prog[t].todo \subseteq Ids
          /\ prog[t].pc = "off" => prog[t] = Off
    BY <2>1 DEF Whole, Session
  <2>4. \A c \in calls : c.by \in Tenants /\ c.kind \in Kinds
    BY DEF SessionInv, Typed, IsCall
  <2>5. \A p \in posts : p.lease \in Ids /\ p.to \in Tenants
    BY DEF SessionInv, Typed
  <2> QED BY <2>2, <2>3, <2>4, <2>5 DEF TypeOK, SessionInv, Typed
<1>2. OneUser
  <2> SUFFICES ASSUME NEW t \in Tenants, NEW u \in Tenants,
                      prog[t].pc = "using", prog[u].pc = "using", prog[t].card = prog[u].card,
                      ~prog[t].hasty, ~prog[u].hasty
               PROVE  t = u
    BY DEF OneUser
  <2>1. ASSUME NEW v \in Tenants, prog[v].pc = "using", ~prog[v].hasty
        PROVE  prog[v].mine \in DOMAIN book /\ book[prog[v].mine].by = v /\ book[prog[v].mine].card = prog[v].card
    <3>1. Whole(prog[v]) /\ prog[v].mine \in Ids /\ prog[v].card \in Cards
      BY <2>1 DEF SessionInv, Typed, Whole, Session
    <3>2. Using(v, prog[v].mine, prog[v].card)
      BY <2>1 DEF Using
    <3>3. Stable(v, prog[v].mine, prog[v].card)
      BY <2>1, <3>1, <3>2 DEF SessionInv, Kept
    <3> QED BY <3>3 DEF Stable
  <2> QED BY <2>1 DEF SessionInv, OneLeasePerCard
<1> QED BY <1>1, <1>2 DEF CardsInTurn

\* "How several GPU programs share one box without stepping on each other's memory":
\* with one program per family, and a ttl of more intervals than twice the faults in all
\* (each may cost a touch, and a restart may find the last one unwritten) and one, no
\* two tenants ever work on one card, but for one asked to vacate before it heard of its
\* grant.  For any programs, cards, ttls and deaths, the keep-alive stopped first or not.
THEOREM CardsTakeTurns ==
    ASSUME FamiliesApart, 2 * MaxFaults + 1 < Ttl
    PROVE  Spec => []CardsInTurn
<1>1. Init => SessionInv
  BY SessionInit
<1>2. SessionInv /\ [Next]_vars => SessionInv'
  BY SessionStep
<1>3. SessionInv => CardsInTurn
  BY SessionsInTurn
<1> QED BY <1>1, <1>2, <1>3, PTL DEF Spec

====
