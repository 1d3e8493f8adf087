------------------------------ MODULE Planning ------------------------------
(***************************************************************************)
(* The planner (core/planner.py): from a model, the measured memory of the *)
(* cards, what is loaded on them and what earlier loads really took, to a  *)
(* placement that fits or a refusal that says what would.                  *)
(*                                                                         *)
(* A plan is made in one call.  Around it the rig moves: plans are carried *)
(* out and turn out larger than planned, models serve, other programs take *)
(* memory, cards are leased.  Sizes are in bytes of a small rig; fractions *)
(* are percents, rounded where the code truncates.                         *)
(***************************************************************************)
EXTENDS KvGeometry, Functions

CONSTANTS
    Models, Cards,      \* cards by index
    Spec,               \* of a model: metadata, sizes and saved settings
    TotalOf,            \* a card's memory
    Capability,         \* a card's compute capability as 10 * major + minor
    Config,             \* the planner, models and engine sections of the configuration
    Requests,           \* what may be asked
    Learns,             \* whether the database answers with earlier measurements
    ForeignSizes,       \* what another program may hold on a card
    Growths,            \* percents by which a child may outgrow its plan
    MaxAsks, MaxMoves,  \* bounds: plans made; changes of the rig between them
    None

ASSUME PlanningAssumption ==
    /\ Cards \subseteq Nat /\ Models \subseteq DOMAIN Spec
    /\ \A c \in Cards : TotalOf[c] \in Nat /\ Capability[c] \in Nat
    /\ Config.mixed \in {"any", "fallback", "never"} /\ Config.headroom \in 0..100
    /\ Learns \in BOOLEAN /\ MaxAsks \in Nat /\ MaxMoves \in Nat

VARIABLES
    foreign,    \* memory other programs hold, by card
    loaded,     \* the ready instance of a model, or None
    recent,     \* loaded models, least recently active first
    leased,     \* cards leased to somebody none of the models belongs to
    learned,    \* what the last load of a configuration really took
    asked,      \* the request being planned, or None
    answer,     \* its plan or its refusal
    asks, moves

vars == <<foreign, loaded, recent, leased, learned, asked, answer, asks, moves>>

Resident == {m \in Models : loaded[m] # None}
SumOn(f, S) == MapThenSumSet(LAMBDA x : f[x], S)
Free == [c \in Cards |->
            TotalOf[c] - foreign[c] - MapThenSumSet(LAMBDA m : loaded[m].held[c], Resident)]

OrElse(result, otherwise) == IF result # None THEN result ELSE otherwise

\* The first of n tries that gives something.
FirstOf(n, Try(_)) ==
    LET from[i \in 1..(n + 1)] ==
            IF i > n THEN None
            ELSE OrElse(Try(i), from[i + 1])
    IN from[1]

-----------------------------------------------------------------------------
\* What a load costs.  e is an estimate, term by term.

Total(e) == e.weights + e.kv + e.compute + e.side + e.draft + e.context

Percent(x, p) == (x * p) \div 100

\* Python's round() of a quotient: half to even.
RoundedQuotient(a, b) ==
    LET q == a \div b r == 2 * (a % b) IN
    IF r > b \/ (r = b /\ q % 2 = 1) THEN q + 1 ELSE q

UbatchFor(m, slots) ==
    LET e == Config.ubatch IN
    IF Spec[m].ubatch > 0 THEN Spec[m].ubatch
    ELSE IF e.fixed > 0 THEN e.fixed
    ELSE IF e.manySlots > 0 /\ slots > e.threshold THEN e.manySlots
    ELSE DefaultUbatch

\* Tensors llama.cpp keeps in host memory take no room on a card.
DeviceWeights(m) ==
    IF Spec[m].host \in 1..(Spec[m].tensors - 1) THEN Spec[m].tensors - Spec[m].host
    ELSE Spec[m].tensors

IsMoe(m) == Spec[m].experts > 1 /\ Spec[m].expertsUsed > 0
Sparse(m) == Spec[m].experts > 1 /\ Spec[m].expertsUsed \in 1..(Spec[m].experts - 1)

ActiveWeights(m, weights) ==
    IF Sparse(m) THEN Max({1, (weights * Spec[m].expertsUsed) \div Spec[m].experts}) ELSE weights

ComputeBasis(m, weights) ==
    IF Sparse(m) /\ Spec[m].expertTensors \in 1..weights
    THEN weights - Spec[m].expertTensors
         + (Spec[m].expertTensors * Spec[m].expertsUsed) \div Spec[m].experts
    ELSE weights

KqMask(cells, ubatch) == cells * Max({DefaultUbatch, ubatch}) * 2

UbatchScratch(m, ubatch, n) ==
    Max({0, ubatch - DefaultUbatch}) * Config.scratch * Spec[m].meta.embd * n

\* A draft model's cache follows the target's context, slots and cache type.
DraftBytes(d, ctx, slots, kv, unified) ==
    LET total == Or(d.ctx, ctx) * (IF unified THEN 1 ELSE slots)
        layer == Full(d.heads, d.k, Or(d.v, d.k))
    IN IF d = None THEN 0
       ELSE d.tensors + (IF d.heads = 0 \/ d.k = 0 THEN 0
                         ELSE AllocBytes([i \in 1..d.layers |-> layer], total, kv[1], kv[2], 1, 0))

\* Planner.estimate.  kv is the pair of cache types, n the number of cards.
Estimate(m, unified, ctx, slots, kv, n) ==
    LET total == IF unified THEN ctx ELSE ctx * slots
        ubatch == UbatchFor(m, slots)
        weights == DeviceWeights(m)
        basis == ComputeBasis(m, weights)
        mask == IF unified THEN ctx ELSE ctx * (IF Spec[m].unified THEN slots ELSE 1)
        compute ==
            IF basis < weights
            THEN Max({Config.floor * n, Percent(basis, Config.overhead)}) + KqMask(mask, ubatch) * n
            ELSE Max({Config.floor, Percent(weights, Config.overhead)})
        vision == IF Spec[m].mmproj > 0 THEN Spec[m].mmproj + Config.mmproj ELSE 0
    IN [weights |-> weights,
        kv |-> KvAllocBytes(Spec[m].meta, total, kv[1], kv[2], slots, ubatch),
        compute |-> compute + UbatchScratch(m, ubatch, n),
        side |-> vision + Spec[m].adapters,
        draft |-> DraftBytes(Spec[m].draft, ctx, slots, kv, unified),
        context |-> Config.context * n]

Shape(m, unified, ctx, slots, kv, n) == <<m, unified, ctx, slots, kv, n>>

\* What a measurement makes of the formula's total, in percent of it, times the
\* total: the measured bytes and a tenth on all but the exact weights, within a
\* band around the formula; None when that changes nothing.
ObservedCorrection(e, observed) ==
    LET formula == Total(e)
        exact == IF e.weights \in 1..Min({observed, formula}) THEN e.weights ELSE 0
        trusted == 100 * exact + 110 * (observed - exact)
        corrected == Min({130 * formula, Max({60 * formula, trusted})})
    IN IF 2 * Max({corrected - 100 * formula, 100 * formula - corrected}) < formula THEN None
       ELSE [exact |-> exact, corrected |-> corrected]

\* The same estimate brought to the corrected total, the exact weights held.
CorrectedEstimate(e, c) ==
    LET held == c.exact
        rest == Total(e) - e.weights
        Scaled(x, num, den) == RoundedQuotient(x * num, den)
    IN IF c = None THEN e
       ELSE IF held = 0 \/ rest = 0
       THEN [f \in DOMAIN e |-> Scaled(e[f], c.corrected, 100 * Total(e))]
       ELSE [f \in DOMAIN e |->
                IF f = "weights" THEN held
                ELSE Scaled(e[f], Max({0, c.corrected - 100 * held}), 100 * rest)]

\* Planner._safe_estimate: the formula, unless this very shape was measured.
SafeEstimate(m, unified, ctx, slots, kv, n) ==
    LET shape == Shape(m, unified, ctx, slots, kv, n)
        Corrected(formula) ==
            IF ~Learns \/ shape \notin DOMAIN learned THEN formula
            ELSE CorrectedEstimate(formula, ObservedCorrection(formula, learned[shape]))
    IN Corrected(Estimate(m, unified, ctx, slots, kv, n))

-----------------------------------------------------------------------------
\* How many slots.  q is a request, a the attempt: the window, the slots asked
\* for, whether their number is automatic, the cache types, and the view of the
\* cards it is made against (free bytes of the cards that may be used).

ParallelCap(m) == IF Spec[m].cap > 0 THEN Min({Config.maxSlots, Spec[m].cap}) ELSE Config.maxSlots

EstimateAt(q, a, slots, n) == SafeEstimate(q.model, q.unified, a.ctx, slots, a.kv, n)

\* An attempt over n cards, priced for every number of slots.
Prices(q, a, n) == [slots \in 1..Max({a.slots, Config.maxSlots}) |-> EstimateAt(q, a, slots, n)]

\* The most slots under the cap whose whole estimate the capacity holds, one at least.
MaxSlotsByVram(prices, capacity, cap) ==
    Max({1} \cup {s \in 2..cap : Total(prices[s]) <= capacity})

\* The memory bound and the knee, where a step reads as much cache as weights.
MaxParallelFor(budget, perToken, ctx, active, moe, cap, read) ==
    LET byVram == budget \div (ctx * perToken)
        derate == IF moe THEN 2 ELSE 1
        byKnee == IF active = 0 THEN cap
                  ELSE IF read > 0 THEN RoundedQuotient(active, read * derate)
                  ELSE RoundedQuotient(2 * active, Max({2, ctx}) * perToken * derate)
        chosen == Min({byVram, byKnee})
    IN IF chosen >= cap THEN [slots |-> cap, bound |-> "cap"]
       ELSE [slots |-> Max({1, chosen}), bound |-> IF byVram <= byKnee THEN "vram" ELSE "knee"]

\* What the knee and the analytic memory bound allow, base being the estimate at one slot.
WantedSlots(q, a, capacity, base, perToken) ==
    LET left == Max({0, capacity - (Total(base) - base.kv)})
        cap == ParallelCap(q.model)
        budget == IF q.unified THEN Max({left, perToken * a.ctx * cap}) ELSE left
    IN IF perToken = 0 THEN [slots |-> 1, bound |-> "unknown"]
       ELSE MaxParallelFor(budget, perToken, a.ctx, ActiveWeights(q.model, base.weights),
                           IsMoe(q.model), cap,
                           KvReadBytes(Spec[q.model].meta, a.kv[1], a.kv[2], a.ctx \div 2))

AtMost(byVram, wanted) ==
    IF byVram < wanted.slots THEN [slots |-> byVram, bound |-> "vram"] ELSE wanted

\* Planner.size_slots, for a placement known to fit as requested.
SizeSlots(q, a, capacity, prices) ==
    AtMost(MaxSlotsByVram(prices, capacity, ParallelCap(q.model)),
           WantedSlots(q, a, capacity, prices[a.slots],
                       EffectiveKvPerToken(Spec[q.model].meta, a.kv[1], a.kv[2], a.ctx)))

-----------------------------------------------------------------------------
\* Where.

\* A card's free bytes less the headroom and what is reserved there; none of an
\* excluded card, unless the model is forced onto it.
UsableBytes(view, c, forced) ==
    IF ~forced /\ c \in Config.excluded THEN 0
    ELSE Max({0, view[c] - Percent(TotalOf[c], Config.headroom) - Config.reserved[c]})

\* The part of needed bytes each card takes, or None when one cannot: in proportion to
\* what it can hold, but the output layer is not split and goes to the last card.
Shares(m, devices, capacity, needed) ==
    LET cards == ToSet(devices)
        last == devices[Len(devices)]
        output == Min({Spec[m].output, needed})
        effective == [capacity EXCEPT ![last] = Max({0, @ - output})]
        Share(c, across) == ((needed - output) * effective[c]) \div across
                            + (IF c = last THEN output ELSE 0)
        Split(across) ==
            IF across = 0 \/ needed - output > across \/ \E c \in cards : Share(c, across) > capacity[c]
            THEN None ELSE [c \in cards |-> Share(c, across)]
    IN IF Len(devices) = 1 THEN last :> needed ELSE Split(SumOn(effective, cards))

\* The plan once the slots are chosen.
PlanOn(q, a, devices, capacity, sized, total) ==
    LET perGpu == Shares(q.model, devices, capacity, total) IN
    IF perGpu = None THEN None
    ELSE [ok |-> TRUE, devices |-> devices, perGpu |-> perGpu, ctx |-> a.ctx, kv |-> a.kv,
          slots |-> sized.slots, bound |-> sized.bound, total |-> total, evict |-> <<>>]

WithSlots(q, a, devices, capacity, prices, sized) ==
    PlanOn(q, a, devices, capacity, sized, Total(prices[sized.slots]))

\* Whether it fits is decided at the slots asked for, before more are chosen.
IfItFits(q, a, devices, capacity, room, prices) ==
    IF room < Total(prices[a.slots]) THEN None
    ELSE WithSlots(q, a, devices, capacity, prices,
                   IF a.auto THEN SizeSlots(q, a, room, prices)
                   ELSE [slots |-> a.slots, bound |-> "explicit"])

\* Planner._try_devices: a plan on exactly these cards, or None.  freed is what
\* the victims give back on each.
TryDevices(q, a, devices, freed) ==
    LET capacity == [c \in ToSet(devices) |-> UsableBytes(a.view, c, a.forced) + freed[c]] IN
    IF ~(ToSet(devices) \subseteq DOMAIN a.view) THEN None
    ELSE IfItFits(q, a, devices, capacity, SumOn(capacity, ToSet(devices)),
                  Prices(q, a, Len(devices)))

\* Every card the model may be put on, the most capable and then the roomiest first.
CandidateOrder(view) ==
    LET Before(c, d) ==
            \/ Capability[c] > Capability[d]
            \/ /\ Capability[c] = Capability[d]
               /\ LET uc == UsableBytes(view, c, FALSE)
                      ud == UsableBytes(view, d, FALSE)
                  IN uc > ud \/ (uc = ud /\ c < d)
    IN SetToSortSeq(DOMAIN view \ Config.excluded, Before)

\* A quantization's affinity narrows the cards, or only puts the capable ones first.
DevicePools(m, order) ==
    LET affinity == Spec[m].affinity
        eligible == SelectSeq(order, LAMBDA c : Capability[c] >= affinity.capability)
        some == IF eligible = <<>> THEN <<>> ELSE <<eligible>>
    IN IF affinity = None THEN <<order>>
       ELSE IF affinity.mode = "require" \/ eligible = order THEN some
       ELSE Append(some, order)

Mixed(devices) == Cardinality({Capability[c] : c \in ToSet(devices)}) > 1

\* itertools.combinations of the positions in a pool of n cards, by width.
Combinations ==
    LET Before(S, T) == Min((S \ T) \cup (T \ S)) \in S
        Sorted(n, w) == SetToSortSeq({S \in SUBSET (1..n) : Cardinality(S) = w}, Before)
        InOrder(sets) == [i \in DOMAIN sets |-> SetToSortSeq(sets[i], <)]
    IN [n \in 1..Cardinality(Cards) |-> [w \in 1..n |-> InOrder(Sorted(n, w))]]

\* The splits of a pool over this many cards; by the policy, those of one generation
\* first, or alone.
SplitCandidates(pool, width) ==
    LET positions == Combinations[Len(pool)][width]
        combos == [i \in DOMAIN positions |-> [j \in 1..width |-> pool[positions[i][j]]]]
        same == SelectSeq(combos, LAMBDA d : ~Mixed(d))
    IN CASE Config.mixed = "any" -> combos
         [] Config.mixed = "never" -> same
         [] Config.mixed = "fallback" -> same \o SelectSeq(combos, Mixed)

\* Mutant: never more than two cards.
SplitsInTwo(pool) == IF Len(pool) < 2 THEN <<>> ELSE SplitCandidates(pool, 2)

Splits(pool) == IF pool = <<>> THEN <<>>
                ELSE FlattenSeq([w \in 1..(Len(pool) - 1) |-> SplitCandidates(pool, w + 1)])
Singles(pool) == [i \in DOMAIN pool |-> <<pool[i]>>]

NothingFreed == [c \in Cards |-> 0]

\* A split of two slots or more over cards no less capable than one, of one generation.
WiderSplit(q, a, card, splits) ==
    LET OfTwo(p) == IF p # None /\ p.slots >= 2 THEN p ELSE None
        Try(d) == IF Mixed(d) \/ \E c \in ToSet(d) : Capability[c] < Capability[card] THEN None
                  ELSE OfTwo(TryDevices(q, a, d, NothingFreed))
    IN FirstOf(Len(splits), LAMBDA i : Try(splits[i]))

\* One card that would serve only one at a time gives way to such a split.
Widened(q, a, plan, pool) ==
    IF plan = None \/ Len(plan.devices) > 1 \/ ~a.auto \/ plan.slots # 1 THEN plan
    ELSE OrElse(WiderSplit(q, a, plan.devices[1], Splits(pool)), plan)

-----------------------------------------------------------------------------
\* Who may have to go.

Tier(m) == loaded[m].tier

\* Ready, unpinned, idle unless the busy may go, and of no better tier: worst
\* tier first, least recently active first within one.
Evictable(from, busyToo, tier) ==
    LET Position(m) == CHOOSE i \in DOMAIN recent : recent[i] = m
        Before(m, n) == Tier(m) > Tier(n) \/ (Tier(m) = Tier(n) /\ Position(m) < Position(n))
    IN SetToSortSeq({m \in from : /\ ~Spec[m].pinned
                                  /\ busyToo \/ ~loaded[m].busy
                                  /\ Tier(m) >= tier}, Before)

\* What an instance is believed to hold: its plan.
Footprint(m, c) == IF c \in DOMAIN loaded[m].plan.perGpu THEN loaded[m].plan.perGpu[c] ELSE 0
Credit(victims) == [c \in Cards |-> MapThenSumSet(LAMBDA m : Footprint(m, c), victims)]

\* Planner._gpus_as_if_gone
AsIfGone(victims) == [c \in Cards |-> Min({TotalOf[c], Free[c] + Credit(victims)[c]})]

\* Victims one by one in order, until the model fits on one of the candidates.
EvictUntilItFits(q, a, victims, candidates) ==
    LET Evicting(p, gone) == IF p = None THEN None ELSE [p EXCEPT !.evict = gone]
        Upto(k) == SubSeq(victims, 1, k)
    IN FirstOf(Len(victims), LAMBDA k :
           FirstOf(Len(candidates), LAMBDA i :
               Evicting(TryDevices(q, a, candidates[i], Credit(ToSet(Upto(k)))), Upto(k))))

-----------------------------------------------------------------------------
\* The walk down the windows and cache types.

Override(m) == ToSet(Spec[m].override)
NonEmpty(x, default) == IF x = "" THEN default ELSE x

\* Planner._context_ladder: the aim, halved down to the floor; an exact size alone.
Halvings == 0..18

ContextLadder(q) ==
    LET m == q.model
        trained == Spec[m].meta.trained
        Trained(ctx) == IF trained > 0 THEN Min({ctx, trained}) ELSE ctx
        exact == Or(q.ctx, Spec[m].ctx)
        floor == Trained(Config.defaultCtx)
        wish == Max({Config.targetCtx, IF Spec[m].thinking THEN Config.thinkingCtx ELSE 0})
        aim == IF wish = 0 THEN trained ELSE Trained(wish)
        above == {aim \div 2^k : k \in Halvings} \ 0..floor
        ladder == IF exact > 0 THEN <<exact>>
                  ELSE IF aim <= floor THEN <<floor>>
                  ELSE SetToSortSeq(above, >) \o <<floor>>
        least == IF q.ctx = 0 THEN Spec[m].minCtx ELSE 0
        kept == SelectSeq(ladder, LAMBDA ctx : ctx >= least)
    IN IF kept = <<>> THEN <<least>> ELSE kept

\* KV_QUALITY_LADDER, for a cache type left to the planner.
KvOptions(q) ==
    LET k == NonEmpty(q.kv[1], NonEmpty(Spec[q.model].kv[1], Config.kv))
        v == NonEmpty(q.kv[2], NonEmpty(Spec[q.model].kv[2], k))
    IN IF "auto" \in {k, v} THEN <<<<"f16", "f16">>, <<"q8_0", "q8_0">>, <<"q8_0", "q4_0">>>>
       ELSE <<<<k, v>>>>

\* The slots to plan for, and whether their number is automatic.
ResolveParallel(q) ==
    LET explicit == Or(q.slots, Spec[q.model].slots) IN
    IF explicit > 0 THEN [slots |-> explicit, auto |-> FALSE]
    ELSE IF q.auto \/ Config.slots = 0 THEN [slots |-> 1, auto |-> TRUE]
    ELSE [slots |-> Config.slots, auto |-> FALSE]

Attempt(q, ctx, kv, view) ==
    LET p == ResolveParallel(q) IN
    [ctx |-> ctx, kv |-> kv, slots |-> p.slots, auto |-> p.auto, view |-> view,
     forced |-> Override(q.model) # {}]

\* Windows outermost, cache types within.
Rungs(q, view) ==
    LET Row(options, ctx) == [i \in DOMAIN options |-> Attempt(q, ctx, options[i], view)]
        Rows(options, ladder) == FlattenSeq([i \in DOMAIN ladder |-> Row(options, ladder[i])])
    IN Rows(KvOptions(q), ContextLadder(q))

PrefersSingle(m) == IF Spec[m].single = None THEN Config.single ELSE Spec[m].single

\* One card if it may, then splits, narrowest first; pool by pool.
OnPool(q, a, pool, tries) ==
    FirstOf(Len(tries), LAMBDA i : Widened(q, a, TryDevices(q, a, tries[i], NothingFreed), pool))

Tries(q, pool) == (IF PrefersSingle(q.model) THEN Singles(pool) ELSE <<>>) \o Splits(pool)

PrimaryPlacement(q, a, pools) ==
    FirstOf(Len(pools), LAMBDA i : OnPool(q, a, pools[i], Tries(q, pools[i])))

\* Planner._plan_at_ctx and _plan_on_devices: a plan for this rung, or None.
Pools(q, a) == DevicePools(q.model, CandidateOrder(a.view))

Everywhere(pools) == FlattenSeq([i \in DOMAIN pools |-> Singles(pools[i]) \o Splits(pools[i])])

PlanAtCtx(q, a, victims) ==
    OrElse(IF a.forced THEN TryDevices(q, a, Spec[q.model].override, NothingFreed)
           ELSE PrimaryPlacement(q, a, Pools(q, a)),
           EvictUntilItFits(q, a, victims, IF a.forced THEN <<Spec[q.model].override>>
                                           ELSE Everywhere(Pools(q, a))))

\* What a refusal offers: fewer slots at this window, or a smaller window.
MostSlots(prices, capacity, cap) ==
    LET s == MaxSlotsByVram(prices, capacity, cap) IN IF Total(prices[s]) <= capacity THEN s ELSE 0

\* On the best single card, and over all that have room at all.
FewerSlots(q, a, gpus) ==
    LET usable == [c \in gpus |-> UsableBytes(a.view, c, a.forced)]
        width == Max({1, Cardinality({c \in gpus : usable[c] > 0})})
        placements == {<<1, Max({usable[c] : c \in gpus})>>, <<width, SumOn(usable, gpus)>>}
    IN IF a.slots <= 1 \/ gpus = {} THEN 0
       ELSE Max({MostSlots(Prices(q, a, p[1]), p[2], a.slots - 1) : p \in placements})

LargestCtxThatFits(q, a, gpus) ==
    LET available == MapThenSumSet(LAMBDA c : UsableBytes(a.view, c, a.forced), gpus)
        n == Max({1, Cardinality(gpus)})
        Fits(ctx) == /\ 60 * Total(Estimate(q.model, q.unified, ctx, a.slots, a.kv, n)) <= 100 * available
                     /\ Total(EstimateAt(q, [a EXCEPT !.ctx = ctx], a.slots, n)) <= available
    IN Max({0} \cup {ctx \in ToSet(CtxLadder) : ctx < a.ctx /\ available > 0 /\ Fits(ctx)})

Refusal(why) == [ok |-> FALSE, why |-> why, ctx |-> 0, slots |-> 0, busy |-> {}]

\* Planner._reject, at the floor.
Reject(q, a, others, evicting) ==
    LET gpus == IF a.forced THEN Override(q.model) ELSE DOMAIN a.view IN
    IF DOMAIN a.view = {} THEN Refusal("no cards")
    ELSE [ok |-> FALSE, why |-> "room",
          ctx |-> LargestCtxThatFits(q, a, gpus), slots |-> FewerSlots(q, a, gpus),
          busy |-> IF evicting
                   THEN {m \in others \ {q.model} : loaded[m].busy /\ ~Spec[m].pinned} ELSE {}]

\* The first rung that has a plan, rung after rung.
WalkDown(q, rungs, victims) == FirstOf(Len(rungs), LAMBDA i : PlanAtCtx(q, rungs[i], victims))

\* The whole ladder for each list of who may go, in turn; else a refusal at the floor,
\* the last window with the best of the cache types.
Walk(q, rungs, passes, others, evicting) ==
    OrElse(FirstOf(Len(passes), LAMBDA w : WalkDown(q, rungs, passes[w])),
           Reject(q, rungs[Len(rungs) - Len(KvOptions(q)) + 1], others, evicting))

\* Mutant: evicting is decided rung by rung.
EvictsOnTheWay(q, view, others, evicting) ==
    Walk(q, Rungs(q, view),
         <<IF evicting THEN Evictable(others, q.busyToo, q.tier) ELSE <<>>>>, others, evicting)

\* Planner._plan_load: the whole ladder without evicting; only if no rung fits, and
\* evicting is allowed, the whole ladder again.
WalkLadder(q, view, others, evicting) ==
    LET willing == IF evicting THEN <<Evictable(others, q.busyToo, q.tier)>> ELSE <<>> IN
    IF KvGeometryUnknown(Spec[q.model].meta) THEN Refusal("geometry")
    ELSE Walk(q, Rungs(q, view), <<<<>>>> \o willing, others, evicting)

\* Planner.plan_load
Background == 3

EvictAllowed(q) ==
    IF q.evict # None THEN q.evict ELSE q.tier < Background \/ Config.insufficient = "evict"

\* The instance a forced reload replaces counts as gone, and so does every idle
\* resident of a lower tier for a load that outranks it.
Replaced(q) == IF q.reload THEN {q.model} \cap Resident ELSE {}
Preempted(q) ==
    IF q.tier < Background /\ EvictAllowed(q)
    THEN ToSet(Evictable(Resident \ Replaced(q), FALSE, q.tier + 1)) ELSE {}

\* The cards this model may be put on.
Permitted(m) ==
    LET allowed == Spec[m].allowed IN
    Cards \ (leased \cup (IF allowed = None \/ Override(m) # {} THEN {} ELSE Cards \ allowed))

\* Mutant: only those on the plan's first card go.
DisplacesOnMain(q, plan) == {v \in Preempted(q) : Footprint(v, plan.devices[1]) > 0}

\* Of those counted as gone, the ones on the cards chosen really go.
Displaced(q, plan) ==
    {v \in Preempted(q) : \E c \in ToSet(plan.devices) : Footprint(v, c) > 0}

PlanLoad(q) ==
    LET m == q.model
        gone == Replaced(q) \cup Preempted(q)
        seen == AsIfGone(gone)
        candidates == IF Override(m) # {} THEN Override(m)
                      ELSE IF Spec[m].allowed # None THEN Spec[m].allowed ELSE Cards \ Config.excluded
        \* The preempted a plan displaces join its victims; a refusal says whose the cards are.
        Answer(plan) ==
            IF plan.ok
            THEN [plan EXCEPT !.evict = SetToSeq(Replaced(q)) \o @
                                        \o SelectSeq(Evictable(Preempted(q), FALSE, q.tier + 1),
                                                     LAMBDA v : v \in Displaced(q, plan))]
            ELSE IF candidates # {} /\ candidates \subseteq leased THEN [plan EXCEPT !.why = "leased"]
            ELSE plan
    IN IF Override(m) \cap leased # {} THEN Refusal("leased")
       ELSE IF Permitted(m) = {} /\ Spec[m].allowed # None THEN Refusal("allowed")
       ELSE Answer(WalkLadder(q, [c \in Permitted(m) |-> seen[c]], Resident \ gone, EvictAllowed(q)))

-----------------------------------------------------------------------------
\* The rig.

Init ==
    /\ foreign = [c \in Cards |-> 0]
    /\ loaded = [m \in Models |-> None]
    /\ recent = <<>>
    /\ leased = {}
    /\ learned = <<>>
    /\ asked = None
    /\ answer = None
    /\ asks = 0
    /\ moves = 0

\* A model that is loaded is planned again only to replace it.
Ask(q) ==
    /\ asked = None /\ asks < MaxAsks
    /\ q.reload <=> loaded[q.model] # None
    /\ asked' = q
    /\ answer' = PlanLoad(q)
    /\ asks' = asks + 1
    /\ UNCHANGED <<foreign, loaded, recent, leased, learned, moves>>

Answered == asked' = None /\ answer' = None /\ UNCHANGED <<foreign, leased, asks, moves>>

Without(s, gone) == SelectSeq(s, LAMBDA m : m \notin gone)

\* The load path stops the victims and starts the child, which takes what it
\* takes: growth percent more than planned.  A child that finds too little fails.
CarryOut(growth) ==
    LET m == asked.model
        gone == ToSet(answer.evict)
        rest == [n \in Models |-> IF n \in gone THEN None ELSE loaded[n]]
        Takes(c) == IF c \in ToSet(answer.devices)
                    THEN Percent(answer.perGpu[c], 100 + growth) ELSE 0
        Left(c) == Free[c] + MapThenSumSet(LAMBDA n : loaded[n].held[c], gone)
        child == [plan |-> answer, held |-> [c \in Cards |-> Takes(c)], busy |-> FALSE,
                  tier |-> asked.tier]
        shape == Shape(m, asked.unified, answer.ctx, answer.slots, answer.kv, Len(answer.devices))
        took == MapThenSumSet(Takes, Cards)
    IN /\ asked # None /\ answer.ok
       /\ IF \A c \in Cards : Takes(c) <= Left(c)
          THEN /\ loaded' = [rest EXCEPT ![m] = child]
               /\ recent' = Append(Without(recent, gone \cup {m}), m)
               /\ learned' = IF Learns THEN (shape :> took) @@ learned ELSE learned
          ELSE /\ loaded' = rest
               /\ recent' = Without(recent, gone)
               /\ UNCHANGED learned
       /\ Answered

\* Refused, or only asked for to be shown.
Drop == asked # None /\ Answered /\ UNCHANGED <<loaded, recent, learned>>

Move == asked = None /\ moves < MaxMoves /\ moves' = moves + 1
                     /\ UNCHANGED <<learned, asked, answer, asks>>

\* A model begins or ends serving: its last activity is now.
Serve(m) ==
    /\ Move /\ loaded[m] # None
    /\ loaded' = [loaded EXCEPT ![m].busy = ~@]
    /\ recent' = Append(Without(recent, {m}), m)
    /\ UNCHANGED <<foreign, leased>>

Unload(m) ==
    /\ Move /\ loaded[m] # None
    /\ loaded' = [loaded EXCEPT ![m] = None]
    /\ recent' = Without(recent, {m})
    /\ UNCHANGED <<foreign, leased>>

\* Another program takes memory, or gives it back.
Grab(c, size) ==
    /\ Move /\ size # foreign[c] /\ size - foreign[c] <= Free[c]
    /\ foreign' = [foreign EXCEPT ![c] = size]
    /\ UNCHANGED <<loaded, recent, leased>>

Lease(c) ==
    /\ Move /\ leased' = IF c \in leased THEN leased \ {c} ELSE leased \cup {c}
    /\ UNCHANGED <<foreign, loaded, recent>>

Next ==
    \/ \E q \in Requests : Ask(q)
    \/ \E growth \in Growths : CarryOut(growth)
    \/ Drop
    \/ \E m \in Models : Serve(m) \/ Unload(m)
    \/ \E c \in Cards, size \in ForeignSizes : Grab(c, size)
    \/ \E c \in Cards : Lease(c)

Specification == Init /\ [][Next]_vars

-----------------------------------------------------------------------------
\* Properties.  They judge an answer by the room the cards have, not by the
\* search that found it.

Estimated(q, a, n) == Total(EstimateAt(q, a, a.slots, n))

\* Room on a card once these residents are gone.
Room(q, view, c) == UsableBytes(view, c, Override(q.model) # {})
RoomWithout(q, c, gone) == Room(q, AsIfGone(gone), c)

\* A set of cards holds a rung at the slots asked for: together they have room for
\* the estimate, and any of them for the output layer.
Holds(q, a, D, view) ==
    /\ MapThenSumSet(LAMBDA c : Room(q, view, c), D) >= Estimated(q, a, Cardinality(D))
    /\ Cardinality(D) > 1 => \A c \in D : Room(q, view, c) >= Spec[q.model].output

\* The sets of cards a plan for the model may use.
MayUse(q) ==
    LET m == q.model
        required == IF Spec[m].affinity # None /\ Spec[m].affinity.mode = "require"
                    THEN Spec[m].affinity.capability ELSE 0
        cards == {c \in Permitted(m) \ Config.excluded : Capability[c] >= required}
        policy == {D \in SUBSET cards : Config.mixed = "never" => Cardinality({Capability[c] : c \in D}) = 1}
    IN IF Override(m) # {} THEN {Override(m)} ELSE policy \ {{}}

AllRungs(q) == Rungs(q, [c \in Permitted(q.model) |-> 0])

\* One of these rungs fits on some of the cards with these residents gone.
Fitting(q, rungs, gone) ==
    \E view \in {AsIfGone(gone)}, a \in ToSet(rungs), D \in MayUse(q) : Holds(q, a, D, view)

\* Those above the answer's.
Above(rungs) ==
    SubSeq(rungs, 1, (CHOOSE i \in DOMAIN rungs : rungs[i].ctx = answer.ctx /\ rungs[i].kv = answer.kv) - 1)

Planned == asked # None /\ answer.ok
Refused == asked # None /\ ~answer.ok /\ answer.why \in {"room", "no cards"}

\* Counted as gone before the walk; and all that evicting could ever free.
Given == Replaced(asked) \cup Preempted(asked)
Gone == IF EvictAllowed(asked)
        THEN Given \cup ToSet(Evictable(Resident \ Given, asked.busyToo, asked.tier)) ELSE Given

TypeOK ==
    /\ foreign \in [Cards -> Nat] /\ \A c \in Cards : Free[c] \in 0..TotalOf[c]
    /\ \A m \in Resident : loaded[m].plan.ok /\ loaded[m].held \in [Cards -> Nat]
    /\ ToSet(recent) = Resident /\ Len(recent) = Cardinality(Resident)
    /\ leased \subseteq Cards
    /\ asked \in Requests \cup {None} /\ (answer # None <=> asked # None)
    /\ asks \in 0..MaxAsks /\ moves \in 0..MaxMoves

\* The slots were the planner's to choose, and some number of them has been measured.
SlotsMeasured == /\ ResolveParallel(asked).auto
                 /\ \E s \in DOMAIN learned : s[1] = asked.model /\ s[4] > 1

\* A card another program has pressed below its headroom.
Short(c) == Free[c] < Percent(TotalOf[c], Config.headroom) + Config.reserved[c]

\* A plan's part on each card fits there once its victims, and they alone, are gone:
\* within the headroom, unless the card was already short of it.  The preempted are
\* credited before the walk and only those found on the cards chosen really go
\* (planner.py:1643-1733).
PlanFits ==
    Planned =>
        \/ SlotsMeasured
        \/ \A c \in ToSet(answer.devices) :
              answer.perGpu[c] <= IF Short(c) THEN Free[c] + Credit(ToSet(answer.evict))[c]
                                  ELSE RoomWithout(asked, c, ToSet(answer.evict))

\* The same without exception.
HeadroomKept ==
    Planned => \A c \in ToSet(answer.devices) :
                  Short(c) /\ answer.evict # <<>> =>
                      answer.perGpu[c] <= RoomWithout(asked, c, ToSet(answer.evict))
SlotsFit ==
    Planned => \A c \in ToSet(answer.devices) :
                  ~Short(c) => answer.perGpu[c] <= RoomWithout(asked, c, ToSet(answer.evict))

\* Nobody is evicted by a plan that could have been made without: no rung, the
\* floor included, fits on the free memory (planner.py:2034-2066).  Neither that nor
\* the next two hold where a choice of slots meets a measurement of another number.
NobodyEvictedForNothing ==
    Planned /\ ToSet(answer.evict) \ Given # {} =>
        SlotsMeasured \/ ~Fitting(asked, AllRungs(asked), Given)

\* No larger window, and no better cache, than the plan's would have fit: not on
\* what is free, nor with what this plan evicts anyway (planner.py:2094-2125).
BestRungThatFits ==
    Planned => \/ SlotsMeasured
               \/ ~Fitting(asked, Above(AllRungs(asked)),
                           IF ToSet(answer.evict) \subseteq Given THEN Given ELSE Gone)

\* A refusal for want of room is true: with everybody gone who may go, no set of
\* cards the model may use holds even the floor -- at the one slot an automatic number
\* starts from, so that choosing it never costs a load (planner.py:3159-3161).
RefusedForWantOfRoom == Refused => SlotsMeasured \/ ~Fitting(asked, AllRungs(asked), Gone)

\* The first of the three with no exception, as DECISIONS.md:395 promises.
NothingEvictedAvoidably ==
    Planned /\ ToSet(answer.evict) \ Given # {} =>
        ~Fitting(asked, AllRungs(asked), Given)

\* Who goes may go: never a pinned model, never one of a better tier, never a busy
\* one unless the caller said so -- and then never by preemption, which only the
\* idle of a strictly lower tier suffer.
VictimsMayGo ==
    Planned => \A v \in ToSet(answer.evict) \ Replaced(asked) :
                  /\ ~Spec[v].pinned /\ loaded[v].tier >= asked.tier
                  /\ loaded[v].busy => asked.busyToo

\* A leased card carries nothing, an excluded one only what is forced onto it, and
\* a model with allowed cards keeps to them unless it is forced elsewhere.
PlacedWhereAllowed ==
    Planned => LET D == ToSet(answer.devices) m == asked.model IN
        /\ D \cap leased = {}
        /\ Override(m) = {} => D \cap Config.excluded = {}
        /\ Override(m) # {} => D = Override(m)
        /\ Spec[m].allowed # None /\ Override(m) = {} => D \subseteq Spec[m].allowed

\* The cache a plan reserves covers what its slots read when all are full, window by
\* window (llama.cpp pads the window of all slots together: planner.py:614-617).
ReservationCoversReads ==
    Planned =>
        LET meta == Spec[asked.model].meta
            each == IF asked.unified THEN answer.ctx \div answer.slots ELSE answer.ctx
            all == IF asked.unified THEN answer.ctx ELSE answer.ctx * answer.slots
        IN KvAllocBytes(meta, all, answer.kv[1], answer.kv[2], answer.slots,
                        UbatchFor(asked.model, answer.slots))
           >= answer.slots * KvReadBytes(meta, answer.kv[1], answer.kv[2], each)

\* A plan can be carried out: it fits, where it may be, for as long as its slots are full.
PlanSound == TypeOK /\ PlanFits /\ PlacedWhereAllowed /\ ReservationCoversReads

\* A plan evicts when it must, and whom it may.
EvictionsJustified == NobodyEvictedForNothing /\ VictimsMayGo

\* No better answer was there: no better rung of the ladder, and for a refusal none at all.
BestAnswer == BestRungThatFits /\ RefusedForWantOfRoom

\* A window a refusal offers would be granted.
OfferStands ==
    asked # None /\ ~answer.ok /\ answer.ctx > 0 => PlanLoad([asked EXCEPT !.ctx = answer.ctx]).ok

\* A roomier window costs nobody their place: no fewer victims would have let the
\* floor in.
RoomierEvictsNobody ==
    Planned /\ asked.tier = Background =>
        LET victims == SelectSeq(answer.evict, LAMBDA v : v \notin Given)
        IN \A k \in 0..(Len(victims) - 1) :
              ~Fitting(asked, <<Last(AllRungs(asked))>>, Given \cup ToSet(SubSeq(victims, 1, k)))

=============================================================================
