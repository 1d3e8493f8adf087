----------------------------- MODULE KvGeometry -----------------------------
(***************************************************************************)
(* What a model's key/value cache costs (core/planner.py), layer by layer: *)
(* a full layer caches the whole context, a sliding-window layer its       *)
(* window, a recurrent layer nothing but a state of fixed size per slot.   *)
(* Sizes are in bytes; an element of a cache of type t takes Element[t]    *)
(* 32nds of a byte.  A GGUF's metadata is a record; 0 and <<>> stand for   *)
(* keys the file does not have.                                            *)
(***************************************************************************)
EXTENDS Integers, Sequences, FiniteSets, SequencesExt, FiniteSetsExt

CONSTANTS
    CtxLadder,      \* the context sizes a refusal may offer, largest first
    CellAlign,      \* a sliding window's cells come in multiples of this
    DefaultUbatch   \* the engine's micro-batch when nobody sets one

ASSUME KvGeometryAssumption ==
    /\ CtxLadder \in Seq(Nat \ {0}) /\ CellAlign \in Nat \ {0} /\ DefaultUbatch \in Nat

\* Python's `a or b` for a number.
Or(a, b) == IF a > 0 THEN a ELSE b

Element == [f32 |-> 128, f16 |-> 64, bf16 |-> 64, q8_0 |-> 34,
            q5_1 |-> 24, q5_0 |-> 22, q4_1 |-> 20, q4_0 |-> 18]

\* "auto" and types nobody knows are priced as f16.
ElementOf(t) == IF t \in DOMAIN Element THEN Element[t] ELSE Element.f16

NoKv == [kind |-> "none", heads |-> 0, k |-> 0, v |-> 0, window |-> 0]
Full(h, k, v) == [kind |-> "full", heads |-> h, k |-> k, v |-> v, window |-> 0]
Sliding(h, k, v, w) == [kind |-> "swa", heads |-> h, k |-> k, v |-> v, window |-> w]

\* The layers in block order, or <<>> when the metadata cannot say.
KvLayers(meta) ==
    LET n == Or(meta.layers, Len(meta.pattern))
        v == Or(meta.headV, meta.headK)
        heads == Or(meta.kvHeads, meta.heads)
        At(s, il) == s[(il % Len(s)) + 1]
        HeadsAt(il) == IF meta.perLayer # <<>> THEN At(meta.perLayer, il) ELSE heads
        windowed == meta.pattern # <<>> /\ meta.window > 0
        Caches(il) == /\ HeadsAt(il) > 0
                      /\ windowed \/ meta.interval = 0 \/ (il + 1) % meta.interval = 0
        Layer(il) ==
            IF ~Caches(il) THEN NoKv
            ELSE IF windowed /\ At(meta.pattern, il)
            THEN Sliding(HeadsAt(il), Or(meta.windowK, meta.headK), Or(meta.windowV, v), meta.window)
            ELSE Full(HeadsAt(il), meta.headK, v)
    IN IF n = 0 \/ meta.headK = 0 \/ (meta.perLayer = <<>> /\ heads = 0) THEN <<>>
       ELSE [i \in 1..n |-> Layer(i - 1)]

\* A model whose heads nobody knows: every layer as wide as ordinary attention gets.
FallbackKvLayers(meta) ==
    LET n == Or(meta.layers, Len(meta.pattern))
        heads == Or(Or(meta.kvHeads, meta.heads), Max({0} \cup ToSet(meta.perLayer)))
        wideK == Max({meta.embd, heads * meta.headK})
        wideV == Max({meta.embd, heads * Or(meta.headV, meta.headK)})
    IN IF n = 0 \/ wideK = 0 \/ wideV = 0 THEN <<>>
       ELSE [i \in 1..n |-> Full(1, wideK, wideV)]

KvGeometryUnknown(meta) == KvLayers(meta) = <<>> /\ FallbackKvLayers(meta) = <<>>

\* llama.cpp's recurrent state of one slot; a draft head (nextn) keeps none.
RecurrentState(meta, layers) ==
    LET recurrent == Cardinality({i \in DOMAIN layers : layers[i].kind = "none"}) - meta.nextn
        s == meta.ssm
        perLayer == (s.conv - 1) * (s.inner + 2 * s.group * s.state) + s.state * s.inner
    IN IF s.conv = 0 \/ s.inner = 0 \/ s.state = 0 \/ recurrent <= 0 THEN 0
       ELSE recurrent * perLayer * 4

\* 32nds of a byte one cell of a layer takes.
Cell(layer, k, v) == layer.heads * (layer.k * ElementOf(k) + layer.v * ElementOf(v))

SumOver(layers, Bits(_)) == FoldLeft(LAMBDA sum, l : sum + Bits(l), 0, layers) \div 32

\* GGML_PAD(min(full, n_swa * n_seq_max + n_ubatch), align)
WindowCells(layer, ctxTotal, slots, ubatch) ==
    LET cells == Min({ctxTotal, layer.window * slots + ubatch})
    IN ((cells + CellAlign - 1) \div CellAlign) * CellAlign

AllocBytes(layers, ctxTotal, k, v, slots, ubatch) ==
    LET Depth(l) == IF l.kind = "swa" THEN WindowCells(l, ctxTotal, slots, ubatch) ELSE ctxTotal
    IN SumOver(layers, LAMBDA l : Depth(l) * Cell(l, k, v))

\* What the child reserves: the cache, and the recurrent state of every slot.
Reserved(meta, layers, ctxTotal, k, v, slots, ubatch) ==
    IF layers = <<>> THEN AllocBytes(FallbackKvLayers(meta), ctxTotal, "f16", "f16", slots, ubatch)
    ELSE AllocBytes(layers, ctxTotal, k, v, slots, ubatch) + RecurrentState(meta, layers) * slots

KvAllocBytes(meta, ctxTotal, k, v, slots, ubatch) ==
    Reserved(meta, KvLayers(meta), ctxTotal, k, v, slots, ubatch)

\* What one slot holding fill tokens reads from it per decoded token.
KvReadBytes(meta, k, v, fill) ==
    LET Depth(l) == IF l.kind = "swa" THEN Min({fill, l.window}) ELSE fill
        Read(layers) == IF fill = 0 \/ layers = <<>> THEN 0
                        ELSE SumOver(layers, LAMBDA l : Depth(l) * Cell(l, k, v))
                             + RecurrentState(meta, layers)
    IN Read(KvLayers(meta))

EffectiveKvPerToken(meta, k, v, ctx) == KvAllocBytes(meta, ctx, k, v, 1, DefaultUbatch) \div ctx

=============================================================================
