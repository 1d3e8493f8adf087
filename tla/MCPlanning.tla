----------------------------- MODULE MCPlanning -----------------------------
\* A rig of two cards of one generation and an older one, and models of each kind: a dense
\* one, one with sliding windows, a hybrid one confined to two cards, one of experts
\* whose quantization wants the newer cards, and a small one.
EXTENDS Planning

NoSsm == [conv |-> 0, inner |-> 0, state |-> 0, group |-> 0]

Meta == [layers |-> 2, embd |-> 2, heads |-> 1, kvHeads |-> 1, headK |-> 1, headV |-> 0,
         perLayer |-> <<>>, pattern |-> <<>>, window |-> 0, windowK |-> 0, windowV |-> 0,
         interval |-> 0, ssm |-> NoSsm, nextn |-> 0, trained |-> 0]

Plain == [meta |-> Meta, tensors |-> 60, host |-> 0, experts |-> 0, expertsUsed |-> 0,
          expertTensors |-> 0, output |-> 8, mmproj |-> 0, adapters |-> 0, draft |-> None,
          thinking |-> FALSE, affinity |-> None, pinned |-> FALSE, unified |-> FALSE,
          ubatch |-> 0, ctx |-> 0, minCtx |-> 0, kv |-> <<"", "">>, slots |-> 0, cap |-> 0,
          override |-> <<>>, allowed |-> None, single |-> None]

MCSpec ==
    [dense |-> [Plain EXCEPT !.meta.layers = 3, !.kv = <<"auto", "">>, !.thinking = TRUE],
     windowed |-> [Plain EXCEPT !.meta.pattern = <<TRUE, FALSE>>, !.meta.window = 4, !.tensors = 50,
                                !.cap = 3, !.meta.trained = 24],
     hybrid |-> [Plain EXCEPT !.meta.interval = 2, !.meta.ssm = [conv |-> 2, inner |-> 1, state |-> 1, group |-> 0],
                              !.tensors = 110, !.host = 10, !.mmproj = 6, !.allowed = {1, 2}, !.minCtx = 16],
     sparse |-> [Plain EXCEPT !.tensors = 90, !.experts = 4, !.expertsUsed = 1, !.expertTensors = 60,
                              !.affinity = [mode |-> "require", capability |-> 120], !.slots = 2],
     small |-> [Plain EXCEPT !.tensors = 40]]

MCTotal == [c \in 0..2 |-> IF c = 2 THEN 120 ELSE 160]
MCCapability == [c \in 0..2 |-> IF c = 2 THEN 86 ELSE 120]

MCConfig == [headroom |-> 5, reserved |-> [c \in 0..2 |-> IF c = 0 THEN 4 ELSE 0], excluded |-> {},
             floor |-> 4, overhead |-> 6, context |-> 3, mmproj |-> 2, scratch |-> 1,
             mixed |-> "fallback", single |-> TRUE, insufficient |-> "evict",
             defaultCtx |-> 8, targetCtx |-> 16, thinkingCtx |-> 32, kv |-> "f16", slots |-> 0,
             maxSlots |-> 4, ubatch |-> [fixed |-> 0, manySlots |-> 4, threshold |-> 2]]

Q(m) == [model |-> m, ctx |-> 0, kv |-> <<"", "">>, slots |-> 0, auto |-> FALSE, tier |-> 3,
         reload |-> FALSE, busyToo |-> FALSE, evict |-> None, unified |-> FALSE]

MCRequests ==
    {Q("dense"), [Q("dense") EXCEPT !.tier = 1], [Q("dense") EXCEPT !.reload = TRUE, !.ctx = 16],
     Q("windowed"), [Q("windowed") EXCEPT !.slots = 3, !.evict = FALSE],
     [Q("hybrid") EXCEPT !.unified = TRUE, !.busyToo = TRUE],
     Q("sparse")}

MoreRequests == MCRequests \cup {[Q("hybrid") EXCEPT !.tier = 2]}

\* One card and one window, the slots asked for or left to the planner.
SlotRequests ==
    {[Q("small") EXCEPT !.ctx = 4, !.slots = n, !.reload = r] : n \in {0, 2}, r \in BOOLEAN}

SlotConfig == [MCConfig EXCEPT !.ubatch.manySlots = 0]

SplitsOnly == [MCConfig EXCEPT !.single = FALSE]

MCLadder == <<64, 32, 24, 16, 12, 8, 4>>

=============================================================================
