--------------------------- MODULE MCLoadManager ---------------------------
\* LoadManager on small machines: the tables a cfg cannot write.
EXTENDS LoadManager, TLC

CONSTANTS a, b, c, d, card

\* a is as big as b and c together and serves chat; the others are utilities.
Sizes == [m \in Models |-> IF m = a THEN 2 ELSE 1]
Tiers == [m \in Models |-> IF m = a THEN 1 ELSE 3]

\* Who may name which model: anybody any; or requests the utilities and an unload
\* the chat model, which its pin brings up.  Two utilities are alike then.
Anyone == [m \in Models |-> Requests \cup Loaders \cup Unloaders]
Shared == [m \in Models |-> IF m = a THEN Unloaders ELSE Requests]
Alike == Permutations({c, d})

\* Every claim is on the one card named, by the first utility.
OnTheCard == [x \in Grants |-> card]
ForUtility == [x \in Grants |-> {b}]
ForChat == [x \in Grants |-> {a}]
AtAgent == [x \in Grants |-> 2]

=============================================================================
