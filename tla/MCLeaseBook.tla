---------------------------- MODULE MCLeaseBook ----------------------------
EXTENDS LeaseBook
\* Claim 1 is of the worst class, can be asked and idles out; claim 2, of the
\* best class, wants one of its cards; claim 3, until released, names
\* a model; claim 4 is a benchmark of the server itself.
Cards == [l \in Ids |-> <<{1, 2}, {2}, {1}, {1}>>[l]]
Tiers == [l \in Ids |-> <<3, 1, 2, 3>>[l]]
Ttls == [l \in Ids |-> <<4, 3, 0, 0>>[l]]
MaybeOne == {{1, 2}, {2}}
=============================================================================
