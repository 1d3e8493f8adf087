-------------------------- MODULE AbstractLibrary --------------------------
(***************************************************************************)
(* What core/downloader.py promises the readers of the model library: it   *)
(* fills a destination with the published bytes in one step or clears it,  *)
(* and never leaves anything else there.                                   *)
(***************************************************************************)
CONSTANT Places
VARIABLE shelf

vars == <<shelf>>

Init == shelf \in [Places -> {"empty", "whole", "other"}]

Shelve(d) == shelf' = [shelf EXCEPT ![d] = "whole"]

Clear(d) == shelf' = [shelf EXCEPT ![d] = "empty"]

Next == \E d \in Places : Shelve(d) \/ Clear(d)

Spec == Init /\ [][Next]_vars

=============================================================================
