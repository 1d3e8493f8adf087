----------------------------- MODULE MCEngines -----------------------------
(* One release with a checksum and the CUDA bundle, one built from source. *)
EXTENDS EngineStore, TLC

CONSTANTS b1, b2, l1, l2, m1

MCLocalOf == (b1 :> l1) @@ (b2 :> l2)
MCPinOf == (m1 :> None)

=============================================================================
