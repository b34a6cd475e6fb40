---------------------------- MODULE MCRefinement ----------------------------
(***************************************************************************)
(* Small instances for the refinement of the contract by the engine.       *)
(***************************************************************************)
EXTENDS ScanRefinement

TwoHosts == <<"a", "b">>
OnePort == <<22>>
TwoPorts == <<22, 80>>

ASSUME Distinct(targets)

=============================================================================
