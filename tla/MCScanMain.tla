----------------------------- MODULE MCScanMain -----------------------------
(***************************************************************************)
(* Small instances of the program for TLC.                                 *)
(***************************************************************************)
EXTENDS ScanMain

OneHost == <<"a">>
TwoHosts == <<"a", "b">>
OnePort == <<22>>
TwoPorts == <<22, 80>>
ThreePorts == <<22, 80, 443>>

=============================================================================
