----------------------------- MODULE MCScanner -----------------------------
(***************************************************************************)
(* Small instances of the scan engine for TLC.                             *)
(***************************************************************************)
EXTENDS ScannerProperties

OneHost == <<"a">>
TwoHosts == <<"a", "b">>
RepeatedLast == <<"a", "b", "b">>
RepeatedFirst == <<"a", "a", "b">>

OnePort == <<22>>
TwoPorts == <<22, 80>>
ThreePorts == <<22, 80, 443>>

(* parse_ports returns a sorted list without repetitions; the instances    *)
(* keep to it.                                                             *)
ASSUME Distinct(ports)

=============================================================================
