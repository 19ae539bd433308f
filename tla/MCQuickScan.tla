---------------------------- MODULE MCQuickScan ----------------------------
(* Instances of QuickScan for TLC. *)
EXTENDS QuickScan, TLC

CONSTANTS h1, h2, d1

TwoInFlight == {h1, h2}
OneDomain   == {d1}
=============================================================================
