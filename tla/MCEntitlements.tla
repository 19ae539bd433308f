-------------------------- MODULE MCEntitlements ---------------------------
(* Instances of Entitlements for TLC. *)
EXTENDS Entitlements, TLC

CONSTANTS s1, s2, unknown, e1, h1, h2

TwoScans   == {s1, s2}
PlusForged == {s1, s2, unknown}
OneScan    == {s1}
OneSession == {e1}
NoSession  == {}
TwoInFlight == {h1, h2}
=============================================================================
