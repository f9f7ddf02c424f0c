------------------------------- MODULE MCTray -------------------------------
(* A tray with two workers; messages, saves and events are few.            *)
EXTENDS Tray, TLC

CONSTANTS k1, k2, v2
=============================================================================
