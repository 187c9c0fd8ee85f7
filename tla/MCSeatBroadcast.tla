---------------------------- MODULE MCSeatBroadcast ----------------------------
(* Two requests, two clients with room for two messages each. *)
EXTENDS SeatBroadcast, TLC

CONSTANTS s1, s2, c1, c2

MCSellers == {s1, s2}
MCClients == {c1, c2}
================================================================================
