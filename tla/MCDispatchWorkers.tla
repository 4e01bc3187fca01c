-------------------------- MODULE MCDispatchWorkers --------------------------
(* Values of the constants for TLC: one event asked for under two keys.     *)
EXTENDS DispatchWorkers

Req(key, event) ==
  [key |-> key, event |-> event, plan |-> "p1", action |-> "proposal", attempt |-> 1]

\* Two requests for one event.
MCOneEvent == {Req("k1", "e1"), Req("k2", "e1")}
=============================================================================
