-------------------------- MODULE MCDispatchJournal --------------------------
(* Values of the constants for TLC: one key asked for by two requests, one  *)
(* event asked for under two keys.                                          *)
EXTENDS DispatchJournal

Req(key, event) ==
  [key |-> key, event |-> event, plan |-> "p1", action |-> "proposal", attempt |-> 1]

MCRequest == {Req("k1", "e1"), Req("k2", "e1"), Req("k1", "e2")}

\* Two requests for one event.
MCOneEvent == {Req("k1", "e1"), Req("k2", "e1")}
=============================================================================
