------------------------ MODULE MCDispatchCoordinator ------------------------
(* Values of the constants for TLC: requests that share keys and events in  *)
(* every way dispatch tells apart, one token valid for part of the run.     *)
EXTENDS DispatchCoordinator

Req(key, event, action) ==
  [key |-> key, event |-> event, plan |-> "p1", action |-> action, attempt |-> 1]

MCRequest == {Req("k1", "e1", "proposal"),    \* the plain case
              Req("k1", "e2", "push"),        \* same key, another request
              Req("k2", "e1", "proposal"),    \* same event, same payload
              Req("k2", "e1", "create_pr"),   \* same event, another payload
              Req("k2", "e2", "push"),        \* needs the token
              Req("k1", "e1", "merge_main")}  \* never authorised

\* The requests that contend for a key or an event and need no token.
MCContended == {Req("k1", "e1", "proposal"), Req("k1", "e2", "proposal"),
                Req("k2", "e1", "proposal")}

MCToken == {[scope |-> "push", plan |-> "p1", signer |-> "alice", from |-> 1, until |-> 2]}
=============================================================================
