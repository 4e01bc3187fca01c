------------------------------- MODULE Documents -------------------------------
(***************************************************************************)
(* What the contracts of src/ have in common: a plan, a receipt or a piece  *)
(* of evidence carries the hash of its own contents, and every consumer     *)
(* derives it again before it trusts the contents (the rehydrate_ functions *)
(* of each module).  The objects are mutable, so a holder may change one    *)
(* and leave the hash behind.  A hash is modelled by what it is derived     *)
(* from: two documents have one hash exactly when their contents are equal. *)
(***************************************************************************)
CONSTANT NoDoc

Doc(body) == [body |-> body, hash |-> body]

Intact(doc) == doc # NoDoc /\ doc.hash = doc.body
=============================================================================
