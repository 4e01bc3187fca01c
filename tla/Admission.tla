------------------------------ MODULE Admission ------------------------------
(***************************************************************************)
(* What the dispatch coordinator promises, without how it keeps it: for     *)
(* every idempotency key, at most one request is ever admitted, no event is *)
(* admitted under two keys, and the request moves between active, waiting   *)
(* for its backoff, and stopped by the circuit breaker.  There are no       *)
(* locks, no clock, no event index, no journal and no restarts here.        *)
(***************************************************************************)
EXTENDS Naturals

CONSTANTS Key, Request, NoAdmission, FailureThreshold

VARIABLE admitted  \* per key: the admitted request, its phase, its failures

Admitted(k) == admitted[k] # NoAdmission

Init == admitted = [k \in Key |-> NoAdmission]

Admit(r) ==
  /\ ~Admitted(r.key)
  /\ \A k \in Key : Admitted(k) => admitted[k].request.event # r.event
  /\ admitted' = [admitted EXCEPT ![r.key] = [request |-> r, phase |-> "active", failures |-> 0]]

Fail(k) ==
  /\ Admitted(k)
  /\ LET failures == admitted[k].failures + 1
     IN  admitted' = [admitted EXCEPT ![k] =
           [request |-> admitted[k].request,
            phase |-> IF failures >= FailureThreshold THEN "stopped" ELSE "waiting",
            failures |-> failures]]

Retry(k) ==
  /\ Admitted(k)
  /\ admitted[k].phase = "waiting"
  /\ admitted' = [admitted EXCEPT ![k] =
       [request |-> admitted[k].request, phase |-> "active", failures |-> admitted[k].failures]]

Reset(k) ==
  /\ Admitted(k)
  /\ admitted[k].phase = "stopped"
  /\ admitted' = [admitted EXCEPT ![k] =
       [request |-> admitted[k].request, phase |-> "active", failures |-> 0]]

Next ==
  \/ \E r \in Request : Admit(r)
  \/ \E k \in Key : Fail(k) \/ Retry(k) \/ Reset(k)

Spec == Init /\ [][Next]_admitted
=============================================================================
