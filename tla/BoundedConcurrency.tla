-------------------------- MODULE BoundedConcurrency --------------------------
(***************************************************************************)
(* What a concurrency limit promises, whatever keeps the count: a call may *)
(* start on a resource only while fewer than its limit are under way, and  *)
(* a call that ends makes room for another one.  Nothing is said of how    *)
(* the limit is enforced: MemorySlots is shown to implement this module    *)
(* for the accounts and for the API tokens.                                *)
(***************************************************************************)
EXTENDS Naturals, FiniteSets

CONSTANTS Requests,   \* the requests that may make calls
          Resources,  \* what they make calls on
          Max         \* Max[k]: the calls allowed on k at a time

VARIABLE inflight     \* inflight[k]: the requests with a call under way on k

Init == inflight = [k \in Resources |-> {}]

Start(r, k) ==
  /\ r \notin inflight[k]
  /\ Cardinality(inflight[k]) < Max[k]
  /\ inflight' = [inflight EXCEPT ![k] = @ \cup {r}]

Finish(r, k) ==
  /\ r \in inflight[k]
  /\ inflight' = [inflight EXCEPT ![k] = @ \ {r}]

Next == \E r \in Requests, k \in Resources : Start(r, k) \/ Finish(r, k)

Spec == Init /\ [][Next]_inflight
===============================================================================
