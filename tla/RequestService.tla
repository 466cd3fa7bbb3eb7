--------------------------- MODULE RequestService ----------------------------
(***************************************************************************)
(* What a handler and its pool of workers promise to the peers that send   *)
(* requests, whatever nng, the user's callback and the threads do: each    *)
(* request is taken by the pool at most once, at most Capacity requests    *)
(* are being handled at a time, only a request that is being handled is    *)
(* answered, and one that was answered or dropped never comes back.        *)
(***************************************************************************)
EXTENDS Naturals, FiniteSets

CONSTANTS Requests, Capacity

VARIABLE req   \* life of each request

ReqStates == {"away", "queued", "handling", "answered", "dropped"}

Handling == {r \in Requests : req[r] = "handling"}

Init == req = [r \in Requests |-> "away"]

Arrive(r) ==
  /\ req[r] = "away"
  /\ req' = [req EXCEPT ![r] = "queued"]

Take(r) ==
  /\ req[r] = "queued"
  /\ Cardinality(Handling) < Capacity
  /\ req' = [req EXCEPT ![r] = "handling"]

Answer(r) ==
  /\ req[r] = "handling"
  /\ req' = [req EXCEPT ![r] = "answered"]

Drop(r) ==
  /\ req[r] = "handling"
  /\ req' = [req EXCEPT ![r] = "dropped"]

\* The socket is closed: what nobody has taken is gone.
Close == req' = [r \in Requests |-> IF req[r] = "queued" THEN "dropped" ELSE req[r]]

Next ==
  \/ \E r \in Requests : Arrive(r) \/ Take(r) \/ Answer(r) \/ Drop(r)
  \/ Close

Spec == Init /\ [][Next]_req

=============================================================================
