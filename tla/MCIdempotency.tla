---------------------------- MODULE MCIdempotency ----------------------------
(***************************************************************************)
(* Idempotency on small instances, and what the README says of replays.    *)
(***************************************************************************)
EXTENDS Idempotency

\* "Replays within the key's TTL return the original response": within a TTL of
\* its claim, a handler that has run to its end has left a response to replay.
\* StoreResponse is given the context of the request; when the client has gone
\* away nothing is stored, and its retries are refused with 409 until the claim
\* expires, after which the handler is run again.
KeptForReplay ==
  \A k \in Keys :
    ran[k] > 0 /\ (\A c \in Callers : Executing(c) => call[c].key # k) => response[k] > 0
=============================================================================
