------------------------------ MODULE MCIdempotency ------------------------------
(* Small instances of Idempotency for TLC. *)
EXTENDS Idempotency, TLC

CONSTANTS create, pause, cancel

\* A pause and a cancellation have no body: their payloads have the same hash.
RoutesAndBodies ==
    [o \in {create, pause, cancel} |-> IF o = cancel THEN pause ELSE o]

RequestSymmetry == Permutations(Requests)
=============================================================================
