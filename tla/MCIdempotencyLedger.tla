------------------------ MODULE MCIdempotencyLedger ------------------------
(***************************************************************************)
(* Instances of IdempotencyLedger for TLC.                                 *)
(***************************************************************************)
EXTENDS IdempotencyLedger, TLC

CONSTANTS k1, k2

\* Two requests under one key, and one without expiry under another.
MCRequests == {[key |-> k1, fp |-> "f", ttl |-> TRUE],
               [key |-> k1, fp |-> "g", ttl |-> TRUE],
               [key |-> k2, fp |-> "f", ttl |-> FALSE]}

\* One request, retried, that never expires.
MCRetry == {[key |-> k1, fp |-> "f", ttl |-> FALSE]}

MCSymmetry == Permutations(Calls)
=============================================================================
