------------------------------- MODULE MCGroups -------------------------------
(* Small instances of Groups. *)
EXTENDS Groups, TLC

CONSTANTS a, b, c, p1, p2

\* Requests are interchangeable.
MCRequests == Permutations({p1, p2})
=============================================================================
