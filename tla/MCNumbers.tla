------------------------------ MODULE MCNumbers ------------------------------
(* Small instances of Numbers. *)
EXTENDS Numbers, TLC

CONSTANTS a, b, c, p1, p2, r1, r2, v1, v2

\* Voucher v1 is for the island's own number a, v2 for the first offer made on
\* it.
MCVoucher == v1 :> [uin |-> a, offer |-> 0] @@ v2 :> [uin |-> a, offer |-> 1]

\* Requests are interchangeable, and so are accounts.
MCSymmetry == Permutations({r1, r2}) \cup Permutations({p1, p2})
=============================================================================
