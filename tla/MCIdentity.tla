---------------------------- MODULE MCIdentity ------------------------------
(* Three numbers, four keys and two installs on one account; in the second   *)
(* start another account carries the same key, as old registrations do.      *)
EXTENDS Identity
CONSTANTS k1, k2, k3, k4, d1, d2

Row(k, a) == [key |-> k, claim |-> a, acct |-> a, past |-> {k}]
On(u, k, a) == [at |-> u, key |-> k, acct |-> a]
TwoStarts ==
  { [users |-> [u \in Uins |-> IF u = 1 THEN Row(k1, 1) ELSE None],
     phone |-> [d \in Devices |-> On(1, k1, 1)]],
    [users |-> [u \in Uins |-> IF u = 1 THEN Row(k1, 2) ELSE IF u = 2 THEN Row(k1, 1) ELSE None],
     phone |-> [d \in Devices |-> IF d = d1 THEN On(1, k1, 2) ELSE On(2, k1, 1)]] }
==============================================================================
