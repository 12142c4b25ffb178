--------------------------- MODULE MCOfflineQueue ---------------------------
(* Instances of OfflineQueue for TLC.                                      *)
EXTENDS OfflineQueue, TLC

CONSTANTS d1, d2, p1, p2

MCDeviceOf == p1 :> d1 @@ p2 :> d2
MCJobsOf == p1 :> {"fetch", "ack"} @@ p2 :> {"drain"}
MCSlot == {1, 2}
MCSlotOf == [d \in Device |-> IF d = d1 THEN 1 ELSE 2]
MCTwoDirect == {"direct" :> 2 @@ "group" :> 0}
MCTwoDirectOrGroup == {"direct" :> 2 @@ "group" :> 0, "direct" :> 0 @@ "group" :> 1}
MCTwoGroup == {"direct" :> 0 @@ "group" :> 2}
MCFanout == {AnySlot, 2}
MCUnaddressed == {AnySlot}

\* Only the client of d1 is known to come back; its sibling may do anything.
FairSpec == Spec /\ Ends /\ Retries(p1)
D1CatchesUp == CatchesUp(d1)
=============================================================================
