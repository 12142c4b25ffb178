----------------------------- MODULE MCDelivery -----------------------------
(***************************************************************************)
(* The two roads a room post takes to a member, on small instances: the    *)
(* room log (RoomLog) and, for members who do not read it, the copies in   *)
(* the offline queue, here with two requests of one install at once        *)
(* (OfflineQueue).  `part` says which of the two moves in a behaviour; the *)
(* other one stays in its initial state.                                   *)
(***************************************************************************)
EXTENDS OfflineQueue, RoomLog, TLC

CONSTANTS d0, d1, r1, p1, p2

VARIABLE part

queueVars == <<clock, nextId, counter, pending, rows, history, late, expired,
               revoked, cursors, mark, stamp, high, base, taken, req>>
deliveryVars == <<part, logVars, queueVars>>

Asleep == 0

\* A mailbox nobody has written to or drained.
QueueAsleep ==
  /\ rows = {} /\ history = {} /\ late = {} /\ expired = {} /\ revoked = {} /\ cursors = {}
  /\ clock = Asleep /\ nextId = Asleep /\ counter = Asleep /\ pending = Asleep
  /\ mark = Asleep /\ stamp = Asleep /\ high = Asleep /\ base = Asleep
  /\ taken = Asleep /\ req = Asleep

LogAsleep ==
  /\ member = Asleep /\ drains = Asleep /\ marked = Asleep /\ cursor = Asleep
  /\ head = Asleep /\ logRows = Asleep /\ post = Asleep /\ fetch = Asleep
  /\ ack = Asleep /\ join = Asleep /\ sweep = Asleep /\ got = Asleep
  /\ paged = Asleep /\ owed = {} /\ echo = Asleep

DeliveryInit ==
  \/ part = "log" /\ LogInit /\ QueueAsleep
  \/ part = "queue" /\ Init /\ LogAsleep

DeliveryNext ==
  \/ part = "log" /\ LogNext /\ UNCHANGED <<part, queueVars>>
  \/ part = "queue" /\ Next /\ UNCHANGED <<part, logVars>>

DeliverySpec == DeliveryInit /\ [][DeliveryNext]_deliveryVars

\* The rooms a client names in a fetch.
MCAny == SUBSET Room

\* Two requests of the install; one of them may be that of an old socket.
MCSocketsOf == p1 :> d1 @@ p2 :> d1
MCSocketJobs == p1 :> {"fetch", "ack"} @@ p2 :> {"fetch", "ack", "drain"}
MCSlotOf == d1 :> 1
MCLoads == {"direct" :> 1 @@ "group" :> 2}
MCFanout == {AnySlot, 2}
=============================================================================
