-------------------- MODULE LiveSessionsAndCachesProofs ---------------------
(***************************************************************************)
(* Proofs about modules LiveSessions and Caches, for any users, workers,   *)
(* rooms, pairs, keys, capacity and number of operations: the seats of a   *)
(* room, the entries of random:pair_by_uin and the two entries of a call,  *)
(* each with an inductive invariant of its own, over the variables it is   *)
(* about; and what a cached verdict says.                                  *)
(***************************************************************************)
EXTENDS LiveSessions, Caches, FiniteSetTheorems, TLAPS

(* The audio rooms.                                                        *)

\* The seats of a room are finitely many, within its capacity.
Seated(S) == IsFiniteSet(S) /\ Cardinality(S) <= MaxInRoom

\* The inductive invariant behind RoomKept.
RoomInv ==
  /\ live \in [Rooms -> SUBSET Users] /\ \A r \in Rooms : Seated(live[r])
  /\ owner \in [Rooms -> Users \cup {Nobody}] /\ member \in [Rooms -> SUBSET Users]
  /\ \A r \in Rooms : owner[r] # Nobody => owner[r] \in member[r]

\* Whoever leaves, the room stays within its capacity.
LEMMA FewerSeated ==
  ASSUME NEW S, Seated(S), NEW T, T \subseteq S
  PROVE  Seated(T)
<1>1. IsFiniteSet(T) /\ Cardinality(T) <= Cardinality(S)
  BY Zenon, FS_Subset DEF Seated
<1>2. Cardinality(S) \in Nat /\ Cardinality(T) \in Nat /\ MaxInRoom \in Nat
  BY Zenon, <1>1, FS_CardinalityType, LiveAssumption DEF Seated
<1>. QED  BY <1>1, <1>2 DEF Seated

\* The Lua script of room_enter hands out a seat only below the capacity.
LEMMA SeatSeated ==
  ASSUME NEW r, Seated(live[r]), NEW u
  PROVE  Seated(Seat(r, u))
<1>1. CASE u \in live[r] \/ Cardinality(live[r]) >= MaxInRoom
  BY Zenon, <1>1 DEF Seat
<1>2. CASE u \notin live[r] /\ ~(Cardinality(live[r]) >= MaxInRoom)
  <2>1. Seat(r, u) = live[r] \cup {u}
    BY Zenon, <1>2 DEF Seat
  <2>2. IsFiniteSet(live[r] \cup {u}) /\ Cardinality(live[r] \cup {u}) = Cardinality(live[r]) + 1
    BY Zenon, <1>2, FS_AddElement DEF Seated
  <2>3. Cardinality(live[r]) \in Nat /\ MaxInRoom \in Nat
    BY Zenon, FS_CardinalityType, LiveAssumption DEF Seated
  <2>. QED  BY <1>2, <2>1, <2>2, <2>3 DEF Seated
<1>. QED  BY Zenon, <1>1, <1>2

\* No room has anybody in it at the start, and a founded room has its owner's row.
LEMMA RoomStart == Init => RoomInv
<1>. SUFFICES ASSUME Init PROVE RoomInv
  BY Zenon
<1>1. (CHOOSE u \in Users : TRUE) \in Users
  BY Zenon, LiveAssumption
<1>2. Seated({})
  BY FS_EmptySet, LiveAssumption DEF Seated
<1>3. /\ live = [r \in Rooms |-> {}]
      /\ owner = [r \in Rooms |-> IF r \in Founded THEN CHOOSE u \in Users : TRUE ELSE Nobody]
      /\ member = [r \in Rooms |-> IF r \in Founded THEN Users ELSE {}]
  BY Zenon DEF Init
<1>. QED  BY Zenon, <1>1, <1>2, <1>3 DEF RoomInv

\* Steps that only take users out of rooms.
LEMMA RoomLeft ==
  ASSUME RoomInv, live' \in [Rooms -> SUBSET Users], \A r \in Rooms : live'[r] \subseteq live[r],
         UNCHANGED <<owner, member>>
  PROVE  RoomInv'
<1>1. ASSUME NEW r \in Rooms PROVE Seated(live'[r])
  BY Zenon, FewerSeated DEF RoomInv
<1>. QED  BY Zenon, <1>1 DEF RoomInv, Seated

\* Steps that leave everybody seated and change the rows.
LEMMA RowsKept ==
  ASSUME RoomInv, NEW r \in Rooms, NEW u \in Users, live' = live,
         \/ owner' = [owner EXCEPT ![r] = u] /\ member' = [member EXCEPT ![r] = {u}]
         \/ owner' = owner /\ member' = [member EXCEPT ![r] = @ \cup {u}]
         \/ owner' = owner /\ owner[r] # u /\ member' = [member EXCEPT ![r] = @ \ {u}]
         \/ owner' = [owner EXCEPT ![r] = Nobody] /\ member' = [member EXCEPT ![r] = {}]
  PROVE  RoomInv'
BY LiveAssumption DEF RoomInv, Seated

\* RoomInv is inductive.
LEMMA RoomStep == RoomInv /\ [Next]_vars => RoomInv'
<1>. SUFFICES ASSUME RoomInv, [Next]_vars PROVE RoomInv'
  BY Zenon
<1>0. ASSUME UNCHANGED <<live, owner, member>> PROVE RoomInv'
  BY Zenon, <1>0 DEF RoomInv, Seated
<1>1. CASE UNCHANGED vars
  BY Zenon, <1>0, <1>1 DEF vars, roomv
<1>2. ASSUME NEW u \in Users, NEW r \in Rooms, CreateRoom(u, r) \/ JoinByKey(u, r) \/ LeaveMyList(u, r)
      PROVE  RoomInv'
  BY Zenon, <1>2, RowsKept DEF CreateRoom, JoinByKey, LeaveMyList
<1>3. ASSUME NEW r \in Rooms, DeleteRoom(r) PROVE RoomInv'
  <2>1. PICK u \in Users : TRUE
    BY Zenon, LiveAssumption
  <2>. QED  BY Zenon, <1>3, <2>1, RowsKept DEF DeleteRoom
<1>4. ASSUME NEW u \in Users, RoomEntered(u) PROVE RoomInv'
  <2>1. live' = [live EXCEPT ![op[u][2]] = Seat(op[u][2], u)] /\ UNCHANGED <<owner, member>>
    BY Zenon, <1>4 DEF RoomEntered
  <2>2. \A r \in Rooms : Seated(Seat(r, u)) /\ Seat(r, u) \subseteq Users
    BY Zenon, SeatSeated DEF RoomInv, Seat
  <2>3. live' \in [Rooms -> SUBSET Users] /\ \A r \in Rooms : Seated(live'[r])
    BY Zenon, <2>1, <2>2 DEF RoomInv
  <2>. QED  BY Zenon, <2>1, <2>3 DEF RoomInv, Seated
<1>5. ASSUME NEW u \in Users, NEW r \in Rooms, RoomLeave(u, r) PROVE RoomInv'
  BY Zenon, <1>5, RoomLeft DEF RoomLeave, Evict, RoomInv
<1>6. ASSUME NEW u \in Users, NEW w \in Workers, OfflineEvict(w, u) PROVE RoomInv'
  BY Zenon, <1>6, RoomLeft DEF OfflineEvict, Evict, RoomInv
<1>7. ASSUME NEW r \in Rooms, PurgeRun(r) PROVE RoomInv'
  BY Zenon, <1>7, RoomLeft DEF PurgeRun, RoomInv
<1>8. ASSUME NEW r \in Rooms, NEW v \in Users, KickMember(r, v) PROVE RoomInv'
  <2>1. /\ live' = [live EXCEPT ![r] = @ \ {v}] /\ member' = [member EXCEPT ![r] = @ \ {v}]
        /\ owner' = owner /\ owner[r] # v
    BY Zenon, <1>8 DEF KickMember, Evict
  <2>2. live' \in [Rooms -> SUBSET Users] /\ \A q \in Rooms : live'[q] \subseteq live[q]
    BY Zenon, <2>1 DEF RoomInv
  <2>3. \A q \in Rooms : Seated(live'[q])
    BY Zenon, <2>2, FewerSeated DEF RoomInv
  <2>. QED  BY Zenon, <2>1, <2>2, <2>3 DEF RoomInv, Seated
<1>9. ASSUME NEW u \in Users, NEW v \in Users,
             \/ CallOffer(u, v)
             \/ \E c \in Calls : CallAnswer(u, v, c) \/ \E b \in BOOLEAN : CallEnd(u, v, c, b)
      PROVE  RoomInv'
  BY Zenon, <1>0, <1>9 DEF CallOffer, CallAnswer, CallEnd, roomv
<1>10. ASSUME NEW u \in Users, NEW r \in Rooms, RoomEnter(u, r) PROVE RoomInv'
  BY Zenon, <1>0, <1>10 DEF RoomEnter, roomv
<1>11. ASSUME NEW u \in Users,
              \/ Queue(u) \/ Skip(u) \/ RandomLeave(u) \/ CallEnded(u)
              \/ MatchPop(u) \/ MatchWrite(u) \/ Depart(u)
       PROVE  RoomInv'
  BY Zenon, <1>0, <1>11 DEF Queue, Skip, RandomLeave, CallEnded, MatchPop, MatchWrite, Depart, roomv
<1>12. ASSUME NEW u \in Users, NEW w \in Workers,
              \/ Arrive(u, w) \/ OfflineWake(w, u) \/ OfflineRandom(w, u)
              \/ OfflineCall(w, u) \/ OfflineClear(w, u) \/ OfflineRoom(w, u)
       PROVE  RoomInv'
  BY Zenon, <1>0, <1>12 DEF Arrive, OfflineWake, OfflineRandom, OfflineCall, OfflineClear, OfflineRoom, roomv
<1>13. ASSUME \/ \E r \in Rooms : PurgeRead(r)
              \/ \E c \in Calls : Age(c)
              \/ \E p \in Pairs : ExpirePair(p)
              \/ \E e \in ending : EndPairRun(e)
              \/ \E w \in Workers : Crash(w)
       PROVE  RoomInv'
  BY Zenon, <1>0, <1>13 DEF PurgeRead, Age, ExpirePair, EndPairRun, Crash, roomv
<1>14. ASSUME NEW u \in Users, Request(u) PROVE RoomInv'
  BY Zenon, <1>2, <1>5, <1>9, <1>10, <1>11, <1>14 DEF Request
<1>15. ASSUME NEW u \in Users, Handler(u) PROVE RoomInv'
  BY Zenon, <1>4, <1>11, <1>15 DEF Handler
<1>16. ASSUME NEW u \in Users, NEW w \in Workers, Offline(w, u) PROVE RoomInv'
  BY Zenon, <1>6, <1>12, <1>16 DEF Offline
<1>. QED  BY Zenon, <1>1, <1>3, <1>7, <1>8, <1>11, <1>12, <1>13, <1>14, <1>15, <1>16 DEF Next

\* room_enter, create_room, leave, kick_member, delete_room: for any number of
\* users and rooms and any capacity, a room never seats more than it can, and
\* its owner keeps the membership row.
THEOREM RoomsKept == Spec => []RoomKept
<1>1. RoomInv => RoomKept
  BY Zenon DEF RoomInv, RoomKept, Seated
<1>. QED  BY <1>1, RoomStart, RoomStep, PTL DEF Spec
-----------------------------------------------------------------------------
(* The random chat.                                                        *)

\* The inductive invariant behind NoDangling.  An entry stands in the pair it
\* names, and an end of that pair that is under way has read it with its user;
\* a pair that is being ended was made, so its id is not given again.
PairInv ==
  /\ pairOf \in [Users -> Pairs \cup {Nobody}] /\ pair = [p \in Pairs |-> pair[p]]
  /\ \A u \in Users : pairOf[u] # Nobody => pair[pairOf[u]] # Gone /\ u \in pair[pairOf[u]]
  /\ \A e \in ending : /\ e.p \in Pairs /\ pair[e.p] # {}
                       /\ \A u \in Users : pairOf[u] = e.p /\ pairOf[u] # Nobody => u \in e.S

\* Nobody is paired at the start.
LEMMA PairStart == Init => PairInv
BY Zenon DEF Init, PairInv

\* An end that has read a pair somebody is in, or one that was made.
LEMMA EndPairOK ==
  ASSUME PairInv, NEW p, NEW next, EndPair(p, next), UNCHANGED <<pairOf, pair>>,
         p \in Pairs /\ pair[p] # {}
  PROVE  PairInv'
<1>. DEFINE e == [p |-> p, S |-> pair[p], next |-> next]
<1>1. ending' = ending \cup {e} /\ e.p = p /\ e.S = pair[p]
  BY Zenon DEF EndPair
<1>2. \A u \in Users : pairOf[u] = p /\ pairOf[u] # Nobody => u \in pair[p]
  BY Zenon DEF PairInv
<1>. QED  BY Zenon, <1>1, <1>2 DEF PairInv

\* An entry names a pair that was made.
LEMMA EntryMade ==
  ASSUME PairInv, NEW u \in Users, pairOf[u] # Nobody
  PROVE  pairOf[u] \in Pairs /\ pair[pairOf[u]] # {}
BY Zenon DEF PairInv

\* The transaction of _end_pair.
LEMMA EndPairRunOK ==
  ASSUME PairInv, NEW e \in ending, EndPairRun(e)
  PROVE  PairInv'
<1>1. /\ ending' = ending \ {e} /\ pair' = [pair EXCEPT ![e.p] = Gone]
      /\ pairOf' = [x \in Users |-> IF x \in e.S THEN Nobody ELSE pairOf[x]]
  BY Zenon DEF EndPairRun, Unpaired
<1>2. /\ pairOf' \in [Users -> Pairs \cup {Nobody}] /\ pair' = [p \in Pairs |-> pair'[p]]
      /\ \A u \in Users : pairOf'[u] # Nobody => pairOf'[u] = pairOf[u] /\ u \notin e.S
      /\ \A p \in Pairs : p # e.p => pair'[p] = pair[p]
      /\ pair'[e.p] = Gone
  BY Zenon, <1>1 DEF PairInv
<1>3. ASSUME NEW u \in Users, pairOf'[u] # Nobody
      PROVE  pairOf'[u] \in Pairs /\ pair'[pairOf'[u]] # Gone /\ u \in pair'[pairOf'[u]]
  BY <1>2, <1>3 DEF PairInv
<1>4. ASSUME NEW f \in ending'
      PROVE  /\ f.p \in Pairs /\ pair'[f.p] # {}
             /\ \A u \in Users : pairOf'[u] = f.p /\ pairOf'[u] # Nobody => u \in f.S
  BY Zenon, <1>1, <1>2, <1>4 DEF PairInv, Gone
<1>. QED  BY Zenon, <1>2, <1>3, <1>4 DEF PairInv

\* The transaction of _try_match: the id is one that no pair ever had.
LEMMA MatchWriteOK ==
  ASSUME PairInv, NEW u \in Users, MatchWrite(u)
  PROVE  PairInv'
<1>. DEFINE x == op[u][2]
<1>1. PICK p \in Pairs : /\ pair[p] = {} /\ pair' = [pair EXCEPT ![p] = {u, x}]
                         /\ pairOf' = [pairOf EXCEPT ![u] = p, ![x] = p]
  BY Zenon DEF MatchWrite
<1>2. ending' = ending /\ \A e \in ending : e.p # p
  BY Zenon, <1>1 DEF MatchWrite, PairInv
<1>3. /\ pair' = [q \in Pairs |-> pair'[q]] /\ pair'[p] = {u, x} /\ {u, x} # Gone
      /\ \A q \in Pairs : q # p => pair'[q] = pair[q]
  BY Zenon, <1>1, LiveAssumption DEF PairInv, Gone
<1>4. /\ pairOf' \in [Users -> Pairs \cup {Nobody}]
      /\ \A v \in Users : IF v \in {u, x} THEN pairOf'[v] = p ELSE pairOf'[v] = pairOf[v]
  BY Zenon, <1>1 DEF PairInv
<1>5. ASSUME NEW v \in Users, pairOf'[v] # Nobody
      PROVE  pair'[pairOf'[v]] # Gone /\ v \in pair'[pairOf'[v]]
  <2>1. CASE v \in {u, x}
    BY Zenon, <1>3, <1>4, <2>1
  <2>2. CASE v \notin {u, x}
    <3>1. pairOf'[v] = pairOf[v] /\ pairOf[v] # p
      BY Zenon, <1>1, <1>4, <1>5, <2>2 DEF PairInv
    <3>. QED  BY Zenon, <1>3, <1>5, <3>1 DEF PairInv
  <2>. QED  BY Zenon, <2>1, <2>2
<1>6. ASSUME NEW e \in ending
      PROVE  /\ e.p \in Pairs /\ pair'[e.p] # {}
             /\ \A v \in Users : pairOf'[v] = e.p /\ pairOf'[v] # Nobody => v \in e.S
  BY Zenon, <1>2, <1>3, <1>4 DEF PairInv
<1>. QED  BY Zenon, <1>2, <1>3, <1>4, <1>5, <1>6 DEF PairInv

\* PairInv is inductive.
LEMMA PairStep == PairInv /\ [Next]_vars => PairInv'
<1>. SUFFICES ASSUME PairInv, [Next]_vars PROVE PairInv'
  BY Zenon
<1>0. ASSUME UNCHANGED <<pairOf, pair, ending>> PROVE PairInv'
  BY Zenon, <1>0 DEF PairInv
<1>1. CASE UNCHANGED vars
  BY Zenon, <1>0, <1>1 DEF vars, randv
<1>2. ASSUME NEW u \in Users, Skip(u) PROVE PairInv'
  BY Zenon, <1>2, EndPairOK, EntryMade DEF Skip
<1>3. ASSUME NEW u \in Users, RandomLeave(u) PROVE PairInv'
  BY Zenon, <1>0, <1>3, EndPairOK, EntryMade DEF RandomLeave
<1>4. ASSUME NEW u \in Users, NEW w \in Workers, OfflineRandom(w, u) PROVE PairInv'
  BY Zenon, <1>0, <1>4, EndPairOK, EntryMade DEF OfflineRandom
<1>5. ASSUME NEW p \in Pairs, ExpirePair(p) PROVE PairInv'
  BY Zenon, <1>5, EndPairOK DEF ExpirePair
<1>6. ASSUME NEW u \in Users, NEW v \in Users,
             \/ CallOffer(u, v)
             \/ \E c \in Calls : CallAnswer(u, v, c) \/ \E b \in BOOLEAN : CallEnd(u, v, c, b)
      PROVE  PairInv'
  BY Zenon, <1>0, <1>6 DEF CallOffer, CallAnswer, CallEnd, randv
<1>7. ASSUME NEW u \in Users, NEW r \in Rooms,
             \/ CreateRoom(u, r) \/ JoinByKey(u, r) \/ LeaveMyList(u, r) \/ RoomEnter(u, r)
             \/ RoomLeave(u, r) \/ KickMember(r, u)
      PROVE  PairInv'
  BY Zenon, <1>0, <1>7 DEF CreateRoom, JoinByKey, LeaveMyList, RoomEnter, RoomLeave, KickMember, randv
<1>8. ASSUME NEW u \in Users, Queue(u) \/ CallEnded(u) \/ RoomEntered(u) \/ MatchPop(u) \/ Depart(u)
      PROVE  PairInv'
  BY Zenon, <1>0, <1>8 DEF Queue, CallEnded, RoomEntered, MatchPop, Depart, randv
<1>9. ASSUME NEW u \in Users, NEW w \in Workers,
             \/ Arrive(u, w) \/ OfflineWake(w, u) \/ OfflineCall(w, u)
             \/ OfflineClear(w, u) \/ OfflineRoom(w, u) \/ OfflineEvict(w, u)
      PROVE  PairInv'
  BY Zenon, <1>0, <1>9 DEF Arrive, OfflineWake, OfflineCall, OfflineClear, OfflineRoom, OfflineEvict, randv
<1>10. ASSUME \/ \E r \in Rooms : DeleteRoom(r) \/ PurgeRead(r) \/ PurgeRun(r)
              \/ \E c \in Calls : Age(c)
              \/ \E w \in Workers : Crash(w)
       PROVE  PairInv'
  BY Zenon, <1>0, <1>10 DEF DeleteRoom, PurgeRead, PurgeRun, Age, Crash, randv
<1>11. ASSUME NEW u \in Users, Request(u) PROVE PairInv'
  BY Zenon, <1>2, <1>3, <1>6, <1>7, <1>8, <1>11 DEF Request
<1>12. ASSUME NEW u \in Users, Handler(u) PROVE PairInv'
  BY Zenon, <1>8, <1>12, MatchWriteOK DEF Handler
<1>13. ASSUME NEW u \in Users, NEW w \in Workers, Offline(w, u) PROVE PairInv'
  BY Zenon, <1>4, <1>9, <1>13 DEF Offline
<1>. QED  BY Zenon, <1>1, <1>5, <1>7, <1>8, <1>9, <1>10, <1>11, <1>12, <1>13, EndPairRunOK DEF Next

\* _end_pair, _try_match, expire_loop: no entry of random:pair_by_uin outlives
\* its pair, for any number of users, pairs and ends that cross.
THEOREM NothingDangles == Spec => []NoDangling
<1>1. PairInv => NoDangling
  BY Zenon DEF PairInv, NoDangling
<1>. QED  BY <1>1, PairStart, PairStep, PTL DEF Spec
-----------------------------------------------------------------------------
(* The calls.                                                              *)

\* The table calls:active: an entry that makes its user busy has its
\* counterpart, and no call is in the entries of more than two users.
CallTable ==
  /\ ops \in Nat /\ calls \in [Users -> [c : Nat, peer : Users \cup {Nobody}, age : Nat]]
  /\ \A x \in Users : calls[x] # NoCall => calls[x].c # 0 /\ calls[x].c <= ops /\ calls[x].peer \in Users
  /\ \A x, y \in Users : calls[x].c # 0 /\ calls[y].c = calls[x].c => y \in {x, calls[x].peer}
  /\ CallsPaired

\* Call c was offered, and only u and v can have it in their entries.
Ends(c, u, v) == c \in Nat \ {0} /\ c <= ops /\ \A x \in Users : calls[x].c = c => x \in {u, v}

\* A handler that is about to clear a call, or an offline task, has both its ends.
OpsOK ==
  /\ op = [u \in Users |-> op[u]]
  /\ \A u \in Users : op[u][1] = "end" => Ends(op[u][2], u, op[u][3])
TasksOK ==
  /\ task = [w \in Workers |-> [u \in Users |-> task[w][u]]]
  /\ \A w \in Workers, u \in Users : task[w][u][1] = "clear" => Ends(task[w][u][2], u, task[w][u][3])

\* The inductive invariant behind CallsPaired.
CallInv == CallTable /\ OpsOK /\ TasksOK

\* What no step does to the table: give a user an old call.
NoOldCall ==
  /\ ops' \in Nat /\ ops <= ops'
  /\ \A x \in Users : calls'[x].c = calls[x].c \/ calls'[x].c = 0 \/ calls'[x].c > ops

\* Nobody is in a call at the start.
LEMMA CallStart == Init => CallInv
<1>. SUFFICES ASSUME Init PROVE CallInv
  BY Zenon
<1>1. CallTable
  BY Zenon DEF Init, CallTable, CallsPaired, NoCall, Busy
<1>2. OpsOK /\ TasksOK
  BY Zenon DEF Init, OpsOK, TasksOK, Idle
<1>. QED  BY Zenon, <1>1, <1>2 DEF CallInv

\* The ends of a call stay its ends.
LEMMA EndsStay ==
  ASSUME CallTable, NoOldCall, NEW c, NEW u, NEW v, Ends(c, u, v)
  PROVE  Ends(c, u, v)'
BY DEF CallTable, NoOldCall, Ends

\* An entry knows both ends of its call.
LEMMA EntryEnds ==
  ASSUME CallTable, NEW u \in Users, calls[u] # NoCall
  PROVE  Ends(calls[u].c, u, calls[u].peer) /\ Ends(calls[u].c, calls[u].peer, u)
BY Zenon DEF CallTable, Ends

\* _call_pair_live: so does a frame that passed the gate.
LEMMA LiveEnds ==
  ASSUME CallTable, NEW u \in Users, NEW v \in Users, NEW c \in Calls, PairLive(u, v, c)
  PROVE  Ends(c, u, v)
<1>1. c # 0
  BY LiveAssumption DEF Calls
<1>2. CASE calls[u].peer = v /\ calls[u].c = c
  BY <1>1, <1>2, EntryEnds DEF NoCall
<1>3. CASE calls[v].peer = u /\ calls[v].c = c
  BY <1>1, <1>3, EntryEnds DEF NoCall
<1>. QED  BY Zenon, <1>2, <1>3 DEF PairLive

\* A step that writes only handlers and tasks that clear nothing, or that have
\* both ends of what they clear.
LEMMA OpsKept ==
  ASSUME CallTable, OpsOK, NoOldCall, op' = [u \in Users |-> op'[u]],
         \A u \in Users : \/ op'[u] = op[u] \/ op'[u][1] # "end"
                          \/ Ends(op[u][2], u, op[u][3])'
  PROVE  OpsOK'
<1>1. ASSUME NEW u \in Users, op'[u][1] = "end" PROVE Ends(op[u][2], u, op[u][3])'
  <2>1. CASE op'[u] = op[u]
    BY Zenon, <1>1, <2>1, EndsStay DEF OpsOK
  <2>. QED  BY Zenon, <1>1, <2>1
<1>. QED  BY Zenon, <1>1 DEF OpsOK
\* The same of the offline tasks, whatever a step does to them, ...
LEMMA TasksKept ==
  ASSUME CallTable, TasksOK, NoOldCall, task' = [w \in Workers |-> [u \in Users |-> task'[w][u]]],
         \A w \in Workers, u \in Users : \/ task'[w][u] = task[w][u] \/ task'[w][u][1] # "clear"
                                         \/ Ends(task[w][u][2], u, task[w][u][3])'
  PROVE  TasksOK'
<1>1. ASSUME NEW w \in Workers, NEW u \in Users, task'[w][u][1] = "clear"
      PROVE  Ends(task[w][u][2], u, task[w][u][3])'
  <2>1. CASE task'[w][u] = task[w][u]
    BY Zenon, <1>1, <2>1, EndsStay DEF TasksOK
  <2>. QED  BY Zenon, <1>1, <2>1
<1>. QED  BY Zenon, <1>1 DEF TasksOK
\* ... and when one of them moves on.
LEMMA ThenKept ==
  ASSUME CallTable, TasksOK, NoOldCall, NEW w, NEW u, NEW t, Then(w, u, t),
         t[1] # "clear" \/ Ends(t[2], u, t[3])'
  PROVE  TasksOK'
<1>1. /\ task' = [x \in Workers |-> [y \in Users |-> task'[x][y]]]
      /\ \A x \in Workers, y \in Users : task'[x][y] = task[x][y] \/ (y = u /\ task'[x][y] = t)
  BY Zenon DEF Then, TasksOK
<1>. QED  BY Zenon, <1>1, TasksKept

\* A step that leaves the calls alone.
LEMMA TableSame ==
  ASSUME CallTable, calls' = calls, ops' = ops \/ ops' = ops + 1
  PROVE  CallTable' /\ NoOldCall
BY DEF CallTable, NoOldCall, CallsPaired, NoCall, Busy
\* The counterpart of an entry that makes its user busy does the same.
LEMMA BusyPeer ==
  ASSUME CallTable, NEW x \in Users, Busy(calls[x])
  PROVE  /\ calls[x].peer \in Users /\ calls[calls[x].peer].c = calls[x].c
         /\ Busy(calls[calls[x].peer])
<1>1. calls[x].c # 0 /\ calls[x].age = 0 /\ calls[x].peer \in Users
  BY Zenon DEF CallTable, Busy
<1>2. calls[calls[x].peer] = [c |-> calls[x].c, peer |-> x, age |-> calls[x].age]
  BY Zenon DEF CallTable, CallsPaired
<1>3. calls[calls[x].peer].c = calls[x].c /\ calls[calls[x].peer].age = 0
  BY <1>1, <1>2
<1>4. NoCall.c = 0
  BY Zenon DEF NoCall
<1>. QED  BY Zenon, <1>1, <1>3, <1>4 DEF Busy

\* _register_call: whoever is busy with u or v is one of them, so that neither a
\* dropped stale entry nor the new pair leaves another entry alone.
LEMMA RegisterOK ==
  ASSUME CallTable, NEW u \in Users, NEW v \in Users, u # v,
         calls' = RegisterCall(ops + 1, u, v), ops' = ops + 1
  PROVE  CallTable' /\ NoOldCall
<1>. DEFINE c == ops + 1
<1>1. ASSUME NEW x \in Users, Busy(calls[x]), calls[x].peer \in {u, v}
      PROVE  Busy(calls[calls[x].peer])
  BY Zenon, <1>1, BusyPeer
<1>2. CASE FreeIfStale(u) = NoCall /\ FreeIfStale(v) = NoCall /\ pin[u] = Nobody /\ pin[v] = Nobody
  <2>1. calls' = [calls EXCEPT ![u] = Entry(c, v), ![v] = Entry(c, u)]
    BY Zenon, <1>2 DEF RegisterCall
  <2>2. /\ calls'[u] = [c |-> c, peer |-> v, age |-> 0] /\ calls'[v] = [c |-> c, peer |-> u, age |-> 0]
        /\ \A x \in Users \ {u, v} : calls'[x] = calls[x]
        /\ calls' \in [Users -> [c : Nat, peer : Users \cup {Nobody}, age : Nat]]
    BY <2>1 DEF CallTable, Entry
  <2>3. \A x \in {u, v} : ~Busy(calls[x])
    BY <1>2 DEF FreeIfStale, Busy, CallTable
  <2>4. \A x \in Users \ {u, v} : Busy(calls[x]) => calls[x].peer \in Users \ {u, v}
    BY Zenon, <1>1, <2>3 DEF CallTable, Busy
  <2>5. CallsPaired'
    BY <2>2, <2>4 DEF CallTable, CallsPaired, Busy
  <2>6. \A x \in Users : calls'[x] # NoCall => calls'[x].c # 0 /\ calls'[x].c <= ops' /\ calls'[x].peer \in Users
    BY <2>2 DEF CallTable, NoCall
  <2>7. \A x \in Users : calls[x].c <= ops
    BY DEF CallTable, NoCall
  <2>8. \A x, y \in Users : calls'[x].c # 0 /\ calls'[y].c = calls'[x].c => y \in {x, calls'[x].peer}
    BY <2>2, <2>7 DEF CallTable
  <2>9. NoOldCall
    BY <2>2 DEF CallTable, NoOldCall
  <2>. QED  BY <2>2, <2>5, <2>6, <2>8, <2>9 DEF CallTable, NoCall
<1>3. CASE ~(FreeIfStale(u) = NoCall /\ FreeIfStale(v) = NoCall /\ pin[u] = Nobody /\ pin[v] = Nobody)
  <2>1. calls' = [calls EXCEPT ![u] = FreeIfStale(u), ![v] = FreeIfStale(v)]
    BY Zenon, <1>3 DEF RegisterCall
  <2>2. /\ calls' \in [Users -> [c : Nat, peer : Users \cup {Nobody}, age : Nat]]
        /\ \A x \in Users : calls'[x] = calls[x] \/ (calls'[x] = NoCall /\ calls[x].age > 0)
    BY <2>1 DEF CallTable, FreeIfStale, NoCall
  <2>3. CallsPaired'
    BY <2>2 DEF CallTable, CallsPaired, Busy, NoCall
  <2>4. /\ \A x \in Users : calls'[x] # NoCall => calls'[x].c # 0 /\ calls'[x].c <= ops' /\ calls'[x].peer \in Users
        /\ \A x, y \in Users : calls'[x].c # 0 /\ calls'[y].c = calls'[x].c => y \in {x, calls'[x].peer}
        /\ NoOldCall
    BY <2>2 DEF CallTable, NoCall, NoOldCall
  <2>. QED  BY <2>2, <2>3, <2>4 DEF CallTable, NoCall
<1>. QED  BY Zenon, <1>2, <1>3

\* _clear_call: the entries of both ends go together.
LEMMA ClearOK ==
  ASSUME CallTable, NEW c, NEW u \in Users, NEW v, Ends(c, u, v),
         calls' = ClearCall(c, {u, v}), ops' = ops
  PROVE  CallTable' /\ NoOldCall
<1>1. /\ calls' \in [Users -> [c : Nat, peer : Users \cup {Nobody}, age : Nat]]
      /\ \A x \in Users : calls'[x] = IF calls[x].c = c THEN NoCall ELSE calls[x]
  BY Zenon DEF CallTable, ClearCall, NoCall, Ends
<1>2. \A x \in Users : calls'[x] # NoCall => calls'[x] = calls[x] /\ calls[x].c # c
  BY Zenon, <1>1
<1>3. ASSUME NEW x \in Users, Busy(calls'[x])
      PROVE  calls'[calls'[x].peer] = [c |-> calls'[x].c, peer |-> x, age |-> calls'[x].age]
  <2>1. calls'[x] = calls[x] /\ calls[x].c # c /\ Busy(calls[x])
    BY Zenon, <1>2, <1>3 DEF Busy
  <2>2. calls[x].peer \in Users /\ calls[calls[x].peer].c # c
    BY Zenon, <2>1, BusyPeer
  <2>3. calls'[calls[x].peer] = calls[calls[x].peer]
    BY Zenon, <1>1, <2>2
  <2>. QED  BY Zenon, <2>1, <2>3 DEF CallTable, CallsPaired
<1>4. CallsPaired'
  BY Zenon, <1>3 DEF CallsPaired, Busy, NoCall
<1>5. NoCall.c = 0
  BY Zenon DEF NoCall
<1>6. \A x \in Users : calls'[x].c # 0 => calls'[x] = calls[x]
  BY Zenon, <1>1, <1>5
<1>7. \A x \in Users : calls'[x].c = calls[x].c \/ calls'[x].c = 0
  BY Zenon, <1>1, <1>5
<1>8. NoOldCall
  <2>1. ops' \in Nat /\ ops <= ops'
    BY DEF CallTable
  <2>. QED  BY Zenon, <1>7, <2>1 DEF NoOldCall
<1>9. \A x, y \in Users : calls'[x].c # 0 /\ calls'[y].c = calls'[x].c => y \in {x, calls'[x].peer}
  BY Zenon, <1>6 DEF CallTable
<1>10. \A x \in Users : calls'[x] # NoCall => calls'[x].c # 0 /\ calls'[x].c <= ops' /\ calls'[x].peer \in Users
  BY Zenon, <1>2 DEF CallTable
<1>. QED  BY Zenon, <1>1, <1>4, <1>8, <1>9, <1>10 DEF CallTable, NoCall

\* Both entries of a call grow old together.
LEMMA AgeOK ==
  ASSUME CallTable, NEW c \in Calls, Age(c)
  PROVE  CallTable' /\ NoOldCall
<1>1. c # 0 /\ ops' = ops
  BY LiveAssumption DEF Calls, Age
<1>2. /\ calls' \in [Users -> [c : Nat, peer : Users \cup {Nobody}, age : Nat]]
      /\ \A x \in Users : IF calls[x].c = c
                          THEN calls'[x] = [c |-> c, peer |-> calls[x].peer, age |-> calls[x].age + 1]
                          ELSE calls'[x] = calls[x]
  BY DEF CallTable, Age
<1>3. CallsPaired'
  BY <1>2 DEF CallTable, CallsPaired, Busy, NoCall
<1>4. /\ \A x \in Users : calls'[x] # NoCall => calls'[x].c # 0 /\ calls'[x].c <= ops' /\ calls'[x].peer \in Users
      /\ \A x, y \in Users : calls'[x].c # 0 /\ calls'[y].c = calls'[x].c => y \in {x, calls'[x].peer}
      /\ NoOldCall
  BY <1>1, <1>2 DEF CallTable, NoCall, NoOldCall
<1>. QED  BY Zenon, <1>1, <1>2, <1>3, <1>4 DEF CallTable, NoCall

\* A handler begins or ends.
LEMMA OpKept ==
  ASSUME CallTable, OpsOK, NoOldCall, NEW u, NEW t, op' = [op EXCEPT ![u] = t],
         t[1] # "end" \/ Ends(t[2], u, t[3])'
  PROVE  OpsOK'
<1>1. op' = [x \in Users |-> op'[x]] /\ \A x \in Users : op'[x] = op[x] \/ (x = u /\ op'[x] = t)
  BY Zenon DEF OpsOK
<1>. QED  BY Zenon, <1>1, OpsKept

\* No handler moves.
LEMMA OpSame == ASSUME CallTable, OpsOK, NoOldCall, op' = op PROVE OpsOK'
BY Zenon, OpsKept DEF OpsOK

\* No offline task moves.
LEMMA TaskSame == ASSUME CallTable, TasksOK, NoOldCall, task' = task PROVE TasksOK'
BY Zenon, TasksKept DEF TasksOK
\* A step of one user that begins, answers or ends a call.
LEMMA CallFrames ==
  ASSUME CallInv, NEW u \in Users, NEW v \in Users,
         \/ CallOffer(u, v)
         \/ \E c \in Calls : CallAnswer(u, v, c) \/ \E b \in BOOLEAN : CallEnd(u, v, c, b)
  PROVE  CallInv'
<1>. USE DEF CallInv
<1>1. CASE CallOffer(u, v)
  <2>1. CallTable' /\ NoOldCall
    BY Zenon, <1>1, RegisterOK DEF CallOffer, Op
  <2>. QED  BY Zenon, <1>1, <2>1, OpSame, TaskSame DEF CallOffer
<1>2. ASSUME NEW c \in Calls, CallAnswer(u, v, c) PROVE CallInv'
  <2>1. CallTable' /\ NoOldCall
    BY Zenon, <1>2, TableSame DEF CallAnswer, Op
  <2>. QED  BY Zenon, <1>2, <2>1, OpSame, TaskSame DEF CallAnswer
<1>3. ASSUME NEW c \in Calls, NEW b \in BOOLEAN, CallEnd(u, v, c, b) PROVE CallInv'
  <2>1. CallTable' /\ NoOldCall
    BY Zenon, <1>3, TableSame DEF CallEnd, Op
  <2>2. Ends(c, u, v)'
    BY Zenon, <1>3, <2>1, LiveEnds, EndsStay DEF CallEnd
  <2>3. op' = [op EXCEPT ![u] = <<"end", c, v>>] /\ task' = task
    BY Zenon, <1>3 DEF CallEnd
  <2>. QED  BY Zenon, <2>1, <2>2, <2>3, OpKept, TaskSame
<1>. QED  BY Zenon, <1>1, <1>2, <1>3

\* The rest of call_end.
LEMMA CallEndedOK ==
  ASSUME CallInv, NEW u \in Users, CallEnded(u)
  PROVE  CallInv'
<1>1. Ends(op[u][2], u, op[u][3])
  BY Zenon DEF CallInv, OpsOK, CallEnded
<1>2. CallTable' /\ NoOldCall
  BY Zenon, <1>1, ClearOK DEF CallInv, CallEnded
<1>3. op' = [op EXCEPT ![u] = Idle] /\ task' = task /\ Idle[1] # "end"
  BY Zenon DEF CallEnded, Idle
<1>. QED  BY Zenon, <1>2, <1>3, OpKept, TaskSame DEF CallInv

\* The offline task reads its user's entry: with it, both ends of the call ...
LEMMA OfflineCallOK ==
  ASSUME CallInv, NEW w \in Workers, NEW u \in Users, OfflineCall(w, u)
  PROVE  CallInv'
<1>1. CallTable' /\ NoOldCall /\ op' = op /\ calls' = calls
  BY Zenon, TableSame DEF CallInv, OfflineCall, callv
<1>2. CASE calls[u] = NoCall
  <2>1. Then(w, u, <<"room">>)
    BY Zenon, <1>2 DEF OfflineCall
  <2>. QED  BY Zenon, <1>1, <2>1, OpSame, ThenKept DEF CallInv
<1>3. CASE calls[u] # NoCall
  <2>1. Then(w, u, <<"clear", calls[u].c, calls[u].peer>>)
    BY Zenon, <1>3 DEF OfflineCall
  <2>2. PICK c, v : c = calls[u].c /\ v = calls[u].peer
    BY Zenon
  <2>3. Ends(c, u, v)'
    BY Zenon, <1>1, <1>3, <2>2, EntryEnds, EndsStay DEF CallInv
  <2>4. Then(w, u, <<"clear", c, v>>)
    BY Zenon, <2>1, <2>2
  <2>. QED  BY Zenon, <1>1, <2>3, <2>4, OpSame, ThenKept DEF CallInv
<1>. QED  BY Zenon, <1>2, <1>3

\* ... which it clears in its next step, whatever was offered in between.
LEMMA OfflineClearOK ==
  ASSUME CallInv, NEW w \in Workers, NEW u \in Users, OfflineClear(w, u)
  PROVE  CallInv'
<1>1. Ends(task[w][u][2], u, task[w][u][3])
  BY Zenon DEF CallInv, TasksOK, OfflineClear
<1>2. CallTable' /\ NoOldCall
  BY Zenon, <1>1, ClearOK DEF CallInv, OfflineClear
<1>3. op' = op /\ Then(w, u, <<"room">>)
  BY Zenon DEF OfflineClear
<1>. QED  BY Zenon, <1>2, <1>3, OpSame, ThenKept DEF CallInv

\* The steps that leave the calls alone: of a handler, ...
LEMMA OtherOps ==
  ASSUME CallInv, calls' = calls, task' = task, ops' = ops \/ ops' = ops + 1,
         op' = op \/ \E u, t : op' = [op EXCEPT ![u] = t] /\ t[1] # "end"
  PROVE  CallInv'
<1>1. CallTable' /\ NoOldCall
  BY Zenon, TableSame DEF CallInv
<1>2. OpsOK'
  BY Zenon, <1>1, OpSame, OpKept DEF CallInv
<1>. QED  BY Zenon, <1>1, <1>2, TaskSame DEF CallInv

\* ... and of an offline task.
LEMMA OtherTasks ==
  ASSUME CallInv, calls' = calls, op' = op, ops' = ops \/ ops' = ops + 1,
         NEW w, NEW u, NEW t, Then(w, u, t), t[1] # "clear"
  PROVE  CallInv'
<1>1. CallTable' /\ NoOldCall
  BY Zenon, TableSame DEF CallInv
<1>. QED  BY Zenon, <1>1, OpSame, ThenKept DEF CallInv
\* A worker dies: its tasks and the frames it was handling are gone.
LEMMA CrashOK ==
  ASSUME CallInv, NEW w \in Workers, Crash(w)
  PROVE  CallInv'
<1>1. CallTable' /\ NoOldCall
  BY Zenon, TableSame DEF CallInv, Crash, Op, callv
<1>2. op' = [u \in Users |-> op'[u]] /\ \A u \in Users : op'[u] = op[u] \/ op'[u][1] # "end"
  BY Zenon DEF Crash, Idle
<1>3. /\ task' = [x \in Workers |-> [u \in Users |-> task'[x][u]]]
      /\ \A x \in Workers, u \in Users : task'[x][u] = task[x][u] \/ task'[x][u][1] # "clear"
  BY Zenon DEF CallInv, TasksOK, Crash, Idle
<1>4. OpsOK'
  BY Zenon, <1>1, <1>2, OpsKept DEF CallInv
<1>5. TasksOK'
  BY Zenon, <1>1, <1>3, TasksKept DEF CallInv
<1>. QED  BY Zenon, <1>1, <1>4, <1>5 DEF CallInv

\* CallInv is inductive.
LEMMA CallStep == CallInv /\ [Next]_vars => CallInv'
<1>. SUFFICES ASSUME CallInv, [Next]_vars PROVE CallInv'
  BY Zenon
<1>1. CASE UNCHANGED vars
  BY Zenon, <1>1, OtherOps DEF vars, callv
<1>2. ASSUME NEW u \in Users, NEW r \in Rooms,
             CreateRoom(u, r) \/ JoinByKey(u, r) \/ LeaveMyList(u, r) \/ RoomLeave(u, r) \/ KickMember(r, u)
      PROVE  CallInv'
  BY Zenon, <1>2, OtherOps DEF CreateRoom, JoinByKey, LeaveMyList, RoomLeave, KickMember, callv, Op
<1>3. ASSUME NEW u \in Users, NEW r \in Rooms, RoomEnter(u, r) PROVE CallInv'
  <2>1. op' = [op EXCEPT ![u] = <<"enter", r>>] /\ <<"enter", r>>[1] # "end"
    BY Zenon, <1>3 DEF RoomEnter
  <2>. QED  BY Zenon, <1>3, <2>1, OtherOps DEF RoomEnter, callv, Op
<1>4. ASSUME NEW u \in Users, Queue(u) \/ Skip(u) \/ RandomLeave(u) PROVE CallInv'
  <2>1. <<"match", Nobody>>[1] # "end" /\ <<"skip">>[1] # "end"
    BY Zenon
  <2>. QED  BY Zenon, <1>4, <2>1, OtherOps DEF Queue, Skip, RandomLeave, callv, Op
<1>5. ASSUME NEW u \in Users, RoomEntered(u) \/ MatchPop(u) \/ MatchWrite(u) PROVE CallInv'
  <2>1. Idle[1] # "end" /\ \A x : <<"match", x>>[1] # "end"
    BY Zenon DEF Idle
  <2>2. op' = op \/ op' = [op EXCEPT ![u] = Idle] \/ \E x : op' = [op EXCEPT ![u] = <<"match", x>>]
    BY Zenon, <1>5 DEF RoomEntered, MatchPop, MatchWrite
  <2>3. op' = op \/ \E x, t : op' = [op EXCEPT ![x] = t] /\ t[1] # "end"
    BY <2>1, <2>2, Zenon
  <2>4. calls' = calls /\ task' = task /\ ops' = ops
    BY Zenon, <1>5 DEF RoomEntered, MatchPop, MatchWrite, callv
  <2>. QED  BY Zenon, <2>3, <2>4, OtherOps
<1>6. ASSUME NEW e \in ending, EndPairRun(e) PROVE CallInv'
  <2>1. <<"match", Nobody>>[1] # "end"
    BY Zenon
  <2>. QED  BY Zenon, <1>6, <2>1, OtherOps DEF EndPairRun, callv
<1>7. ASSUME \/ \E r \in Rooms : DeleteRoom(r) \/ PurgeRead(r) \/ PurgeRun(r)
             \/ \E p \in Pairs : ExpirePair(p)
      PROVE  CallInv'
  BY Zenon, <1>7, OtherOps DEF DeleteRoom, PurgeRead, PurgeRun, ExpirePair, callv, Op
<1>8. ASSUME NEW c \in Calls, Age(c) PROVE CallInv'
  <2>1. CallTable' /\ NoOldCall
    BY Zenon, <1>8, AgeOK DEF CallInv
  <2>. QED  BY Zenon, <1>8, <2>1, OpSame, TaskSame DEF CallInv, Age
<1>9. ASSUME NEW u \in Users, Depart(u) PROVE CallInv'
  <2>1. <<"sleep">>[1] # "clear"
    BY Zenon
  <2>. QED  BY Zenon, <1>9, <2>1, OtherTasks DEF Depart, callv, Op
<1>10. ASSUME NEW u \in Users, NEW w \in Workers,
              Arrive(u, w) \/ OfflineWake(w, u) \/ OfflineRandom(w, u) \/ OfflineRoom(w, u) \/ OfflineEvict(w, u)
       PROVE  CallInv'
  <2>1. \/ Then(w, u, Idle) \/ Then(w, u, <<"random">>) \/ Then(w, u, <<"call">>)
        \/ \E r : Then(w, u, <<"evict", r>>)
    BY Zenon, <1>10 DEF Arrive, OfflineWake, OfflineRandom, OfflineRoom, OfflineEvict
  <2>2. /\ Idle[1] # "clear" /\ <<"random">>[1] # "clear" /\ <<"call">>[1] # "clear"
        /\ \A r : <<"evict", r>>[1] # "clear"
    BY Zenon DEF Idle
  <2>3. \E t : Then(w, u, t) /\ t[1] # "clear"
    BY <2>1, <2>2, Zenon
  <2>4. calls' = calls /\ op' = op /\ (ops' = ops \/ ops' = ops + 1)
    BY Zenon, <1>10 DEF Arrive, OfflineWake, OfflineRandom, OfflineRoom, OfflineEvict, callv, Op
  <2>. QED  BY Zenon, <2>3, <2>4, OtherTasks
<1>11. ASSUME NEW u \in Users, Request(u) PROVE CallInv'
  BY Zenon, <1>2, <1>3, <1>4, <1>11, CallFrames DEF Request
<1>12. ASSUME NEW u \in Users, Handler(u) PROVE CallInv'
  BY Zenon, <1>5, <1>12, CallEndedOK DEF Handler
<1>13. ASSUME NEW u \in Users, NEW w \in Workers, Offline(w, u) PROVE CallInv'
  BY Zenon, <1>10, <1>13, OfflineCallOK, OfflineClearOK DEF Offline
<1>. QED
  BY Zenon, <1>1, <1>2, <1>6, <1>7, <1>8, <1>9, <1>10, <1>11, <1>12, <1>13, CrashOK DEF Next

\* _register_call, _clear_call, the offline task, stale entries and crashes: an
\* entry that makes its user busy always has its counterpart, for any number of
\* users, workers and calls.
THEOREM CallsStayPaired == Spec => []CallsPaired
<1>1. CallInv => CallsPaired
  BY Zenon DEF CallInv, CallTable
<1>. QED  BY <1>1, CallStart, CallStep, PTL DEF Spec

-----------------------------------------------------------------------------
(* The caches.                                                             *)

Refreshes == [stage : {"queued", "begun", "read", "unchanged"}, started : Nat, outdated : BOOLEAN, known : Nat, got : Nat]
Consoles == [stage : {"idle", "flushed", "committed", "reload"}, brings : Contents \cup {"boot"}, save : Nat,
             refresh : {NoRefresh} \cup Refreshes]

\* What a refresh has read is no older than its start; unless a save marked it
\* outdated, it is no older than what was published or is being reloaded.
RefreshOK(f) ==
  /\ f.started <= ticks /\ f.known <= Len(saves)
  /\ f.stage \in {"read", "unchanged"} => f.got <= Len(saves) /\ asOf[f.started + 1] <= f.got
  /\ f.stage \in {"read", "unchanged"} /\ ~f.outdated =>
       published <= f.got /\ \A p \in Operators : console[p].stage = "reload" => console[p].save <= f.got
  /\ f.stage = "unchanged" => cacheKind = "logo" /\ Content(f.known) = Content(f.got)

\* A reload that nothing marked finds in the cache the logo it noted, or one
\* as new as its own save.
ReloadOK(o) ==
  console[o].stage = "reload" =>
    LET f == console[o].refresh IN
    /\ f \in Refreshes /\ f.stage # "queued" /\ RefreshOK(f)
    /\ cacheKind = "logo" /\ ~f.outdated => held.row = f.known \/ console[o].save <= held.row

CacheTypes ==
  /\ ticks \in Nat /\ saves \in Seq(Contents \cup {"boot"}) /\ published \in Nat
  /\ asOf \in Seq(Nat) /\ Len(asOf) = ticks + 1 /\ \A k \in 1 .. ticks + 1 : asOf[k] <= Len(saves)
  /\ held \in [row : Nat, at : Int, retryAt : Int] /\ held.row <= Len(saves) /\ held.at <= ticks
  /\ flight \in {NoRefresh} \cup Refreshes
  /\ console \in [Operators -> Consoles] /\ \A o \in Operators : console[o].save <= Len(saves)

CachesInv ==
  /\ CacheTypes /\ CacheTruthful
  /\ flight # NoRefresh => RefreshOK(flight)
  /\ \A o \in Operators : ReloadOK(o)

\* Nothing is saved, served or under way at the start.
LEMMA CachesStart == CachesInit => CachesInv
<1>. SUFFICES ASSUME CachesInit PROVE CachesInv
  BY Zenon
<1>1. IdleConsole \in Consoles /\ IdleConsole.save = 0 /\ IdleConsole.stage = "idle"
  BY Zenon DEF IdleConsole, Consoles
<1>2. held.row = 0 /\ held.at = -1 /\ held \in [row : Nat, at : Int, retryAt : Int] /\ ~(held.at >= 0)
  BY DEF CachesInit
<1>3. asOf \in Seq(Nat) /\ Len(asOf) = 1 /\ asOf[1] = 0 /\ saves \in Seq(Contents \cup {"boot"}) /\ Len(saves) = 0
  BY DEF CachesInit
<1>4. CacheTypes
  BY <1>1, <1>2, <1>3 DEF CachesInit, CacheTypes
<1>5. CacheTruthful
  BY <1>2 DEF CachesInit, CacheTruthful, FreshAsClaimed, SavedStays
<1>. QED  BY Zenon, <1>1, <1>4, <1>5 DEF CachesInit, CachesInv, ReloadOK

\* The time only moves on, what was committed stays committed.
Onward ==
  /\ cacheKind' = cacheKind /\ ticks' \in Nat /\ ticks <= ticks'
  /\ saves' \in Seq(Contents \cup {"boot"}) /\ Len(saves) <= Len(saves') /\ \A n \in 1 .. Len(saves) : saves'[n] = saves[n]
  /\ \A k \in 1 .. ticks + 1 : asOf'[k] = asOf[k]

\* The same number names the same content.
LEMMA ContentStays ==
  ASSUME CacheTypes, Onward, NEW n \in Nat, n <= Len(saves)
  PROVE  Content(n)' = Content(n)
<1>1. n = 0 \/ n \in 1 .. Len(saves)
  BY DEF CacheTypes
<1>. QED  BY Zenon, <1>1 DEF Content, Onward

\* What a refresh has read stays good while nobody publishes past it.
LEMMA RefreshKept ==
  ASSUME CacheTypes, Onward, NEW f \in Refreshes, RefreshOK(f),
         \/ f.outdated \/ f.stage \in {"queued", "begun"}
         \/ published' <= f.got /\ \A p \in Operators : console'[p].stage = "reload" => console'[p].save <= f.got
  PROVE  RefreshOK(f)'
<1>1. f.started \in Nat /\ f.known \in Nat /\ f.got \in Nat /\ ticks \in Nat /\ ticks' \in Nat /\ Len(saves) \in Nat /\ Len(saves') \in Nat
  BY DEF Refreshes, CacheTypes, Onward
<1>2. f.started <= ticks' /\ f.known <= Len(saves')
  BY <1>1 DEF RefreshOK, Onward
<1>3. f.stage \in {"read", "unchanged"} => f.got <= Len(saves') /\ asOf'[f.started + 1] <= f.got
  <2>1. f.started + 1 \in 1 .. ticks + 1
    BY <1>1 DEF RefreshOK
  <2>. QED  BY <1>1, <2>1 DEF RefreshOK, Onward
<1>4. f.stage \in {"read", "unchanged"} /\ ~f.outdated =>
        published' <= f.got /\ \A p \in Operators : console'[p].stage = "reload" => console'[p].save <= f.got
  BY Zenon
<1>5. f.stage = "unchanged" => cacheKind' = "logo" /\ Content(f.known)' = Content(f.got)'
  BY Zenon, <1>1, ContentStays DEF RefreshOK, Onward
<1>. QED  BY Zenon, <1>2, <1>3, <1>4, <1>5 DEF RefreshOK

\* A refresh that a save marks needs no more than its start.
LEMMA RefreshMarked ==
  ASSUME CacheTypes, Onward, NEW f \in Refreshes, RefreshOK(f), f.stage # "queued"
  PROVE  /\ Outdated(f) \in Refreshes /\ Outdated(f) # NoRefresh /\ RefreshOK(Outdated(f))'
         /\ Outdated(f).outdated /\ Outdated(f).stage = f.stage
<1>1. f # NoRefresh /\ f # Queued
  BY CachesAssumption DEF Refreshes, Queued
<1>2. PICK g : g = [f EXCEPT !.outdated = TRUE]
  BY Zenon
<1>3. /\ g \in Refreshes /\ g # NoRefresh /\ g.outdated /\ g.stage = f.stage /\ g.started = f.started
      /\ g.known = f.known /\ g.got = f.got
  BY Zenon, <1>2, CachesAssumption DEF Refreshes
<1>4. RefreshOK(g)
  BY Zenon, <1>3 DEF RefreshOK
<1>5. RefreshOK(g)'
  BY Zenon, <1>3, <1>4, RefreshKept
<1>6. Outdated(f) = g
  BY Zenon, <1>1, <1>2 DEF Outdated
<1>. QED  BY Zenon, <1>3, <1>5, <1>6

\* No save is published or reloaded that was not already.
NothingNewer ==
  \A g \in Nat : published <= g /\ (\A p \in Operators : console[p].stage = "reload" => console[p].save <= g)
     => published' <= g /\ \A p \in Operators : console'[p].stage = "reload" => console'[p].save <= g

\* A refresh under way through a step that publishes nothing newer.
LEMMA RefreshQuiet ==
  ASSUME CacheTypes, Onward, NothingNewer, NEW f \in Refreshes, RefreshOK(f)
  PROVE  RefreshOK(f)'
<1>1. f.got \in Nat /\ f.stage \in {"queued", "begun", "read", "unchanged"} /\ f.outdated \in BOOLEAN
  BY Zenon DEF Refreshes
<1>2. \/ f.outdated \/ f.stage \in {"queued", "begun"}
      \/ published <= f.got /\ \A p \in Operators : console[p].stage = "reload" => console[p].save <= f.got
  BY Zenon, <1>1 DEF RefreshOK
<1>3. \/ f.outdated \/ f.stage \in {"queued", "begun"}
      \/ published' <= f.got /\ \A p \in Operators : console'[p].stage = "reload" => console'[p].save <= f.got
  BY Zenon, <1>1, <1>2 DEF NothingNewer
<1>. QED  BY Zenon, <1>3, RefreshKept

\* A reload under way through such a step.
LEMMA ReloadQuiet ==
  ASSUME CachesInv, Onward, NothingNewer, NEW o \in Operators,
         console'[o] = console[o] \/ console'[o].stage # "reload",
         held'.row = held.row \/ \A p \in Operators : console[p].stage = "reload" => console[p].save <= held'.row
  PROVE  ReloadOK(o)'
<1>. SUFFICES ASSUME console'[o].stage = "reload", console'[o] = console[o] PROVE ReloadOK(o)'
  BY Zenon DEF ReloadOK
<1>1. PICK f : f = console[o].refresh /\ f = console'[o].refresh
  BY Zenon
<1>2. f \in Refreshes /\ f.stage # "queued" /\ RefreshOK(f) /\ (cacheKind = "logo" /\ ~f.outdated => held.row = f.known \/ console[o].save <= held.row)
  BY Zenon, <1>1 DEF CachesInv, ReloadOK
<1>3. RefreshOK(f)'
  BY Zenon, <1>2, RefreshQuiet DEF CachesInv
<1>4. cacheKind' = "logo" /\ ~f.outdated => held'.row = f.known \/ console'[o].save <= held'.row
  BY Zenon, <1>2 DEF Onward
<1>. QED  BY Zenon, <1>1, <1>2, <1>3, <1>4 DEF ReloadOK

\* Time, other workers' saves, and what starts a shared refresh.
LEMMA CachesAround ==
  ASSUME CachesInv, \/ Elapse \/ Overrides \/ Current \/ UserCount \/ WaitLoaded \/ CacheTicker
                    \/ \E c \in Brought : SaveElsewhere(c)
  PROVE  CachesInv'
<1>1. UNCHANGED <<cacheKind, held, console, published>> /\ (flight' = flight \/ (flight = NoRefresh /\ flight' = Queued))
  BY Zenon DEF Elapse, Overrides, Current, UserCount, WaitLoaded, CacheTicker, SaveElsewhere, Start
<1>2. Brought \subseteq Contents
  BY Zenon, CachesAssumption DEF Brought
<1>3. \/ /\ ticks' = ticks + 1 /\ asOf' = Append(asOf, Len(saves)) /\ saves' = saves
      \/ /\ UNCHANGED <<ticks, asOf>> /\ (saves' = saves \/ \E c \in Contents : saves' = Append(saves, c))
  BY Zenon, <1>2 DEF Elapse, Overrides, Current, UserCount, WaitLoaded, CacheTicker, SaveElsewhere, Start
<1>4. /\ ticks \in Nat /\ saves \in Seq(Contents \cup {"boot"}) /\ asOf \in Seq(Nat) /\ Len(asOf) = ticks + 1
      /\ Len(saves) \in Nat /\ \A k \in 1 .. ticks + 1 : asOf[k] <= Len(saves) /\ asOf[k] \in Nat
  BY DEF CachesInv, CacheTypes
<1>5. Onward
  <2>1. saves' \in Seq(Contents \cup {"boot"}) /\ Len(saves) <= Len(saves') /\ \A n \in 1 .. Len(saves) : saves'[n] = saves[n]
    <3>1. ASSUME NEW c \in Contents \cup {"boot"}, saves' = Append(saves, c) PROVE <2>1!:
      BY <1>4, <3>1
    <3>2. CASE saves' = saves
      BY <1>4, <3>2
    <3>. QED  BY Zenon, <1>3, <3>1, <3>2
  <2>2. ticks' \in Nat /\ ticks <= ticks' /\ \A k \in 1 .. ticks + 1 : asOf'[k] = asOf[k]
    <3>1. CASE ticks' = ticks + 1 /\ asOf' = Append(asOf, Len(saves))
      <4>1. \A k \in 1 .. ticks + 1 : asOf'[k] = asOf[k]
        BY <1>4, <3>1
      <4>. QED  BY <1>4, <3>1, <4>1
    <3>2. CASE UNCHANGED <<ticks, asOf>>
      BY <1>4, <3>2
    <3>. QED  BY Zenon, <1>3, <3>1, <3>2
  <2>. QED  BY Zenon, <1>1, <2>1, <2>2 DEF Onward
<1>6. NothingNewer
  BY Zenon, <1>1 DEF NothingNewer
<1>7. asOf' \in Seq(Nat) /\ Len(asOf') = ticks' + 1 /\ \A k \in 1 .. ticks' + 1 : asOf'[k] <= Len(saves')
  <2>1. CASE ticks' = ticks + 1 /\ asOf' = Append(asOf, Len(saves)) /\ saves' = saves
    <3>1. asOf' \in Seq(Nat) /\ Len(asOf') = ticks' + 1
      BY <1>4, <2>1
    <3>2. \A k \in 1 .. ticks' + 1 : asOf'[k] = IF k = ticks' + 1 THEN Len(saves) ELSE asOf[k]
      BY <1>4, <2>1
    <3>. QED  BY <1>4, <2>1, <3>1, <3>2
  <2>2. CASE UNCHANGED <<ticks, asOf>>
    <3>1. Len(saves) <= Len(saves') /\ Len(saves') \in Nat
      BY <1>5 DEF Onward
    <3>. QED  BY <1>4, <2>2, <3>1
  <2>. QED  BY Zenon, <1>3, <2>1, <2>2
<1>8. Len(saves) <= Len(saves') /\ Len(saves') \in Nat /\ ticks' \in Nat /\ ticks <= ticks' /\ saves' \in Seq(Contents \cup {"boot"})
  BY <1>5 DEF Onward
<1>9. Queued \in Refreshes /\ Queued.stage = "queued" /\ Queued.started = 0 /\ Queued.known = 0
  BY Zenon DEF Queued, Refreshes
<1>10. CacheTypes'
  <2>1. \A o \in Operators : console[o].save \in Nat
    BY Zenon DEF CachesInv, CacheTypes, Consoles
  <2>2. /\ held' \in [row : Nat, at : Int, retryAt : Int] /\ held'.row <= Len(saves') /\ held'.at <= ticks'
        /\ published' \in Nat
    BY <1>1, <1>4, <1>8 DEF CachesInv, CacheTypes
  <2>3. flight' \in {NoRefresh} \cup Refreshes
    BY Zenon, <1>1, <1>9 DEF CachesInv, CacheTypes
  <2>4. console' \in [Operators -> Consoles] /\ \A o \in Operators : console'[o].save <= Len(saves')
    BY <1>1, <1>4, <1>8, <2>1 DEF CachesInv, CacheTypes
  <2>. QED  BY Zenon, <1>7, <1>8, <2>2, <2>3, <2>4 DEF CacheTypes
<1>11. CacheTruthful'
  <2>1. held.at >= 0 => held.at + 1 \in 1 .. ticks + 1
    BY DEF CachesInv, CacheTypes
  <2>. QED  BY Zenon, <1>1, <1>5, <2>1 DEF CachesInv, CacheTruthful, FreshAsClaimed, SavedStays, Onward
<1>12. flight' # NoRefresh => RefreshOK(flight)'
  <2>1. RefreshOK(Queued)'
    BY <1>8, <1>9 DEF RefreshOK
  <2>2. CASE flight' = flight /\ flight # NoRefresh
    <3>1. PICK f : f = flight /\ f = flight'
      BY Zenon, <2>2
    <3>2. f \in Refreshes /\ RefreshOK(f)
      BY Zenon, <2>2, <3>1 DEF CachesInv, CacheTypes
    <3>3. RefreshOK(f)'
      BY Zenon, <1>5, <1>6, <3>2, RefreshQuiet DEF CachesInv
    <3>. QED  BY Zenon, <3>1, <3>3 DEF RefreshOK, Content
  <2>. QED  BY <1>1, <2>1, <2>2 DEF RefreshOK, Content
<1>13. \A o \in Operators : ReloadOK(o)'
  BY Zenon, <1>1, <1>5, <1>6, ReloadQuiet
<1>. QED  BY Zenon, <1>10, <1>11, <1>12, <1>13 DEF CachesInv

\* Steps of this worker move neither the time nor the table.
LEMMA OnwardHere ==
  ASSUME CacheTypes, UNCHANGED <<cacheKind, ticks, asOf, saves>>
  PROVE  Onward
BY DEF CacheTypes, Onward

\* A refresh that begins notes the time and the logo held.
LEMMA BegunOK ==
  ASSUME CacheTypes
  PROVE  /\ Begun \in Refreshes /\ Begun # NoRefresh /\ RefreshOK(Begun) /\ Begun.stage = "begun" /\ ~Begun.outdated
         /\ cacheKind = "logo" => Begun.known = held.row
<1>1. PICK k \in Nat : k = IF cacheKind = "logo" THEN held.row ELSE 0
  BY Zenon DEF CacheTypes
<1>2. PICK t \in Nat : t = ticks
  BY Zenon DEF CacheTypes
<1>3. PICK f, q : q = Queued /\ f = [q EXCEPT !.stage = "begun", !.started = t, !.known = k] /\ f = Begun
  BY Zenon, <1>1, <1>2 DEF Begun
<1>4. f \in Refreshes /\ f.stage = "begun" /\ ~f.outdated /\ f.known = k /\ f.started = ticks
  <2>1. q \in Refreshes /\ ~q.outdated
    BY Zenon, <1>3 DEF Queued, Refreshes
  <2>. QED  BY Zenon, <1>2, <1>3, <2>1 DEF Refreshes
<1>5. k <= Len(saves)
  BY <1>1 DEF CacheTypes
<1>6. RefreshOK(f) /\ f # NoRefresh
  BY <1>4, <1>5, CachesAssumption DEF RefreshOK, CacheTypes, Refreshes
<1>. QED  BY Zenon, <1>1, <1>3, <1>4, <1>6

\* A refresh reads all that is committed.
LEMMA ReadOK ==
  ASSUME CachesInv, NEW f \in Refreshes, RefreshOK(f), f.stage = "begun"
  PROVE  /\ ReadRow(f) \in Refreshes /\ ReadRow(f) # NoRefresh /\ RefreshOK(ReadRow(f))
         /\ ReadRow(f).stage # "queued" /\ ReadRow(f).outdated = f.outdated /\ ReadRow(f).known = f.known
<1>1. PICK t \in {"read", "unchanged"} : t = IF SameVersion(f) THEN "unchanged" ELSE "read"
  BY Zenon
<1>2. PICK g : g = [f EXCEPT !.stage = t, !.got = Len(saves)]
  BY Zenon
<1>3. g = ReadRow(f)
  BY Zenon, <1>1, <1>2 DEF ReadRow
<1>4. /\ g \in Refreshes /\ g.stage = t /\ g.outdated = f.outdated /\ g.known = f.known /\ g.started = f.started /\ g.got = Len(saves)
      /\ g # NoRefresh
  <2>1. PICK n \in Nat : n = Len(saves)
    BY DEF CachesInv, CacheTypes
  <2>2. g = [f EXCEPT !.stage = t, !.got = n]
    BY Zenon, <1>2, <2>1
  <2>3. g \in Refreshes /\ g.stage = t /\ g.outdated = f.outdated /\ g.known = f.known /\ g.started = f.started /\ g.got = n
    BY Zenon, <2>2 DEF Refreshes
  <2>. QED  BY Zenon, <2>1, <2>3, CachesAssumption DEF Refreshes
<1>5. /\ ticks \in Nat /\ Len(saves) \in Nat /\ f.started \in Nat /\ held.row \in Nat /\ held.row <= Len(saves) /\ published \in Nat
      /\ published <= held.row /\ \A p \in Operators : console[p].save <= Len(saves)
  BY DEF Refreshes, CachesInv, CacheTypes, CacheTruthful, SavedStays
<1>6. f.started + 1 \in 1 .. ticks + 1 /\ f.started <= ticks /\ f.known <= Len(saves)
  BY <1>5 DEF RefreshOK
<1>7. asOf[f.started + 1] <= Len(saves) /\ published <= Len(saves)
  BY <1>5, <1>6 DEF CachesInv, CacheTypes
<1>8. t = "unchanged" => cacheKind = "logo" /\ Content(g.known) = Content(g.got)
  BY Zenon, <1>1, <1>4 DEF SameVersion
<1>9. RefreshOK(g)
  BY <1>4, <1>5, <1>6, <1>7, <1>8 DEF RefreshOK
<1>. QED  BY Zenon, <1>1, <1>3, <1>4, <1>9

\* The shared refresh begins and reads.
LEMMA CachesFlight ==
  ASSUME CachesInv, FlightBegins \/ FlightReads
  PROVE  CachesInv'
<1>1. UNCHANGED <<cacheKind, ticks, saves, asOf, held, console, published>>
  BY Zenon DEF FlightBegins, FlightReads
<1>2. PICK g \in Refreshes : g = flight' /\ RefreshOK(g)
  <2>1. CASE FlightBegins
    BY Zenon, <2>1, BegunOK DEF FlightBegins, CachesInv
  <2>2. CASE FlightReads
    <3>1. PICK f \in Refreshes : f = flight /\ RefreshOK(f) /\ f.stage = "begun" /\ flight' = ReadRow(f)
      BY Zenon, <2>2 DEF FlightReads, CachesInv, CacheTypes
    <3>. QED  BY Zenon, <3>1, ReadOK
  <2>. QED  BY Zenon, <2>1, <2>2
<1>3. Onward /\ NothingNewer
  BY Zenon, <1>1, OnwardHere DEF CachesInv, NothingNewer
<1>4. RefreshOK(flight)'
  <2>1. RefreshOK(g)'
    BY Zenon, <1>2, <1>3, RefreshQuiet DEF CachesInv
  <2>. QED  BY Zenon, <1>2, <2>1 DEF RefreshOK, Content
<1>5. \A o \in Operators : ReloadOK(o)'
  BY Zenon, <1>1, <1>3, ReloadQuiet
<1>6. CacheTypes'
  BY Zenon, <1>1, <1>2 DEF CachesInv, CacheTypes
<1>7. CacheTruthful'
  BY Zenon, <1>1 DEF CachesInv, CacheTruthful, FreshAsClaimed, SavedStays
<1>. QED  BY Zenon, <1>4, <1>5, <1>6, <1>7 DEF CachesInv

\* A console's entry after a step of another one that marks what is under way.
LEMMA BumpedOK ==
  ASSUME CachesInv, Onward, NEW o \in Operators, NEW entry \in Consoles, console' = Bumped(o, entry), held' = held
  PROVE  /\ console' \in [Operators -> Consoles] /\ console'[o] = entry
         /\ \A p \in Operators : p # o => /\ console'[p].stage = console[p].stage /\ console'[p].save = console[p].save
                                          /\ ReloadOK(p)'
<1>1. /\ console'[o] = entry /\ DOMAIN console' = Operators /\ console' = [p \in Operators |-> console'[p]]
      /\ \A p \in Operators : p # o => console'[p] = [console[p] EXCEPT !.refresh = Outdated(console[p].refresh)]
  BY Zenon DEF Bumped
<1>2. ASSUME NEW p \in Operators, p # o
      PROVE  console'[p] \in Consoles /\ console'[p].stage = console[p].stage /\ console'[p].save = console[p].save /\ ReloadOK(p)'
  <2>1. PICK r \in Consoles : r = console[p]
    BY Zenon DEF CachesInv, CacheTypes
  <2>2. PICK f : f = r.refresh
    BY Zenon
  <2>3. Outdated(f) \in {NoRefresh} \cup Refreshes
    <3>1. f \in {NoRefresh} \cup Refreshes
      BY Zenon, <2>1, <2>2 DEF Consoles
    <3>. QED  BY Zenon, <3>1 DEF Outdated, Refreshes, Queued
  <2>4. PICK h : h = Outdated(f)
    BY Zenon
  <2>5. PICK s : s = [r EXCEPT !.refresh = h]
    BY Zenon
  <2>6. s = console'[p]
    BY Zenon, <1>1, <1>2, <2>1, <2>2, <2>4, <2>5
  <2>7. s \in Consoles /\ s.stage = r.stage /\ s.save = r.save /\ s.refresh = h
    BY Zenon, <2>3, <2>4, <2>5 DEF Consoles
  <2>8. ReloadOK(p)'
    <3>. SUFFICES ASSUME r.stage = "reload" PROVE ReloadOK(p)'
      BY Zenon, <2>6, <2>7 DEF ReloadOK
    <3>1. f \in Refreshes /\ f.stage # "queued" /\ RefreshOK(f)
      BY Zenon, <2>1, <2>2 DEF CachesInv, ReloadOK
    <3>2. h \in Refreshes /\ h.stage # "queued" /\ RefreshOK(h)' /\ h.outdated
      BY Zenon, <2>4, <3>1, RefreshMarked DEF CachesInv
    <3>. QED  BY Zenon, <2>6, <2>7, <3>2 DEF ReloadOK
  <2>. QED  BY Zenon, <2>1, <2>6, <2>7, <2>8
<1>. QED  BY Zenon, <1>1, <1>2

\* The shared refresh is marked, or has yet to begin.
LEMMA FlightMarked ==
  ASSUME CachesInv, Onward, flight' = Outdated(flight)
  PROVE  flight' \in {NoRefresh} \cup Refreshes /\ (flight' # NoRefresh => RefreshOK(flight)')
<1>1. PICK f : f = flight
  BY Zenon
<1>2. CASE f = NoRefresh
  BY Zenon, <1>1, <1>2 DEF Outdated
<1>3. CASE f # NoRefresh /\ f.stage = "queued"
  <2>1. f \in Refreshes /\ RefreshOK(f)
    BY Zenon, <1>1, <1>3 DEF CachesInv, CacheTypes
  <2>2. PICK g : g = Outdated(f)
    BY Zenon
  <2>3. g = f \/ g = [f EXCEPT !.outdated = TRUE]
    BY Zenon, <2>2 DEF Outdated
  <2>4. g \in Refreshes /\ g.stage = "queued" /\ RefreshOK(g)
    BY Zenon, <1>3, <2>1, <2>3 DEF Refreshes, RefreshOK
  <2>5. RefreshOK(g)'
    BY Zenon, <2>4, RefreshKept DEF CachesInv
  <2>. QED  BY Zenon, <1>1, <2>2, <2>4, <2>5 DEF RefreshOK, Content
<1>4. CASE f # NoRefresh /\ f.stage # "queued"
  <2>1. f \in Refreshes /\ RefreshOK(f)
    BY Zenon, <1>1, <1>4 DEF CachesInv, CacheTypes
  <2>2. PICK g : g = Outdated(f)
    BY Zenon
  <2>3. g \in Refreshes /\ RefreshOK(g)'
    BY Zenon, <1>4, <2>1, <2>2, RefreshMarked DEF CachesInv
  <2>. QED  BY Zenon, <1>1, <2>2, <2>3 DEF RefreshOK, Content
<1>. QED  BY Zenon, <1>2, <1>3, <1>4

\* A save begins, or its reload does: what is under way is marked.
LEMMA CachesMark ==
  ASSUME CachesInv, NEW o \in Operators, Reload(o) \/ \E c \in Brought : Apply(o, c)
  PROVE  CachesInv'
<1>1. UNCHANGED <<cacheKind, ticks, saves, asOf, held, published>> /\ flight' = Outdated(flight)
  BY Zenon DEF Reload, Apply
<1>2. Onward
  BY Zenon, <1>1, OnwardHere DEF CachesInv
<1>. DEFINE Entered(e) == console' = Bumped(o, e) /\ e.save <= Len(saves) /\ (e.stage # "reload" \/ e.refresh = Begun)
<1>3. PICK entry \in Consoles : Entered(entry)
  <2>1. CASE Reload(o)
    <3>1. PICK r \in Consoles : r = console[o] /\ r.save <= Len(saves)
      BY Zenon DEF CachesInv, CacheTypes
    <3>2. PICK f \in Refreshes : f = Begun
      BY Zenon, BegunOK DEF CachesInv
    <3>3. PICK e : e = [r EXCEPT !.stage = "reload", !.refresh = f]
      BY Zenon
    <3>4. e \in Consoles /\ e.save = r.save /\ e.refresh = f
      BY Zenon, <3>3 DEF Consoles
    <3>5. console' = Bumped(o, e)
      BY Zenon, <2>1, <3>1, <3>2, <3>3 DEF Reload
    <3>. QED  BY Zenon, <3>1, <3>2, <3>4, <3>5
  <2>2. ASSUME NEW c \in Brought, Apply(o, c) PROVE \E e \in Consoles : Entered(e)
    <3>1. c \in Contents
      BY Zenon, CachesAssumption DEF Brought
    <3>2. PICK r, e : r = IdleConsole /\ e = [r EXCEPT !.stage = "flushed", !.brings = c]
      BY Zenon
    <3>3. r \in Consoles /\ r.save = 0
      BY Zenon, <3>2 DEF IdleConsole, Consoles
    <3>4. e \in Consoles /\ e.save = 0 /\ e.stage = "flushed"
      BY Zenon, <3>1, <3>2, <3>3 DEF Consoles
    <3>5. console' = Bumped(o, e)
      BY Zenon, <2>2, <3>2 DEF Apply
    <3>6. 0 <= Len(saves)
      BY DEF CachesInv, CacheTypes
    <3>. QED  BY Zenon, <3>4, <3>5, <3>6
  <2>. QED  BY Zenon, <2>1, <2>2
<1>4. /\ console' \in [Operators -> Consoles] /\ console'[o] = entry
      /\ \A p \in Operators : p # o => /\ console'[p].stage = console[p].stage /\ console'[p].save = console[p].save
                                       /\ ReloadOK(p)'
  BY Zenon, <1>1, <1>2, <1>3, BumpedOK
<1>5. flight' \in {NoRefresh} \cup Refreshes /\ (flight' # NoRefresh => RefreshOK(flight)')
  BY Zenon, <1>1, <1>2, FlightMarked
<1>6. ReloadOK(o)'
  <2>. SUFFICES ASSUME entry.stage = "reload", entry.refresh = Begun PROVE ReloadOK(o)'
    BY Zenon, <1>3, <1>4 DEF ReloadOK
  <2>1. PICK f \in Refreshes : f = Begun /\ RefreshOK(f) /\ f.stage = "begun" /\ (cacheKind = "logo" => f.known = held.row)
    BY Zenon, BegunOK DEF CachesInv
  <2>2. RefreshOK(f)'
    BY Zenon, <1>2, <2>1, RefreshKept DEF CachesInv
  <2>. QED  BY Zenon, <1>1, <1>4, <2>1, <2>2 DEF ReloadOK
<1>7. CacheTypes'
  <2>1. \A p \in Operators : console'[p].save <= Len(saves')
    BY Zenon, <1>1, <1>3, <1>4 DEF CachesInv, CacheTypes
  <2>. QED  BY Zenon, <1>1, <1>4, <1>5, <2>1 DEF CachesInv, CacheTypes
<1>8. CacheTruthful'
  BY Zenon, <1>1 DEF CachesInv, CacheTruthful, FreshAsClaimed, SavedStays
<1>. QED  BY Zenon, <1>4, <1>5, <1>6, <1>7, <1>8 DEF CachesInv

\* The flushed save is committed, or is not.
LEMMA CachesCommit ==
  ASSUME CachesInv, NEW o \in Operators, Commit(o)
  PROVE  CachesInv'
<1>1. UNCHANGED <<cacheKind, ticks, asOf, held, flight, published>>
  BY Zenon DEF Commit
<1>2. PICK r \in Consoles : r = console[o]
  BY Zenon DEF CachesInv, CacheTypes
<1>3. /\ ticks \in Nat /\ saves \in Seq(Contents \cup {"boot"}) /\ asOf \in Seq(Nat) /\ Len(asOf) = ticks + 1 /\ Len(saves) \in Nat
      /\ held \in [row : Nat, at : Int, retryAt : Int]
      /\ r.brings \in Contents \cup {"boot"} /\ \A p \in Operators : console[p].save \in Nat /\ console[p].save <= Len(saves)
  BY <1>2 DEF CachesInv, CacheTypes, Consoles
<1>4. PICK e \in Consoles : /\ console' = [console EXCEPT ![o] = e] /\ e.stage # "reload"
                            /\ \/ saves' = Append(saves, r.brings) /\ e.save = Len(saves) + 1
                               \/ saves' = saves /\ e.save = 0
  <2>1. CASE console' = [console EXCEPT ![o] = IdleConsole] /\ UNCHANGED saves
    <3>1. PICK e : e = IdleConsole
      BY Zenon
    <3>2. e \in Consoles /\ e.stage # "reload" /\ e.save = 0
      BY Zenon, <3>1 DEF IdleConsole, Consoles
    <3>. QED  BY Zenon, <2>1, <3>1, <3>2
  <2>2. CASE console' = [console EXCEPT ![o].stage = "committed", ![o].save = Len(saves) + 1] /\ saves' = Append(saves, console[o].brings)
    <3>1. PICK n \in Nat : n = Len(saves) + 1
      BY <1>3
    <3>2. PICK e : e = [r EXCEPT !.stage = "committed", !.save = n]
      BY Zenon
    <3>3. e \in Consoles /\ e.stage # "reload" /\ e.save = n
      BY Zenon, <3>2 DEF Consoles
    <3>4. console' = [console EXCEPT ![o] = e]
      BY Zenon, <1>2, <2>2, <3>1, <3>2 DEF CachesInv, CacheTypes
    <3>. QED  BY Zenon, <1>2, <2>2, <3>1, <3>3, <3>4
  <2>. QED  BY Zenon, <2>1, <2>2 DEF Commit
<1>5. saves' \in Seq(Contents \cup {"boot"}) /\ Len(saves') \in Nat /\ Len(saves) <= Len(saves') /\ \A n \in 1 .. Len(saves) : saves'[n] = saves[n]
  <2>1. CASE saves' = Append(saves, r.brings)
    BY <1>3, <2>1
  <2>2. CASE saves' = saves
    BY <1>3, <2>2
  <2>. QED  BY Zenon, <1>4, <2>1, <2>2
<1>6. e.save <= Len(saves')
  <2>1. CASE saves' = Append(saves, r.brings) /\ e.save = Len(saves) + 1
    BY <1>3, <2>1
  <2>2. CASE saves' = saves /\ e.save = 0
    BY <1>3, <2>2
  <2>. QED  BY Zenon, <1>4, <2>1, <2>2
<1>7. /\ console' \in [Operators -> Consoles] /\ console'[o] = e
      /\ \A p \in Operators : p # o => console'[p] = console[p]
  BY Zenon, <1>4 DEF CachesInv, CacheTypes
<1>8. Onward /\ NothingNewer
  BY <1>1, <1>3, <1>4, <1>5, <1>7 DEF Onward, NothingNewer
<1>9. CacheTypes'
  <2>1. \A p \in Operators : console'[p].save <= Len(saves')
    BY <1>3, <1>5, <1>6, <1>7
  <2>2. \A k \in 1 .. ticks + 1 : asOf[k] <= Len(saves') /\ held.row <= Len(saves')
    BY <1>3, <1>5 DEF CachesInv, CacheTypes
  <2>3. held.row <= Len(saves')
    BY <1>3, <1>5 DEF CachesInv, CacheTypes
  <2>. QED  BY Zenon, <1>1, <1>5, <1>7, <2>1, <2>2, <2>3 DEF CachesInv, CacheTypes
<1>10. CacheTruthful'
  BY Zenon, <1>1 DEF CachesInv, CacheTruthful, FreshAsClaimed, SavedStays
<1>11. flight' # NoRefresh => RefreshOK(flight)'
  <2>. SUFFICES ASSUME flight # NoRefresh PROVE RefreshOK(flight)'
    BY Zenon, <1>1
  <2>1. PICK f \in Refreshes : f = flight /\ f = flight' /\ RefreshOK(f)
    BY Zenon, <1>1 DEF CachesInv, CacheTypes
  <2>2. RefreshOK(f)'
    BY Zenon, <1>8, <2>1, RefreshQuiet DEF CachesInv
  <2>. QED  BY Zenon, <2>1, <2>2 DEF RefreshOK, Content
<1>12. \A p \in Operators : ReloadOK(p)'
  BY Zenon, <1>1, <1>4, <1>7, <1>8, ReloadQuiet
<1>. QED  BY Zenon, <1>9, <1>10, <1>11, <1>12 DEF CachesInv

\* A reload reads.
LEMMA CachesReloadReads ==
  ASSUME CachesInv, NEW o \in Operators, ReloadReads(o)
  PROVE  CachesInv'
<1>1. UNCHANGED <<cacheKind, ticks, saves, asOf, held, flight, published>>
  BY Zenon DEF ReloadReads
<1>2. PICK r \in Consoles : r = console[o] /\ r.stage = "reload"
  BY Zenon DEF ReloadReads, CachesInv, CacheTypes
<1>3. PICK f \in Refreshes : /\ f = r.refresh /\ f.stage = "begun" /\ RefreshOK(f)
                             /\ cacheKind = "logo" /\ ~f.outdated => held.row = f.known \/ r.save <= held.row
  BY Zenon, <1>2 DEF ReloadReads, CachesInv, ReloadOK
<1>4. PICK g \in Refreshes : g = ReadRow(f) /\ RefreshOK(g) /\ g.stage # "queued" /\ g.outdated = f.outdated /\ g.known = f.known
  BY Zenon, <1>3, ReadOK
<1>5. PICK e : e = [r EXCEPT !.refresh = g]
  BY Zenon
<1>6. e \in Consoles /\ e.stage = "reload" /\ e.save = r.save /\ e.refresh = g
  BY Zenon, <1>2, <1>5 DEF Consoles
<1>7. console' = [console EXCEPT ![o] = e]
  BY Zenon, <1>2, <1>3, <1>4, <1>5 DEF ReloadReads, CachesInv, CacheTypes
<1>8. /\ console' \in [Operators -> Consoles] /\ console'[o] = e
      /\ \A p \in Operators : p # o => console'[p] = console[p]
  BY Zenon, <1>6, <1>7 DEF CachesInv, CacheTypes
<1>9. Onward /\ NothingNewer
  <2>1. \A p \in Operators : console'[p].stage = console[p].stage /\ console'[p].save = console[p].save
    BY Zenon, <1>2, <1>6, <1>8
  <2>. QED  BY Zenon, <1>1, <2>1, OnwardHere DEF CachesInv, NothingNewer
<1>10. ReloadOK(o)'
  <2>1. RefreshOK(g)'
    BY Zenon, <1>4, <1>9, RefreshQuiet DEF CachesInv
  <2>. QED  BY Zenon, <1>1, <1>3, <1>4, <1>6, <1>8, <2>1 DEF ReloadOK
<1>11. \A p \in Operators : p # o => ReloadOK(p)'
  BY Zenon, <1>1, <1>8, <1>9, ReloadQuiet
<1>12. flight' # NoRefresh => RefreshOK(flight)'
  <2>. SUFFICES ASSUME flight # NoRefresh PROVE RefreshOK(flight)'
    BY Zenon, <1>1
  <2>1. PICK h \in Refreshes : h = flight /\ h = flight' /\ RefreshOK(h)
    BY Zenon, <1>1 DEF CachesInv, CacheTypes
  <2>2. RefreshOK(h)'
    BY Zenon, <1>9, <2>1, RefreshQuiet DEF CachesInv
  <2>. QED  BY Zenon, <2>1, <2>2 DEF RefreshOK, Content
<1>13. CacheTypes'
  <2>1. \A p \in Operators : console'[p].save <= Len(saves')
    BY Zenon, <1>1, <1>2, <1>6, <1>8 DEF CachesInv, CacheTypes
  <2>. QED  BY Zenon, <1>1, <1>8, <2>1 DEF CachesInv, CacheTypes
<1>14. CacheTruthful'
  BY Zenon, <1>1 DEF CachesInv, CacheTruthful, FreshAsClaimed, SavedStays
<1>. QED  BY Zenon, <1>10, <1>11, <1>12, <1>13, <1>14 DEF CachesInv

\* What a refresh that ends does to the cache.
LEMMA Lands ==
  ASSUME CachesInv, NEW f \in Refreshes, RefreshOK(f),
         \/ f.stage \in {"read", "unchanged"} /\ held' = Published(f)
         \/ f.stage = "begun" /\ held' = Failed
  PROVE  /\ held' \in [row : Nat, at : Int, retryAt : Int] /\ held'.row <= Len(saves) /\ held'.at <= ticks
         /\ cacheKind # "logo" /\ held'.at >= 0 => asOf[held'.at + 1] <= held'.row
         /\ published <= held'.row
         /\ \/ held'.row = held.row
            \/ published <= held'.row /\ \A p \in Operators : console[p].stage = "reload" => console[p].save <= held'.row
         /\ f.stage \in {"read", "unchanged"} /\ ~f.outdated =>
              \/ held'.row = f.got
              \/ cacheKind = "logo" /\ held'.row = held.row /\ held.row # f.known
<1>1. PICK h \in [row : Nat, at : Int, retryAt : Int] : h = held /\ h.row <= Len(saves) /\ h.at <= ticks /\ published <= h.row
  BY Zenon DEF CachesInv, CacheTypes, CacheTruthful, SavedStays
<1>2. cacheKind # "logo" /\ h.at >= 0 => asOf[h.at + 1] <= h.row
  <2>1. h.at >= 0 => asOf[h.at + 1] \in Nat
    BY <1>1 DEF CachesInv, CacheTypes
  <2>2. cacheKind # "logo" /\ h.at >= 0 => h.row >= asOf[h.at + 1]
    BY Zenon, <1>1 DEF CachesInv, CacheTruthful, FreshAsClaimed
  <2>. QED  BY Zenon, <1>1, <2>1, <2>2
<1>3. CASE \E t \in Int : held' = [h EXCEPT !.retryAt = t] /\ (f.outdated \/ f.stage = "begun")
  <2>1. PICK t \in Int : held' = [h EXCEPT !.retryAt = t]
    BY Zenon, <1>3
  <2>2. PICK g : g = [h EXCEPT !.retryAt = t]
    BY Zenon
  <2>3. g \in [row : Nat, at : Int, retryAt : Int] /\ g.row = h.row /\ g.at = h.at /\ g = held'
    BY Zenon, <2>1, <2>2
  <2>4. f.stage \in {"read", "unchanged"} => f.outdated
    BY Zenon, <1>3
  <2>. QED  BY Zenon, <1>1, <1>2, <2>3, <2>4
<1>4. CASE f.stage \in {"read", "unchanged"} /\ ~f.outdated /\ held' = Published(f)
  <2>1. PICK n \in Nat : n = IF f.stage = "read" \/ Content(held.row) = Content(f.got) THEN f.got ELSE held.row
    BY Zenon, <1>1 DEF Refreshes
  <2>2. PICK g : g = [row |-> n, at |-> f.started, retryAt |-> 0]
    BY Zenon
  <2>3. g = held'
    BY Zenon, <1>4, <2>1, <2>2 DEF Published, Discarded
  <2>4. f.started \in Nat /\ f.got \in Nat /\ f.started <= ticks /\ f.got <= Len(saves) /\ asOf[f.started + 1] <= f.got
        /\ published <= f.got /\ \A p \in Operators : console[p].stage = "reload" => console[p].save <= f.got
    BY Zenon, <1>4 DEF Refreshes, RefreshOK
  <2>5. g \in [row : Nat, at : Int, retryAt : Int] /\ g.row = n /\ g.at = f.started
    BY <2>2, <2>4
  <2>6. f.stage = "unchanged" => cacheKind = "logo" /\ Content(f.known) = Content(f.got)
    BY Zenon DEF RefreshOK
  <2>7. n = f.got \/ (n = held.row /\ cacheKind = "logo" /\ held.row # f.known)
    BY Zenon, <1>4, <2>1, <2>6
  <2>. QED  BY Zenon, <1>1, <2>3, <2>4, <2>5, <2>7
<1>5. f.stage = "begun" => \E t \in Int : held' = [h EXCEPT !.retryAt = t]
  <2>1. ticks + RetryAfter \in Int
    BY CachesAssumption DEF CachesInv, CacheTypes
  <2>. QED  BY Zenon, <1>1, <2>1 DEF Failed
<1>6. f.stage # "begun" /\ f.outdated => held' = [h EXCEPT !.retryAt = 0]
  BY Zenon, <1>1 DEF Published, Discarded
<1>. QED  BY <1>3, <1>4, <1>5, <1>6

\* The shared refresh publishes, is thrown away or fails.
LEMMA CachesFlightLands ==
  ASSUME CachesInv, FlightLands
  PROVE  CachesInv'
<1>1. UNCHANGED <<cacheKind, ticks, saves, asOf, console, published>> /\ flight' = NoRefresh
  BY Zenon DEF FlightLands
<1>2. PICK f \in Refreshes : /\ f = flight /\ RefreshOK(f)
                             /\ \/ f.stage \in {"read", "unchanged"} /\ held' = Published(f)
                                \/ f.stage = "begun" /\ held' = Failed
  BY Zenon DEF FlightLands, CachesInv, CacheTypes
<1>3. /\ held' \in [row : Nat, at : Int, retryAt : Int] /\ held'.row <= Len(saves) /\ held'.at <= ticks
      /\ cacheKind # "logo" /\ held'.at >= 0 => asOf[held'.at + 1] <= held'.row
      /\ published <= held'.row
      /\ held'.row = held.row \/ \A p \in Operators : console[p].stage = "reload" => console[p].save <= held'.row
  BY Zenon, <1>2, Lands
<1>4. Onward /\ NothingNewer
  BY Zenon, <1>1, OnwardHere DEF CachesInv, NothingNewer
<1>5. \A o \in Operators : ReloadOK(o)'
  BY Zenon, <1>1, <1>3, <1>4, ReloadQuiet
<1>6. CacheTypes'
  BY Zenon, <1>1, <1>3 DEF CachesInv, CacheTypes
<1>7. CacheTruthful'
  <2>1. held'.at >= 0 => asOf[held'.at + 1] \in Nat
    BY <1>1, <1>6 DEF CacheTypes
  <2>2. published \in Nat
    BY Zenon DEF CachesInv, CacheTypes
  <2>. QED  BY Zenon, <1>1, <1>3, <2>1, <2>2 DEF CacheTruthful, FreshAsClaimed, SavedStays
<1>. QED  BY Zenon, <1>1, <1>5, <1>6, <1>7 DEF CachesInv

\* A reload publishes its save, is thrown away or fails.
LEMMA CachesReloadLands ==
  ASSUME CachesInv, NEW o \in Operators, ReloadLands(o)
  PROVE  CachesInv'
<1>1. UNCHANGED <<cacheKind, ticks, saves, asOf, flight>> /\ console' = [console EXCEPT ![o] = IdleConsole] /\ console[o].stage = "reload"
  BY Zenon DEF ReloadLands
<1>2. PICK f \in Refreshes : /\ f = console[o].refresh /\ RefreshOK(f)
                             /\ cacheKind = "logo" /\ ~f.outdated => held.row = f.known \/ console[o].save <= held.row
  BY Zenon, <1>1 DEF CachesInv, ReloadOK
<1>3. \/ f.stage \in {"read", "unchanged"} /\ held' = Published(f)
         /\ published' = IF f.outdated \/ console[o].save < published THEN published ELSE console[o].save
      \/ f.stage = "begun" /\ held' = Failed /\ published' = published
  BY Zenon, <1>2 DEF ReloadLands, Discarded
<1>4. /\ held' \in [row : Nat, at : Int, retryAt : Int] /\ held'.row <= Len(saves) /\ held'.at <= ticks
      /\ cacheKind # "logo" /\ held'.at >= 0 => asOf[held'.at + 1] <= held'.row
      /\ published <= held'.row
      /\ held'.row = held.row \/ \A p \in Operators : console[p].stage = "reload" => console[p].save <= held'.row
      /\ f.stage \in {"read", "unchanged"} /\ ~f.outdated =>
              \/ held'.row = f.got
              \/ cacheKind = "logo" /\ held'.row = held.row /\ held.row # f.known
  BY Zenon, <1>2, <1>3, Lands
<1>5. published \in Nat /\ console[o].save \in Nat
  BY Zenon DEF CachesInv, CacheTypes, Consoles
<1>6. published' \in Nat /\ published' <= held'.row
  <2>1. CASE published' = published
    BY Zenon, <1>4, <1>5, <2>1
  <2>2. CASE published' # published
    <3>1. f.stage \in {"read", "unchanged"} /\ ~f.outdated /\ published' = console[o].save
      BY Zenon, <1>3, <2>2
    <3>2. console[o].save <= f.got
      BY Zenon, <1>1, <1>2, <3>1 DEF RefreshOK
    <3>3. console[o].save <= held'.row
      BY Zenon, <1>2, <1>4, <3>1, <3>2
    <3>. QED  BY Zenon, <1>5, <3>1, <3>3
  <2>. QED  BY Zenon, <2>1, <2>2
<1>7. PICK e \in Consoles : e = IdleConsole /\ e.stage = "idle" /\ e.save = 0
  <2>1. PICK r : r = IdleConsole
    BY Zenon
  <2>2. r \in Consoles /\ r.stage = "idle" /\ r.save = 0
    BY Zenon, <2>1 DEF IdleConsole, Consoles
  <2>. QED  BY Zenon, <2>1, <2>2
<1>8. /\ console' \in [Operators -> Consoles] /\ console'[o] = e
      /\ \A p \in Operators : p # o => console'[p] = console[p]
  BY Zenon, <1>1, <1>7 DEF CachesInv, CacheTypes
<1>9. Onward /\ NothingNewer
  <2>1. published' = published \/ published' = console[o].save
    BY Zenon, <1>3
  <2>. QED  BY Zenon, <1>1, <1>7, <1>8, <2>1, OnwardHere DEF CachesInv, NothingNewer
<1>10. \A p \in Operators : ReloadOK(p)'
  BY Zenon, <1>4, <1>7, <1>8, <1>9, ReloadQuiet
<1>11. CacheTypes'
  <2>1. \A p \in Operators : console'[p].save <= Len(saves')
    BY <1>1, <1>7, <1>8 DEF CachesInv, CacheTypes
  <2>. QED  BY Zenon, <1>1, <1>4, <1>6, <1>8, <2>1 DEF CachesInv, CacheTypes
<1>12. CacheTruthful'
  <2>1. held'.at >= 0 => asOf[held'.at + 1] \in Nat
    BY <1>1, <1>11 DEF CacheTypes
  <2>. QED  BY Zenon, <1>1, <1>4, <1>6, <2>1 DEF CacheTruthful, FreshAsClaimed, SavedStays
<1>13. flight' # NoRefresh => RefreshOK(flight)'
  <2>. SUFFICES ASSUME flight # NoRefresh PROVE RefreshOK(flight)'
    BY Zenon, <1>1
  <2>1. PICK h \in Refreshes : h = flight /\ h = flight' /\ RefreshOK(h)
    BY Zenon, <1>1 DEF CachesInv, CacheTypes
  <2>2. RefreshOK(h)'
    BY Zenon, <1>9, <2>1, RefreshQuiet DEF CachesInv
  <2>. QED  BY Zenon, <2>1, <2>2 DEF RefreshOK, Content
<1>. QED  BY Zenon, <1>10, <1>11, <1>12, <1>13 DEF CachesInv

\* No step of a refresh, a save or another worker breaks the invariant.
LEMMA CachesStep ==
  ASSUME CachesInv, [CachesNext]_cacheVars
  PROVE  CachesInv'
<1>1. CASE CachesNext
  <2>1. CASE \/ Elapse \/ Overrides \/ Current \/ UserCount \/ WaitLoaded \/ CacheTicker
             \/ \E c \in Brought : SaveElsewhere(c)
    BY Zenon, <2>1, CachesAround
  <2>2. CASE FlightBegins \/ FlightReads \/ FlightLands
    BY Zenon, <2>2, CachesFlight, CachesFlightLands
  <2>3. ASSUME NEW o \in Operators, \/ \E c \in Brought : Apply(o, c)
                                    \/ Commit(o) \/ Reload(o) \/ ReloadReads(o) \/ ReloadLands(o)
        PROVE  CachesInv'
    BY Zenon, <2>3, CachesMark, CachesCommit, CachesReloadReads, CachesReloadLands
  <2>. QED  BY Zenon, <1>1, <2>1, <2>2, <2>3 DEF CachesNext
<1>2. CASE UNCHANGED cacheVars
  BY Zenon, <1>2 DEF cacheVars, CachesInv, CacheTypes, CacheTruthful, FreshAsClaimed, SavedStays, ReloadOK, RefreshOK, Content
<1>. QED  BY Zenon, <1>1, <1>2

\* The rows a worker serves are as fresh as their stamp, and a published save
\* is not taken back, with any number of operators saving on the worker
\* (server_settings.py _refresh, reload; island_logo.py; routers/server.py).
THEOREM CacheAlwaysTruthful == CachesSpec => []CacheTruthful
<1>1. CachesInit => CachesInv
  BY Zenon, CachesStart
<1>2. CachesInv /\ [CachesNext]_cacheVars => CachesInv'
  BY Zenon, CachesStep
<1>3. CachesInv => CacheTruthful
  BY Zenon DEF CachesInv
<1>. QED  BY <1>1, <1>2, <1>3, PTL DEF CachesSpec
=============================================================================
