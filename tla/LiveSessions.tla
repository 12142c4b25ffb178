---------------------------- MODULE LiveSessions ----------------------------
(***************************************************************************)
(* What an account is doing live, kept in Redis for every worker: its 1:1  *)
(* call (calls:active), its audio room (room:user_active and the rooms'    *)
(* member sets), its random chat; the offline task that clears them when   *)
(* its last socket is gone; and the audio rooms' rows in the database.     *)
(* A user has one socket, whose frames are handled one after another.      *)
(***************************************************************************)
EXTENDS Naturals, FiniteSets, Sequences

CONSTANTS Users, Workers, Rooms, Pairs, Nobody, MaxInRoom, MaxOps,
          Mixes,     \* the sets of kinds of operation that are considered together
          Founded,   \* rooms that exist at the start, with every user a member
          Refuses    \* callees whose call_policy, or a guest copy, refuses every caller

ASSUME LiveAssumption == MaxInRoom \in Nat \ {0} /\ MaxOps \in Nat /\ Users # {} /\ Nobody \notin Users \cup Rooms

VARIABLES
  worker,    \* worker[u]: the worker of u's socket, or Nobody; u is online iff it has one
  task,      \* task[w][u]: where w's _debounced_offline for u stands
  op,        \* op[u]: the frame or request of u between two awaits
  calls,     \* calls[u]: u's entry of calls:active: call, peer, age
  answered,  \* answered[c]: the callee that answered c
  pin,       \* pin[u]: u's entry of room:user_active
  live,      \* live[r]: the member set of r's voice session
  owner,     \* owner[r]: the owner in r's row; Nobody when there is no row
  member,    \* member[r]: r's membership rows
  purge,     \* purge[r]: delete_room between its commit, its read and its purge
  queue,     \* random:queue
  pairOf,    \* random:pair_by_uin
  pair,      \* pair[p]: the users of the pair; none before it is made, Gone after its end
  ending,    \* ends of a pair between their read of it and their transaction
  crashed,   \* some worker died
  mix,       \* the kinds of operation of this behaviour
  ops        \* operations so far

callv == <<calls, answered>>
roomv == <<pin, live, owner, member, purge>>
randv == <<queue, pairOf, pair, ending>>
vars  == <<worker, task, op, callv, roomv, randv, crashed, mix, ops>>

\* A client names its call with a fresh id: the number of the operation.
Calls == 1..MaxOps
NoCall == [c |-> 0, peer |-> Nobody, age |-> 0]
Idle == <<"idle">>
Gone == {Nobody}
Entry(c, v) == [c |-> c, peer |-> v, age |-> 0]
\* Past ten minutes an entry no longer makes its user busy, past six hours it authorises no frame.
Busy(e) == e # NoCall /\ e.age = 0
Online(u) == worker[u] # Nobody

Init ==
  /\ worker = [u \in Users |-> CHOOSE w \in Workers : TRUE]
  /\ task = [w \in Workers |-> [u \in Users |-> Idle]]
  /\ op = [u \in Users |-> Idle]
  /\ calls = [u \in Users |-> NoCall] /\ answered = [c \in Calls |-> Nobody]
  /\ pin = [u \in Users |-> Nobody] /\ live = [r \in Rooms |-> {}]
  /\ owner = [r \in Rooms |-> IF r \in Founded THEN CHOOSE u \in Users : TRUE ELSE Nobody]
  /\ member = [r \in Rooms |-> IF r \in Founded THEN Users ELSE {}]
  /\ purge = [r \in Rooms |-> Idle]
  /\ queue = <<>> /\ pairOf = [u \in Users |-> Nobody] /\ pair = [p \in Pairs |-> {}]
  /\ ending = {} /\ crashed = FALSE
  /\ ops = 0 /\ mix \in Mixes

\* An operation of one of the behaviour's kinds.
Op(k) == k \in mix /\ ops < MaxOps /\ ops' = ops + 1
\* A frame needs u's socket and that the frame before it is finished.
Free(u) == Online(u) /\ op[u] = Idle

-----------------------------------------------------------------------------
\* _register_call: entries past the stale limit are dropped, then both ends must be free.
FreeIfStale(u) == IF calls[u].age > 0 THEN NoCall ELSE calls[u]
RegisterCall(c, u, v) ==
  IF FreeIfStale(u) = NoCall /\ FreeIfStale(v) = NoCall /\ pin[u] = Nobody /\ pin[v] = Nobody
  THEN [calls EXCEPT ![u] = Entry(c, v), ![v] = Entry(c, u)]
  ELSE [calls EXCEPT ![u] = FreeIfStale(u), ![v] = FreeIfStale(v)]
\* _caller_allowed: the callee's call_policy decides; a guest on either end refuses.
CallerAllowed(u, v) == v \notin Refuses
\* call_offer: the callee's policy first, so that a refused offer registers nothing.
CallOffer(u, v) ==
  /\ Op("call") /\ Free(u) /\ u # v /\ CallerAllowed(u, v)
  /\ calls' = RegisterCall(ops + 1, u, v)
  /\ UNCHANGED <<worker, task, op, answered, roomv, randv, crashed, mix>>

\* _call_pair_live: either side's entry names the other one, and the call if the frame does.
PairLive(u, v, c) ==
  \/ calls[u].peer = v /\ calls[u].c = c /\ calls[u].age < 2
  \/ calls[v].peer = u /\ calls[v].c = c /\ calls[v].age < 2
\* call_answer: relayed, then the cluster-wide mark of who answered.
CallAnswer(v, u, c) ==
  /\ Op("call") /\ Free(v) /\ v # u /\ PairLive(v, u, c)
  /\ answered' = [answered EXCEPT ![c] = v]
  /\ UNCHANGED <<worker, task, op, calls, roomv, randv, crashed, mix>>
\* call_end: the gate and the answered mark now, the clean-up after the relay's awaits.  A ringing
\* reason from the account that answered is dropped.
CallEnd(u, v, c, ringing) ==
  /\ Op("call") /\ Free(u) /\ v # u /\ PairLive(u, v, c)
  /\ ~(ringing /\ answered[c] = u)
  /\ op' = [op EXCEPT ![u] = <<"end", c, v>>]
  /\ UNCHANGED <<worker, task, calls, answered, roomv, randv, crashed, mix>>
\* _clear_call: the entries of S that still carry this call.
ClearFirst(c, S) == [x \in Users |-> IF x \in S /\ calls[x].c = c /\ x = CHOOSE y \in S : TRUE
                                     THEN NoCall ELSE calls[x]]
ClearCall(c, S) == [x \in Users |-> IF x \in S /\ calls[x].c = c THEN NoCall ELSE calls[x]]
CallEnded(u) ==
  /\ op[u][1] = "end" /\ op' = [op EXCEPT ![u] = Idle]
  /\ answered' = [answered EXCEPT ![op[u][2]] = Nobody]
  /\ calls' = ClearCall(op[u][2], {u, op[u][3]})
  /\ UNCHANGED <<worker, task, roomv, randv, crashed, mix, ops>>

\* Time passes for a call: both entries carry the time of their registration; the mark expires.
AgeWhileOnline(c) ==
  /\ \E x \in Users : calls[x].c = c /\ calls[x].age < 2 /\ Online(x)
  /\ calls' = [x \in Users |-> IF calls[x].c = c THEN [calls[x] EXCEPT !.age = @ + 1] ELSE calls[x]]
  /\ answered' \in {answered, [answered EXCEPT ![c] = Nobody]}
  /\ UNCHANGED <<worker, task, op, roomv, randv, crashed, mix, ops>>
Age(c) ==
  /\ \E x \in Users : calls[x].c = c /\ calls[x].age < 2
  /\ calls' = [x \in Users |-> IF calls[x].c = c THEN [calls[x] EXCEPT !.age = @ + 1] ELSE calls[x]]
  /\ answered' \in {answered, [answered EXCEPT ![c] = Nobody]}
  /\ UNCHANGED <<worker, task, op, roomv, randv, crashed, mix, ops>>

-----------------------------------------------------------------------------
\* The rows of the audio rooms: create_room enters the owner as the first member in one commit.
CreateRoom(u, r) ==
  /\ Op("room") /\ owner[r] = Nobody /\ purge[r] = Idle
  /\ owner' = [owner EXCEPT ![r] = u] /\ member' = [member EXCEPT ![r] = {u}]
  /\ UNCHANGED <<worker, task, op, callv, pin, live, purge, randv, crashed, mix>>
JoinByKey(u, r) ==
  /\ Op("room") /\ owner[r] # Nobody /\ u \notin member[r]
  /\ member' = [member EXCEPT ![r] = @ \cup {u}]
  /\ UNCHANGED <<worker, task, op, callv, pin, live, owner, purge, randv, crashed, mix>>
LeaveMyList(u, r) ==
  /\ Op("room") /\ u \in member[r] /\ owner[r] # u
  /\ member' = [member EXCEPT ![r] = @ \ {u}]
  /\ UNCHANGED <<worker, task, op, callv, pin, live, owner, purge, randv, crashed, mix>>

\* _room_entry_busy_state: in a call, or pinned to another room; a pin to the same room is the
\* way back in.
EntryBlocked(u, r) == Busy(calls[u]) \/ pin[u] \notin {Nobody, r}
\* room_enter: the busy check and the rows now, the seat after the awaits in between.
RoomEnter(u, r) ==
  /\ Op("room") /\ Free(u) /\ ~EntryBlocked(u, r)
  /\ owner[r] # Nobody /\ u \in member[r]
  /\ op' = [op EXCEPT ![u] = <<"enter", r>>]
  /\ UNCHANGED <<worker, task, callv, roomv, randv, crashed, mix>>
\* The Lua script: already in, full, or the seat and the pin together.
SeatUnchecked(r, u) == live[r] \cup {u}
Seat(r, u) == IF u \in live[r] \/ Cardinality(live[r]) >= MaxInRoom THEN live[r] ELSE live[r] \cup {u}
RoomEntered(u) ==
  LET r == op[u][2]
  IN  /\ op[u][1] = "enter" /\ op' = [op EXCEPT ![u] = Idle]
      /\ live' = [live EXCEPT ![r] = Seat(r, u)]
      /\ pin' = IF u \in Seat(r, u) \ live[r] THEN [pin EXCEPT ![u] = r] ELSE pin
      /\ UNCHANGED <<worker, task, callv, owner, member, purge, randv, crashed, mix, ops>>

\* evict_from_audio_room: out of the room's set and of the pins, whatever room the pin names.
Evict(r, u) == live' = [live EXCEPT ![r] = @ \ {u}] /\ pin' = [pin EXCEPT ![u] = Nobody]
RoomLeave(u, r) ==
  /\ Op("room") /\ Free(u) /\ u \in live[r] /\ Evict(r, u)
  /\ UNCHANGED <<worker, task, op, callv, owner, member, purge, randv, crashed, mix>>
\* kick_member by the owner: the row, then the seat.
KickMember(r, v) ==
  /\ Op("room") /\ v \in member[r] /\ owner[r] \notin {v, Nobody}
  /\ member' = [member EXCEPT ![r] = @ \ {v}] /\ Evict(r, v)
  /\ UNCHANGED <<worker, task, op, callv, owner, purge, randv, crashed, mix>>
\* delete_room: the rows are gone at the commit; purge_audio_room reads who is in the room, then
\* deletes the set and unpins those it read.
DeleteRoom(r) ==
  /\ Op("room") /\ owner[r] # Nobody
  /\ owner' = [owner EXCEPT ![r] = Nobody] /\ member' = [member EXCEPT ![r] = {}]
  /\ purge' = [purge EXCEPT ![r] = <<"read">>]
  /\ UNCHANGED <<worker, task, op, callv, pin, live, randv, crashed, mix>>
PurgeRead(r) ==
  /\ purge[r] = <<"read">> /\ purge' = [purge EXCEPT ![r] = <<"purge", live[r]>>]
  /\ UNCHANGED <<worker, task, op, callv, pin, live, owner, member, randv, crashed, mix, ops>>
PurgeRun(r) ==
  /\ purge[r][1] = "purge" /\ purge' = [purge EXCEPT ![r] = Idle]
  /\ live' = [live EXCEPT ![r] = {}]
  /\ pin' = [x \in Users |-> IF x \in purge[r][2] THEN Nobody ELSE pin[x]]
  /\ UNCHANGED <<worker, task, op, callv, owner, member, randv, crashed, mix, ops>>

-----------------------------------------------------------------------------
\* _end_pair reads the pair, then drops it and both its users' entries in one transaction;
\* skip goes on to _try_match for its user.
EndPair(p, next) == ending' = ending \cup {[p |-> p, S |-> pair[p], next |-> next]}
UnpairedOne(S) == [x \in Users |-> IF x \in S /\ x = CHOOSE y \in S : TRUE THEN Nobody ELSE pairOf[x]]
Unpaired(S) == [x \in Users |-> IF x \in S THEN Nobody ELSE pairOf[x]]
EndPairRun(e) ==
  /\ ending' = ending \ {e}
  /\ pair' = [pair EXCEPT ![e.p] = Gone] /\ pairOf' = Unpaired(e.S)
  /\ op' = IF e.next = Nobody THEN op ELSE [op EXCEPT ![e.next] = <<"match", Nobody>>]
  /\ UNCHANGED <<worker, task, callv, roomv, queue, crashed, mix, ops>>
Waiting(u) == \E i \in DOMAIN queue : queue[i] = u
Without(u) == SelectSeq(queue, LAMBDA x : x # u)

\* queue: refused while paired, nothing while waiting; otherwise _try_match begins.
Queue(u) ==
  /\ Op("random") /\ op[u] = Idle /\ pairOf[u] = Nobody /\ ~Waiting(u)
  /\ op' = [op EXCEPT ![u] = <<"match", Nobody>>]
  /\ UNCHANGED <<worker, task, callv, roomv, randv, crashed, mix>>
\* skip: the current pair ends first.
Skip(u) ==
  /\ Op("random") /\ op[u] = Idle /\ pairOf[u] # Nobody /\ EndPair(pairOf[u], u)
  /\ op' = [op EXCEPT ![u] = <<"skip">>]
  /\ UNCHANGED <<worker, task, callv, roomv, queue, pairOf, pair, crashed, mix>>
\* One turn of _try_match: the head of the queue is popped; one's own entry, one who left and one
\* who is paired are dropped; an empty queue parks the caller at its end.
MatchPop(u) ==
  /\ op[u] = <<"match", Nobody>>
  /\ IF queue = <<>> THEN queue' = <<u>> /\ op' = [op EXCEPT ![u] = Idle]
     ELSE LET x == Head(queue)
          IN  /\ queue' = Tail(queue)
              /\ IF x = u \/ ~Online(x) \/ pairOf[x] # Nobody THEN UNCHANGED op
                 ELSE op' = [op EXCEPT ![u] = <<"match", x>>]
  /\ UNCHANGED <<worker, task, callv, roomv, pairOf, pair, ending, crashed, mix, ops>>
\* The candidate is written down with the caller as a pair, entries and all, in one transaction.
MatchWrite(u) ==
  /\ op[u][1] = "match" /\ op[u][2] # Nobody /\ op' = [op EXCEPT ![u] = Idle]
  /\ \E p \in Pairs :
       /\ pair[p] = {} /\ \A q \in Pairs : pair[q] = {} => p <= q
       /\ pair' = [pair EXCEPT ![p] = {u, op[u][2]}]
       /\ pairOf' = [pairOf EXCEPT ![u] = p, ![op[u][2]] = p]
  /\ UNCHANGED <<worker, task, callv, roomv, queue, ending, crashed, mix, ops>>
\* leave: out of the queue, or else out of the pair.
RandomLeave(u) ==
  /\ Op("random") /\ (Waiting(u) \/ pairOf[u] # Nobody)
  /\ IF Waiting(u) THEN queue' = Without(u) /\ UNCHANGED ending
     ELSE EndPair(pairOf[u], Nobody) /\ UNCHANGED queue
  /\ UNCHANGED <<worker, task, op, callv, roomv, pairOf, pair, crashed, mix>>
\* expire_loop: a pair whose five minutes are over.
ExpirePair(p) ==
  /\ pair[p] \notin {{}, Gone} /\ EndPair(p, Nobody)
  /\ UNCHANGED <<worker, task, op, callv, roomv, queue, pairOf, pair, crashed, mix, ops>>

-----------------------------------------------------------------------------
Then(w, u, t) == task' = [task EXCEPT ![w][u] = t]
\* _on_connect cancels this worker's offline task for u, wherever it stands.
Arrive(u, w) ==
  /\ Op("move") /\ ~Online(u) /\ worker' = [worker EXCEPT ![u] = w] /\ Then(w, u, Idle)
  /\ UNCHANGED <<op, callv, roomv, randv, crashed, mix>>
\* _on_disconnect: u's last socket is gone; the clean-up starts after the grace window.
Depart(u) ==
  /\ Op("move") /\ Online(u) /\ op[u][1] \notin {"end", "enter"}
  /\ worker' = [worker EXCEPT ![u] = Nobody] /\ Then(worker[u], u, <<"sleep">>)
  /\ UNCHANGED <<op, callv, roomv, randv, crashed, mix>>
\* _debounced_offline, one await at a time: the window is over and u is still away ...
OfflineWake(w, u) ==
  /\ task[w][u] = <<"sleep">> /\ Then(w, u, IF Online(u) THEN Idle ELSE <<"random">>)
  /\ UNCHANGED <<worker, op, callv, roomv, randv, crashed, mix, ops>>
\* ... on_disconnect of the random chat ...
OfflineRandom(w, u) ==
  /\ task[w][u] = <<"random">> /\ Then(w, u, <<"call">>) /\ queue' = Without(u)
  /\ IF pairOf[u] = Nobody THEN UNCHANGED ending ELSE EndPair(pairOf[u], Nobody)
  /\ UNCHANGED <<worker, op, callv, roomv, pairOf, pair, crashed, mix, ops>>
\* ... the call whose entry it reads is cleared for both ends ...
OfflineCall(w, u) ==
  /\ task[w][u] = <<"call">>
  /\ Then(w, u, IF calls[u] = NoCall THEN <<"room">> ELSE <<"clear", calls[u].c, calls[u].peer>>)
  /\ UNCHANGED <<worker, op, callv, roomv, randv, crashed, mix, ops>>
OfflineClear(w, u) ==
  /\ task[w][u][1] = "clear" /\ Then(w, u, <<"room">>)
  /\ calls' = ClearCall(task[w][u][2], {u, task[w][u][3]})
  /\ UNCHANGED <<worker, op, answered, roomv, randv, crashed, mix, ops>>
\* ... and the room whose pin it reads is left.
OfflineRoom(w, u) ==
  /\ task[w][u] = <<"room">> /\ Then(w, u, IF pin[u] = Nobody THEN Idle ELSE <<"evict", pin[u]>>)
  /\ UNCHANGED <<worker, op, callv, roomv, randv, crashed, mix, ops>>
OfflineEvict(w, u) ==
  /\ task[w][u][1] = "evict" /\ Then(w, u, Idle) /\ Evict(task[w][u][2], u)
  /\ UNCHANGED <<worker, op, callv, owner, member, purge, randv, crashed, mix, ops>>
\* A worker dies with its sockets, its tasks and the frames it was handling.
Crash(w) ==
  /\ Op("crash") /\ crashed' = TRUE /\ UNCHANGED mix
  /\ task' = [task EXCEPT ![w] = [u \in Users |-> Idle]]
  /\ worker' = [u \in Users |-> IF worker[u] = w THEN Nobody ELSE worker[u]]
  /\ op' = [u \in Users |-> IF worker[u] = w /\ op[u][1] \in {"end", "enter"} THEN Idle ELSE op[u]]
  /\ UNCHANGED <<callv, roomv, randv>>

Offline(w, u) == \/ OfflineWake(w, u) \/ OfflineRandom(w, u) \/ OfflineCall(w, u)
                 \/ OfflineClear(w, u) \/ OfflineRoom(w, u) \/ OfflineEvict(w, u)
Handler(u) == CallEnded(u) \/ RoomEntered(u) \/ MatchPop(u) \/ MatchWrite(u)
Request(u) ==
  \/ \E v \in Users : CallOffer(u, v) \/ \E c \in Calls : CallAnswer(u, v, c)
                        \/ \E b \in BOOLEAN : CallEnd(u, v, c, b)
  \/ \E r \in Rooms : CreateRoom(u, r) \/ JoinByKey(u, r) \/ LeaveMyList(u, r) \/ RoomEnter(u, r)
                        \/ RoomLeave(u, r)
  \/ Queue(u) \/ Skip(u) \/ RandomLeave(u)
Next ==
  \/ \E u \in Users : Request(u) \/ Handler(u) \/ Depart(u) \/ \E w \in Workers : Arrive(u, w) \/ Offline(w, u)
  \/ \E r \in Rooms : DeleteRoom(r) \/ PurgeRead(r) \/ PurgeRun(r) \/ \E v \in Users : KickMember(r, v)
  \/ \E c \in Calls : Age(c)
  \/ \E p \in Pairs : ExpirePair(p)
  \/ \E e \in ending : EndPairRun(e)
  \/ \E w \in Workers : Crash(w)
\* Handlers and offline tasks run on; time passes for a call.
Fairness ==
  /\ \A u \in Users : WF_vars(Handler(u)) /\ \A w \in Workers : WF_vars(Offline(w, u))
  /\ \A c \in Calls : WF_vars(Age(c))
Spec == Init /\ [][Next]_vars /\ Fairness

-----------------------------------------------------------------------------
\* An entry that makes its user busy has its counterpart: whatever ends, offline tasks, stale
\* entries and new offers cross, _register_call and _clear_call leave no end of a call behind alone.
CallsPaired ==
  \A u \in Users : Busy(calls[u]) =>
    calls[calls[u].peer] = [c |-> calls[u].c, peer |-> u, age |-> calls[u].age]

\* The seats of a room are never more than its capacity, however many entrants passed the busy
\* check together, and its owner always keeps the membership row.
RoomKept == \A r \in Rooms : /\ Cardinality(live[r]) <= MaxInRoom
                             /\ owner[r] # Nobody => owner[r] \in member[r]

\* No entry of random:pair_by_uin outlives its pair: "we never leave dangling pair_by_uin entries
\* pointing at a deleted pair" (_end_pair), though a user may be written into two pairs.
NoDangling == \A u \in Users : pairOf[u] # Nobody => pair[pairOf[u]] # Gone

\* A user who goes away does not stay busy: the offline task frees the call and the room, and
\* when its worker died with it the call's entry goes stale.
GoneIsFree ==
  \A u \in Users : ~Online(u) ~> (Online(u) \/ (~Busy(calls[u]) /\ (crashed \/ pin[u] = Nobody)))
=============================================================================
