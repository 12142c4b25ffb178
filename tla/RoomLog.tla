------------------------------- MODULE RoomLog -------------------------------
(***************************************************************************)
(* The room log (app/services/group_log.py, the group half of              *)
(* app/routers/messages.py) as ONE account sees it: the devices of the     *)
(* account, the rooms it is in, the posts of everybody else.  A post       *)
(* becomes one row of its room's log, under the room's durable counter,    *)
(* and each (device, room) holds a cursor; an account all of whose         *)
(* queue-draining devices carry a reader mark gets no per-member copy of   *)
(* the post any more, so the cursor is all that keeps the post for it.     *)
(*                                                                         *)
(* Every handler is split at the points where it reads and where it        *)
(* commits (READ COMMITTED): posting, fetching, acknowledging, joining and *)
(* the stale-mark sweep are two or three steps each.                       *)
(***************************************************************************)
EXTENDS Integers, FiniteSets, FiniteSetsExt

CONSTANTS LogDevice,   \* installs of the account that speak the log
          Drainer,     \* installs that drain the per-member queue
          Room,
          Asked,       \* sets of rooms a client may name in a fetch
          Lane,        \* requests of one kind a device may have open
          MaxPosts,    \* bound on the posts made
          Events       \* which of "leave", "fail", "pin", "quiet", "expire" and
                       \* "resume" may happen in the instance

ASSUME LogAssumption == MaxPosts \in Nat

Post == 1..MaxPosts
Seq0 == 0..MaxPosts
None == -1

VARIABLES
  member,    \* rooms with a group_members row of the account
  drains,    \* devices with a queue_cursors row
  marked,    \* devices with a group_log_readers row
  cursor,    \* group_log_cursors.last_seq, None when there is no row
  head,      \* group_seq.next_seq
  logRows,   \* committed group_log rows the account is served
  post,      \* the posting requests
  fetch,     \* the open fetch of a device
  ack,       \* the open acknowledgement of a device
  join,      \* the open join of a room
  sweep,     \* marks the stale-mark sweep has read and is about to delete
  got,       \* posts a device has stored
  paged,     \* those of them a fetch answered with
  owed,      \* <<device, post>>: written to the log only, device established
  echo       \* <<room, seq>> published to sockets and then rolled back

tables == <<member, drains, marked, cursor, head, logRows>>
requests == <<post, fetch, ack, join, sweep>>
ghosts == <<got, paged, owed, echo>>
logVars == <<tables, requests, ghosts>>

NoPost == [pc |-> "unsent"]
NoFetch == [pc |-> "none"]
NoAck == [pc |-> "none"]
NoJoin == [pc |-> "none"]

LogInit ==
  /\ member \in SUBSET Room
  /\ drains \in SUBSET Drainer
  /\ marked = {}
  /\ cursor = [d \in LogDevice |-> [r \in Room |-> None]]
  /\ head = [r \in Room |-> 0]
  /\ logRows = {}
  /\ post = [i \in Post |-> NoPost]
  /\ fetch = [d \in LogDevice |-> NoFetch]
  /\ ack = [d \in LogDevice |-> [k \in Lane |-> NoAck]]
  /\ join = [r \in Room |-> NoJoin]
  /\ sweep = {}
  /\ got = [d \in LogDevice |-> {}] /\ paged = [d \in LogDevice |-> {}]
  /\ owed = {} /\ echo = {}

-----------------------------------------------------------------------------
(* Posting. *)

\* One device that reads the log moves the whole account.
AnyReader == marked # {}

\* The account needs no per-member copy: some device reads the log, and every
\* device that drains the queue does.
log_readers == marked # {} /\ drains \subseteq marked

Open(i) == post[i].pc \in {"decided", "written"}

NextPost(i) == post[i].pc = "unsent" /\ \A j \in Post : j < i => post[j].pc # "unsent"

\* send_group_sealed, send_group_broadcast up to the read of the readers.
\* `others`: some other recipient reads the log, so a broadcast is logged
\* whoever this account is; a sealed row is logged only for its own reader.
DecidePost(i, r, kind, others) ==
  LET reader == r \in member /\ log_readers
      devices == IF reader THEN drains \cup marked ELSE {} IN
  /\ NextPost(i)
  /\ reader \/ others
  /\ post' = [post EXCEPT ![i] =
       [pc |-> "decided", room |-> r, seq |-> 0,
        seen |-> IF reader \/ kind = "broadcast" THEN "yes" ELSE "no",
        live |-> IF kind = "broadcast" THEN "yes" ELSE "no",
        to |-> {d \in devices : d \in marked => cursor[d][r] # None}]]
  /\ UNCHANGED <<tables, fetch, ack, join, sweep, ghosts>>

\* The upsert of the room's counter waits for the post that holds its row.
RoomLocked(r) ==
  \E j \in Post : post[j].pc = "written" /\ post[j].room = r

\* _next_group_seq and the insert; a broadcast is then published, with its
\* seq, to the devices `on` that hold a socket, before the commit.
WritePost(i, on) ==
  /\ post[i].pc = "decided"
  /\ ~RoomLocked(post[i].room)
  /\ (post[i].live = "no" \/ post[i].room \notin member) => on = {}
  /\ post' = [post EXCEPT ![i].pc = "written", ![i].seq = head[post[i].room] + 1]
  /\ got' = [d \in LogDevice |-> IF d \in on THEN got[d] \cup {i} ELSE got[d]]
  /\ UNCHANGED <<tables, fetch, ack, join, sweep, paged, owed, echo>>

CounterAfter(r, s) == Max({head[r], s})

CommitPost(i) ==
  LET p == post[i] IN
  /\ p.pc = "written"
  /\ head' = [head EXCEPT ![p.room] = CounterAfter(p.room, p.seq)]
  /\ logRows' = IF p.seen = "yes" THEN logRows \cup {[id |-> i, room |-> p.room, seq |-> p.seq,
                                                       to |-> IF p.live = "yes" THEN "all" ELSE "account"]}
             ELSE logRows
  /\ owed' = owed \cup {<<d, i>> : d \in IF p.room \in member THEN p.to ELSE {}}
  /\ post' = [post EXCEPT ![i] = [pc |-> "done", room |-> p.room, seq |-> p.seq]]
  /\ UNCHANGED <<member, drains, marked, cursor, fetch, ack, join, sweep, got, paged, echo>>

\* Anything between the first statement and the commit may raise: the counter
\* goes back with the row, what the sockets were told does not.
FailPost(i) ==
  /\ "fail" \in Events /\ Open(i)
  /\ echo' = IF post[i].pc = "written" /\ post[i].live = "yes"
             THEN echo \cup {<<post[i].room, post[i].seq>>} ELSE echo
  /\ post' = [post EXCEPT ![i] = [pc |-> "failed", room |-> post[i].room, seq |-> post[i].seq]]
  /\ UNCHANGED <<tables, fetch, ack, join, sweep, got, paged, owed>>

-----------------------------------------------------------------------------
(* Fetching: all rooms of the account, or the rooms the client names. *)

\* The rows of room r above s that the account is served, in seq order the
\* first n of them (_fair_log_page: contiguous from the start).
LogAbove(r, s) == {w \in logRows : w.room = r /\ w.seq > s}

FirstOf(W, n) == {w \in W : Cardinality({v \in W : v.seq < w.seq}) < n}

\* The last position of the pages device d was answered with in room r.
LastSeq(d, r) == Max({None} \cup {post[i].seq : i \in {j \in paged[d] : post[j].room = r}})

\* Every room of the account, or the rooms the client names; in those of
\* `resume` it reads on from its last page instead of from its cursor.
BeginFetch(d, asked, resume) ==
  /\ fetch[d].pc = "none"
  /\ resume \subseteq asked /\ \A r \in resume : LastSeq(d, r) # None
  /\ fetch' = [fetch EXCEPT ![d] =
       [pc |-> "begun", rooms |-> asked \cap member,
        after |-> [r \in Room |-> IF r \in resume THEN LastSeq(d, r) ELSE None],
        at |-> cursor[d]]]
  /\ UNCHANGED <<tables, post, ack, join, sweep, ghosts>>

\* A cursor row another transaction of this device has inserted and not
\* committed: the upsert waits for it.
Seeded(d, r) == \/ fetch[d].pc = "paged" /\ r \in DOMAIN fetch[d].seed
                \/ join[r].pc = "seeded" /\ d \in join[r].devices

\* The head of each room, the seed of a cursor the first read found missing
\* (a row that appeared meanwhile is kept as it is), and the page: n rows of
\* each room the device is behind in.
ReadPage(d, n) ==
  LET f == fetch[d]
      fresh == {r \in f.rooms : f.at[r] = None /\ cursor[d][r] = None}
      at == [r \in Room |-> IF r \in fresh THEN head[r]
                            ELSE IF f.at[r] = None THEN cursor[d][r] ELSE f.at[r]]
      start == [r \in Room |-> IF f.after[r] # None THEN f.after[r] ELSE at[r]] IN
  /\ f.pc = "begun"
  /\ \A r \in f.rooms : f.at[r] = None => ~Seeded(d, r)
  /\ fetch' = [fetch EXCEPT ![d] =
       [pc |-> "paged", seed |-> [r \in fresh |-> head[r]],
        page |-> UNION {FirstOf(LogAbove(r, start[r]), n) : r \in {q \in f.rooms : head[q] > start[q]}}]]
  /\ UNCHANGED <<tables, post, ack, join, sweep, ghosts>>

MarkReader(d) == marked' = marked \cup {d}

\* The commit of the fetch.  Only an empty page earns the mark.  The answer
\* may be lost on the way to the client.
EndFetch(d, arrives) ==
  LET f == fetch[d] IN
  /\ f.pc = "paged"
  /\ cursor' = [cursor EXCEPT ![d] = [r \in Room |-> IF r \in DOMAIN f.seed THEN f.seed[r] ELSE @[r]]]
  /\ IF f.page = {} THEN MarkReader(d) ELSE UNCHANGED marked
  /\ LET new == IF arrives = "yes" THEN {w.id : w \in f.page} ELSE {} IN
       got' = [got EXCEPT ![d] = @ \cup new] /\ paged' = [paged EXCEPT ![d] = @ \cup new]
  /\ fetch' = [fetch EXCEPT ![d] = NoFetch]
  /\ UNCHANGED <<member, drains, head, logRows, post, ack, join, sweep, owed, echo>>

-----------------------------------------------------------------------------
(* Acknowledging. *)

\* What device d may acknowledge in r: a position of a page it was answered
\* with and has stored, or a post it stored from the socket when it holds every
\* row between its cursor and that.
Ackable(d, r) ==
  {post[i].seq : i \in {j \in got[d] :
     /\ post[j].room = r
     /\ \/ j \in paged[d]
        \/ \A w \in LogAbove(r, cursor[d][r]) : w.seq <= post[j].seq => w.id \in got[d]}}

BeginAck(d, k, upto) ==
  /\ ack[d][k].pc = "none"
  /\ \A r \in Room : upto[r] = 0 \/ upto[r] \in Ackable(d, r)
  /\ \E r \in Room : upto[r] # 0
  /\ ack' = [ack EXCEPT ![d][k] = [pc |-> "begun", upto |-> upto, known |-> cursor[d]]]
  /\ UNCHANGED <<tables, post, fetch, join, sweep, ghosts>>

\* The statement itself never takes a cursor back.
Forward(at, upto) == Max({at, upto})

\* A room is written unless the position read first is already there.
Moved(a) == {r \in Room : a.upto[r] # 0 /\ a.upto[r] > a.known[r]}

EndAck(d, k) ==
  LET a == ack[d][k] IN
  /\ a.pc = "begun"
  /\ \A r \in Moved(a) : ~Seeded(d, r)
  /\ cursor' = [cursor EXCEPT ![d] = [r \in Room |-> IF r \in Moved(a) THEN Forward(@[r], a.upto[r]) ELSE @[r]]]
  /\ IF Moved(a) # {} THEN MarkReader(d) ELSE UNCHANGED marked
  /\ ack' = [ack EXCEPT ![d][k] = NoAck]
  /\ UNCHANGED <<member, drains, head, logRows, post, fetch, join, sweep, ghosts>>

-----------------------------------------------------------------------------
(* Membership. *)

\* join_group, add_member, add_guest, the tail of a registration:
\* seed_cursors_on_join reads the marks and the head, inserts the cursors.
BeginJoin(r) ==
  /\ join[r].pc = "none" /\ r \notin member
  /\ \A d \in marked : ~Seeded(d, r)
  /\ join' = [join EXCEPT ![r] =
       [pc |-> "seeded", devices |-> {d \in marked : cursor[d][r] = None}, head |-> head[r]]]
  /\ UNCHANGED <<tables, post, fetch, ack, sweep, ghosts>>

EndJoin(r) ==
  /\ join[r].pc = "seeded"
  /\ member' = member \cup {r}
  /\ cursor' = [d \in LogDevice |-> IF d \in join[r].devices
                                THEN [cursor[d] EXCEPT ![r] = join[r].head] ELSE cursor[d]]
  /\ join' = [join EXCEPT ![r] = NoJoin]
  /\ UNCHANGED <<drains, marked, head, logRows, post, fetch, ack, sweep, ghosts>>

\* remove_member: the membership row, the rows sealed to the account and the
\* cursors in one transaction.
Leave(r) ==
  /\ "leave" \in Events
  /\ r \in member
  /\ member' = member \ {r}
  /\ cursor' = [d \in LogDevice |-> [cursor[d] EXCEPT ![r] = None]]
  /\ logRows' = {w \in logRows : w.room # r \/ w.to = "all"}
  /\ owed' = {p \in owed : post[p[2]].room # r}
  /\ post' = [i \in Post |-> IF Open(i) /\ post[i].room = r
                            THEN [post[i] EXCEPT !.to = {}] ELSE post[i]]
  /\ UNCHANGED <<drains, marked, head, fetch, ack, join, sweep, got, paged, echo>>

-----------------------------------------------------------------------------
(* The queue's cursors (module OfflineQueue) and the sweeps. *)

LogPin(d) ==
  /\ "pin" \in Events /\ d \notin drains
  /\ drains' = drains \cup {d}
  /\ UNCHANGED <<member, marked, cursor, head, logRows, requests, ghosts>>

Unpin(d) ==
  /\ "pin" \in Events /\ d \in drains
  /\ drains' = drains \ {d}
  /\ UNCHANGED <<member, marked, cursor, head, logRows, requests, ghosts>>

\* sweep_once of the stale-mark sweep: the rows STALE_READER_DAYS have passed
\* over are read, and deleted by key in a later statement.  How many of them
\* the valve lets through depends on the other marks of the island.
ReadStale(S) ==
  /\ "quiet" \in Events
  /\ sweep = {} /\ S # {} /\ S \subseteq marked
  /\ sweep' = S
  /\ UNCHANGED <<tables, post, fetch, ack, join, ghosts>>

Demote ==
  /\ sweep # {}
  /\ marked' = marked \ sweep
  /\ sweep' = {}
  /\ UNCHANGED <<member, drains, cursor, head, logRows, post, fetch, ack, join, ghosts>>

\* _sweep_once of the queue sweep: rows past the TTL, and the cursors of
\* rooms the account is not in.
Expire(w) ==
  /\ "expire" \in Events /\ w \in logRows
  /\ logRows' = logRows \ {w}
  /\ owed' = {p \in owed : p[2] # w.id}
  /\ UNCHANGED <<member, drains, marked, cursor, head, requests, got, paged, echo>>

SweepCursors ==
  /\ \E d \in LogDevice, r \in Room \ member : cursor[d][r] # None
  /\ cursor' = [d \in LogDevice |-> [r \in Room |-> IF r \in member THEN cursor[d][r] ELSE None]]
  /\ UNCHANGED <<member, drains, marked, head, logRows, requests, ghosts>>

-----------------------------------------------------------------------------
PostStep ==
  \/ \E i \in Post, r \in Room, kind \in {"broadcast", "sealed"}, others \in BOOLEAN : DecidePost(i, r, kind, others)
  \/ \E i \in Post, on \in SUBSET LogDevice : WritePost(i, on)
  \/ \E i \in Post : CommitPost(i) \/ FailPost(i)

DeviceStep ==
  \E d \in LogDevice :
    \/ \E asked \in Asked, resume \in SUBSET (IF "resume" \in Events THEN Room ELSE {}) : BeginFetch(d, asked, resume)
    \/ \E n \in 1..MaxPosts : ReadPage(d, n)
    \/ \E arrives \in {"yes", "no"} : EndFetch(d, arrives)
    \/ \E k \in Lane : EndAck(d, k) \/ \E upto \in [Room -> Seq0] : BeginAck(d, k, upto)

MemberStep == \E r \in Room : BeginJoin(r) \/ EndJoin(r) \/ Leave(r)

SweepStep ==
  \/ \E d \in Drainer : LogPin(d) \/ Unpin(d)
  \/ \E S \in SUBSET LogDevice : ReadStale(S)
  \/ Demote \/ SweepCursors
  \/ \E w \in logRows : Expire(w)

LogNext == PostStep \/ DeviceStep \/ MemberStep \/ SweepStep

LogSpec == LogInit /\ [][LogNext]_logVars

-----------------------------------------------------------------------------
\* Post i is still to be had from the log by device d: its row is there, above
\* the cursor of the device.
Served(d, i) == \E w \in logRows : w.id = i /\ d \in LogDevice /\ cursor[d][w.room] # None /\ cursor[d][w.room] < w.seq

OwedKept(P) == \A p \in P : \/ p[1] \in LogDevice /\ p[2] \in got[p[1]]
                        \/ Served(p[1], p[2])

\* A post the island stopped copying into the per-member queue of the account
\* (log_readers) is stored by each device that relied on it or still served
\* to it by the log, however posts, fetches, acknowledgements, joins and the
\* sweeps interleave, for a device whose mark was backed by a cursor in the
\* room and a seq that was published once.
LogKept == OwedKept({p \in owed : <<post[p[2]].room, post[p[2]].seq>> \notin echo})
=============================================================================
