--------------------------- MODULE RoomLogProofs ----------------------------
(***************************************************************************)
(* Proofs about module RoomLog, for any devices, rooms, number of posts    *)
(* and open requests: a post that was written to the room log only is      *)
(* stored by each device that relied on it or still served to it.  The     *)
(* inductive invariant is about positions: whatever position of a room a   *)
(* device or one of its requests holds, the counter has reached it and all *)
(* that the device is owed up to it is stored.                             *)
(***************************************************************************)
EXTENDS RoomLog, FiniteSetTheorems, WellFoundedInduction, TLAPS

Flags == {"yes", "no"}
Place == Nat \cup {None}
Places == [Room -> Place]
OpenPosts == [pc : {"decided", "written"}, room : Room, seq : Nat, seen : Flags, live : Flags, to : SUBSET LogDevice]
ClosedPosts == [pc : {"done", "failed"}, room : Room, seq : Nat]
LogRow == [id : Post, room : Room, seq : Nat, to : {"all", "account"}]
Fetches == [pc : {"begun"}, rooms : SUBSET Room, after : Places, at : Places]
IsPage(f) == f.pc = "paged" /\ f = [pc |-> "paged", seed |-> f.seed, page |-> f.page] /\ f.page \subseteq LogRow
Acks == [pc : {"begun"}, upto : [Room -> Nat], known : Places]
Joins == [pc : {"seeded"}, devices : SUBSET LogDevice, head : Nat]

LogTypes ==
  /\ member \subseteq Room /\ marked \subseteq LogDevice
  /\ cursor \in [LogDevice -> Places] /\ head \in [Room -> Nat]
  /\ post \in [Post -> {NoPost} \cup OpenPosts \cup ClosedPosts]
  /\ IsFiniteSet(logRows) /\ logRows \subseteq LogRow
  /\ fetch = [d \in LogDevice |-> fetch[d]]
  /\ \A d \in LogDevice : fetch[d] \in {NoFetch} \cup Fetches \/ IsPage(fetch[d])
  /\ ack \in [LogDevice -> [Lane -> {NoAck} \cup Acks]]
  /\ join \in [Room -> {NoJoin} \cup Joins]
  /\ got \in [LogDevice -> SUBSET Post] /\ paged \in [LogDevice -> SUBSET Post]
  /\ owed \subseteq LogDevice \X Post

\* Post i reaches device d by the log only, or will once it commits.
Owes(d, i) == <<d, i>> \in owed \/ (post[i].pc = "written" /\ d \in post[i].to)

\* What of room r the device is owed up to position s, it has stored.
Stored(d, r, s, G) ==
  \A i \in Post : Owes(d, i) /\ post[i].room = r /\ post[i].seq <= s /\ <<r, post[i].seq>> \notin echo => i \in G

\* No position lies beyond the counter, but for that of a post the sockets
\* were told of before it commits.
Reached(d, r, s) ==
  \/ s <= head[r]
  \/ /\ s = head[r] + 1
     /\ <<r, s>> \in echo \/ \E i \in got[d] : post[i].pc = "written" /\ post[i].room = r

Position(d, r, s) == s \in Nat /\ Reached(d, r, s) /\ Stored(d, r, s, got[d])

HasPage(d) == fetch[d].pc = "paged"

\* The positions of room r that device d, or a request of it, holds.
Holds(d, r, s) ==
  \/ s = cursor[d][r] /\ s # None
  \/ \E i \in paged[d] : post[i].room = r /\ s = post[i].seq
  \/ \E k \in Lane : ack[d][k].pc = "begun" /\ s = ack[d][k].upto[r] /\ s # 0
  \/ fetch[d].pc = "begun" /\ s # None /\ (s = fetch[d].at[r] \/ s = fetch[d].after[r])
  \/ HasPage(d) /\ r \in DOMAIN fetch[d].seed /\ s = fetch[d].seed[r]
  \/ join[r].pc = "seeded" /\ d \in join[r].devices /\ s = join[r].head

HeldOK == \A d \in LogDevice, r \in Room : \A s : Holds(d, r, s) => Position(d, r, s)

\* A row of the log, or of a page read from it.
RowOK(w) == post[w.id].pc = "done" /\ post[w.id].room = w.room /\ post[w.id].seq = w.seq

\* A page is contiguous: a device that stores it has all up to its last row.
PageOK(d) ==
  HasPage(d) =>
    \A w \in fetch[d].page :
      RowOK(w) /\ Stored(d, w.room, w.seq, got[d] \cup {v.id : v \in fetch[d].page})

\* The counter's row lock: a post in flight has the next seq of its room, alone.
PostOK(i) ==
  /\ post[i].pc = "written" =>
       /\ post[i].seq = head[post[i].room] + 1
       /\ \A j \in Post : post[j].pc = "written" /\ post[j].room = post[i].room => j = i
  /\ post[i].pc = "done" => post[i].seq <= head[post[i].room]
  /\ Open(i) => \A d \in post[i].to :
       post[i].seen = "yes" /\ post[i].room \in member /\ cursor[d][post[i].room] # None

OwedOK ==
  \A p \in owed : /\ post[p[2]].pc = "done" /\ post[p[2]].room \in member
                  /\ cursor[p[1]][post[p[2]].room] # None
                  /\ \E w \in logRows : w.id = p[2]

GotOne(d, i) ==
  /\ post[i].pc \in {"written", "done", "failed"}
  /\ post[i].pc = "written" => post[i].live = "yes"
  /\ Reached(d, post[i].room, post[i].seq)

GotOK(d) == paged[d] \subseteq got[d] /\ \A i \in got[d] : GotOne(d, i)

LogInv ==
  /\ LogTypes /\ OwedOK /\ HeldOK
  /\ \A i \in Post : PostOK(i)
  /\ \A w \in logRows : RowOK(w)
  /\ \A d \in LogDevice : GotOK(d) /\ PageOK(d)

-----------------------------------------------------------------------------
\* The larger of two places.
LEMMA MaxOfTwo ==
  ASSUME NEW a \in Int, NEW b \in Int
  PROVE  Max({a, b}) \in {a, b} /\ Max({a, b}) >= a /\ Max({a, b}) >= b
<1>1. \E x \in {a, b} : \A y \in {a, b} : x >= y
  <2>1. CASE a >= b
    BY <2>1
  <2>2. CASE b >= a
    BY <2>2
  <2>. QED  BY <2>1, <2>2
<1>2. Max({a, b}) \in {a, b} /\ \A y \in {a, b} : Max({a, b}) >= y
  BY Zenon, <1>1 DEF Max
<1>. QED  BY Zenon, <1>2

\* A bounded set of places has a largest.
LEMMA MaxOfPlaces ==
  ASSUME NEW S, S \subseteq Place, S # {}, NEW n \in Nat, \A x \in S : x <= n
  PROVE  Max(S) \in S
<1>. DEFINE T == {n - x : x \in S}
<1>1. T \subseteq Nat /\ T # {}
  BY DEF Place, None
<1>2. PICK m \in T : \A y \in T : ~ (<<y, m>> \in OpToRel(<, Nat))
  BY Zenon, <1>1, NatLessThanWellFounded, WFMin
<1>3. \A y \in T : y < m => <<y, m>> \in OpToRel(<, Nat)
  BY Zenon, <1>1 DEF OpToRel
<1>4. PICK z \in S : m = n - z
  BY Zenon, <1>2
<1>5. \A y \in S : ~ (n - y < n - z)
  BY Zenon, <1>2, <1>3, <1>4
<1>6. \A y \in S : z >= y
  <2>. TAKE y \in S
  <2>1. z \in Int /\ y \in Int /\ ~ (n - y < n - z)
    BY <1>5 DEF Place, None
  <2>. QED  BY <2>1
<1>. QED  BY Zenon, <1>6 DEF Max

\* What a post is at each point.
LEMMA PostKinds ==
  ASSUME NEW q \in {NoPost} \cup OpenPosts \cup ClosedPosts
  PROVE  /\ q.pc = "unsent" => q = NoPost
         /\ q.pc \in {"decided", "written"} => q \in OpenPosts
         /\ q.pc \in {"done", "failed"} => q \in ClosedPosts
<1>1. q = NoPost => q.pc = "unsent"
  BY DEF NoPost
<1>2. q \in OpenPosts => q.pc \in {"decided", "written"}
  BY Zenon DEF OpenPosts
<1>3. q \in ClosedPosts => q.pc \in {"done", "failed"}
  BY Zenon DEF ClosedPosts
<1>. QED  BY Zenon, <1>1, <1>2, <1>3

\* A post under way.
LEMMA OpenTyped ==
  ASSUME LogTypes, NEW i \in Post, Open(i)
  PROVE  post[i] \in OpenPosts
BY Zenon, PostKinds DEF LogTypes, Open

\* The invariant implies the property: a device owed a post has a cursor, and
\* the row is there; if the cursor has passed it, the device has stored it.
LEMMA LogInvKept == LogInv => LogKept
<1>. SUFFICES ASSUME LogInv, NEW p \in owed, <<post[p[2]].room, post[p[2]].seq>> \notin echo
              PROVE  (p[1] \in LogDevice /\ p[2] \in got[p[1]]) \/ Served(p[1], p[2])
  BY Zenon DEF LogKept, OwedKept
<1>1. PICK d \in LogDevice, i \in Post : p = <<d, i>>
  BY DEF LogInv, LogTypes
<1>2. PICK w \in logRows : w.id = i
  BY Zenon, <1>1 DEF LogInv, OwedOK
<1>3. /\ post[i].pc = "done" /\ cursor[d][post[i].room] # None
      /\ w.room = post[i].room /\ w.seq = post[i].seq /\ w.room \in Room /\ w.seq \in Nat
  BY Zenon, <1>1, <1>2 DEF LogInv, OwedOK, RowOK, LogTypes, LogRow
<1>4. Position(d, w.room, cursor[d][w.room])
  BY Zenon, <1>3 DEF LogInv, HeldOK, Holds
<1>5. CASE w.seq <= cursor[d][w.room]
  <2>1. i \in got[d]
    BY Zenon, <1>1, <1>3, <1>4, <1>5 DEF Position, Stored, Owes
  <2>. QED  BY Zenon, <1>1, <2>1
<1>6. CASE ~ (w.seq <= cursor[d][w.room])
  <2>1. cursor[d][w.room] < w.seq
    BY <1>3, <1>4, <1>6 DEF Position
  <2>. QED  BY Zenon, <1>1, <1>2, <1>3, <2>1 DEF Served
<1>. QED  BY Zenon, <1>5, <1>6

\* A position stays one while the posts stay as they are.
LEMMA PositionQuiet ==
  ASSUME NEW d, NEW r, NEW s, Position(d, r, s), UNCHANGED <<head, post, echo>>,
         owed' \subseteq owed, got[d] \subseteq got'[d]
  PROVE  Position(d, r, s)'
<1>1. Reached(d, r, s)'
  BY Zenon DEF Position, Reached
<1>2. Stored(d, r, s, got[d])'
  BY Zenon DEF Position, Stored, Owes
<1>. QED  BY Zenon, <1>1, <1>2 DEF Position

\* Steps that touch no post.
LEMMA QuietLog ==
  ASSUME LogInv, LogTypes', UNCHANGED <<head, post, echo>>, owed' \subseteq owed, logRows' \subseteq logRows,
         \A w \in logRows : w \in logRows' \/ \A d \in LogDevice : <<d, w.id>> \notin owed',
         member \subseteq member',
         \A d \in LogDevice, r \in member : cursor[d][r] # None => cursor'[d][r] # None,
         \A d \in LogDevice : got[d] \subseteq got'[d] /\ GotOK(d)' /\ PageOK(d)',
         \A d \in LogDevice, r \in Room : \A s : Holds(d, r, s)' => Holds(d, r, s) \/ Position(d, r, s)'
  PROVE  LogInv'
<1>1. HeldOK'
  <2>. SUFFICES ASSUME NEW d \in LogDevice, NEW r \in Room, NEW s, Holds(d, r, s)
                PROVE  Position(d, r, s)'
    BY Zenon DEF HeldOK
  <2>1. Position(d, r, s)
    BY Zenon DEF LogInv, HeldOK
  <2>. QED  BY Zenon, <2>1, PositionQuiet
<1>2. OwedOK'
  <2>. SUFFICES ASSUME NEW p \in owed'
                PROVE  /\ post[p[2]].pc = "done" /\ post[p[2]].room \in member'
                       /\ cursor'[p[1]][post[p[2]].room] # None
                       /\ \E w \in logRows' : w.id = p[2]
    BY Zenon DEF OwedOK
  <2>1. PICK d \in LogDevice, i \in Post : p = <<d, i>>
    BY DEF LogInv, LogTypes
  <2>2. PICK w \in logRows : w.id = i
    BY Zenon, <2>1 DEF LogInv, OwedOK
  <2>3. w \in logRows'
    BY Zenon, <2>1, <2>2
  <2>4. post[i].pc = "done" /\ post[i].room \in member /\ cursor[d][post[i].room] # None
    BY Zenon, <2>1 DEF LogInv, OwedOK
  <2>. QED  BY Zenon, <2>1, <2>2, <2>3, <2>4
<1>3. \A i \in Post : PostOK(i)'
  <2>. SUFFICES ASSUME NEW i \in Post PROVE PostOK(i)'
    BY Zenon
  <2>1. PostOK(i)
    BY Zenon DEF LogInv
  <2>2. Open(i) => post[i].to \subseteq LogDevice
    BY Zenon, OpenTyped DEF LogInv, OpenPosts
  <2>. QED  BY Zenon, <2>1, <2>2 DEF PostOK, Open
<1>4. \A w \in logRows' : RowOK(w)'
  BY Zenon DEF LogInv, RowOK
<1>. QED  BY Zenon, <1>1, <1>2, <1>3, <1>4 DEF LogInv

\* What a device has stored stays as it is when no post changes.
LEMMA GotQuiet ==
  ASSUME LogInv, UNCHANGED <<head, post, echo, got, paged>>, NEW d \in LogDevice
  PROVE  GotOK(d)'
BY DEF LogInv, GotOK, GotOne, Reached

\* So does a page.
LEMMA PageQuiet ==
  ASSUME LogInv, UNCHANGED <<head, post, echo>>, owed' \subseteq owed, NEW d \in LogDevice, got[d] \subseteq got'[d],
         fetch'[d] = fetch[d] \/ fetch'[d].pc # "paged"
  PROVE  PageOK(d)'
<1>. SUFFICES ASSUME fetch'[d] = fetch[d], HasPage(d), NEW w \in fetch[d].page
              PROVE  RowOK(w)' /\ Stored(d, w.room, w.seq, got[d] \cup {v.id : v \in fetch[d].page})'
  BY Zenon DEF PageOK, HasPage
<1>1. RowOK(w) /\ Stored(d, w.room, w.seq, got[d] \cup {v.id : v \in fetch[d].page})
  BY Zenon DEF LogInv, PageOK
<1>. QED  BY Zenon, <1>1 DEF RowOK, Stored, Owes

\* A device's requests to pin, and the sweep of stale marks.
LEMMA MarksKeep ==
  ASSUME LogInv, LogTypes', UNCHANGED <<member, cursor, head, logRows, post, fetch, ack, join, ghosts>>
  PROVE  LogInv'
<1>1. \A d \in LogDevice : GotOK(d)' /\ PageOK(d)'
  BY Zenon, GotQuiet, PageQuiet DEF ghosts
<1>2. \A d \in LogDevice, r \in Room : \A s : Holds(d, r, s)' => Holds(d, r, s)
  BY DEF Holds, HasPage, ghosts
<1>. QED  BY Zenon, <1>1, <1>2, QuietLog DEF ghosts

\* A fetch begins: it holds the cursors, and the last page of the rooms it
\* resumes.
LEMMA BeginFetchKeeps ==
  ASSUME LogInv, NEW d \in LogDevice, NEW asked, NEW resume, BeginFetch(d, asked, resume)
  PROVE  LogInv'
<1>. DEFINE after == [r \in Room |-> IF r \in resume THEN LastSeq(d, r) ELSE None]
            f == [pc |-> "begun", rooms |-> asked \cap member, after |-> after, at |-> cursor[d]]
<1>1. fetch' = [fetch EXCEPT ![d] = f] /\ UNCHANGED <<tables, post, ack, join, sweep, ghosts>>
  BY Zenon DEF BeginFetch
<1>2. ASSUME NEW r \in Room, after[r] # None
      PROVE  \E i \in paged[d] : post[i].room = r /\ after[r] = post[i].seq
  <2>. DEFINE S == {None} \cup {post[i].seq : i \in {j \in paged[d] : post[j].room = r}}
  <2>1. \A i \in paged[d] : post[i].room = r => post[i].seq \in Nat /\ post[i].seq <= head[r] + 1
    <3>. SUFFICES ASSUME NEW i \in paged[d], post[i].room = r
                  PROVE  post[i].seq \in Nat /\ post[i].seq <= head[r] + 1
      BY Zenon
    <3>1. Holds(d, r, post[i].seq)
      BY Zenon DEF Holds
    <3>2. Position(d, r, post[i].seq) /\ head[r] \in Nat
      BY Zenon, <3>1 DEF LogInv, HeldOK, LogTypes
    <3>. QED  BY <3>2 DEF Position, Reached
  <2>2. head[r] + 1 \in Nat /\ S \subseteq Place /\ S # {} /\ \A x \in S : x <= head[r] + 1
    BY <2>1 DEF LogInv, LogTypes, Place, None
  <2>3. Max(S) \in S
    BY Zenon, <2>2, MaxOfPlaces
  <2>4. after[r] = Max(S)
    BY Zenon, <1>2 DEF LastSeq
  <2>. QED  BY Zenon, <1>2, <2>3, <2>4
<1>3. after \in Places /\ cursor[d] \in Places
  <2>1. \A r \in Room : after[r] \in Place
    <3>. TAKE r \in Room
    <3>1. ASSUME NEW i \in paged[d], post[i].room = r PROVE post[i].seq \in Nat
      BY Zenon, <3>1 DEF LogInv, HeldOK, Holds, Position
    <3>. QED  BY Zenon, <1>2, <3>1 DEF Place
  <2>. QED  BY Zenon, <2>1 DEF Places, LogInv, LogTypes
<1>. HIDE DEF after
<1>4. f \in Fetches /\ f.pc = "begun" /\ f.at = cursor[d] /\ f.after = after
  BY Zenon, <1>3 DEF Fetches, LogInv, LogTypes
<1>. HIDE DEF f
<1>5. /\ fetch'[d] = f /\ \A e \in LogDevice : e # d => fetch'[e] = fetch[e]
      /\ fetch' = [e \in LogDevice |-> fetch'[e]]
  BY Zenon, <1>1 DEF LogInv, LogTypes
<1>6. LogTypes'
  BY Zenon, <1>1, <1>4, <1>5 DEF LogInv, LogTypes, tables, ghosts
<1>7. \A e \in LogDevice : GotOK(e)' /\ PageOK(e)'
  BY Zenon, <1>1, <1>4, <1>5, GotQuiet, PageQuiet DEF tables, ghosts
<1>8. ASSUME NEW e \in LogDevice, NEW r \in Room, NEW s, Holds(e, r, s)' PROVE Holds(e, r, s)
  <2>1. CASE e = d
    BY <1>1, <1>2, <1>4, <1>5, <1>8, <2>1 DEF Holds, HasPage, tables, ghosts
  <2>2. CASE e # d
    BY Zenon, <1>1, <1>5, <1>8, <2>2 DEF Holds, HasPage, tables, ghosts
  <2>. QED  BY Zenon, <2>1, <2>2
<1>. QED  BY Zenon, <1>1, <1>6, <1>7, <1>8, QuietLog DEF tables, ghosts
\* A fetch reads its page: the rows the log keeps above a position, the first
\* of them, and so all the device is owed up to the last row of the page.
LEMMA FirstIsPrefix ==
  ASSUME NEW W, IsFiniteSet(W), \A u \in W : u.seq \in Nat, NEW n \in Nat,
         NEW w \in FirstOf(W, n), NEW v \in W, v.seq <= w.seq
  PROVE  v \in FirstOf(W, n)
<1>. DEFINE A == {u \in W : u.seq < v.seq}
            B == {u \in W : u.seq < w.seq}
<1>1. A \subseteq B /\ B \subseteq W
  BY DEF FirstOf
<1>2. IsFiniteSet(B) /\ Cardinality(B) < n
  BY Zenon, <1>1, FS_Subset DEF FirstOf
<1>3. Cardinality(A) <= Cardinality(B) /\ Cardinality(A) \in Nat /\ Cardinality(B) \in Nat
  BY Zenon, <1>1, <1>2, FS_Subset, FS_CardinalityType
<1>4. Cardinality(A) < n
  BY <1>2, <1>3
<1>. QED  BY Zenon, <1>4 DEF FirstOf

\* Where a room is read from.
PageFrom(d, r) ==
  LET f == fetch[d]
      fresh == {q \in f.rooms : f.at[q] = None /\ cursor[d][q] = None} IN
  IF f.after[r] # None THEN f.after[r]
  ELSE IF r \in fresh THEN head[r] ELSE IF f.at[r] = None THEN cursor[d][r] ELSE f.at[r]

\* A device without a cursor in a room is owed nothing of it.
LEMMA NoCursorNoDebt ==
  ASSUME LogInv, NEW d \in LogDevice, NEW r \in Room, r \notin member \/ cursor[d][r] = None
  PROVE  Position(d, r, head[r])
<1>1. head[r] \in Nat /\ Reached(d, r, head[r])
  BY DEF LogInv, LogTypes, Reached
<1>2. ASSUME NEW i \in Post, Owes(d, i), post[i].room = r PROVE FALSE
  <2>1. CASE <<d, i>> \in owed
    BY Zenon, <1>2, <2>1 DEF LogInv, OwedOK
  <2>2. CASE post[i].pc = "written" /\ d \in post[i].to
    BY Zenon, <1>2, <2>2 DEF LogInv, PostOK, Open
  <2>. QED  BY Zenon, <1>2, <2>1, <2>2 DEF Owes
<1>. QED  BY Zenon, <1>1, <1>2 DEF Position, Stored

\* A fetch reads every room from a position.
LEMMA PageFromHeld ==
  ASSUME LogInv, NEW d \in LogDevice, fetch[d].pc = "begun", NEW r \in fetch[d].rooms
  PROVE  Position(d, r, PageFrom(d, r)) /\ r \in Room
<1>1. fetch[d] \in Fetches
  <2>1. NoFetch.pc = "none"
    BY Zenon DEF NoFetch
  <2>. QED  BY Zenon, <2>1 DEF LogInv, LogTypes, IsPage
<1>2. r \in Room
  BY Zenon, <1>1 DEF Fetches
<1>3. CASE fetch[d].after[r] # None
  BY Zenon, <1>2, <1>3 DEF PageFrom, LogInv, HeldOK, Holds
<1>4. CASE fetch[d].after[r] = None /\ fetch[d].at[r] # None
  BY Zenon, <1>2, <1>4 DEF PageFrom, LogInv, HeldOK, Holds
<1>5. CASE fetch[d].after[r] = None /\ fetch[d].at[r] = None /\ cursor[d][r] = None
  BY Zenon, <1>2, <1>5, NoCursorNoDebt DEF PageFrom
<1>6. CASE fetch[d].after[r] = None /\ fetch[d].at[r] = None /\ cursor[d][r] # None
  BY Zenon, <1>2, <1>6 DEF PageFrom, LogInv, HeldOK, Holds
<1>. QED  BY Zenon, <1>2, <1>3, <1>4, <1>5, <1>6
\* The page is a prefix, room by room.
LEMMA PagePrefix ==
  ASSUME LogInv, NEW d \in LogDevice, fetch[d].pc = "begun", NEW r \in fetch[d].rooms, NEW n \in Nat,
         NEW w \in FirstOf(LogAbove(r, PageFrom(d, r)), n), NEW i \in Post,
         Owes(d, i), post[i].room = r, post[i].seq <= w.seq, <<r, post[i].seq>> \notin echo
  PROVE  i \in got[d] \/ \E v \in FirstOf(LogAbove(r, PageFrom(d, r)), n) : v.id = i
<1>. DEFINE W == LogAbove(r, PageFrom(d, r))
<1>1. Position(d, r, PageFrom(d, r)) /\ r \in Room
  BY Zenon, PageFromHeld
<1>2. IsFiniteSet(W) /\ (\A u \in W : u.seq \in Nat /\ u \in logRows) /\ w \in W
  BY Zenon, FS_Subset DEF LogInv, LogTypes, LogRow, LogAbove, FirstOf
<1>3. w.room = r /\ w.seq \in Nat /\ w.seq <= head[r] /\ head[r] \in Nat
  BY <1>1, <1>2 DEF LogAbove, LogInv, RowOK, PostOK, LogTypes, LogRow
<1>4. <<d, i>> \in owed
  <2>1. ASSUME post[i].pc = "written" PROVE FALSE
    BY <1>3, <2>1 DEF LogInv, PostOK
  <2>. QED  BY Zenon, <2>1 DEF Owes
<1>5. PICK v \in logRows : v.id = i
  BY Zenon, <1>4 DEF LogInv, OwedOK
<1>6. v.room = r /\ v.seq = post[i].seq /\ v.seq \in Nat
  BY Zenon, <1>5 DEF LogInv, RowOK, LogTypes, LogRow
<1>7. CASE v.seq <= PageFrom(d, r)
  BY Zenon, <1>1, <1>6, <1>7 DEF Position, Stored
<1>8. CASE ~ (v.seq <= PageFrom(d, r))
  <2>1. v \in W
    BY <1>1, <1>5, <1>6, <1>8 DEF LogAbove, Position
  <2>2. v \in FirstOf(W, n)
    BY Zenon, <1>2, <1>6, <2>1, FirstIsPrefix
  <2>. QED  BY Zenon, <1>5, <2>2
<1>. QED  BY Zenon, <1>7, <1>8

\* The read of the page seeds cursors at the head and holds a contiguous page.
LEMMA ReadPageKeeps ==
  ASSUME LogInv, NEW d \in LogDevice, NEW n \in Nat, ReadPage(d, n)
  PROVE  LogInv'
<1>. DEFINE f == fetch[d]
            fresh == {r \in f.rooms : f.at[r] = None /\ cursor[d][r] = None}
            seed == [r \in fresh |-> head[r]]
            P == UNION {FirstOf(LogAbove(r, PageFrom(d, r)), n) : r \in {q \in f.rooms : head[q] > PageFrom(d, q)}}
            t == [pc |-> "paged", seed |-> seed, page |-> P]
<1>1. fetch' = [fetch EXCEPT ![d] = t] /\ UNCHANGED <<tables, post, ack, join, sweep, ghosts>> /\ f.pc = "begun"
  <2>1. f.rooms \subseteq Room
    BY Zenon, PageFromHeld DEF ReadPage
  <2>. DEFINE at == [r \in Room |-> IF r \in fresh THEN head[r]
                                    ELSE IF f.at[r] = None THEN cursor[d][r] ELSE f.at[r]]
              start == [r \in Room |-> IF f.after[r] # None THEN f.after[r] ELSE at[r]]
  <2>2. \A r \in f.rooms : start[r] = PageFrom(d, r)
    BY Zenon, <2>1 DEF PageFrom
  <2>3. UNION {FirstOf(LogAbove(r, start[r]), n) : r \in {q \in f.rooms : head[q] > start[q]}} = P
    <3>. HIDE DEF start
    <3>. QED  BY Zenon, <2>2
  <2>. QED  BY Zenon, <2>3 DEF ReadPage
<1>2. t.pc = "paged" /\ t.seed = seed /\ t.page = P /\ t = [pc |-> "paged", seed |-> t.seed, page |-> t.page]
  BY Zenon
<1>3. \A w \in P : \E r \in f.rooms : /\ w \in FirstOf(LogAbove(r, PageFrom(d, r)), n) /\ w.room = r /\ w \in logRows
                                      /\ FirstOf(LogAbove(r, PageFrom(d, r)), n) \subseteq P
  BY Zenon DEF FirstOf, LogAbove
<1>. HIDE DEF P
<1>4. /\ \A r \in fresh : seed[r] = head[r] /\ r \in Room /\ cursor[d][r] = None
      /\ DOMAIN seed = fresh
  BY Zenon, <1>1, PageFromHeld
<1>. HIDE DEF seed, fresh
<1>5. P \subseteq LogRow
  BY Zenon, <1>3 DEF LogInv, LogTypes
<1>. HIDE DEF t
<1>6. /\ fetch'[d] = t /\ \A e \in LogDevice : e # d => fetch'[e] = fetch[e]
      /\ fetch' = [e \in LogDevice |-> fetch'[e]]
  BY Zenon, <1>1 DEF LogInv, LogTypes
<1>7. LogTypes'
  BY Zenon, <1>1, <1>2, <1>5, <1>6 DEF LogInv, LogTypes, tables, ghosts, IsPage
<1>8. PageOK(d)'
  <2>. SUFFICES ASSUME NEW w \in P
                PROVE  RowOK(w) /\ Stored(d, w.room, w.seq, got[d] \cup {v.id : v \in P})
    BY Zenon, <1>1, <1>2, <1>6 DEF PageOK, RowOK, Stored, Owes, tables, ghosts
  <2>1. PICK r \in f.rooms : /\ w \in FirstOf(LogAbove(r, PageFrom(d, r)), n) /\ w.room = r /\ w \in logRows
                             /\ FirstOf(LogAbove(r, PageFrom(d, r)), n) \subseteq P
    BY Zenon, <1>3
  <2>2. RowOK(w)
    BY Zenon, <2>1 DEF LogInv
  <2>. SUFFICES ASSUME NEW i \in Post, Owes(d, i), post[i].room = r, post[i].seq <= w.seq, <<r, post[i].seq>> \notin echo
                PROVE  i \in got[d] \/ \E v \in P : v.id = i
    BY Zenon, <2>1, <2>2 DEF Stored
  <2>. QED  BY <1>1, <2>1, PagePrefix
<1>9. \A e \in LogDevice : GotOK(e)' /\ PageOK(e)'
  BY Zenon, <1>1, <1>6, <1>8, GotQuiet, PageQuiet DEF tables, ghosts
<1>10. ASSUME NEW e \in LogDevice, NEW r \in Room, NEW s, Holds(e, r, s)'
       PROVE  Holds(e, r, s) \/ Position(e, r, s)'
  <2>1. CASE e # d
    BY Zenon, <1>1, <1>6, <1>10, <2>1 DEF Holds, HasPage, tables, ghosts
  <2>2. CASE e = d /\ r \in fresh /\ s = head[r]
    <3>1. Position(d, r, head[r])
      BY Zenon, <1>4, <2>2, NoCursorNoDebt
    <3>2. UNCHANGED <<head, post, echo, owed, got>>
      BY Zenon, <1>1 DEF tables, ghosts
    <3>. QED  BY Zenon, <2>2, <3>1, <3>2, PositionQuiet
  <2>3. CASE e = d /\ ~ (r \in fresh /\ s = head[r])
    BY Zenon, <1>1, <1>2, <1>4, <1>6, <1>10, <2>3 DEF Holds, HasPage, tables, ghosts
  <2>. QED  BY Zenon, <2>1, <2>2, <2>3
<1>. QED  BY Zenon, <1>1, <1>7, <1>9, <1>10, QuietLog DEF tables, ghosts

\* The commit of the fetch: the seeds become cursors, the page is stored.
LEMMA EndFetchKeeps ==
  ASSUME LogInv, NEW d \in LogDevice, NEW arrives, EndFetch(d, arrives)
  PROVE  LogInv'
<1>. DEFINE f == fetch[d]
            new == IF arrives = "yes" THEN {w.id : w \in f.page} ELSE {}
<1>1. /\ UNCHANGED <<member, drains, head, logRows, post, ack, join, sweep, owed, echo>> /\ HasPage(d)
      /\ got' = [got EXCEPT ![d] = @ \cup new] /\ paged' = [paged EXCEPT ![d] = @ \cup new]
      /\ fetch' = [fetch EXCEPT ![d] = NoFetch] /\ marked' \subseteq marked \cup {d}
  BY Zenon DEF EndFetch, HasPage, MarkReader
<1>2. /\ \A e \in LogDevice : e # d => cursor'[e] = cursor[e]
      /\ \A r \in Room : cursor'[d][r] = IF r \in DOMAIN f.seed THEN f.seed[r] ELSE cursor[d][r]
      /\ cursor' = [e \in LogDevice |-> cursor'[e]] /\ cursor'[d] = [r \in Room |-> cursor'[d][r]]
  BY Zenon DEF EndFetch, LogInv, LogTypes
<1>3. IsPage(f) /\ f.page \subseteq LogRow
  BY <1>1 DEF LogInv, LogTypes, HasPage, IsPage, NoFetch, Fetches
<1>4. new \subseteq Post /\ \A i \in new : \E w \in f.page : w.id = i
  BY Zenon, <1>3 DEF LogRow
<1>5. new = {} \/ {w.id : w \in f.page} \subseteq new
  BY Zenon
<1>. HIDE DEF new
<1>6. /\ fetch'[d] = NoFetch /\ \A e \in LogDevice : e # d => fetch'[e] = fetch[e]
      /\ fetch' = [e \in LogDevice |-> fetch'[e]]
      /\ got'[d] = got[d] \cup new /\ paged'[d] = paged[d] \cup new
      /\ \A e \in LogDevice : e # d => got'[e] = got[e] /\ paged'[e] = paged[e]
  BY Zenon, <1>1 DEF LogInv, LogTypes
<1>7. \A r \in Room : r \in DOMAIN f.seed => Position(d, r, f.seed[r])
  BY Zenon, <1>1 DEF LogInv, HeldOK, Holds
<1>8. LogTypes'
  <2>1. cursor' \in [LogDevice -> Places]
    <3>1. cursor'[d] \in Places
      BY <1>2, <1>7 DEF Places, Place, Position, LogInv, LogTypes
    <3>. QED  BY Zenon, <1>2, <3>1 DEF LogInv, LogTypes
  <2>2. got' \in [LogDevice -> SUBSET Post] /\ paged' \in [LogDevice -> SUBSET Post]
    BY Zenon, <1>1, <1>4 DEF LogInv, LogTypes
  <2>. QED  BY Zenon, <1>1, <1>6, <2>1, <2>2 DEF LogInv, LogTypes
<1>9. \A i \in new : /\ post[i].pc = "done" /\ post[i].seq <= head[post[i].room] /\ post[i].room \in Room
                     /\ Position(d, post[i].room, post[i].seq)'
  <2>. TAKE i \in new
  <2>1. PICK w \in f.page : w.id = i /\ w \in LogRow
    BY Zenon, <1>3, <1>4
  <2>2. post[i].pc = "done" /\ post[i].room = w.room /\ post[i].seq = w.seq /\ w.room \in Room /\ w.seq \in Nat
    BY Zenon, <1>1, <2>1 DEF LogInv, PageOK, RowOK, LogRow
  <2>3. post[i].seq <= head[post[i].room]
    BY Zenon, <1>4, <2>2 DEF LogInv, PostOK
  <2>4. {v.id : v \in f.page} \subseteq new
    BY Zenon, <1>5
  <2>5. Stored(d, w.room, w.seq, got[d])'
    <3>1. Stored(d, w.room, w.seq, got[d] \cup {v.id : v \in f.page})
      BY Zenon, <1>1, <2>1 DEF LogInv, PageOK
    <3>. QED  BY Zenon, <1>1, <1>6, <2>4, <3>1 DEF Stored, Owes
  <2>. QED  BY Zenon, <1>1, <2>2, <2>3, <2>5 DEF Position, Reached
<1>10. ASSUME NEW e \in LogDevice PROVE got[e] \subseteq got'[e] /\ GotOK(e)' /\ PageOK(e)'
  <2>1. got[e] \subseteq got'[e] /\ GotOK(e)
    BY Zenon, <1>6 DEF LogInv
  <2>2. PageOK(e)'
    <3>1. NoFetch.pc # "paged"
      BY Zenon DEF NoFetch
    <3>. QED  BY Zenon, <1>1, <1>6, <2>1, <3>1, PageQuiet
  <2>3. \A i \in got[e] : GotOne(e, i)'
    BY <1>1, <2>1 DEF GotOK, GotOne, Reached
  <2>4. GotOK(e)'
    <3>1. CASE e = d
      <4>1. \A i \in new : GotOne(d, i)'
        BY Zenon, <1>1, <1>9 DEF GotOne, Reached
      <4>. QED  BY Zenon, <1>6, <2>1, <2>3, <3>1, <4>1 DEF GotOK
    <3>2. CASE e # d
      BY Zenon, <1>6, <2>1, <2>3, <3>2 DEF GotOK
    <3>. QED  BY Zenon, <3>1, <3>2
  <2>. QED  BY Zenon, <2>1, <2>2, <2>4
<1>11. ASSUME NEW e \in LogDevice, NEW r \in Room, NEW s, Holds(e, r, s)'
       PROVE  Holds(e, r, s) \/ Position(e, r, s)'
  <2>0. NoFetch.pc = "none"
    BY Zenon DEF NoFetch
  <2>1. CASE e # d
    BY Zenon, <1>1, <1>2, <1>6, <1>11, <2>1 DEF Holds, HasPage
  <2>2. CASE e = d /\ \E i \in new : post[i].room = r /\ s = post[i].seq
    BY Zenon, <1>9, <1>1, <2>2
  <2>3. CASE e = d /\ ~ \E i \in new : post[i].room = r /\ s = post[i].seq
    BY Zenon, <1>1, <1>2, <1>6, <1>11, <2>0, <2>3 DEF Holds, HasPage
  <2>. QED  BY Zenon, <2>1, <2>2, <2>3
<1>12. \A e \in LogDevice, r \in member : cursor[e][r] # None => cursor'[e][r] # None
  BY <1>2, <1>7 DEF LogInv, LogTypes, Position, None
<1>. QED  BY Zenon, <1>1, <1>8, <1>10, <1>11, <1>12, QuietLog
\* What a client may acknowledge is a position: of a page it was answered
\* with, or of a post from the socket when it has all the log holds before it.
LEMMA AckableHeld ==
  ASSUME LogInv, NEW d \in LogDevice, NEW r \in Room, NEW s \in Ackable(d, r)
  PROVE  Position(d, r, s)
<1>1. PICK j \in got[d] : /\ post[j].room = r /\ s = post[j].seq
                          /\ \/ j \in paged[d]
                             \/ \A w \in LogAbove(r, cursor[d][r]) : w.seq <= post[j].seq => w.id \in got[d]
  BY Zenon DEF Ackable
<1>2. CASE j \in paged[d]
  BY Zenon, <1>1, <1>2 DEF LogInv, HeldOK, Holds
<1>3. CASE \A w \in LogAbove(r, cursor[d][r]) : w.seq <= post[j].seq => w.id \in got[d]
  <2>1. Reached(d, r, s) /\ post[j].pc \in {"written", "done", "failed"} /\ j \in Post
    BY Zenon, <1>1 DEF LogInv, GotOK, GotOne, LogTypes
  <2>2. s \in Nat
    <3>1. post[j] \in OpenPosts \cup ClosedPosts
      BY Zenon, <2>1, PostKinds DEF LogInv, LogTypes
    <3>. QED  BY Zenon, <1>1, <3>1 DEF OpenPosts, ClosedPosts
  <2>3. ASSUME NEW i \in Post, Owes(d, i), post[i].room = r, post[i].seq <= s, <<r, post[i].seq>> \notin echo
        PROVE  i \in got[d]
    <3>1. CASE <<d, i>> \in owed
      <4>1. i \in got[d] \/ Served(d, i)
        BY <2>3, <3>1, LogInvKept DEF LogKept, OwedKept
      <4>2. ASSUME Served(d, i) PROVE i \in got[d]
        <5>1. PICK w \in logRows : w.id = i /\ cursor[d][w.room] < w.seq
          BY Zenon, <4>2 DEF Served
        <5>2. /\ w.room = r /\ w.seq = post[i].seq /\ w.seq \in Nat /\ cursor[d][r] \in Int
          BY <2>3, <5>1 DEF LogInv, RowOK, LogTypes, LogRow, Places, Place, None
        <5>3. w \in LogAbove(r, cursor[d][r])
          BY Zenon, <5>1, <5>2 DEF LogAbove
        <5>. QED  BY Zenon, <1>1, <1>3, <2>3, <5>1, <5>2, <5>3
      <4>. QED  BY Zenon, <4>1, <4>2
    <3>2. CASE post[i].pc = "written"
      <4>1. post[i].seq = head[r] + 1 /\ head[r] \in Nat
        BY Zenon, <2>3, <3>2 DEF LogInv, PostOK, LogTypes
      <4>2. s = head[r] + 1 /\ ~ (s <= head[r])
        BY <2>1, <2>2, <2>3, <4>1 DEF Reached
      <4>3. PICK k \in got[d] : post[k].pc = "written" /\ post[k].room = r
        BY Zenon, <2>1, <2>3, <4>1, <4>2 DEF Reached
      <4>4. k \in Post
        BY Zenon DEF LogInv, LogTypes
      <4>5. k = i
        BY Zenon, <2>3, <3>2, <4>3, <4>4 DEF LogInv, PostOK
      <4>. QED  BY Zenon, <4>5
    <3>. QED  BY Zenon, <2>3, <3>1, <3>2 DEF Owes
  <2>. QED  BY Zenon, <2>1, <2>2, <2>3 DEF Position, Stored
<1>. QED  BY Zenon, <1>1, <1>2, <1>3

\* An acknowledgement begins.
LEMMA BeginAckKeeps ==
  ASSUME LogInv, NEW d \in LogDevice, NEW k \in Lane, NEW upto \in [Room -> Seq0], BeginAck(d, k, upto)
  PROVE  LogInv'
<1>. DEFINE a == [pc |-> "begun", upto |-> upto, known |-> cursor[d]]
<1>1. ack' = [ack EXCEPT ![d][k] = a] /\ UNCHANGED <<tables, post, fetch, join, sweep, ghosts>>
  BY Zenon DEF BeginAck
<1>2. a \in Acks /\ a.pc = "begun" /\ a.upto = upto
  BY LogAssumption DEF Acks, LogInv, LogTypes, Seq0
<1>. HIDE DEF a
<1>3. /\ ack'[d][k] = a
      /\ \A e \in LogDevice, j \in Lane : e # d \/ j # k => ack'[e][j] = ack[e][j]
      /\ ack' \in [LogDevice -> [Lane -> {NoAck} \cup Acks]]
  BY Zenon, <1>1, <1>2 DEF LogInv, LogTypes
<1>4. LogTypes'
  BY Zenon, <1>1, <1>3 DEF LogInv, LogTypes, tables, ghosts
<1>5. \A e \in LogDevice : GotOK(e)' /\ PageOK(e)'
  BY Zenon, <1>1, GotQuiet, PageQuiet DEF tables, ghosts
<1>6. ASSUME NEW e \in LogDevice, NEW r \in Room, NEW s, Holds(e, r, s)'
      PROVE  Holds(e, r, s) \/ Position(e, r, s)'
  <2>1. CASE e = d /\ s = upto[r] /\ s # 0
    <3>1. Position(d, r, s)
      BY Zenon, <2>1, AckableHeld DEF BeginAck
    <3>2. UNCHANGED <<head, post, echo, owed, got>>
      BY Zenon, <1>1 DEF tables, ghosts
    <3>. QED  BY Zenon, <2>1, <3>1, <3>2, PositionQuiet
  <2>2. CASE ~ (e = d /\ s = upto[r] /\ s # 0)
    <3>1. ASSUME NEW j \in Lane, ack'[e][j].pc = "begun", s = ack'[e][j].upto[r], s # 0
          PROVE  ack[e][j].pc = "begun" /\ s = ack[e][j].upto[r]
      BY Zenon, <1>2, <1>3, <2>2, <3>1
    <3>. QED  BY Zenon, <1>1, <1>6, <3>1 DEF Holds, HasPage, tables, ghosts
  <2>. QED  BY Zenon, <2>1, <2>2
<1>. QED  BY Zenon, <1>1, <1>4, <1>5, <1>6, QuietLog DEF tables, ghosts

\* It ends: cursors move to the positions it holds, or stay.
LEMMA EndAckKeeps ==
  ASSUME LogInv, NEW d \in LogDevice, NEW k \in Lane, EndAck(d, k)
  PROVE  LogInv'
<1>. DEFINE a == ack[d][k]
<1>1. /\ UNCHANGED <<member, drains, head, logRows, post, fetch, join, sweep, ghosts>>
      /\ a.pc = "begun" /\ ack' = [ack EXCEPT ![d][k] = NoAck] /\ marked' \subseteq marked \cup {d}
  BY Zenon DEF EndAck, MarkReader
<1>2. a \in Acks
  <2>1. NoAck.pc = "none"
    BY Zenon DEF NoAck
  <2>. QED  BY Zenon, <1>1, <2>1 DEF LogInv, LogTypes
<1>3. /\ \A e \in LogDevice : e # d => cursor'[e] = cursor[e]
      /\ \A r \in Room : cursor'[d][r] = IF r \in Moved(a) THEN Forward(cursor[d][r], a.upto[r]) ELSE cursor[d][r]
      /\ cursor' = [e \in LogDevice |-> cursor'[e]] /\ cursor'[d] = [r \in Room |-> cursor'[d][r]]
  BY Zenon DEF EndAck, LogInv, LogTypes
<1>4. ASSUME NEW r \in Room
      PROVE  /\ cursor'[d][r] \in Place
             /\ cursor[d][r] # None => cursor'[d][r] # None
             /\ cursor'[d][r] = cursor[d][r] \/ (cursor'[d][r] = a.upto[r] /\ a.upto[r] # 0)
  <2>1. cursor[d][r] \in Place /\ a.upto[r] \in Nat
    BY Zenon, <1>2 DEF LogInv, LogTypes, Places, Acks
  <2>2. CASE r \in Moved(a)
    <3>1. PICK c \in Place, u \in Nat : c = cursor[d][r] /\ u = a.upto[r]
      BY Zenon, <2>1
    <3>2. Max({c, u}) \in {c, u} /\ Max({c, u}) >= u
      <4>1. c \in Int /\ u \in Int
        BY DEF Place, None
      <4>. QED  BY Zenon, <4>1, MaxOfTwo
    <3>3. cursor'[d][r] = Max({c, u}) /\ u # 0
      BY Zenon, <1>3, <2>2, <3>1 DEF Forward, Moved
    <3>. QED  BY <3>1, <3>2, <3>3 DEF Place, None
  <2>3. CASE r \notin Moved(a)
    BY Zenon, <1>3, <2>1, <2>3
  <2>. QED  BY Zenon, <2>2, <2>3
<1>5. /\ ack' \in [LogDevice -> [Lane -> {NoAck} \cup Acks]]
      /\ \A e \in LogDevice, j \in Lane : ack'[e][j] = ack[e][j] \/ ack'[e][j] = NoAck
  BY Zenon, <1>1 DEF LogInv, LogTypes
<1>6. LogTypes'
  <2>1. cursor' \in [LogDevice -> Places]
    <3>1. cursor'[d] \in Places
      BY Zenon, <1>3, <1>4 DEF Places
    <3>. QED  BY Zenon, <1>3, <3>1 DEF LogInv, LogTypes
  <2>. QED  BY Zenon, <1>1, <1>5, <2>1 DEF LogInv, LogTypes, ghosts
<1>7. \A e \in LogDevice : GotOK(e)' /\ PageOK(e)'
  BY Zenon, <1>1, GotQuiet, PageQuiet DEF ghosts
<1>8. ASSUME NEW e \in LogDevice, NEW r \in Room, NEW s, Holds(e, r, s)' PROVE Holds(e, r, s)
  <2>1. NoAck.pc = "none"
    BY Zenon DEF NoAck
  <2>2. ASSUME s = cursor'[e][r], s # None PROVE Holds(e, r, s)
    BY <1>1, <1>3, <1>4, <2>2 DEF Holds
  <2>3. ASSUME NEW j \in Lane, ack'[e][j].pc = "begun", s = ack'[e][j].upto[r], s # 0 PROVE Holds(e, r, s)
    BY Zenon, <1>5, <2>1, <2>3 DEF Holds
  <2>. QED  BY Zenon, <1>1, <1>8, <2>2, <2>3 DEF Holds, HasPage, ghosts
<1>9. \A e \in LogDevice, r \in member : cursor[e][r] # None => cursor'[e][r] # None
  BY Zenon, <1>3, <1>4 DEF LogInv, LogTypes
<1>. QED  BY Zenon, <1>1, <1>6, <1>7, <1>8, <1>9, QuietLog DEF ghosts
\* A join seeds the cursors of the marked devices at the head it read, before
\* the account is in the room.
LEMMA BeginJoinKeeps ==
  ASSUME LogInv, NEW r \in Room, BeginJoin(r)
  PROVE  LogInv'
<1>. DEFINE t == [pc |-> "seeded", devices |-> {d \in marked : cursor[d][r] = None}, head |-> head[r]]
<1>1. join' = [join EXCEPT ![r] = t] /\ UNCHANGED <<tables, post, fetch, ack, sweep, ghosts>> /\ r \notin member
  BY Zenon DEF BeginJoin
<1>2. t \in Joins /\ t.head = head[r]
  BY Zenon DEF LogInv, LogTypes, Joins
<1>. HIDE DEF t
<1>3. join'[r] = t /\ (\A q \in Room : q # r => join'[q] = join[q]) /\ join' \in [Room -> {NoJoin} \cup Joins]
  BY Zenon, <1>1, <1>2 DEF LogInv, LogTypes
<1>4. LogTypes'
  BY Zenon, <1>1, <1>3 DEF LogInv, LogTypes, tables, ghosts
<1>5. \A e \in LogDevice : GotOK(e)' /\ PageOK(e)'
  BY Zenon, <1>1, GotQuiet, PageQuiet DEF tables, ghosts
<1>6. ASSUME NEW e \in LogDevice, NEW q \in Room, NEW s, Holds(e, q, s)'
      PROVE  Holds(e, q, s) \/ Position(e, q, s)'
  <2>1. CASE q = r /\ s = head[r]
    <3>1. Position(e, r, head[r])
      BY Zenon, <1>1, NoCursorNoDebt
    <3>2. UNCHANGED <<head, post, echo, owed, got>>
      BY Zenon, <1>1 DEF tables, ghosts
    <3>. QED  BY Zenon, <2>1, <3>1, <3>2, PositionQuiet
  <2>2. CASE ~ (q = r /\ s = head[r])
    BY Zenon, <1>1, <1>2, <1>3, <1>6, <2>2 DEF Holds, HasPage, tables, ghosts
  <2>. QED  BY Zenon, <2>1, <2>2
<1>. QED  BY Zenon, <1>1, <1>4, <1>5, <1>6, QuietLog DEF tables, ghosts

\* The join commits.
LEMMA EndJoinKeeps ==
  ASSUME LogInv, NEW r \in Room, EndJoin(r)
  PROVE  LogInv'
<1>1. /\ UNCHANGED <<drains, marked, head, logRows, post, fetch, ack, sweep, ghosts>>
      /\ join[r].pc = "seeded" /\ member' = member \cup {r} /\ join' = [join EXCEPT ![r] = NoJoin]
      /\ cursor' = [d \in LogDevice |-> IF d \in join[r].devices
                                        THEN [cursor[d] EXCEPT ![r] = join[r].head] ELSE cursor[d]]
  BY Zenon DEF EndJoin
<1>2. join[r] \in Joins /\ join[r].head \in Nat /\ join[r].head # None
  <2>1. NoJoin.pc = "none"
    BY Zenon DEF NoJoin
  <2>2. join[r] \in Joins
    BY Zenon, <1>1, <2>1 DEF LogInv, LogTypes
  <2>. QED  BY <2>2 DEF Joins, None
<1>3. ASSUME NEW d \in LogDevice, NEW q \in Room
      PROVE  /\ cursor'[d][q] = cursor[d][q] \/ (d \in join[r].devices /\ q = r /\ cursor'[d][q] = join[r].head)
             /\ cursor'[d] \in Places
  BY Zenon, <1>1, <1>2 DEF LogInv, LogTypes, Places, Place
<1>4. cursor' \in [LogDevice -> Places]
  BY Zenon, <1>1, <1>2, <1>3 DEF LogInv, LogTypes, Places, Place
<1>5. (\A q \in Room : join'[q] = join[q] \/ join'[q] = NoJoin) /\ join' \in [Room -> {NoJoin} \cup Joins]
  BY Zenon, <1>1 DEF LogInv, LogTypes
<1>6. LogTypes'
  BY Zenon, <1>1, <1>4, <1>5 DEF LogInv, LogTypes, ghosts
<1>7. \A e \in LogDevice : GotOK(e)' /\ PageOK(e)'
  BY Zenon, <1>1, GotQuiet, PageQuiet DEF ghosts
<1>8. ASSUME NEW e \in LogDevice, NEW q \in Room, NEW s, Holds(e, q, s)' PROVE Holds(e, q, s)
  <2>1. NoJoin.pc = "none"
    BY Zenon DEF NoJoin
  <2>2. ASSUME s = cursor'[e][q], s # None PROVE Holds(e, q, s)
    BY <1>1, <1>3, <2>2 DEF Holds
  <2>. QED  BY Zenon, <1>1, <1>5, <1>8, <2>1, <2>2 DEF Holds, HasPage, ghosts
<1>9. \A e \in LogDevice, q \in member : cursor[e][q] # None => cursor'[e][q] # None
  BY Zenon, <1>2, <1>3 DEF LogInv, LogTypes
<1>. QED  BY Zenon, <1>1, <1>6, <1>7, <1>8, <1>9, QuietLog DEF ghosts

\* No request and no cursor moves, and no post a device was answered with.
LEMMA HoldsSame ==
  ASSUME UNCHANGED <<cursor, paged, ack, fetch, join>>, NEW d,
         \A j \in paged[d] : post'[j].room = post[j].room /\ post'[j].seq = post[j].seq
  PROVE  \A r \in Room : \A s : Holds(d, r, s)' => Holds(d, r, s)
BY DEF Holds, HasPage

\* A position beyond the counter is the next one.
LEMMA JustAbove ==
  ASSUME NEW h \in Nat, NEW s \in Nat, h + 1 <= s, s <= h \/ s = h + 1
  PROVE  s = h + 1 /\ ~ (s <= h)
OBVIOUS

\* A row past its age goes, and with it the debt.
LEMMA ExpireKeeps ==
  ASSUME LogInv, NEW w \in logRows, Expire(w)
  PROVE  LogInv'
<1>1. /\ UNCHANGED <<member, drains, marked, cursor, head, requests, got, paged, echo>>
      /\ logRows' = logRows \ {w} /\ owed' = {p \in owed : p[2] # w.id}
  BY Zenon DEF Expire
<1>2. UNCHANGED <<post, fetch, ack, join>>
  BY Zenon, <1>1 DEF requests
<1>3. LogTypes'
  <2>1. IsFiniteSet(logRows')
    BY Zenon, <1>1, FS_Subset DEF LogInv, LogTypes
  <2>. QED  BY Zenon, <1>1, <1>2, <2>1 DEF LogInv, LogTypes
<1>4. \A e \in LogDevice : GotOK(e)' /\ PageOK(e)'
  BY Zenon, <1>1, <1>2, GotQuiet, PageQuiet
<1>5. \A e \in LogDevice, q \in Room : \A s : Holds(e, q, s)' => Holds(e, q, s)
  BY Zenon, <1>1, <1>2, HoldsSame
<1>. QED  BY Zenon, <1>1, <1>2, <1>3, <1>4, <1>5, QuietLog

\* The cursors of rooms the account is not in go.
LEMMA SweepCursorsKeeps ==
  ASSUME LogInv, SweepCursors
  PROVE  LogInv'
<1>1. /\ UNCHANGED <<member, drains, marked, head, logRows, requests, ghosts>>
      /\ cursor' = [d \in LogDevice |-> [r \in Room |-> IF r \in member THEN cursor[d][r] ELSE None]]
  BY Zenon DEF SweepCursors
<1>2. UNCHANGED <<post, fetch, ack, join>>
  BY Zenon, <1>1 DEF requests
<1>3. LogTypes'
  <2>1. cursor' \in [LogDevice -> Places]
    BY Zenon, <1>1 DEF LogInv, LogTypes, Places, Place
  <2>. QED  BY Zenon, <1>1, <1>2, <2>1 DEF LogInv, LogTypes, ghosts
<1>4. \A e \in LogDevice : GotOK(e)' /\ PageOK(e)'
  BY Zenon, <1>1, <1>2, GotQuiet, PageQuiet DEF ghosts
<1>5. \A e \in LogDevice, q \in Room : cursor'[e][q] = cursor[e][q] \/ (cursor'[e][q] = None /\ q \notin member)
  BY Zenon, <1>1
<1>6. \A e \in LogDevice, q \in Room : \A s : Holds(e, q, s)' => Holds(e, q, s)
  BY <1>1, <1>2, <1>5 DEF Holds, HasPage, ghosts
<1>7. \A e \in LogDevice, q \in member : cursor[e][q] # None => cursor'[e][q] # None
  BY Zenon, <1>5 DEF LogInv, LogTypes
<1>. QED  BY Zenon, <1>1, <1>2, <1>3, <1>4, <1>6, <1>7, QuietLog DEF ghosts
\* A page is of rows of the log.
LEMMA PageTyped ==
  ASSUME LogTypes, NEW d \in LogDevice, HasPage(d)
  PROVE  fetch[d].page \subseteq LogRow
<1>1. NoFetch.pc = "none" /\ \A f \in Fetches : f.pc = "begun"
  BY Zenon DEF NoFetch, Fetches
<1>2. IsPage(fetch[d])
  BY Zenon, <1>1 DEF LogTypes, HasPage
<1>. QED  BY Zenon, <1>2 DEF IsPage

\* Steps of posts: what a device may come to be owed has the next seq of a
\* room in which no post is in flight, above all that anybody holds.
LEMMA PostsMove ==
  ASSUME LogInv, LogTypes', fetch' = fetch, echo \subseteq echo',
         \A j \in Post : post[j].pc = "done" => post'[j].pc = "done" /\ post'[j].room = post[j].room /\ post'[j].seq = post[j].seq,
         \A d \in LogDevice, j \in Post : Owes(d, j)' =>
           \/ Owes(d, j) /\ post'[j].room = post[j].room /\ post'[j].seq = post[j].seq
           \/ post'[j].seq = head[post'[j].room] + 1 /\ ~RoomLocked(post'[j].room),
         \A d \in LogDevice, r \in Room, s \in Nat : Reached(d, r, s) => Reached(d, r, s)',
         \A d \in LogDevice, r \in Room : \A s : Holds(d, r, s)' => Holds(d, r, s),
         \A d \in LogDevice : got[d] \subseteq got'[d] /\ GotOK(d)',
         OwedOK', \A j \in Post : PostOK(j)', \A w \in logRows' : RowOK(w)'
  PROVE  LogInv'
<1>1. HeldOK'
  <2>. SUFFICES ASSUME NEW d \in LogDevice, NEW r \in Room, NEW s, Holds(d, r, s)
                PROVE  Position(d, r, s)'
    BY Zenon DEF HeldOK
  <2>1. Position(d, r, s) /\ head[r] \in Nat
    BY Zenon DEF LogInv, HeldOK, LogTypes
  <2>2. ASSUME NEW j \in Post, Owes(d, j)', post'[j].room = r, post'[j].seq <= s, <<r, post'[j].seq>> \notin echo'
        PROVE  j \in got'[d]
    <3>1. CASE Owes(d, j) /\ post'[j].room = post[j].room /\ post'[j].seq = post[j].seq
      BY Zenon, <2>1, <2>2, <3>1 DEF Position, Stored
    <3>2. CASE post'[j].seq = head[r] + 1 /\ ~RoomLocked(r)
      <4>1. s = head[r] + 1 /\ ~ (s <= head[r])
        <5>1. s \in Nat /\ (s <= head[r] \/ s = head[r] + 1)
          BY Zenon, <2>1 DEF Position, Reached
        <5>2. head[r] + 1 <= s
          BY Zenon, <2>2, <3>2
        <5>. QED  BY Zenon, <2>1, <5>1, <5>2, JustAbove
      <4>2. got[d] \subseteq Post
        BY Zenon DEF LogInv, LogTypes
      <4>3. <<r, s>> \in echo
        BY Zenon, <2>1, <3>2, <4>1, <4>2 DEF Position, Reached, RoomLocked
      <4>. QED  BY Zenon, <2>2, <3>2, <4>1, <4>3
    <3>. QED  BY Zenon, <2>2, <3>1, <3>2
  <2>3. Stored(d, r, s, got[d])'
    BY Zenon, <2>2 DEF Stored
  <2>. QED  BY Zenon, <2>1, <2>3 DEF Position
<1>2. \A d \in LogDevice : PageOK(d)'
  <2>. SUFFICES ASSUME NEW d \in LogDevice, HasPage(d), NEW w \in fetch[d].page
                PROVE  RowOK(w)' /\ Stored(d, w.room, w.seq, got[d] \cup {v.id : v \in fetch[d].page})'
    BY Zenon DEF PageOK, HasPage
  <2>1. RowOK(w) /\ Stored(d, w.room, w.seq, got[d] \cup {v.id : v \in fetch[d].page}) /\ w \in LogRow
    <3>1. fetch[d].page \subseteq LogRow
      BY Zenon, PageTyped DEF LogInv
    <3>. QED  BY Zenon, <3>1 DEF LogInv, PageOK
  <2>2. w.id \in Post /\ w.seq \in Nat /\ w.seq <= head[w.room] /\ head[w.room] \in Nat
    BY Zenon, <2>1 DEF LogRow, RowOK, LogInv, PostOK, LogTypes
  <2>3. RowOK(w)'
    BY Zenon, <2>1, <2>2 DEF RowOK
  <2>4. ASSUME NEW j \in Post, Owes(d, j)', post'[j].room = w.room, post'[j].seq <= w.seq, <<w.room, post'[j].seq>> \notin echo'
        PROVE  j \in got'[d] \cup {v.id : v \in fetch[d].page}
    <3>1. CASE Owes(d, j) /\ post'[j].room = post[j].room /\ post'[j].seq = post[j].seq
      BY Zenon, <2>1, <2>4, <3>1 DEF Stored
    <3>2. CASE post'[j].seq = head[w.room] + 1
      <4>1. head[w.room] + 1 <= w.seq
        BY Zenon, <2>4, <3>2
      <4>. QED  BY Zenon, <2>2, <4>1, JustAbove
    <3>. QED  BY Zenon, <2>4, <3>1, <3>2
  <2>5. Stored(d, w.room, w.seq, got[d] \cup {v.id : v \in fetch[d].page})'
    BY Zenon, <2>4 DEF Stored
  <2>. QED  BY Zenon, <2>3, <2>5
<1>. QED  BY Zenon, <1>1, <1>2 DEF LogInv

\* A post that stays as it is, stored, is still one a device may have.
LEMMA GotStays ==
  ASSUME LogInv, NEW d \in LogDevice, NEW j \in got[d], post'[j] = post[j],
         \A r \in Room, s \in Nat : Reached(d, r, s) => Reached(d, r, s)'
  PROVE  GotOne(d, j)'
<1>1. GotOne(d, j) /\ j \in Post
  BY Zenon DEF LogInv, GotOK, LogTypes
<1>2. post[j] \in OpenPosts \cup ClosedPosts
  BY Zenon, <1>1, PostKinds DEF GotOne, LogInv, LogTypes
<1>3. PICK r \in Room, s \in Nat : r = post[j].room /\ s = post[j].seq
  BY Zenon, <1>2 DEF OpenPosts, ClosedPosts
<1>4. Reached(d, r, s)'
  BY Zenon, <1>1, <1>3 DEF GotOne
<1>. QED  BY Zenon, <1>1, <1>3, <1>4 DEF GotOne

\* The readers of a post are decided: nothing anybody holds changes.
LEMMA DecidePostKeeps ==
  ASSUME LogInv, NEW i \in Post, NEW r \in Room, NEW kind, NEW others, DecidePost(i, r, kind, others)
  PROVE  LogInv'
<1>1. PICK q : /\ q.pc = "decided" /\ q \in OpenPosts /\ q.room = r /\ post' = [post EXCEPT ![i] = q]
               /\ \A d \in q.to : d \in LogDevice /\ q.seen = "yes" /\ r \in member /\ cursor[d][r] # None
  <2>. DEFINE reader == r \in member /\ log_readers
              devices == IF reader THEN drains \cup marked ELSE {}
              to == {d \in devices : d \in marked => cursor[d][r] # None}
              q == [pc |-> "decided", room |-> r, seq |-> 0,
                    seen |-> IF reader \/ kind = "broadcast" THEN "yes" ELSE "no",
                    live |-> IF kind = "broadcast" THEN "yes" ELSE "no", to |-> to]
  <2>1. \A d \in to : d \in LogDevice /\ reader /\ cursor[d][r] # None
    BY Zenon DEF log_readers, LogInv, LogTypes
  <2>. HIDE DEF to
  <2>2. q \in OpenPosts /\ q.pc = "decided" /\ q.room = r /\ q.to = to /\ (reader => q.seen = "yes")
    BY Zenon, <2>1 DEF OpenPosts, Flags
  <2>3. post' = [post EXCEPT ![i] = q]
    BY Zenon DEF DecidePost, to
  <2>. HIDE DEF q
  <2>. QED  BY Zenon, <2>1, <2>2, <2>3
<1>2. UNCHANGED <<tables, fetch, ack, join, sweep, ghosts>> /\ post[i].pc = "unsent"
  BY Zenon DEF DecidePost, NextPost
<1>3. /\ post'[i] = q /\ \A j \in Post : j # i => post'[j] = post[j]
      /\ post' \in [Post -> {NoPost} \cup OpenPosts \cup ClosedPosts]
  BY Zenon, <1>1 DEF LogInv, LogTypes
<1>4. LogTypes'
  BY Zenon, <1>2, <1>3 DEF LogInv, LogTypes, tables, ghosts
<1>5. \A d \in LogDevice : i \notin got[d] /\ i \notin paged[d] /\ <<d, i>> \notin owed
  BY Zenon, <1>2 DEF LogInv, GotOK, GotOne, OwedOK
<1>6. \A d \in LogDevice, j \in Post : Owes(d, j)' => Owes(d, j) /\ post'[j] = post[j]
  BY Zenon, <1>1, <1>2, <1>3, <1>5 DEF Owes, ghosts
<1>7. \A d \in LogDevice, t \in Room, s \in Nat : Reached(d, t, s) => Reached(d, t, s)'
  BY Zenon, <1>2, <1>3, <1>5 DEF Reached, tables, ghosts, LogInv, LogTypes
<1>8. \A d \in LogDevice, t \in Room : \A s : Holds(d, t, s)' => Holds(d, t, s)
  <2>1. \A d \in LogDevice : \A j \in paged[d] : post'[j] = post[j]
    BY Zenon, <1>3, <1>5 DEF LogInv, LogTypes
  <2>. QED  BY Zenon, <1>2, <2>1, HoldsSame DEF tables, ghosts
<1>9. OwedOK'
  BY Zenon, <1>2, <1>3, <1>5 DEF OwedOK, tables, ghosts, LogInv, LogTypes
<1>10. ASSUME NEW j \in Post PROVE PostOK(j)'
  <2>1. CASE j = i
    BY Zenon, <1>1, <1>2, <1>3, <2>1 DEF PostOK, Open, tables
  <2>2. CASE j # i
    BY Zenon, <1>1, <1>2, <1>3, <2>2 DEF PostOK, Open, tables, LogInv
  <2>. QED  BY Zenon, <2>1, <2>2
<1>11. \A w \in logRows' : RowOK(w)'
  BY Zenon, <1>2, <1>3 DEF RowOK, LogInv, LogTypes, LogRow, tables
<1>12. \A d \in LogDevice : got[d] \subseteq got'[d] /\ GotOK(d)'
  <2>. TAKE d \in LogDevice
  <2>1. GotOK(d) /\ got' = got /\ paged' = paged
    BY Zenon, <1>2 DEF LogInv, ghosts
  <2>2. ASSUME NEW j \in got[d] PROVE GotOne(d, j)'
    <3>1. post'[j] = post[j]
      BY Zenon, <1>3, <1>5 DEF LogInv, LogTypes
    <3>. QED  BY Zenon, <1>7, <3>1, GotStays
  <2>. QED  BY Zenon, <2>1, <2>2 DEF GotOK
<1>13. \A j \in Post : post[j].pc = "done" => post'[j] = post[j]
  BY Zenon, <1>2, <1>3
<1>. QED  BY Zenon, <1>2, <1>4, <1>6, <1>7, <1>8, <1>9, <1>10, <1>11, <1>12, <1>13, PostsMove DEF ghosts
\* A post takes the next seq of its room, and the sockets are told.
LEMMA WritePostKeeps ==
  ASSUME LogInv, NEW i \in Post, NEW on \in SUBSET LogDevice, WritePost(i, on)
  PROVE  LogInv'
<1>0. PICK r : r = post[i].room
  BY Zenon
<1>. DEFINE q == [post[i] EXCEPT !.pc = "written", !.seq = head[r] + 1]
<1>1. /\ post[i] \in OpenPosts /\ post[i].pc = "decided" /\ ~RoomLocked(r) /\ r \in Room /\ head[r] \in Nat
      /\ on # {} => post[i].live = "yes"
  <2>1. post[i] \in OpenPosts
    BY Zenon, OpenTyped DEF WritePost, Open, LogInv
  <2>. QED  BY Zenon, <1>0, <2>1 DEF WritePost, OpenPosts, LogInv, LogTypes, Flags
<1>2. /\ UNCHANGED <<tables, fetch, ack, join, sweep, paged, owed, echo>>
      /\ post' = [post EXCEPT ![i] = q]
      /\ got' = [d \in LogDevice |-> IF d \in on THEN got[d] \cup {i} ELSE got[d]]
  <2>1. post' = [post EXCEPT ![i].pc = "written", ![i].seq = head[r] + 1]
    BY Zenon, <1>0 DEF WritePost
  <2>2. post' = [post EXCEPT ![i] = q]
    BY Zenon, <1>1, <2>1 DEF LogInv, LogTypes, OpenPosts
  <2>. QED  BY Zenon, <2>2 DEF WritePost
<1>3. /\ q \in OpenPosts /\ q.pc = "written" /\ q.seq = head[r] + 1 /\ q.room = r /\ q.to = post[i].to
      /\ q.live = post[i].live /\ q.seen = post[i].seen
  <2>1. PICK o \in OpenPosts : o = post[i]
    BY Zenon, <1>1
  <2>2. PICK n \in Nat : n = head[r] + 1
    BY <1>1
  <2>3. PICK t : t = [o EXCEPT !.pc = "written", !.seq = n]
    BY Zenon
  <2>4. t \in OpenPosts /\ t.pc = "written" /\ t.seq = n /\ t.room = o.room /\ t.to = o.to /\ t.live = o.live /\ t.seen = o.seen
    BY Zenon, <2>3 DEF OpenPosts
  <2>5. q = t
    BY Zenon, <2>1, <2>2, <2>3
  <2>. QED  BY Zenon, <1>0, <2>1, <2>2, <2>4, <2>5
<1>. HIDE DEF q
<1>4. /\ post'[i] = q /\ \A j \in Post : j # i => post'[j] = post[j]
      /\ post' \in [Post -> {NoPost} \cup OpenPosts \cup ClosedPosts]
  BY Zenon, <1>2, <1>3 DEF LogInv, LogTypes
<1>5. \A d \in LogDevice : i \notin got[d] /\ i \notin paged[d] /\ <<d, i>> \notin owed
  BY Zenon, <1>1 DEF LogInv, GotOK, GotOne, OwedOK
<1>6. \A d \in LogDevice : got'[d] = (IF d \in on THEN got[d] \cup {i} ELSE got[d]) /\ got[d] \subseteq Post /\ paged[d] \subseteq got[d]
  BY Zenon, <1>2 DEF LogInv, LogTypes, GotOK
<1>7. LogTypes'
  <2>1. got' \in [LogDevice -> SUBSET Post]
    BY Zenon, <1>2, <1>6
  <2>. QED  BY Zenon, <1>2, <1>4, <2>1 DEF LogInv, LogTypes, tables
<1>8. \A d \in LogDevice, j \in Post : Owes(d, j)' =>
        \/ Owes(d, j) /\ post'[j].room = post[j].room /\ post'[j].seq = post[j].seq
        \/ post'[j].seq = head[post'[j].room] + 1 /\ ~RoomLocked(post'[j].room)
  <2>. SUFFICES ASSUME NEW d \in LogDevice, NEW j \in Post, Owes(d, j)', j # i PROVE Owes(d, j) /\ post'[j] = post[j]
    BY Zenon, <1>1, <1>3, <1>4
  <2>. QED  BY Zenon, <1>2, <1>4 DEF Owes
<1>9. \A d \in LogDevice, t \in Room, s \in Nat : Reached(d, t, s) => Reached(d, t, s)'
  <2>. SUFFICES ASSUME NEW d \in LogDevice, NEW t \in Room, NEW s \in Nat, Reached(d, t, s)
                PROVE  Reached(d, t, s)'
    BY Zenon
  <2>1. UNCHANGED <<head, echo>>
    BY Zenon, <1>2 DEF tables
  <2>2. got[d] \subseteq got'[d] /\ \A j \in got[d] : post'[j] = post[j]
    BY Zenon, <1>4, <1>5, <1>6
  <2>. QED  BY Zenon, <2>1, <2>2 DEF Reached
<1>10. \A d \in LogDevice, t \in Room : \A s : Holds(d, t, s)' => Holds(d, t, s)
  <2>1. \A d \in LogDevice : \A j \in paged[d] : post'[j] = post[j]
    BY Zenon, <1>4, <1>5, <1>6
  <2>. QED  BY Zenon, <1>2, <2>1, HoldsSame DEF tables
<1>11. OwedOK'
  BY <1>2, <1>4, <1>5 DEF OwedOK, tables, LogInv, LogTypes
<1>12. ASSUME NEW j \in Post PROVE PostOK(j)'
  <2>0. \A k \in Post : post[k].pc = "written" => post[k].room # r
    BY Zenon, <1>1 DEF RoomLocked
  <2>1. CASE j = i
    <3>1. PostOK(i) /\ Open(i)
      BY Zenon, <1>1 DEF LogInv, Open
    <3>2. \A k \in Post : post'[k].pc = "written" /\ post'[k].room = r => k = i
      BY Zenon, <1>4, <2>0
    <3>3. \A d \in q.to : q.seen = "yes" /\ r \in member /\ cursor[d][r] # None
      BY Zenon, <1>0, <1>3, <3>1 DEF PostOK
    <3>. QED  BY Zenon, <1>2, <1>3, <1>4, <2>1, <3>2, <3>3 DEF PostOK, Open, tables
  <2>2. CASE j # i
    <3>1. PostOK(j) /\ post'[j] = post[j] /\ UNCHANGED <<head, member, cursor>>
      BY Zenon, <1>2, <1>4, <2>2 DEF LogInv, tables
    <3>2. \A k \in Post : post[j].pc = "written" /\ post'[k].pc = "written" /\ post'[k].room = post[j].room => k = j
      BY Zenon, <1>3, <1>4, <2>0, <3>1 DEF PostOK
    <3>. QED  BY Zenon, <3>1, <3>2 DEF PostOK, Open
  <2>. QED  BY Zenon, <2>1, <2>2
<1>13. \A w \in logRows' : RowOK(w)'
  BY Zenon, <1>1, <1>2, <1>4 DEF RowOK, LogInv, LogTypes, LogRow, tables
<1>14. ASSUME NEW d \in LogDevice PROVE got[d] \subseteq got'[d] /\ GotOK(d)'
  <2>1. GotOK(d) /\ UNCHANGED <<head, echo, paged>>
    BY Zenon, <1>2 DEF LogInv, tables
  <2>2. ASSUME NEW j \in got[d] PROVE GotOne(d, j)'
    <3>1. post'[j] = post[j]
      BY Zenon, <1>4, <1>5, <1>6
    <3>. QED  BY Zenon, <1>9, <3>1, GotStays
  <2>3. ASSUME d \in on PROVE GotOne(d, i)'
    <3>1. Reached(d, r, head[r] + 1)'
      BY Zenon, <1>3, <1>4, <1>6, <2>1, <2>3 DEF Reached
    <3>. QED  BY Zenon, <1>1, <1>3, <1>4, <2>1, <2>3, <3>1 DEF GotOne
  <2>. QED  BY Zenon, <1>6, <2>1, <2>2, <2>3 DEF GotOK
<1>15. \A j \in Post : post[j].pc = "done" => post'[j] = post[j]
  BY Zenon, <1>1, <1>4
<1>. QED  BY Zenon, <1>2, <1>7, <1>8, <1>9, <1>10, <1>11, <1>12, <1>13, <1>14, <1>15, PostsMove
\* A post commits: its seq is the counter now, its row is there, and the
\* devices that rely on it have a cursor in the room.
LEMMA CommitPostKeeps ==
  ASSUME LogInv, NEW i \in Post, CommitPost(i)
  PROVE  LogInv'
<1>1. PICK p \in OpenPosts : p = post[i] /\ p.pc = "written"
  BY Zenon, OpenTyped DEF CommitPost, Open, LogInv
<1>2. PICK r \in Room, n \in Nat : r = p.room /\ n = p.seq /\ n = head[r] + 1 /\ head[r] \in Nat
  <2>1. PostOK(i)
    BY Zenon DEF LogInv
  <2>. QED  BY Zenon, <1>1, <2>1 DEF PostOK, OpenPosts, LogInv, LogTypes
<1>3. PICK q : q = [pc |-> "done", room |-> r, seq |-> n]
  BY Zenon
<1>4. q \in ClosedPosts /\ q.pc = "done" /\ q.room = r /\ q.seq = n
  BY Zenon, <1>3 DEF ClosedPosts
<1>5. PICK w : w = [id |-> i, room |-> r, seq |-> n, to |-> IF p.live = "yes" THEN "all" ELSE "account"]
  BY Zenon
<1>6. w \in LogRow /\ w.id = i /\ w.room = r /\ w.seq = n
  BY Zenon, <1>5 DEF LogRow
<1>7. /\ UNCHANGED <<member, drains, marked, cursor, fetch, ack, join, sweep, got, paged, echo>>
      /\ head' = [head EXCEPT ![r] = n] /\ post' = [post EXCEPT ![i] = q]
      /\ logRows' = (IF p.seen = "yes" THEN logRows \cup {w} ELSE logRows)
      /\ owed' = owed \cup {<<d, i>> : d \in IF r \in member THEN p.to ELSE {}}
  <2>1. CounterAfter(r, n) = n
    <3>1. PICK h \in Nat : h = head[r]
      BY Zenon, <1>2
    <3>2. h \in Int /\ n \in Int /\ h < n
      BY <1>2, <3>1
    <3>3. Max({h, n}) = n
      <4>1. Max({h, n}) \in {h, n} /\ Max({h, n}) >= n
        BY Zenon, <3>2, MaxOfTwo
      <4>2. PICK m : m = Max({h, n})
        BY Zenon
      <4>3. m \in {h, n} /\ m >= n
        BY Zenon, <4>1, <4>2
      <4>4. m = n
        BY <3>2, <4>3
      <4>. QED  BY Zenon, <4>2, <4>4
    <3>. QED  BY Zenon, <3>1, <3>3 DEF CounterAfter
  <2>. QED  BY Zenon, <1>1, <1>2, <1>3, <1>5, <2>1 DEF CommitPost
<1>8. /\ post'[i] = q /\ \A j \in Post : j # i => post'[j] = post[j]
      /\ post' \in [Post -> {NoPost} \cup OpenPosts \cup ClosedPosts]
  BY Zenon, <1>4, <1>7 DEF LogInv, LogTypes
<1>9. head'[r] = n /\ head' \in [Room -> Nat] /\ \A t \in Room : t # r => head'[t] = head[t]
  BY Zenon, <1>2, <1>7 DEF LogInv, LogTypes
<1>10. \A d \in p.to : d \in LogDevice /\ p.seen = "yes" /\ r \in member /\ cursor[d][r] # None
  <2>1. PostOK(i) /\ Open(i)
    BY Zenon, <1>1 DEF LogInv, Open
  <2>. QED  BY Zenon, <1>1, <1>2, <2>1 DEF PostOK, OpenPosts
<1>11. \A d \in LogDevice, j \in Post : <<d, j>> \in owed' => <<d, j>> \in owed \/ (j = i /\ d \in p.to)
  BY Zenon, <1>7
<1>12. LogTypes'
  <2>1. IsFiniteSet(logRows')
    BY Zenon, <1>7, FS_AddElement DEF LogInv, LogTypes
  <2>2. logRows' \subseteq LogRow
    BY Zenon, <1>6, <1>7 DEF LogInv, LogTypes
  <2>3. owed' \subseteq LogDevice \X Post
    BY <1>7, <1>10 DEF LogInv, LogTypes
  <2>. QED  BY Zenon, <1>7, <1>8, <1>9, <2>1, <2>2, <2>3 DEF LogInv, LogTypes
<1>13. \A d \in LogDevice, j \in Post : Owes(d, j)' => Owes(d, j) /\ post'[j].room = post[j].room /\ post'[j].seq = post[j].seq
  <2>. SUFFICES ASSUME NEW d \in LogDevice, NEW j \in Post, Owes(d, j)' PROVE Owes(d, j)
    BY Zenon, <1>1, <1>2, <1>4, <1>8
  <2>1. CASE j = i
    BY Zenon, <1>1, <1>4, <1>8, <1>11, <2>1 DEF Owes
  <2>2. CASE j # i
    BY Zenon, <1>8, <1>11, <2>2 DEF Owes
  <2>. QED  BY Zenon, <2>1, <2>2
<1>14. \A d \in LogDevice, t \in Room, s \in Nat : Reached(d, t, s) => Reached(d, t, s)'
  <2>. SUFFICES ASSUME NEW d \in LogDevice, NEW t \in Room, NEW s \in Nat, Reached(d, t, s)
                PROVE  Reached(d, t, s)'
    BY Zenon
  <2>1. CASE t = r
    BY <1>2, <1>9, <2>1 DEF Reached
  <2>2. CASE t # r
    <3>1. \A j \in got[d] : post[j].room = t => post'[j] = post[j]
      BY Zenon, <1>1, <1>2, <1>8, <2>2 DEF LogInv, LogTypes
    <3>2. got' = got /\ echo' = echo /\ head'[t] = head[t]
      BY Zenon, <1>7, <1>9, <2>2
    <3>. QED  BY Zenon, <3>1, <3>2 DEF Reached
  <2>. QED  BY Zenon, <2>1, <2>2
<1>15. \A d \in LogDevice, t \in Room : \A s : Holds(d, t, s)' => Holds(d, t, s)
  <2>1. \A d \in LogDevice : \A j \in paged[d] : post'[j].room = post[j].room /\ post'[j].seq = post[j].seq
    BY Zenon, <1>1, <1>2, <1>4, <1>8 DEF LogInv, LogTypes
  <2>. QED  BY Zenon, <1>7, <2>1, HoldsSame
<1>16. OwedOK'
  <2>. SUFFICES ASSUME NEW d \in LogDevice, NEW j \in Post, <<d, j>> \in owed'
                PROVE  /\ post'[j].pc = "done" /\ post'[j].room \in member /\ cursor[d][post'[j].room] # None
                       /\ \E v \in logRows' : v.id = j
    BY <1>7, <1>12 DEF OwedOK, LogTypes
  <2>1. CASE <<d, j>> \in owed
    <3>1. /\ post[j].pc = "done" /\ post[j].room \in member /\ cursor[d][post[j].room] # None
          /\ \E v \in logRows : v.id = j
      BY Zenon, <2>1 DEF LogInv, OwedOK
    <3>2. j # i
      BY Zenon, <1>1, <3>1
    <3>. QED  BY Zenon, <1>7, <1>8, <3>1, <3>2
  <2>2. CASE j = i /\ d \in p.to
    BY Zenon, <1>4, <1>6, <1>7, <1>8, <1>10, <2>2
  <2>. QED  BY Zenon, <1>11, <2>1, <2>2
<1>17. ASSUME NEW j \in Post PROVE PostOK(j)'
  <2>0. PostOK(i)
    BY Zenon DEF LogInv
  <2>1. CASE j = i
    <3>1. post'[j] = q
      BY Zenon, <1>8, <2>1
    <3>2. q.pc = "done" /\ q.seq <= head'[q.room]
      BY <1>2, <1>4, <1>9
    <3>. QED  BY Zenon, <3>1, <3>2 DEF PostOK, Open
  <2>2. CASE j # i
    <3>1. PostOK(j) /\ post'[j] = post[j]
      BY Zenon, <1>8, <2>2 DEF LogInv
    <3>2. post[j].pc = "written" => post[j].room # r
      BY Zenon, <1>1, <1>2, <2>0, <2>2 DEF PostOK
    <3>3. post[j].pc = "written" => post[j].seq = head'[post[j].room] + 1
      <4>1. post[j].pc = "written" => post[j].room \in Room
        BY Zenon, OpenTyped DEF Open, LogInv, OpenPosts
      <4>. QED  BY Zenon, <1>9, <3>1, <3>2, <4>1 DEF PostOK
    <3>4. \A k \in Post : post[j].pc = "written" /\ post'[k].pc = "written" /\ post'[k].room = post[j].room => k = j
      BY Zenon, <1>4, <1>8, <3>1 DEF PostOK
    <3>5. post[j].pc = "done" => post[j].seq <= head'[post[j].room]
      <4>1. post[j].pc = "done" => post[j] \in ClosedPosts
        BY Zenon, PostKinds DEF LogInv, LogTypes
      <4>2. post[j].pc = "done" => post[j].seq \in Nat /\ post[j].room \in Room /\ post[j].seq <= head[post[j].room]
        BY Zenon, <3>1, <4>1 DEF ClosedPosts, PostOK
      <4>3. CASE post[j].room = r
        <5>1. post[j].pc = "done" => post[j].seq \in Nat /\ post[j].seq <= head[r]
          BY Zenon, <4>2, <4>3
        <5>2. \A m \in Nat : m <= head[r] => m <= n
          BY <1>2
        <5>. QED  BY Zenon, <1>9, <4>3, <5>1, <5>2
      <4>4. CASE post[j].room # r
        BY Zenon, <1>9, <4>2, <4>4
      <4>. QED  BY Zenon, <4>3, <4>4
    <3>6. Open(j) => \A d \in post[j].to : post[j].seen = "yes" /\ post[j].room \in member /\ cursor[d][post[j].room] # None
      BY Zenon, <3>1 DEF PostOK
    <3>. QED  BY <1>7, <3>1, <3>3, <3>4, <3>5, <3>6 DEF PostOK, Open
  <2>. QED  BY Zenon, <2>1, <2>2
<1>18. \A v \in logRows' : RowOK(v)'
  <2>. SUFFICES ASSUME NEW v \in logRows' PROVE RowOK(v)'
    BY Zenon
  <2>1. CASE v \in logRows
    <3>1. RowOK(v) /\ v.id \in Post /\ v.id # i
      BY Zenon, <1>1, <2>1 DEF LogInv, LogTypes, LogRow, RowOK
    <3>. QED  BY Zenon, <1>8, <3>1 DEF RowOK
  <2>2. CASE v = w
    BY Zenon, <1>4, <1>6, <1>8, <2>2 DEF RowOK
  <2>. QED  BY Zenon, <1>7, <2>1, <2>2
<1>19. ASSUME NEW d \in LogDevice PROVE got[d] \subseteq got'[d] /\ GotOK(d)'
  <2>1. GotOK(d) /\ got' = got /\ paged' = paged
    BY Zenon, <1>7 DEF LogInv
  <2>2. ASSUME NEW j \in got[d] PROVE GotOne(d, j)'
    <3>1. CASE j = i
      BY <1>4, <1>8, <1>9, <3>1 DEF GotOne, Reached
    <3>2. CASE j # i
      <4>1. post'[j] = post[j]
        BY Zenon, <1>8, <3>2 DEF LogInv, LogTypes
      <4>. QED  BY Zenon, <1>14, <4>1, GotStays
    <3>. QED  BY Zenon, <3>1, <3>2
  <2>. QED  BY Zenon, <2>1, <2>2 DEF GotOK
<1>20. \A j \in Post : post[j].pc = "done" => post'[j] = post[j]
  BY Zenon, <1>1, <1>8
<1>. QED  BY Zenon, <1>7, <1>12, <1>13, <1>14, <1>15, <1>16, <1>17, <1>18, <1>19, <1>20, PostsMove
\* A post fails: a device the sockets had told of it goes on from a seq that
\* was published and rolled back.
LEMMA FailPostKeeps ==
  ASSUME LogInv, NEW i \in Post, FailPost(i)
  PROVE  LogInv'
<1>1. PICK p \in OpenPosts : p = post[i]
  BY Zenon, OpenTyped DEF FailPost, LogInv
<1>2. PICK r \in Room, n \in Nat : r = p.room /\ n = p.seq /\ p.pc \in {"decided", "written"}
  BY Zenon DEF OpenPosts
<1>3. PICK q : q = [pc |-> "failed", room |-> r, seq |-> n]
  BY Zenon
<1>4. q \in ClosedPosts /\ q.pc = "failed" /\ q.room = r /\ q.seq = n
  BY Zenon, <1>3 DEF ClosedPosts
<1>5. /\ UNCHANGED <<member, drains, marked, cursor, head, logRows>>
      /\ UNCHANGED <<fetch, ack, join, sweep, got, paged, owed>>
      /\ post' = [post EXCEPT ![i] = q]
      /\ echo' = IF p.pc = "written" /\ p.live = "yes" THEN echo \cup {<<r, n>>} ELSE echo
  BY Zenon, <1>1, <1>2, <1>3 DEF FailPost, tables
<1>6. /\ post'[i] = q /\ \A j \in Post : j # i => post'[j] = post[j]
      /\ post' \in [Post -> {NoPost} \cup OpenPosts \cup ClosedPosts]
  BY Zenon, <1>4, <1>5 DEF LogInv, LogTypes
<1>7. LogTypes'
  BY Zenon, <1>5, <1>6 DEF LogInv, LogTypes
<1>8. \A d \in LogDevice, j \in Post : Owes(d, j)' => Owes(d, j) /\ post'[j].room = post[j].room /\ post'[j].seq = post[j].seq
  <2>. SUFFICES ASSUME NEW d \in LogDevice, NEW j \in Post, Owes(d, j)' PROVE Owes(d, j)
    BY Zenon, <1>1, <1>2, <1>4, <1>6
  <2>1. CASE j = i
    BY Zenon, <1>4, <1>5, <1>6, <2>1 DEF Owes
  <2>2. CASE j # i
    BY Zenon, <1>5, <1>6, <2>2 DEF Owes
  <2>. QED  BY Zenon, <2>1, <2>2
<1>9. \A d \in LogDevice, t \in Room, s \in Nat : Reached(d, t, s) => Reached(d, t, s)'
  <2>. SUFFICES ASSUME NEW d \in LogDevice, NEW t \in Room, NEW s \in Nat, Reached(d, t, s)
                PROVE  Reached(d, t, s)'
    BY Zenon
  <2>1. UNCHANGED <<head, got>> /\ echo \subseteq echo' /\ got[d] \subseteq Post
    BY Zenon, <1>5 DEF LogInv, LogTypes
  <2>2. CASE s <= head[t] \/ <<t, s>> \in echo
    BY Zenon, <2>1, <2>2 DEF Reached
  <2>3. CASE s = head[t] + 1 /\ \E j \in got[d] : post[j].pc = "written" /\ post[j].room = t
    <3>1. PICK j \in got[d] : post[j].pc = "written" /\ post[j].room = t
      BY Zenon, <2>3
    <3>2. CASE j = i
      <4>1. GotOne(d, i) /\ PostOK(i)
        BY Zenon, <3>1, <3>2 DEF LogInv, GotOK
      <4>2. p.live = "yes" /\ p.pc = "written" /\ t = r /\ n = s
        BY Zenon, <1>1, <1>2, <2>3, <3>1, <3>2, <4>1 DEF GotOne, PostOK
      <4>3. <<t, s>> \in echo'
        BY Zenon, <1>5, <4>2
      <4>. QED  BY Zenon, <2>1, <2>3, <4>3 DEF Reached
    <3>3. CASE j # i
      <4>1. post'[j] = post[j]
        BY Zenon, <1>6, <2>1, <3>3
      <4>. QED  BY Zenon, <2>1, <2>3, <3>1, <4>1 DEF Reached
    <3>. QED  BY Zenon, <3>2, <3>3
  <2>. QED  BY Zenon, <2>2, <2>3 DEF Reached
<1>10. \A d \in LogDevice, t \in Room : \A s : Holds(d, t, s)' => Holds(d, t, s)
  <2>1. \A d \in LogDevice : \A j \in paged[d] : post'[j].room = post[j].room /\ post'[j].seq = post[j].seq
    BY Zenon, <1>1, <1>2, <1>4, <1>6 DEF LogInv, LogTypes
  <2>. QED  BY Zenon, <1>5, <2>1, HoldsSame
<1>11. \A j \in Post : post[j].pc = "done" => post'[j] = post[j]
  BY Zenon, <1>1, <1>2, <1>6
<1>12. OwedOK'
  <2>1. \A o \in owed : o[2] \in Post
    BY Zenon DEF LogInv, LogTypes
  <2>2. ASSUME NEW o \in owed
        PROVE  /\ post'[o[2]].pc = "done" /\ post'[o[2]].room \in member /\ cursor[o[1]][post'[o[2]].room] # None
               /\ \E v \in logRows : v.id = o[2]
    <3>1. /\ post[o[2]].pc = "done" /\ post[o[2]].room \in member /\ cursor[o[1]][post[o[2]].room] # None
          /\ \E v \in logRows : v.id = o[2]
      BY Zenon DEF LogInv, OwedOK
    <3>2. post'[o[2]] = post[o[2]]
      BY Zenon, <1>11, <2>1, <3>1
    <3>. QED  BY Zenon, <3>1, <3>2
  <2>. QED  BY Zenon, <1>5, <2>2 DEF OwedOK
<1>13. ASSUME NEW j \in Post PROVE PostOK(j)'
  <2>1. CASE j = i
    <3>1. post'[j].pc = "failed"
      BY Zenon, <1>4, <1>6, <2>1
    <3>. QED  BY Zenon, <3>1 DEF PostOK, Open
  <2>2. CASE j # i
    <3>1. PostOK(j) /\ post'[j] = post[j]
      BY Zenon, <1>6, <2>2 DEF LogInv
    <3>2. \A k \in Post : post'[k].pc = "written" => post'[k] = post[k]
      <4>1. q.pc # "written"
        BY Zenon, <1>4
      <4>. QED  BY Zenon, <1>6, <4>1
    <3>3. UNCHANGED <<member, head, cursor>>
      BY Zenon, <1>5
    <3>4. post[j].pc = "written" =>
            /\ post[j].seq = head[post[j].room] + 1
            /\ \A k \in Post : post'[k].pc = "written" /\ post'[k].room = post[j].room => k = j
      BY Zenon, <3>1, <3>2 DEF PostOK
    <3>. QED  BY Zenon, <3>1, <3>3, <3>4 DEF PostOK, Open
  <2>. QED  BY Zenon, <2>1, <2>2
<1>14. \A v \in logRows' : RowOK(v)'
  <2>1. \A v \in logRows : v.id \in Post /\ RowOK(v)
    BY Zenon DEF LogInv, LogTypes, LogRow
  <2>. QED  BY Zenon, <1>5, <1>11, <2>1 DEF RowOK
<1>15. ASSUME NEW d \in LogDevice PROVE got[d] \subseteq got'[d] /\ GotOK(d)'
  <2>1. GotOK(d) /\ got' = got /\ paged' = paged
    BY Zenon, <1>5 DEF LogInv
  <2>2. ASSUME NEW j \in got[d] PROVE GotOne(d, j)'
    <3>1. CASE j = i
      <4>1. Reached(d, r, n)
        BY Zenon, <1>1, <1>2, <2>1, <3>1 DEF GotOK, GotOne
      <4>2. Reached(d, r, n)'
        BY Zenon, <1>9, <4>1
      <4>. QED  BY Zenon, <1>4, <1>6, <3>1, <4>2 DEF GotOne
    <3>2. CASE j # i
      <4>1. post'[j] = post[j]
        BY Zenon, <1>6, <3>2 DEF LogInv, LogTypes
      <4>. QED  BY Zenon, <1>9, <4>1, GotStays
    <3>. QED  BY Zenon, <3>1, <3>2
  <2>. QED  BY Zenon, <2>1, <2>2 DEF GotOK
<1>16. fetch' = fetch /\ echo \subseteq echo'
  BY Zenon, <1>5
<1>. QED  BY Zenon, <1>7, <1>8, <1>9, <1>10, <1>11, <1>12, <1>13, <1>14, <1>15, <1>16, PostsMove
\* The account leaves a room: its rows, its cursors and what it was owed there
\* go together, and no post in flight will be owed to it.
LEMMA LeaveKeeps ==
  ASSUME LogInv, NEW r \in Room, Leave(r)
  PROVE  LogInv'
<1>. DEFINE Cleared(p) == [p EXCEPT !.to = {}]
<1>1. \A p \in OpenPosts : /\ Cleared(p) \in OpenPosts /\ Cleared(p).pc = p.pc /\ Cleared(p).room = p.room /\ Cleared(p).seq = p.seq
                           /\ Cleared(p).to = {} /\ Cleared(p).live = p.live
  BY Zenon DEF OpenPosts
<1>2. /\ UNCHANGED <<drains, marked, head, fetch, ack, join, sweep, got, paged, echo>>
      /\ member' = member \ {r}
      /\ cursor' = [d \in LogDevice |-> [cursor[d] EXCEPT ![r] = None]]
      /\ logRows' = {w \in logRows : w.room # r \/ w.to = "all"}
      /\ owed' = {p \in owed : post[p[2]].room # r}
      /\ post' = [i \in Post |-> IF Open(i) /\ post[i].room = r THEN Cleared(post[i]) ELSE post[i]]
  BY Zenon DEF Leave
<1>3. ASSUME NEW i \in Post
      PROVE  /\ post'[i] \in {NoPost} \cup OpenPosts \cup ClosedPosts
             /\ post'[i] # post[i] => /\ Open(i) /\ post[i].room = r /\ post'[i].pc = post[i].pc /\ post'[i].room = r
                                      /\ post'[i].seq = post[i].seq /\ post'[i].to = {} /\ post'[i].live = post[i].live
             /\ Open(i) /\ post[i].room = r => post'[i].to = {}
  <2>1. CASE Open(i) /\ post[i].room = r
    <3>1. PICK p \in OpenPosts : p = post[i]
      BY Zenon, <2>1, OpenTyped DEF LogInv
    <3>2. post'[i] = Cleared(p)
      BY Zenon, <1>2, <2>1, <3>1
    <3>. HIDE DEF Cleared
    <3>. QED  BY Zenon, <1>1, <2>1, <3>1, <3>2
  <2>2. CASE ~ (Open(i) /\ post[i].room = r)
    <3>1. post'[i] = post[i]
      BY Zenon, <1>2, <2>2
    <3>. QED  BY Zenon, <2>2, <3>1 DEF LogInv, LogTypes
  <2>. QED  BY Zenon, <2>1, <2>2
<1>. HIDE DEF Cleared
<1>4. post' \in [Post -> {NoPost} \cup OpenPosts \cup ClosedPosts]
  <2>1. post' = [i \in Post |-> post'[i]]
    BY Zenon, <1>2
  <2>. QED  BY Zenon, <1>3, <2>1
<1>5. \A i \in Post : /\ post[i].pc = "done" => post'[i] = post[i]
                      /\ post'[i] # post[i] => post'[i].pc = post[i].pc /\ post'[i].room = post[i].room /\ post'[i].seq = post[i].seq
  BY Zenon, <1>3 DEF Open
<1>6. ASSUME NEW d \in LogDevice, NEW t \in Room
      PROVE  cursor'[d][t] = IF t = r THEN None ELSE cursor[d][t]
  BY Zenon, <1>2 DEF LogInv, LogTypes, Places
<1>7. LogTypes'
  <2>1. IsFiniteSet(logRows')
    BY Zenon, <1>2, FS_Subset DEF LogInv, LogTypes
  <2>2. cursor' \in [LogDevice -> Places]
    <3>1. \A d \in LogDevice : [cursor[d] EXCEPT ![r] = None] \in Places
      BY Zenon DEF LogInv, LogTypes, Places, Place
    <3>. QED  BY Zenon, <1>2, <3>1
  <2>. QED  BY Zenon, <1>2, <1>4, <2>1, <2>2 DEF LogInv, LogTypes
<1>8. \A d \in LogDevice, j \in Post : Owes(d, j)' => Owes(d, j) /\ post'[j].room = post[j].room /\ post'[j].seq = post[j].seq
  <2>. SUFFICES ASSUME NEW d \in LogDevice, NEW j \in Post, Owes(d, j)' PROVE Owes(d, j)
    BY Zenon, <1>5
  <2>1. CASE post'[j] = post[j]
    BY Zenon, <1>2, <2>1 DEF Owes
  <2>2. CASE post'[j] # post[j]
    BY Zenon, <1>2, <1>3, <2>2 DEF Owes
  <2>. QED  BY Zenon, <2>1, <2>2
<1>9. ASSUME NEW d \in LogDevice PROVE \A t \in Room, s \in Nat : Reached(d, t, s) => Reached(d, t, s)'
  <2>1. UNCHANGED <<head, got, echo>>
    BY Zenon, <1>2
  <2>2. \A j \in got[d] : post'[j].pc = post[j].pc /\ (post[j].pc = "written" => post'[j].room = post[j].room)
    BY Zenon, <1>5 DEF LogInv, LogTypes
  <2>. QED  BY Zenon, <2>1, <2>2 DEF Reached
<1>10. \A d \in LogDevice, t \in Room : \A s : Holds(d, t, s)' => Holds(d, t, s)
  <2>. SUFFICES ASSUME NEW d \in LogDevice, NEW t \in Room, NEW s, Holds(d, t, s)' PROVE Holds(d, t, s)
    BY Zenon
  <2>1. UNCHANGED <<fetch, ack, join, paged>>
    BY Zenon, <1>2
  <2>2. \A j \in paged[d] : post'[j] = post[j] \/ (post'[j].room = post[j].room /\ post'[j].seq = post[j].seq)
    BY Zenon, <1>5 DEF LogInv, LogTypes
  <2>3. s = cursor'[d][t] /\ s # None => s = cursor[d][t]
    BY Zenon, <1>6
  <2>. QED  BY Zenon, <2>1, <2>2, <2>3 DEF Holds, HasPage
<1>11. OwedOK'
  <2>. SUFFICES ASSUME NEW d \in LogDevice, NEW j \in Post, <<d, j>> \in owed'
                PROVE  /\ post'[j].pc = "done" /\ post'[j].room \in member' /\ cursor'[d][post'[j].room] # None
                       /\ \E v \in logRows' : v.id = j
    BY <1>7 DEF OwedOK, LogTypes
  <2>1. <<d, j>> \in owed /\ post[j].room # r
    BY Zenon, <1>2
  <2>2. /\ post[j].pc = "done" /\ post[j].room \in member /\ cursor[d][post[j].room] # None
        /\ \E v \in logRows : v.id = j
    BY Zenon, <2>1 DEF LogInv, OwedOK
  <2>3. PICK v \in logRows : v.id = j
    BY Zenon, <2>2
  <2>4. v \in logRows'
    BY Zenon, <1>2, <2>1, <2>3 DEF LogInv, RowOK
  <2>5. post'[j] = post[j]
    BY Zenon, <1>5, <2>2
  <2>6. post[j].room \in Room
    BY Zenon, <2>2 DEF LogInv, LogTypes
  <2>7. cursor'[d][post[j].room] = cursor[d][post[j].room]
    BY Zenon, <1>6, <2>1, <2>6
  <2>. QED  BY Zenon, <1>2, <2>1, <2>2, <2>3, <2>4, <2>5, <2>7
<1>12. ASSUME NEW j \in Post PROVE PostOK(j)'
  <2>1. PostOK(j) /\ head' = head /\ post'[j].pc = post[j].pc
    BY Zenon, <1>2, <1>5 DEF LogInv
  <2>2. post[j].pc \in {"written", "done"} => post'[j].room = post[j].room /\ post'[j].seq = post[j].seq
    BY Zenon, <1>5
  <2>3. \A k \in Post : post'[k].pc = "written" => post[k].pc = "written" /\ post'[k].room = post[k].room
    BY Zenon, <1>5
  <2>4. ASSUME Open(j)', NEW d \in post'[j].to
        PROVE  post'[j].seen = "yes" /\ post'[j].room \in member' /\ cursor'[d][post'[j].room] # None
    <3>1. post'[j] = post[j]
      BY Zenon, <1>3, <2>4
    <3>2. Open(j) /\ post[j].room # r
      BY Zenon, <1>3, <2>4, <3>1 DEF Open
    <3>3. post[j] \in OpenPosts
      BY Zenon, <3>2, OpenTyped DEF LogInv
    <3>4. d \in LogDevice /\ post[j].room \in Room
      BY Zenon, <2>4, <3>1, <3>3 DEF OpenPosts
    <3>5. post[j].seen = "yes" /\ post[j].room \in member /\ cursor[d][post[j].room] # None
      BY Zenon, <2>1, <2>4, <3>1, <3>2 DEF PostOK
    <3>6. cursor'[d][post[j].room] = cursor[d][post[j].room]
      BY Zenon, <1>6, <3>2, <3>4
    <3>. QED  BY Zenon, <1>2, <3>1, <3>2, <3>5, <3>6
  <2>. QED  BY Zenon, <2>1, <2>2, <2>3, <2>4 DEF PostOK
<1>13. \A v \in logRows' : RowOK(v)'
  <2>1. \A v \in logRows : v.id \in Post /\ RowOK(v)
    BY Zenon DEF LogInv, LogTypes, LogRow
  <2>2. logRows' \subseteq logRows
    BY Zenon, <1>2
  <2>3. ASSUME NEW v \in logRows PROVE RowOK(v)'
    <3>1. post'[v.id] = post[v.id]
      BY Zenon, <1>5, <2>1 DEF RowOK
    <3>. QED  BY Zenon, <2>1, <3>1 DEF RowOK
  <2>. QED  BY Zenon, <2>2, <2>3
<1>14. ASSUME NEW d \in LogDevice PROVE got[d] \subseteq got'[d] /\ GotOK(d)'
  <2>1. GotOK(d) /\ got' = got /\ paged' = paged /\ got[d] \subseteq Post
    BY Zenon, <1>2 DEF LogInv, LogTypes
  <2>2. ASSUME NEW j \in got[d] PROVE GotOne(d, j)'
    <3>1. CASE post'[j] = post[j]
      BY Zenon, <1>9, <3>1, GotStays
    <3>2. CASE post'[j] # post[j]
      <4>1. post'[j].pc = post[j].pc /\ post'[j].room = post[j].room /\ post'[j].seq = post[j].seq /\ post'[j].live = post[j].live /\ Open(j)
        BY Zenon, <1>3, <1>5, <2>1, <3>2
      <4>2. GotOne(d, j) /\ post[j] \in OpenPosts
        BY Zenon, <2>1, <4>1, OpenTyped DEF GotOK, LogInv
      <4>3. Reached(d, post[j].room, post[j].seq) /\ post[j].room \in Room /\ post[j].seq \in Nat
        BY Zenon, <4>2 DEF GotOne, OpenPosts
      <4>4. PICK t \in Room, s \in Nat : t = post[j].room /\ s = post[j].seq
        BY Zenon, <4>3
      <4>5. Reached(d, t, s)'
        BY Zenon, <1>9, <4>3, <4>4
      <4>. QED  BY Zenon, <4>1, <4>2, <4>4, <4>5 DEF GotOne
    <3>. QED  BY Zenon, <3>1, <3>2
  <2>. QED  BY Zenon, <2>1, <2>2 DEF GotOK
<1>15. fetch' = fetch /\ echo \subseteq echo'
  BY Zenon, <1>2
<1>. QED  BY Zenon, <1>5, <1>7, <1>8, <1>9, <1>10, <1>11, <1>12, <1>13, <1>14, <1>15, PostsMove

\* The log is empty at first.
LEMMA InitLogInv == LogInit => LogInv
<1>. SUFFICES ASSUME LogInit PROVE LogInv
  BY Zenon
<1>1. LogTypes
  BY Zenon, FS_EmptySet DEF LogInit, LogTypes, Places, Place
<1>2. \A d \in LogDevice, r \in Room : \A s : ~Holds(d, r, s)
  BY ZenonT(30) DEF LogInit, Holds, HasPage, NoFetch, NoAck, NoJoin
<1>3. \A i \in Post : PostOK(i)
  BY Zenon DEF LogInit, PostOK, Open, NoPost
<1>4. \A d \in LogDevice : GotOK(d) /\ PageOK(d)
  BY Zenon DEF LogInit, GotOK, PageOK, HasPage, NoFetch
<1>. QED  BY Zenon, <1>1, <1>2, <1>3, <1>4 DEF LogInv, OwedOK, HeldOK, LogInit

\* Every step of the log keeps the invariant.
LEMMA NextLogInv == LogInv /\ [LogNext]_logVars => LogInv'
<1>. SUFFICES ASSUME LogInv, [LogNext]_logVars PROVE LogInv'
  BY Zenon
<1>1. CASE UNCHANGED logVars
  <2>1. LogTypes'
    BY Zenon, <1>1 DEF LogInv, LogTypes, logVars, tables, requests, ghosts
  <2>. QED  BY Zenon, <1>1, <2>1, MarksKeep DEF logVars, tables, requests
<1>2. CASE PostStep
  BY Zenon, <1>2, DecidePostKeeps, WritePostKeeps, CommitPostKeeps, FailPostKeeps DEF PostStep
<1>3. CASE DeviceStep
  <2>1. \A n \in 1..MaxPosts : n \in Nat
    OBVIOUS
  <2>. QED  BY Zenon, <1>3, <2>1, BeginFetchKeeps, ReadPageKeeps, EndFetchKeeps, BeginAckKeeps, EndAckKeeps DEF DeviceStep
<1>4. CASE MemberStep
  BY Zenon, <1>4, BeginJoinKeeps, EndJoinKeeps, LeaveKeeps DEF MemberStep
<1>5. CASE SweepStep
  <2>1. ASSUME NEW d \in Drainer, LogPin(d) \/ Unpin(d) PROVE LogInv'
    <3>1. UNCHANGED <<member, marked, cursor, head, logRows, requests, ghosts>>
      BY Zenon, <2>1 DEF LogPin, Unpin
    <3>2. LogTypes'
      BY Zenon, <3>1 DEF LogInv, LogTypes, requests, ghosts
    <3>. QED  BY Zenon, <3>1, <3>2, MarksKeep DEF requests
  <2>2. ASSUME NEW S \in SUBSET LogDevice, ReadStale(S) PROVE LogInv'
    <3>1. UNCHANGED <<tables, post, fetch, ack, join, ghosts>>
      BY Zenon, <2>2 DEF ReadStale
    <3>2. LogTypes'
      BY Zenon, <3>1 DEF LogInv, LogTypes, tables, ghosts
    <3>. QED  BY Zenon, <3>1, <3>2, MarksKeep DEF tables
  <2>3. ASSUME Demote PROVE LogInv'
    <3>1. UNCHANGED <<member, cursor, head, logRows, post, fetch, ack, join, ghosts>> /\ marked' \subseteq marked
      BY Zenon, <2>3 DEF Demote
    <3>2. LogTypes'
      BY Zenon, <3>1 DEF LogInv, LogTypes, ghosts
    <3>. QED  BY Zenon, <3>1, <3>2, MarksKeep
  <2>. QED  BY Zenon, <1>5, <2>1, <2>2, <2>3, SweepCursorsKeeps, ExpireKeeps DEF SweepStep
<1>. QED  BY Zenon, <1>1, <1>2, <1>3, <1>4, <1>5 DEF LogNext

\* A post that was written to the log only is stored by each device that relied
\* on it or still served to it, however posting, fetching, acknowledging,
\* joining, leaving and the sweeps interleave (group_log.py, messages.py).
THEOREM LogNeverLoses == LogSpec => []LogKept
<1>1. LogSpec => []LogInv
  BY InitLogInv, NextLogInv, PTL DEF LogSpec
<1>. QED  BY <1>1, LogInvKept, PTL
=============================================================================
