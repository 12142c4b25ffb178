---------------------------- MODULE OfflineQueue ----------------------------
(***************************************************************************)
(* The offline queue of one account: sealed envelopes deposited while its  *)
(* devices are away, drained by each device at its own pace.               *)
(*                                                                         *)
(* Rows live in two tables, offline_messages ("direct") and                *)
(* offline_group_messages ("group"), each with its own autoincrement id.   *)
(* A device keeps one cursor with one mark per table and is served the     *)
(* rows above its marks.  Depositors, drains and acks are HTTP requests on *)
(* four workers over one READ COMMITTED database, so each handler is split *)
(* at the points where another request can get in between.                 *)
(*                                                                         *)
(* history, late, expired, high, base and taken are history variables: no  *)
(* guard reads them, except that an ack names envelopes its device took.   *)
(***************************************************************************)
EXTENDS Integers, FiniteSets, FiniteSetsExt

CONSTANTS Device,       \* installs of the account (the token's dev claim)
          Request,      \* slots for concurrent HTTP requests
          DeviceOf,     \* the install a request slot belongs to
          JobsOf,       \* what its client does: an old one only "drain"s
          Slot,         \* libsignal device ids
          SlotOf,       \* the libsignal id an install drains with
          AnySlot,      \* to_device_id IS NULL
          Addressee,    \* the to_device_id values senders use
          Stale,        \* STALE_CURSOR_DAYS, in clock ticks
          Superseded,   \* SUPERSEDED_CURSOR_DAYS, in clock ticks
          TTL,          \* OFFLINE_QUEUE_TTL_DAYS, in clock ticks
          Loads,        \* bounds: how many rows of each table a behaviour may insert
          MaxClock      \* bound: clock ticks

Axis == {"direct", "group"}

ASSUME QueueAssumption ==
  /\ DeviceOf \in [Request -> Device]
  /\ JobsOf \in [Request -> SUBSET {"fetch", "drain", "ack"}]
  /\ SlotOf \in [Device -> Slot]
  /\ AnySlot \notin Slot /\ Addressee \subseteq Slot \cup {AnySlot}
  /\ Stale \in Nat /\ Superseded \in Nat /\ TTL \in Nat
  /\ Loads \subseteq [Axis -> Nat] /\ MaxClock \in Nat

VARIABLES clock,    \* coarse time: one tick is days
          nextId,   \* the last autoincrement id handed out, per table
          counter,  \* mailbox_seq.next_seq
          pending,  \* rows inserted by a transaction that has not committed
          rows,     \* rows in the two tables
          history,  \* every row that ever committed
          late,     \* rows that committed after a higher id of their table
          expired,  \* rows the TTL sweep removed
          revoked,  \* installs on the account's denylist
          cursors,  \* installs that have a queue_cursors row
          mark,     \* last_direct_id and last_group_id of an install
          stamp,    \* updated_at of an install's cursor
          high,     \* the furthest any mark was ever written, per table
          base,     \* high when the install's cursor was created
          taken,    \* envelopes an install has taken over from the queue
          req       \* the requests under way

deposits == <<nextId, counter, pending, history, late>>
cursorVars == <<cursors, mark, stamp, high, base>>
vars == <<clock, deposits, rows, expired, revoked, cursorVars, taken, req>>

Row == [axis: Axis, id: Nat, to: Slot \cup {AnySlot}, seq: Nat, at: Nat]
Marks == [Axis -> Nat]
Zero == [ax \in Axis |-> 0]
Larger(m, n) == IF m >= n THEN m ELSE n

Idle == [pc |-> "idle", job |-> "none", found |-> {}, floor |-> Zero,
         seen |-> {}, goal |-> Zero, drop |-> {}, cut |-> Zero]

RequestState ==
  [pc: {"idle", "pin", "read", "prefix", "advance", "commit"},
   job: {"none", "fetch", "drain", "ack"}, found: SUBSET Device, floor: Marks,
   seen: SUBSET Row, goal: Marks, drop: SUBSET Device, cut: Marks]

Init ==
  /\ clock = 0 /\ nextId = Zero /\ counter = 0
  /\ pending = {} /\ rows = {} /\ history = {} /\ late = {} /\ expired = {}
  /\ revoked = {} /\ cursors = {} /\ high = Zero
  /\ mark = [d \in Device |-> Zero]
  /\ stamp = [d \in Device |-> 0]
  /\ base = [d \in Device |-> Zero]
  /\ taken = [d \in Device |-> {}]
  /\ req = [p \in Request |-> Idle]

-----------------------------------------------------------------------------
(* Deposits.                                                               *)

OnAxis(S, ax) == {r \in S : r.axis = ax}

\* The mailbox_seq row is locked from _next_mailbox_seq to the commit.
MailboxFree == OnAxis(pending, "direct") = {}

Insert(ax, to, seq) ==
  /\ nextId' = [nextId EXCEPT ![ax] = @ + 1]
  /\ \E load \in Loads : \A a \in Axis : nextId'[a] <= load[a]
  /\ pending' = pending \cup
       {[axis |-> ax, id |-> nextId[ax] + 1, to |-> to, seq |-> seq, at |-> clock]}
  /\ UNCHANGED <<clock, counter, rows, history, late, expired, cursorVars, taken, req, revoked>>

\* Mutant of DepositDirect: the next number from the rows there.
DepositAfterMax(to) ==
  MailboxFree /\ Insert("direct", to, Max({0} \cup {r.seq : r \in OnAxis(rows, "direct")}) + 1)

\* send_sealed allocates the sequence number under the row lock, then inserts.
DepositDirect(to) == MailboxFree /\ Insert("direct", to, counter + 1)

\* send_group_sealed and send_group_broadcast insert a copy under no lock.
DepositGroup == Insert("group", AnySlot, 0)

CommitDeposit(r) ==
  /\ pending' = pending \ {r}
  /\ rows' = rows \cup {r}
  /\ history' = history \cup {r}
  /\ late' = late \cup {x \in {r} : \E s \in OnAxis(history, r.axis) : s.id > r.id}
  /\ counter' = IF r.axis = "direct" THEN r.seq ELSE counter
  /\ UNCHANGED <<clock, nextId, expired, cursorVars, taken, req, revoked>>

\* A rollback takes the sequence number back, never the autoincrement id.
RollbackDeposit(r) ==
  /\ pending' = pending \ {r}
  /\ UNCHANGED <<clock, nextId, counter, rows, history, late, expired, cursorVars, taken, req, revoked>>

-----------------------------------------------------------------------------
(* Cursors.                                                                *)

account_watermark == [ax \in Axis |-> Max({0} \cup {mark[d][ax] : d \in cursors})]

drain_floor(d) == IF d \in cursors THEN mark[d] ELSE account_watermark

\* The marks an INSERT ... ON CONFLICT DO UPDATE leaves: the seed counts only
\* for a row this statement creates, and no mark moves backwards.
upsert_cursor(d, apply, seed) ==
  [ax \in Axis |-> IF d \in cursors THEN Larger(mark[d][ax], apply[ax])
                                    ELSE Larger(apply[ax], seed[ax])]

\* Mutant of CursorFree: the upsert takes no lock.
CursorUnlocked(d, p) == TRUE

\* A transaction that upserted a cursor holds its row until it commits.
CursorFree(d, p) ==
  \A q \in Request \ {p} : req[q].pc = "commit" => DeviceOf[q] # d

Visible(d, r) == r.axis = "direct" => r.to \in {AnySlot, SlotOf[d]}

Above(d, floor) == {r \in rows : Visible(d, r) /\ r.id > floor[r.axis]}

\* Mutants of acked_prefix: the highest acked row; consecutive ids only.
HighestAcked(d, ax, floor, acked) ==
  Max({floor[ax]} \cup {r.id : r \in OnAxis(Above(d, floor), ax) \cap acked})
ConsecutiveAcked(d, ax, floor, acked) ==
  LET ids == {r.id : r \in OnAxis(Above(d, floor), ax) \cap acked}
  IN  Max({floor[ax]} \cup {i \in ids : (floor[ax] + 1)..i \subseteq ids})

\* Where the contiguous acked prefix of the rows above floor ends.
acked_prefix(d, ax, floor, acked) ==
  LET served == OnAxis(Above(d, floor), ax)
      ends   == {i \in {floor[ax]} \cup {r.id : r \in served} :
                   \A r \in served : r.id <= i => r \in acked}
  IN  Max(ends)

\* The cursors _reap_below_min drops, given the stamps it reads.
Dropped(C, st) ==
  LET newest == Max({st[d] : d \in C})
  IN  {d \in C : \/ st[d] + Stale < clock
                 \/ newest + Superseded >= clock /\ st[d] + Superseded < clock}

\* Mutant of CursorsLeft: stale cursors are ignored but not deleted.
CursorsIgnored(d, drop) == cursors \cup {d}

CursorsLeft(d, drop) == (cursors \cup {d}) \ drop

-----------------------------------------------------------------------------
(* Requests.                                                               *)

StepTo(p, r) == req' = [req EXCEPT ![p] = r]

\* fetch_queue and ack_queue begin by reading the floor; current_uin has
\* refused a denylisted install by then.
Begin(p, job) ==
  LET d == DeviceOf[p] IN
  /\ req[p].pc = "idle" /\ d \notin revoked
  /\ StepTo(p, [Idle EXCEPT
       !.pc = IF job = "ack" THEN "prefix" ELSE IF d \in cursors THEN "read" ELSE "pin",
       !.job = job, !.found = cursors \cap {d}, !.floor = drain_floor(d)])
  /\ UNCHANGED <<clock, deposits, rows, expired, cursorVars, taken, revoked>>

\* A device with no cursor pins its floor and commits before it reads.
Pin(p) ==
  LET d == DeviceOf[p]
      m == upsert_cursor(d, Zero, req[p].floor)
  IN
  /\ req[p].pc = "pin" /\ CursorFree(d, p)
  /\ cursors' = cursors \cup {d}
  /\ mark' = [mark EXCEPT ![d] = m]
  /\ stamp' = [stamp EXCEPT ![d] = clock]
  /\ high' = [ax \in Axis |-> Larger(high[ax], m[ax])]
  /\ base' = IF d \in cursors THEN base ELSE [base EXCEPT ![d] = high']
  /\ StepTo(p, [req[p] EXCEPT !.pc = "read", !.floor = m])
  /\ UNCHANGED <<clock, deposits, rows, expired, taken, revoked>>

\* ack=true: the rows go out, and the client persists some of them (none when
\* the answer is lost).
FetchReply(p) ==
  LET d == DeviceOf[p] IN
  /\ req[p].pc = "read" /\ req[p].job = "fetch"
  /\ \E got \in SUBSET Above(d, req[p].floor) :
       taken' = [taken EXCEPT ![d] = @ \cup got]
  /\ StepTo(p, Idle)
  /\ UNCHANGED <<clock, deposits, rows, expired, cursorVars, revoked>>

\* ack=false: the cursor is to pass everything returned.
DrainRead(p) ==
  LET d == DeviceOf[p]
      S == Above(d, req[p].floor)
  IN
  /\ req[p].pc = "read" /\ req[p].job = "drain"
  /\ StepTo(p, [req[p] EXCEPT !.pc = "advance", !.seen = S,
       !.goal = [ax \in Axis |-> Max({req[p].floor[ax]} \cup {r.id : r \in OnAxis(S, ax)})]])
  /\ UNCHANGED <<clock, deposits, rows, expired, cursorVars, taken, revoked>>

\* The body names envelopes the client persisted: any of them, in any order.
AckPrefix(p) ==
  LET d == DeviceOf[p] IN
  /\ req[p].pc = "prefix"
  /\ \E acked \in SUBSET taken[d] :
       StepTo(p, [req[p] EXCEPT !.pc = "advance",
         !.goal = [ax \in Axis |-> acked_prefix(d, ax, req[p].floor, acked)]])
  /\ UNCHANGED <<clock, deposits, rows, expired, cursorVars, taken, revoked>>

\* _advance_cursor up to the DELETEs: upsert, then read every cursor.
Advance(p) ==
  LET d    == DeviceOf[p]
      seed == IF req[p].found # {} \/ d \in cursors THEN Zero ELSE account_watermark
      m    == upsert_cursor(d, req[p].goal, seed)
      C    == cursors \cup {d}
      mk   == [mark EXCEPT ![d] = m]
      drop == Dropped(C, [stamp EXCEPT ![d] = clock])
  IN
  /\ req[p].pc = "advance" /\ CursorFree(d, p)
  /\ high' = [ax \in Axis |-> Larger(high[ax], m[ax])]
  /\ StepTo(p, [req[p] EXCEPT !.pc = "commit", !.goal = m, !.drop = drop,
       !.cut = [ax \in Axis |-> Min({mk[e][ax] : e \in C \ drop})]])
  /\ UNCHANGED <<clock, deposits, rows, expired, cursors, mark, stamp, base, taken, revoked>>

\* The DELETEs of _reap_below_min and the commit.  The DELETE of a cursor waits
\* for a transaction that holds it, and then deletes what that one wrote.
Commit(p) ==
  LET d == DeviceOf[p]
      t == req[p]
  IN
  /\ t.pc = "commit"
  /\ \A e \in t.drop : CursorFree(e, p)
  /\ rows' = {r \in rows : r.id > t.cut[r.axis]}
  /\ cursors' = CursorsLeft(d, t.drop)
  /\ mark' = [e \in Device |-> IF e \in t.drop THEN Zero ELSE IF e = d THEN t.goal ELSE mark[e]]
  /\ stamp' = [e \in Device |-> IF e \in t.drop THEN 0 ELSE IF e = d THEN clock ELSE stamp[e]]
  /\ base' = [e \in Device |-> IF e \in t.drop THEN Zero
                               ELSE IF e = d /\ d \notin cursors THEN high ELSE base[e]]
  /\ taken' = [taken EXCEPT ![d] = @ \cup t.seen]
  /\ StepTo(p, Idle)
  /\ UNCHANGED <<clock, deposits, expired, high, revoked>>

\* The request dies before its commit: a crash, a lost connection, the victim
\* of a lock cycle.
Abort(p) ==
  /\ req[p].pc # "idle"
  /\ StepTo(p, Idle)
  /\ UNCHANGED <<clock, deposits, rows, expired, cursorVars, taken, revoked>>

-----------------------------------------------------------------------------
(* The rest of the system.                                                 *)

\* devices._revoke denylists the install and deletes its cursor.
Revoke(d) ==
  /\ d \notin revoked
  /\ \A q \in Request : req[q].pc = "commit" => DeviceOf[q] # d
  /\ revoked' = revoked \cup {d}
  /\ cursors' = cursors \ {d}
  /\ mark' = [mark EXCEPT ![d] = Zero]
  /\ stamp' = [stamp EXCEPT ![d] = 0]
  /\ base' = [base EXCEPT ![d] = Zero]
  /\ UNCHANGED <<clock, deposits, rows, expired, high, taken, req>>

\* The TTL sweep of one table.
SweepExpired(ax) ==
  LET old == {r \in OnAxis(rows, ax) : r.at + TTL < clock} IN
  /\ old # {}
  /\ rows' = rows \ old
  /\ expired' = expired \cup old
  /\ UNCHANGED <<clock, deposits, cursorVars, taken, req, revoked>>

\* A tick is days; no request or transaction lasts that long.
Tick ==
  /\ clock < MaxClock
  /\ pending = {} /\ \A p \in Request : req[p].pc = "idle"
  /\ clock' = clock + 1
  /\ UNCHANGED <<deposits, rows, expired, cursorVars, taken, req, revoked>>

Next ==
  \/ \E to \in Addressee : DepositDirect(to)
  \/ DepositGroup
  \/ \E r \in pending : CommitDeposit(r) \/ RollbackDeposit(r)
  \/ \E p \in Request :
       \/ \E job \in JobsOf[p] : Begin(p, job)
       \/ Pin(p) \/ FetchReply(p) \/ DrainRead(p) \/ AckPrefix(p)
       \/ Advance(p) \/ Commit(p) \/ Abort(p)
  \/ \E d \in Device : Revoke(d)
  \/ \E ax \in Axis : SweepExpired(ax)
  \/ Tick

Spec == Init /\ [][Next]_vars

\* No transaction or request hangs: it ends, if only by aborting.
Ends ==
  /\ WF_vars(\E r \in pending : CommitDeposit(r) \/ RollbackDeposit(r))
  /\ \A p \in Request :
       WF_vars(Pin(p) \/ FetchReply(p) \/ DrainRead(p) \/ AckPrefix(p)
               \/ Advance(p) \/ Commit(p) \/ Abort(p))

\* The ack under way names everything its device has taken.
AcksAll(p) ==
  \A ax \in Axis : req[p].goal[ax] >= acked_prefix(DeviceOf[p], ax, req[p].floor, taken[DeviceOf[p]])

\* A client goes on fetching and acking, persists what it is served, acks what
\* it persisted, and not every attempt dies half way.
Retries(p) ==
  LET d == DeviceOf[p] IN
  /\ SF_vars(Begin(p, "fetch"))
  /\ SF_vars(FetchReply(p) /\ Above(d, req[p].floor) \subseteq taken'[d])
  /\ SF_vars(Begin(p, "ack"))
  /\ SF_vars(AckPrefix(p) /\ AcksAll(p)')
  /\ SF_vars(Advance(p) /\ AcksAll(p))
  /\ SF_vars(Commit(p) /\ AcksAll(p))

-----------------------------------------------------------------------------
(* Properties.                                                             *)

\* The variables hold values of their types.
TypeOK ==
  /\ clock \in Nat /\ nextId \in Marks /\ counter \in Nat
  /\ pending \in SUBSET Row /\ rows \in SUBSET Row
  /\ history \in SUBSET Row /\ late \in SUBSET Row /\ expired \in SUBSET Row
  /\ revoked \in SUBSET Device /\ cursors \in SUBSET Device /\ high \in Marks
  /\ mark \in [Device -> Marks] /\ stamp \in [Device -> Nat]
  /\ base \in [Device -> Marks] /\ taken \in [Device -> SUBSET Row]
  /\ req \in [Request -> RequestState]

\* No envelope of S on table ax is lost to an install that has a cursor: each
\* one that committed for it was taken, expired, lay below what the account
\* had already drained when the cursor was created, or is still in the table
\* above the install's mark, where the next drain returns it.
Kept(S, ax) ==
  \A d \in cursors : \A r \in OnAxis(S, ax) :
    Visible(d, r) =>
      \/ r \in taken[d] \/ r \in expired
      \/ r.id <= base[d][ax]
      \/ r \in rows /\ r.id > mark[d][ax]

\* Kept for 1:1 envelopes: fetch_queue, ack_queue and _reap_below_min against
\* concurrent deposits, sibling installs, dropped and revoked cursors.
DirectKept == Kept(history, "direct")

\* Kept on both tables, but for group copies that committed after a copy with
\* a higher id: DepositGroup takes no lock, so ids may commit out of order.
InOrderKept == \A ax \in Axis : Kept(history \ late, ax)

\* The per-mailbox sequence orders committed 1:1 rows exactly as their ids do,
\* across rollbacks and after the sweep has emptied the mailbox.
SeqAgreesWithId ==
  \A r, s \in OnAxis(history, "direct") : r.id < s.id <=> r.seq < s.seq

\* While an install's cursor exists neither of its marks moves backwards,
\* whatever stale, repeated or overlapping acks arrive.
CursorForward ==
  [][\A d \in cursors \cap cursors' : \A ax \in Axis : mark'[d][ax] >= mark[d][ax]]_vars

\* Some 1:1 envelope is queued for install d above its mark.
Waiting(d) == \E r \in OnAxis(rows, "direct") : Visible(d, r) /\ mark[d]["direct"] < r.id

\* An install whose client keeps draining is, once the senders pause, served
\* every 1:1 envelope queued for it and gets its mark past them all, whatever
\* its siblings do, unless the install is revoked or loses its cursor.
CatchesUp(d) ==
  (d \in cursors /\ Waiting(d)) ~> (d \notin cursors \/ d \in revoked \/ ~ Waiting(d))

-----------------------------------------------------------------------------
(* What a comment of the code says and the code does not do.               *)

\* Kept for group copies.  fetch_queue: "Anything genuinely undelivered sits
\* ABOVE that mark and still arrives".
GroupKept == Kept(history, "group")
=============================================================================
