-------------------------------- MODULE Keys --------------------------------
(***************************************************************************)
(* The key slots of one account and their one-time prekeys: routers/       *)
(* keys.py, services/prekey_sweep.py and services/device_sweep.py.  Slot 1 *)
(* is the primary bundle on the users row, the others are rows of devices. *)
(* An install is the key material behind a slot, one number each.  A first *)
(* message is what a sender builds from a bundle; it waits in the offline  *)
(* queue for at most QueueTTL days.  The sender goes on writing to that    *)
(* install until it fetches the device list again, RosterAge days at most. *)
(***************************************************************************)
EXTENDS Naturals, FiniteSets, FiniteSetsExt

CONSTANTS
  Slots,          \* 1 .. MAX_DEVICE_ID
  PreKeyIds, Senders, NoRow,
  QueueTTL,       \* offline_queue_sweep.TTL_DAYS
  ConsumedAge,    \* CONSUMED_MAX_AGE_DAYS
  RevokedAge,     \* REVOKED_MAX_AGE_DAYS
  RosterAge, MaxDay, MaxInstalls, MaxUploads,
  Focuses         \* what a behaviour is about: the prekeys of a slot, or the slots themselves

\* A consumed key outlives the messages built on it, and a tombstone outlives
\* the messages of those who have not fetched the device list since.
ASSUME KeysAssumption ==
  /\ IsFiniteSet(Slots) /\ Slots = 1..Cardinality(Slots) /\ 1 \in Slots
  /\ IsFiniteSet(PreKeyIds) /\ PreKeyIds \subseteq Nat
  /\ QueueTTL \in Nat /\ ConsumedAge \in Nat /\ RevokedAge \in Nat /\ RosterAge \in Nat
  /\ QueueTTL <= ConsumedAge /\ RosterAge + QueueTTL <= RevokedAge
  /\ MaxDay \in Nat /\ MaxInstalls \in Nat /\ MaxUploads \in Nat
  /\ NoRow \notin Nat
  /\ NoRow \notin [own : Nat, gone : Nat \cup {NoRow}]
  /\ NoRow \notin [slot : Nat, own : Nat, row : Nat \cup {NoRow}]
  /\ NoRow \notin [own : Nat, seen : SUBSET PreKeyIds]

VARIABLES
  focus, day,
  installs,   \* installs so far
  slot,       \* the row of a slot: its install, whether revoked and since when
  pool,       \* one_time_prekeys: slot, install, prekey_id, upload, consumed_at (NoRow: not consumed), row id
  rows,       \* row ids handed out
  fetch,      \* a fetch between its read of the bundle, its claim and its commit
  refill,     \* a replenish between its read of the pool and its commit
  letters,    \* first messages and later ones in somebody's queue
  session     \* what a sender knows: a slot, the install it met there, and when it last looked

keyVars == <<focus, day, installs, slot, pool, rows, fetch, refill, letters, session>>

KeysInit ==
  /\ focus \in Focuses /\ day = 0 /\ installs = 1 /\ rows = 0
  /\ slot = [s \in Slots |-> IF s = 1 THEN [own |-> 1, gone |-> NoRow] ELSE NoRow]
  /\ pool = {} /\ fetch = [x \in Senders |-> NoRow] /\ refill = [s \in Slots |-> NoRow]
  /\ letters = {} /\ session = {}

LiveSlot(s) == slot[s] # NoRow /\ slot[s].gone = NoRow
PoolOf(s) == {k \in pool : k.slot = s}
Locked == {fetch[x].row : x \in {y \in Senders : fetch[y] # NoRow /\ fetch[y].row # NoRow}}
\* A DELETE of the pool waits for the claims that hold its rows.
Unlocked(s) == \A k \in PoolOf(s) : k.row \notin Locked

\* Rows for the ids, numbered from the next row id on.
InsertKey(s, own, ids) ==
  LET Rank(i) == Cardinality({j \in ids : j < i}) IN
  {[slot |-> s, own |-> own, id |-> i, up |-> day, used |-> NoRow, row |-> rows + 1 + Rank(i)] : i \in ids}

\* upload_bundle: a new install in the primary slot, its pool replaced.
UploadBundle(ids) ==
  /\ installs < MaxInstalls /\ installs' = installs + 1 /\ Unlocked(1) /\ rows + Cardinality(ids) <= MaxUploads
  /\ slot' = [slot EXCEPT ![1] = [own |-> installs', gone |-> NoRow]]
  /\ pool' = (pool \ PoolOf(1)) \cup InsertKey(1, installs', ids) /\ rows' = rows + Cardinality(ids)
  /\ UNCHANGED <<focus, day, fetch, refill, letters, session>>

\* register_device: the next slot after every row of the account, the revoked ones included.
NextSlot == 1 + Max({1} \cup {s \in Slots : slot[s] # NoRow})
RegisterDevice(ids) ==
  /\ focus = "slots" /\ NextSlot \in Slots /\ installs < MaxInstalls /\ installs' = installs + 1 /\ rows + Cardinality(ids) <= MaxUploads
  /\ slot' = [slot EXCEPT ![NextSlot] = [own |-> installs', gone |-> NoRow]]
  /\ pool' = pool \cup InsertKey(NextSlot, installs', ids) /\ rows' = rows + Cardinality(ids)
  /\ UNCHANGED <<focus, day, fetch, refill, letters, session>>

\* replenish_prekeys, replenish_device_prekeys: ids the pool has, consumed ones included, are skipped.
\* A client has one batch under way at a time.
Refill(s) ==
  /\ LiveSlot(s) /\ refill[s] = NoRow
  /\ refill' = [refill EXCEPT ![s] = [own |-> slot[s].own, seen |-> {k.id : k \in PoolOf(s)}]]
  /\ UNCHANGED <<focus, day, installs, slot, pool, rows, fetch, letters, session>>
RefillCommit(s, ids) ==
  /\ refill[s] # NoRow /\ refill' = [refill EXCEPT ![s] = NoRow]
  /\ LET new == ids \ refill[s].seen IN
     /\ rows + Cardinality(new) <= MaxUploads
     /\ pool' = pool \cup InsertKey(s, refill[s].own, new) /\ rows' = rows + Cardinality(new)
  /\ UNCHANGED <<focus, day, installs, slot, fetch, letters, session>>

\* _primary_bundle, fetch_device_bundle: the row of the slot, and then for a caller that may take
\* one (_may_take_opk) the oldest key nobody has and nobody is taking: FOR UPDATE SKIP LOCKED.
Fetch(x, s) ==
  /\ LiveSlot(s) /\ fetch[x] = NoRow
  /\ fetch' = [fetch EXCEPT ![x] = [slot |-> s, own |-> slot[s].own, row |-> NoRow]]
  /\ UNCHANGED <<focus, day, installs, slot, pool, rows, refill, letters, session>>

FreeKeys(s) == {k.row : k \in {j \in PoolOf(s) : j.used = NoRow /\ j.row \notin Locked}}
Claim(x) ==
  /\ fetch[x] # NoRow /\ fetch[x].row = NoRow /\ FreeKeys(fetch[x].slot) # {}
  /\ fetch' = [fetch EXCEPT ![x].row = Min(FreeKeys(fetch[x].slot))]
  /\ UNCHANGED <<focus, day, installs, slot, pool, rows, refill, letters, session>>

\* The sender's first message names the key's id; `of' is the install that uploaded the key.
\* Only what the focus asks about is kept: messages that name a key, or everything to a slot.
Letter(x, s, own, i, of) == [by |-> x, slot |-> s, own |-> own, id |-> i, of |-> of, day |-> day]
Meet(x, i, of) ==
  LET f == fetch[x] IN
  /\ letters' = IF focus = "slots" \/ i # NoRow THEN letters \cup {Letter(IF i = NoRow THEN NoRow ELSE x, f.slot, f.own, i, of)} ELSE letters
  /\ session' = IF focus = "slots" THEN session \cup {[slot |-> f.slot, own |-> f.own, day |-> day]} ELSE session

\* The claim commits and the bundle goes out with its key; the sender deposits its first message.
FetchCommit(x) ==
  /\ fetch[x] # NoRow /\ fetch[x].row # NoRow
  /\ LET k == CHOOSE j \in pool : j.row = fetch[x].row IN
     /\ pool' = (pool \ {k}) \cup {[k EXCEPT !.used = day]} /\ Meet(x, k.id, k.own)
  /\ fetch' = [fetch EXCEPT ![x] = NoRow]
  /\ UNCHANGED <<focus, day, installs, slot, rows, refill>>

\* The pool is empty, or the caller showed neither a session nor a token: the bundle without a key.
FetchBare(x) ==
  /\ fetch[x] # NoRow /\ fetch[x].row = NoRow /\ Meet(x, NoRow, NoRow)
  /\ fetch' = [fetch EXCEPT ![x] = NoRow]
  /\ UNCHANGED <<focus, day, installs, slot, pool, rows, refill>>

\* The request dies before its commit and the claim with it.
FetchFails(x) ==
  /\ fetch[x] # NoRow /\ fetch[x].row # NoRow /\ fetch' = [fetch EXCEPT ![x] = NoRow]
  /\ UNCHANGED <<focus, day, installs, slot, pool, rows, refill, letters, session>>

\* A later message on a session whose device list is not fetched again yet.
Write(c) ==
  /\ letters' = letters \cup {Letter(NoRow, c.slot, c.own, NoRow, NoRow)}
  /\ UNCHANGED <<focus, day, installs, slot, pool, rows, fetch, refill, session>>

\* revoke_device_slot: the row stripped to a tombstone, the pool gone.
RevokeSlot(s) ==
  /\ s # 1 /\ LiveSlot(s) /\ Unlocked(s)
  /\ slot' = [slot EXCEPT ![s].gone = day] /\ pool' = pool \ PoolOf(s)
  /\ UNCHANGED <<focus, day, installs, rows, fetch, refill, letters, session>>

KeysPast(since, age) == since # NoRow /\ since + age < day

\* prekey_sweep: consumed rows past their age, from the day they were consumed.
SweepUploaded ==
  /\ pool' = {k \in pool : k.used = NoRow \/ ~KeysPast(k.up, ConsumedAge)} /\ pool' # pool
  /\ UNCHANGED <<focus, day, installs, slot, rows, fetch, refill, letters, session>>
SweepPrekeys ==
  /\ pool' = {k \in pool : ~KeysPast(k.used, ConsumedAge)} /\ pool' # pool
  /\ UNCHANGED <<focus, day, installs, slot, rows, fetch, refill, letters, session>>

\* device_sweep: tombstones of slots past theirs.
SweepSlots ==
  /\ slot' = [s \in Slots |-> IF slot[s] # NoRow /\ KeysPast(slot[s].gone, RevokedAge) THEN NoRow ELSE slot[s]]
  /\ slot' # slot
  /\ UNCHANGED <<focus, day, installs, pool, rows, fetch, refill, letters, session>>

\* A day passes: requests do not last that long, queues drop what is too old, rosters are fetched.
KeysMidnight ==
  /\ day < MaxDay /\ day' = day + 1
  /\ \A x \in Senders : fetch[x] = NoRow
  /\ \A s \in Slots : refill[s] = NoRow
  /\ letters' = {m \in letters : m.day + QueueTTL >= day'}
  /\ session' = {c \in session : c.day + RosterAge >= day'}
  /\ UNCHANGED <<focus, installs, slot, pool, rows, fetch, refill>>

\* Batches of keys; in a behaviour about slots their pools are empty.
Batches == IF focus = "slots" THEN {{}} ELSE SUBSET PreKeyIds \ {{}}

KeysNext ==
  \/ \E ids \in Batches : UploadBundle(ids) \/ RegisterDevice(ids)
  \/ \E s \in Slots : Refill(s) \/ RevokeSlot(s) \/ \E ids \in Batches : RefillCommit(s, ids)
  \/ \E x \in Senders : \/ \E s \in Slots : Fetch(x, s)
                        \/ Claim(x) \/ FetchCommit(x) \/ FetchBare(x) \/ FetchFails(x)
  \/ \E c \in session : Write(c)
  \/ SweepPrekeys \/ SweepSlots \/ KeysMidnight

KeysSpec == KeysInit /\ [][KeysNext]_keyVars

------------------------------------------------------------------------------
\* A one-time prekey is single use while it matters: no two messages that can still be waiting for an
\* install were built on the same prekey id of its slot, however fetches race, batches are offered
\* again and consumed rows are swept (_claim_opk, prekey_sweep's horizon).
OneUse ==
  \A m, n \in letters :
    m.id # NoRow /\ n.id = m.id /\ n.slot = m.slot /\ n.of = m.of => m = n

\* A slot number is not given to a new install while a message sealed to the old one can still be
\* waiting under that number (register_device, device_sweep's horizon); the primary slot is one
\* whose install changes in place.
SlotNotReused == \A m \in letters : m.slot # 1 /\ LiveSlot(m.slot) => slot[m.slot].own = m.own

\* A message waiting for an install can be read by it: no other was built on the same prekey id of
\* its slot, and the slot still has the install it was sealed to (_claim_opk and register_device,
\* prekey_sweep, device_sweep).
WaitingReadable == OneUse /\ SlotNotReused
=============================================================================
