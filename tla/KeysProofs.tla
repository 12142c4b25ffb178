----------------------------- MODULE KeysProofs -----------------------------
(***************************************************************************)
(* Proofs about module Keys, for any slots, prekey ids, senders and number *)
(* of installs and days: a message that waits for an install can be read   *)
(* by it.  A consumed key outlives the messages built on it, a batch under *)
(* way has seen every id of its install, and a slot is not given away as   *)
(* long as somebody may write to the install it had.                       *)
(***************************************************************************)
EXTENDS Keys, FiniteSetTheorems, WellFoundedInduction, TLAPS

Day == Nat \cup {NoRow}
SlotRow == [own : Nat, gone : Day]
KeyRow == [slot : Slots, own : Nat, id : PreKeyIds, up : Nat, used : Day, row : Nat]
Bundle == [slot : Slots, own : Nat, row : Day]
Batch == [own : Nat, seen : SUBSET PreKeyIds]
Message == [by : Senders \cup {NoRow}, slot : Slots, own : Nat, id : PreKeyIds \cup {NoRow}, of : Day, day : Nat]
Contact == [slot : Slots, own : Nat, day : Nat]

KeyTypes ==
  /\ day \in Nat /\ installs \in Nat /\ rows \in Nat
  /\ slot \in [Slots -> {NoRow} \cup SlotRow]
  /\ pool \subseteq KeyRow
  /\ fetch \in [Senders -> {NoRow} \cup Bundle]
  /\ refill \in [Slots -> {NoRow} \cup Batch]
  /\ letters \subseteq Message
  /\ session \subseteq Contact

\* Row ids and installs are handed out once.
InUse ==
  /\ \A s \in Slots : slot[s] # NoRow => slot[s].own <= installs
  /\ \A s \in Slots : refill[s] # NoRow => refill[s].own <= installs
  /\ \A k \in pool : k.own <= installs /\ 1 <= k.row /\ k.row <= rows
  /\ \A m \in letters : m.id # NoRow => m.of \in Nat /\ m.of <= installs

\* The key with which message m was built is row k of the pool.
Built(m, k) == m.slot = k.slot /\ m.of = k.own /\ m.id = k.id

\* A pool has an id of an install once.
OneRow ==
  \A j, k \in pool : j.row = k.row \/ (j.slot = k.slot /\ j.own = k.own /\ j.id = k.id) => j = k

\* A key that is not consumed is that of no message.
Unspent == \A k \in pool, m \in letters : k.used = NoRow => ~Built(m, k)

\* A claim holds a row of its slot that nobody has, by itself.
Claimed(x) == fetch[x] # NoRow /\ fetch[x].row # NoRow
ClaimOK(x) == \E k \in pool : k.row = fetch[x].row /\ k.slot = fetch[x].slot /\ k.used = NoRow
Claims ==
  /\ \A x \in Senders : Claimed(x) => ClaimOK(x)
  /\ \A x, y \in Senders : Claimed(x) /\ Claimed(y) /\ fetch[x].row = fetch[y].row => x = y

\* As long as an install is in its slot, the consumed keys of the messages that
\* wait for it are in the pool.
Spent ==
  \A m \in letters :
    m.id # NoRow /\ LiveSlot(m.slot) /\ slot[m.slot].own = m.of => \E k \in pool : Built(m, k) /\ k.used = m.day

\* A batch under way has seen every id of its install.
BatchOK(s) ==
  refill[s] # NoRow =>
    /\ \A k \in pool : k.slot = s /\ k.own = refill[s].own => k.id \in refill[s].seen
    /\ \A m \in letters : m.slot = s /\ m.of = refill[s].own /\ m.id # NoRow => m.id \in refill[s].seen

\* What waits is not too old, and what a sender knows neither.
Recent ==
  /\ \A m \in letters : m.day <= day /\ day <= m.day + QueueTTL
  /\ \A c \in session : c.day <= day /\ day <= c.day + RosterAge

\* Slot s has or had the install `own', and if it is revoked that was on day g or later.
Kept(s, own, g) == slot[s] # NoRow /\ slot[s].own = own /\ (slot[s].gone = NoRow \/ g <= slot[s].gone)

\* Whoever may still write to an install of a slot, the slot has not been given away.
SlotsKept ==
  /\ \A x \in Senders : fetch[x] # NoRow /\ fetch[x].slot # 1 => Kept(fetch[x].slot, fetch[x].own, day)
  /\ \A c \in session : c.slot # 1 => Kept(c.slot, c.own, c.day)
  /\ \A m \in letters : m.slot # 1 => slot[m.slot] # NoRow /\ slot[m.slot].own = m.own
       /\ (slot[m.slot].gone = NoRow \/ m.day <= slot[m.slot].gone + RosterAge)

KeysInv ==
  /\ KeyTypes /\ InUse /\ OneRow /\ Unspent /\ Claims /\ Spent
  /\ \A s \in Slots : BatchOK(s)
  /\ Recent /\ SlotsKept /\ OneUse
-----------------------------------------------------------------------------
\* What NoRow is not, and slots are numbers up to a largest.
LEMMA NoRowIsNone ==
  /\ NoRow \notin Nat /\ NoRow \notin SlotRow /\ NoRow \notin Bundle /\ NoRow \notin Batch /\ NoRow \notin PreKeyIds
  /\ Slots \subseteq Nat /\ 1 \in Slots /\ \E n \in Nat : \A s \in Slots : s <= n
<1>1. Cardinality(Slots) \in Nat
  BY Zenon, KeysAssumption, FS_CardinalityType
<1>2. \A s \in Slots : s \in Nat /\ s <= Cardinality(Slots)
  <2>1. PICK n \in Nat : n = Cardinality(Slots)
    BY Zenon, <1>1
  <2>2. Slots = 1..n
    BY Zenon, <2>1, KeysAssumption
  <2>3. \A s \in 1..n : s \in Nat /\ s <= n
    OBVIOUS
  <2>. QED  BY Zenon, <2>1, <2>2, <2>3
<1>3. NoRow \notin SlotRow /\ NoRow \notin Batch
  BY Zenon, KeysAssumption DEF SlotRow, Batch, Day
<1>4. NoRow \notin Bundle
  <2>1. Bundle \subseteq [slot : Nat, own : Nat, row : Nat \cup {NoRow}]
    BY Zenon, <1>2 DEF Bundle, Day
  <2>. QED  BY Zenon, <2>1, KeysAssumption
<1>. QED  BY Zenon, <1>1, <1>2, <1>3, <1>4, KeysAssumption

\* What the rows of a batch are: of one slot and install, not consumed, one for
\* each id, and numbered from the next row id on.
LEMMA InsertedRows ==
  ASSUME KeyTypes, NEW s \in Slots, NEW own \in Nat, NEW ids \in SUBSET PreKeyIds
  PROVE  /\ Cardinality(ids) \in Nat
         /\ InsertKey(s, own, ids) \subseteq KeyRow
         /\ \A k \in InsertKey(s, own, ids) : /\ k.slot = s /\ k.own = own /\ k.id \in ids /\ k.used = NoRow
                                              /\ rows < k.row /\ k.row <= rows + Cardinality(ids)
         /\ \A j, k \in InsertKey(s, own, ids) : j.row = k.row \/ j.id = k.id => j = k
<1>. DEFINE Below(i) == {j \in ids : j < i}
            Rank(i) == Cardinality(Below(i))
            RowOf(i) == [slot |-> s, own |-> own, id |-> i, up |-> day, used |-> NoRow, row |-> rows + 1 + Rank(i)]
<1>1. IsFiniteSet(ids) /\ Cardinality(ids) \in Nat
  BY Zenon, KeysAssumption, FS_Subset, FS_CardinalityType
<1>2. ASSUME NEW i \in ids PROVE IsFiniteSet(Below(i)) /\ Rank(i) \in Nat /\ Rank(i) < Cardinality(ids)
  <2>1. Below(i) \subseteq ids /\ i \notin Below(i) /\ i \in ids
    BY KeysAssumption
  <2>2. PICK B : B = Below(i)
    BY Zenon
  <2>3. IsFiniteSet(B) /\ Cardinality(B) \in Nat /\ Cardinality(B) <= Cardinality(ids) /\ (Cardinality(B) = Cardinality(ids) => B = ids)
    BY Zenon, <1>1, <2>1, <2>2, FS_Subset, FS_CardinalityType
  <2>4. B # ids
    BY Zenon, <2>1, <2>2
  <2>5. Cardinality(B) < Cardinality(ids)
    BY <1>1, <2>3, <2>4
  <2>. QED  BY Zenon, <2>2, <2>3, <2>5
<1>3. ASSUME NEW i \in ids, NEW j \in ids, i < j PROVE Rank(i) < Rank(j)
  <2>1. Below(i) \subseteq Below(j) /\ i \in Below(j) /\ i \notin Below(i)
    <3>1. i \in Nat /\ j \in Nat /\ \A l \in ids : l \in Nat
      BY Zenon, KeysAssumption
    <3>2. \A l \in ids : l < i => l < j
      BY <1>3, <3>1
    <3>3. ~ (i < i)
      BY <3>1
    <3>. QED  BY Zenon, <1>3, <3>2, <3>3
  <2>2. PICK B, C : B = Below(i) /\ C = Below(j)
    BY Zenon
  <2>3. B \subseteq C /\ B # C
    BY Zenon, <2>1, <2>2
  <2>4. IsFiniteSet(C) /\ Cardinality(C) \in Nat
    BY Zenon, <1>2, <2>2
  <2>5. Cardinality(B) \in Nat /\ Cardinality(B) <= Cardinality(C) /\ (Cardinality(B) = Cardinality(C) => B = C)
    BY Zenon, <2>3, <2>4, FS_Subset, FS_CardinalityType
  <2>6. Cardinality(B) < Cardinality(C)
    BY <2>3, <2>4, <2>5
  <2>. QED  BY Zenon, <2>2, <2>6
<1>4. InsertKey(s, own, ids) = {RowOf(i) : i \in ids}
  BY Zenon DEF InsertKey
<1>. HIDE DEF Rank
<1>5. ASSUME NEW i \in ids
      PROVE  /\ RowOf(i) \in KeyRow /\ RowOf(i).slot = s /\ RowOf(i).own = own /\ RowOf(i).id = i /\ RowOf(i).used = NoRow
             /\ rows < RowOf(i).row /\ RowOf(i).row <= rows + Cardinality(ids) /\ RowOf(i).row = rows + 1 + Rank(i)
  <2>1. rows \in Nat /\ day \in Nat /\ Rank(i) \in Nat /\ Rank(i) < Cardinality(ids) /\ i \in PreKeyIds
    BY Zenon, <1>2 DEF KeyTypes
  <2>2. rows + 1 + Rank(i) \in Nat /\ rows < rows + 1 + Rank(i) /\ rows + 1 + Rank(i) <= rows + Cardinality(ids)
    BY <1>1, <2>1
  <2>. QED  BY Zenon, <2>1, <2>2 DEF KeyRow, Day
<1>6. ASSUME NEW i \in ids, NEW j \in ids, RowOf(i).row = RowOf(j).row PROVE i = j
  <2>1. rows \in Nat /\ i \in Nat /\ j \in Nat /\ Rank(i) \in Nat /\ Rank(j) \in Nat
    BY Zenon, <1>2, KeysAssumption DEF KeyTypes
  <2>2. Rank(i) = Rank(j)
    BY <1>5, <1>6, <2>1
  <2>3. ~ (i < j) /\ ~ (j < i)
    BY <1>3, <2>1, <2>2
  <2>. QED  BY <2>1, <2>3
<1>. HIDE DEF RowOf
<1>7. ASSUME NEW j \in InsertKey(s, own, ids), NEW k \in InsertKey(s, own, ids), j.row = k.row \/ j.id = k.id
      PROVE  j = k
  <2>1. PICK a \in ids, b \in ids : j = RowOf(a) /\ k = RowOf(b)
    BY Zenon, <1>4, <1>7
  <2>. QED  BY <1>5, <1>6, <1>7, <2>1
<1>. QED  BY <1>1, <1>4, <1>5, <1>7

\* What adding rows to the pool leaves true of it and of the messages.
PoolKept ==
  /\ pool' \subseteq KeyRow /\ rows' \in Nat /\ OneRow' /\ Unspent' /\ OneUse'
  /\ \A k \in pool' : k.own <= installs' /\ 1 <= k.row /\ k.row <= rows'
  /\ \A m \in letters' : m.id # NoRow => m.of \in Nat /\ m.of <= installs'

\* Rows are added to what is left of the pool, for ids no row and no message of
\* that install has.
LEMMA InsertKeeps ==
  ASSUME KeysInv, NEW s \in Slots, NEW own \in Nat, NEW ids \in SUBSET PreKeyIds, NEW P \in SUBSET pool,
         pool' = P \cup InsertKey(s, own, ids), rows' = rows + Cardinality(ids), letters' = letters,
         installs' \in Nat, installs <= installs', own <= installs',
         \A k \in P : k.slot = s /\ k.own = own => k.id \notin ids,
         \A m \in letters : m.slot = s /\ m.of = own => m.id \notin ids
  PROVE  PoolKept
<1>1. PICK N : N = InsertKey(s, own, ids)
  BY Zenon
<1>2. PICK c \in Nat : c = Cardinality(ids)
  BY Zenon, InsertedRows DEF KeysInv
<1>3. /\ N \subseteq KeyRow
      /\ \A k \in N : k.slot = s /\ k.own = own /\ k.id \in ids /\ k.used = NoRow /\ rows < k.row /\ k.row <= rows + c
      /\ \A j, k \in N : j.row = k.row \/ j.id = k.id => j = k
  BY <1>1, <1>2, InsertedRows DEF KeysInv
<1>4. pool' = P \cup N /\ rows' = rows + c /\ rows \in Nat /\ installs \in Nat /\ pool \subseteq KeyRow
  BY Zenon, <1>1, <1>2 DEF KeysInv, KeyTypes
<1>5. \A k \in P : k \in KeyRow /\ k.own <= installs /\ 1 <= k.row /\ k.row <= rows /\ k.row \in Nat /\ k.own \in Nat
  BY Zenon, <1>4 DEF KeysInv, InUse, KeyRow
<1>6. \A k \in N : k.row \in Nat /\ k.own \in Nat
  BY Zenon, <1>3 DEF KeyRow
<1>7. OneRow'
  <2>. SUFFICES ASSUME NEW j \in P \cup N, NEW k \in P \cup N,
                       j.row = k.row \/ (j.slot = k.slot /\ j.own = k.own /\ j.id = k.id)
                PROVE  j = k
    BY Zenon, <1>4 DEF OneRow
  <2>1. CASE j \in P /\ k \in P
    BY Zenon, <2>1 DEF KeysInv, OneRow
  <2>2. CASE j \in N /\ k \in N
    BY Zenon, <1>3, <2>2
  <2>3. CASE j \in P /\ k \in N
    <3>1. j.row # k.row
      BY <1>3, <1>4, <1>5, <1>6, <2>3
    <3>. QED  BY Zenon, <1>3, <2>3, <3>1
  <2>4. CASE j \in N /\ k \in P
    <3>1. j.row # k.row
      BY <1>3, <1>4, <1>5, <1>6, <2>4
    <3>. QED  BY Zenon, <1>3, <2>4, <3>1
  <2>. QED  BY Zenon, <2>1, <2>2, <2>3, <2>4
<1>8. Unspent'
  <2>. SUFFICES ASSUME NEW k \in P \cup N, NEW m \in letters, k.used = NoRow, Built(m, k) PROVE FALSE
    BY Zenon, <1>4 DEF Unspent, Built
  <2>1. CASE k \in P
    BY Zenon, <2>1 DEF KeysInv, Unspent
  <2>2. CASE k \in N
    BY Zenon, <1>3, <2>2 DEF Built
  <2>. QED  BY Zenon, <2>1, <2>2
<1>9. OneUse'
  BY Zenon DEF KeysInv, OneUse
<1>10. \A k \in pool' : k.own <= installs' /\ 1 <= k.row /\ k.row <= rows'
  <2>. TAKE k \in pool'
  <2>1. CASE k \in P
    BY <1>4, <1>5, <2>1
  <2>2. CASE k \in N
    BY <1>3, <1>4, <1>6, <2>2
  <2>. QED  BY Zenon, <1>4, <2>1, <2>2
<1>11. \A m \in letters' : m.id # NoRow => m.of \in Nat /\ m.of <= installs'
  BY <1>4 DEF KeysInv, InUse
<1>12. pool' \subseteq KeyRow /\ rows' \in Nat
  BY <1>3, <1>4
<1>. QED  BY Zenon, <1>7, <1>8, <1>9, <1>10, <1>11, <1>12 DEF PoolKept

\* Steps that leave the slots but the primary one, the queues and the requests
\* for bundles alone.
LEMMA SlotsQuiet ==
  ASSUME KeysInv, UNCHANGED <<day, letters, session>>,
         \A s \in Slots : s # 1 /\ slot[s] # NoRow => slot'[s] = slot[s],
         \A x \in Senders : fetch'[x] # NoRow => fetch[x] # NoRow /\ fetch'[x].slot = fetch[x].slot /\ fetch'[x].own = fetch[x].own
  PROVE  Recent' /\ SlotsKept'
<1>1. Recent'
  BY Zenon DEF KeysInv, Recent
<1>2. \A x \in Senders : fetch'[x] # NoRow => fetch[x].slot \in Slots
  BY Zenon DEF KeysInv, KeyTypes, Bundle
<1>3. ASSUME NEW x \in Senders, fetch'[x] # NoRow, fetch'[x].slot # 1
      PROVE  Kept(fetch[x].slot, fetch[x].own, day)'
  <2>1. Kept(fetch[x].slot, fetch[x].own, day) /\ fetch[x].slot \in Slots /\ fetch[x].slot # 1
    BY Zenon, <1>2, <1>3 DEF KeysInv, SlotsKept
  <2>2. slot'[fetch[x].slot] = slot[fetch[x].slot]
    BY Zenon, <2>1 DEF Kept
  <2>. QED  BY Zenon, <1>3, <2>1, <2>2 DEF Kept
<1>4. \A c \in session : c.slot \in Slots
  BY Zenon DEF KeysInv, KeyTypes, Contact
<1>5. \A c \in session : c.slot # 1 => Kept(c.slot, c.own, c.day)'
  BY Zenon, <1>4 DEF KeysInv, SlotsKept, Kept
<1>6. \A m \in letters : m.slot \in Slots
  BY Zenon DEF KeysInv, KeyTypes, Message
<1>7. \A m \in letters : m.slot # 1 => slot'[m.slot] = slot[m.slot]
  BY Zenon, <1>6 DEF KeysInv, SlotsKept
<1>8. \A m \in letters : m.slot # 1 => slot'[m.slot] # NoRow /\ slot'[m.slot].own = m.own
        /\ (slot'[m.slot].gone = NoRow \/ m.day <= slot'[m.slot].gone + RosterAge)
  BY Zenon, <1>7 DEF KeysInv, SlotsKept
<1>. QED  BY Zenon, <1>1, <1>3, <1>5, <1>8 DEF SlotsKept
\* Steps that leave the pool alone, and take no slot but give it up: what was
\* built on a key waits as before, or has been read.
LEMMA PoolQuiet ==
  ASSUME KeysInv, KeyTypes', UNCHANGED <<installs, pool, rows, refill>>,
         \A m \in letters' : m.id # NoRow => m \in letters,
         \A s \in Slots : slot'[s] = NoRow \/ slot'[s].own = slot[s].own,
         \A s \in Slots : slot'[s] # NoRow => slot[s] # NoRow /\ (slot'[s].gone = NoRow => slot[s].gone = NoRow)
  PROVE  InUse' /\ OneRow' /\ Unspent' /\ Spent' /\ (\A s \in Slots : BatchOK(s)') /\ OneUse'
<1>1. InUse'
  BY Zenon DEF KeysInv, InUse
<1>2. OneRow'
  BY Zenon DEF KeysInv, OneRow
<1>3. \A k \in pool : k.id # NoRow
  BY Zenon, NoRowIsNone DEF KeysInv, KeyTypes, KeyRow
<1>4. Unspent'
  BY Zenon, <1>3 DEF KeysInv, Unspent, Built
<1>5. Spent'
  <2>. SUFFICES ASSUME NEW m \in letters', m.id # NoRow, LiveSlot(m.slot)', slot'[m.slot].own = m.of
                PROVE  \E k \in pool : Built(m, k) /\ k.used = m.day
    BY Zenon DEF Spent, Built
  <2>1. m \in letters /\ m.slot \in Slots
    BY Zenon DEF KeyTypes, Message
  <2>2. LiveSlot(m.slot) /\ slot[m.slot].own = m.of
    BY Zenon, <2>1 DEF LiveSlot
  <2>. QED  BY Zenon, <2>1, <2>2 DEF KeysInv, Spent
<1>6. \A s \in Slots : BatchOK(s)'
  BY Zenon DEF KeysInv, BatchOK
<1>7. OneUse'
  BY Zenon DEF KeysInv, OneUse
<1>. QED  BY Zenon, <1>1, <1>2, <1>4, <1>5, <1>6, <1>7

\* The claims there are stay claims when their rows stay.
LEMMA ClaimsQuiet ==
  ASSUME KeysInv, \A x \in Senders : Claimed(x)' => Claimed(x) /\ fetch'[x] = fetch[x],
         \A x \in Senders : Claimed(x)' => \A k \in pool : k.row = fetch[x].row => k \in pool'
  PROVE  Claims'
<1>1. ASSUME NEW x \in Senders, Claimed(x)' PROVE ClaimOK(x)'
  <2>1. PICK k \in pool : k.row = fetch[x].row /\ k.slot = fetch[x].slot /\ k.used = NoRow
    BY Zenon, <1>1 DEF KeysInv, Claims, ClaimOK
  <2>. QED  BY Zenon, <1>1, <2>1 DEF ClaimOK
<1>2. \A x, y \in Senders : Claimed(x)' /\ Claimed(y)' /\ fetch'[x].row = fetch'[y].row => x = y
  BY Zenon DEF KeysInv, Claims
<1>. QED  BY Zenon, <1>1, <1>2 DEF Claims

\* A claimed row is locked, and a DELETE of its slot waits.
LEMMA LockedClaims ==
  ASSUME KeysInv, NEW s \in Slots, Unlocked(s), NEW x \in Senders, Claimed(x), NEW k \in pool, k.row = fetch[x].row
  PROVE  k.slot # s
BY Zenon DEF Unlocked, PoolOf, Locked, Claimed

\* upload_bundle: the keys of the new install are those of no message yet.
LEMMA UploadKeeps ==
  ASSUME KeysInv, NEW ids \in SUBSET PreKeyIds, UploadBundle(ids)
  PROVE  KeysInv'
<1>1. PICK n \in Nat : n = installs + 1
  BY DEF KeysInv, KeyTypes
<1>2. PICK P : P = pool \ PoolOf(1)
  BY Zenon
<1>3. PICK b : b = [own |-> n, gone |-> NoRow]
  BY Zenon
<1>4. b \in SlotRow /\ b.own = n /\ b.gone = NoRow
  BY Zenon, <1>3 DEF SlotRow, Day
<1>5. /\ installs' = n /\ Unlocked(1) /\ slot' = [slot EXCEPT ![1] = b]
      /\ pool' = P \cup InsertKey(1, n, ids) /\ rows' = rows + Cardinality(ids)
      /\ UNCHANGED <<focus, day, fetch, refill, letters, session>>
  <2>1. installs' = n
    BY Zenon, <1>1 DEF UploadBundle
  <2>. QED  BY Zenon, <1>2, <1>3, <2>1 DEF UploadBundle
<1>6. slot'[1] = b /\ slot' \in [Slots -> {NoRow} \cup SlotRow] /\ \A s \in Slots : s # 1 => slot'[s] = slot[s]
  BY Zenon, <1>4, <1>5, NoRowIsNone DEF KeysInv, KeyTypes
<1>7. /\ P \subseteq pool /\ \A k \in P : k.slot # 1
      /\ \A k \in pool : k.slot # 1 => k \in P
  BY Zenon, <1>2 DEF PoolOf
<1>8. installs \in Nat /\ installs < n
  BY <1>1 DEF KeysInv, KeyTypes
<1>9. \A m \in letters : m.slot = 1 /\ m.of = n => m.id \notin ids
  <2>1. \A m \in letters : m.id # NoRow => m.of \in Nat /\ m.of <= installs
    BY Zenon DEF KeysInv, InUse
  <2>2. NoRow \notin ids
    BY Zenon, NoRowIsNone
  <2>. QED  BY <1>8, <2>1, <2>2
<1>10. /\ pool' \subseteq KeyRow /\ rows' \in Nat /\ OneRow' /\ Unspent' /\ OneUse'
       /\ \A k \in pool' : k.own <= n /\ 1 <= k.row /\ k.row <= rows'
       /\ \A m \in letters' : m.id # NoRow => m.of \in Nat /\ m.of <= n
  <2>1. 1 \in Slots /\ P \in SUBSET pool /\ installs' \in Nat /\ installs <= installs' /\ n <= installs' /\ letters' = letters
    BY <1>5, <1>7, <1>8, NoRowIsNone
  <2>2. \A k \in P : k.slot = 1 /\ k.own = n => k.id \notin ids
    BY Zenon, <1>7
  <2>3. PoolKept
    BY ZenonT(30), <1>5, <1>9, <2>1, <2>2, InsertKeeps
  <2>. QED  BY Zenon, <1>5, <2>3 DEF PoolKept
<1>11. KeyTypes'
  BY Zenon, <1>5, <1>6, <1>10 DEF KeysInv, KeyTypes
<1>12. InUse'
  <2>1. \A s \in Slots : slot'[s] # NoRow => slot'[s].own <= n
    <3>. TAKE s \in Slots
    <3>1. CASE s = 1
      BY <1>4, <1>6, <3>1
    <3>2. CASE s # 1
      BY <1>6, <1>8, <3>2 DEF KeysInv, InUse, KeyTypes, SlotRow
    <3>. QED  BY Zenon, <3>1, <3>2
  <2>2. \A s \in Slots : refill[s] # NoRow => refill[s].own <= n
    BY <1>8 DEF KeysInv, InUse, KeyTypes, Batch
  <2>. QED  BY Zenon, <1>5, <1>10, <2>1, <2>2 DEF InUse
<1>13. Claims'
  <2>1. \A x \in Senders : Claimed(x)' => Claimed(x) /\ fetch'[x] = fetch[x]
    BY Zenon, <1>5 DEF Claimed
  <2>2. \A x \in Senders : Claimed(x) => \A k \in pool : k.row = fetch[x].row => k \in pool'
    BY Zenon, <1>5, <1>7, LockedClaims, NoRowIsNone
  <2>. QED  BY Zenon, <2>1, <2>2, ClaimsQuiet
<1>14. Spent'
  <2>. SUFFICES ASSUME NEW m \in letters, m.id # NoRow, LiveSlot(m.slot)', slot'[m.slot].own = m.of
                PROVE  \E k \in pool' : Built(m, k) /\ k.used = m.day
    BY Zenon, <1>5 DEF Spent, Built
  <2>1. m.slot \in Slots /\ m.of \in Nat /\ m.of <= installs
    BY Zenon DEF KeysInv, KeyTypes, Message, InUse
  <2>2. m.slot # 1
    BY <1>4, <1>6, <1>8, <2>1
  <2>3. LiveSlot(m.slot) /\ slot[m.slot].own = m.of
    BY Zenon, <1>6, <2>1, <2>2 DEF LiveSlot
  <2>4. PICK k \in pool : Built(m, k) /\ k.used = m.day
    BY Zenon, <2>3 DEF KeysInv, Spent
  <2>5. k \in pool'
    BY Zenon, <1>5, <1>7, <2>2, <2>4 DEF Built
  <2>. QED  BY Zenon, <2>4, <2>5
<1>15. ASSUME NEW s \in Slots PROVE BatchOK(s)'
  <2>. SUFFICES ASSUME refill[s] # NoRow
                PROVE  /\ \A k \in pool' : k.slot = s /\ k.own = refill[s].own => k.id \in refill[s].seen
                       /\ \A m \in letters : m.slot = s /\ m.of = refill[s].own /\ m.id # NoRow => m.id \in refill[s].seen
    BY Zenon, <1>5 DEF BatchOK
  <2>1. refill[s].own \in Nat /\ refill[s].own <= installs /\ BatchOK(s)
    BY Zenon DEF KeysInv, KeyTypes, InUse, Batch
  <2>2. refill[s].own # n
    BY <1>8, <2>1
  <2>3. \A k \in InsertKey(1, n, ids) : k.own = n
    BY Zenon, InsertedRows, NoRowIsNone DEF KeysInv
  <2>. QED  BY Zenon, <1>5, <1>7, <2>1, <2>2, <2>3 DEF BatchOK
<1>16. Recent' /\ SlotsKept'
  BY Zenon, <1>5, <1>6, SlotsQuiet
<1>. QED  BY Zenon, <1>10, <1>11, <1>12, <1>13, <1>14, <1>15, <1>16 DEF KeysInv
\* The next slot number has no row, not even a tombstone.
LEMMA NextSlotFree ==
  ASSUME KeyTypes, NextSlot \in Slots
  PROVE  NextSlot # 1 /\ slot[NextSlot] = NoRow
<1>. DEFINE S == {1} \cup {s \in Slots : slot[s] # NoRow}
<1>1. PICK n \in Nat : \A s \in Slots : s <= n
  BY Zenon, NoRowIsNone
<1>2. S \subseteq Nat /\ 1 \in S /\ \A s \in S : s <= n
  BY Zenon, <1>1, NoRowIsNone
<1>3. Max(S) \in S /\ \A s \in S : Max(S) >= s
  <2>. DEFINE T == {n - x : x \in S}
  <2>1. T \subseteq Nat /\ T # {}
    BY <1>2
  <2>2. PICK m \in T : \A y \in T : ~ (<<y, m>> \in OpToRel(<, Nat))
    BY Zenon, <2>1, NatLessThanWellFounded, WFMin
  <2>3. \A y \in T : y < m => <<y, m>> \in OpToRel(<, Nat)
    BY Zenon, <2>1 DEF OpToRel
  <2>4. PICK z \in S : m = n - z
    BY Zenon, <2>2
  <2>5. \A y \in S : ~ (n - y < n - z)
    BY Zenon, <2>2, <2>3, <2>4
  <2>6. \A y \in S : z >= y
    BY <1>2, <2>4, <2>5
  <2>. QED  BY Zenon, <2>6 DEF Max
<1>4. PICK t : t = Max(S)
  BY Zenon
<1>5. t \in Nat /\ t >= 1 /\ \A s \in S : t >= s
  BY Zenon, <1>2, <1>3, <1>4
<1>6. NextSlot = 1 + t
  BY Zenon, <1>4 DEF NextSlot
<1>7. 1 + t \notin S /\ 1 + t # 1
  BY <1>5
<1>. QED  BY Zenon, <1>6, <1>7

\* register_device: a slot with no row, so nobody holds anything of it.
LEMMA RegisterKeeps ==
  ASSUME KeysInv, NEW ids \in SUBSET PreKeyIds, RegisterDevice(ids)
  PROVE  KeysInv'
<1>1. PICK n \in Nat : n = installs + 1
  BY DEF KeysInv, KeyTypes
<1>2. PICK t \in Slots : t = NextSlot /\ t # 1 /\ slot[t] = NoRow
  BY Zenon, NextSlotFree DEF RegisterDevice, KeysInv
<1>3. PICK b : b = [own |-> n, gone |-> NoRow]
  BY Zenon
<1>4. b \in SlotRow /\ b.own = n /\ b.gone = NoRow
  BY Zenon, <1>3 DEF SlotRow, Day
<1>5. /\ installs' = n /\ slot' = [slot EXCEPT ![t] = b]
      /\ pool' = pool \cup InsertKey(t, n, ids) /\ rows' = rows + Cardinality(ids)
      /\ UNCHANGED <<focus, day, fetch, refill, letters, session>>
  <2>1. installs' = n
    BY Zenon, <1>1 DEF RegisterDevice
  <2>. QED  BY Zenon, <1>2, <1>3, <2>1 DEF RegisterDevice
<1>6. slot'[t] = b /\ slot' \in [Slots -> {NoRow} \cup SlotRow] /\ \A s \in Slots : s # t => slot'[s] = slot[s]
  BY Zenon, <1>4, <1>5 DEF KeysInv, KeyTypes
<1>8. installs \in Nat /\ installs < n
  BY <1>1 DEF KeysInv, KeyTypes
<1>7. \A k \in pool : k.own # n
  BY <1>8 DEF KeysInv, InUse, KeyTypes, KeyRow
<1>9. \A m \in letters : m.slot = t /\ m.of = n => m.id \notin ids
  <2>1. \A m \in letters : m.id # NoRow => m.of \in Nat /\ m.of <= installs
    BY Zenon DEF KeysInv, InUse
  <2>2. NoRow \notin ids
    BY Zenon, NoRowIsNone
  <2>. QED  BY <1>8, <2>1, <2>2
<1>10. /\ pool' \subseteq KeyRow /\ rows' \in Nat /\ OneRow' /\ Unspent' /\ OneUse'
       /\ \A k \in pool' : k.own <= n /\ 1 <= k.row /\ k.row <= rows'
       /\ \A m \in letters' : m.id # NoRow => m.of \in Nat /\ m.of <= n
  <2>1. pool \in SUBSET pool /\ installs' \in Nat /\ installs <= installs' /\ n <= installs' /\ letters' = letters
    BY <1>5, <1>8
  <2>2. PICK P \in SUBSET pool : P = pool
    BY Zenon
  <2>3. pool' = P \cup InsertKey(t, n, ids) /\ \A k \in P : k.slot = t /\ k.own = n => k.id \notin ids
    BY Zenon, <1>5, <1>7, <2>2
  <2>4. rows' = rows + Cardinality(ids) /\ letters' = letters
        /\ installs' \in Nat /\ installs <= installs' /\ n <= installs'
    BY Zenon, <1>5, <2>1
  <2>5. PoolKept
    BY ZenonT(30), <1>9, <2>3, <2>4, InsertKeeps
  <2>. QED  BY Zenon, <1>5, <2>5 DEF PoolKept
<1>11. KeyTypes'
  BY Zenon, <1>5, <1>6, <1>10 DEF KeysInv, KeyTypes
<1>12. InUse'
  <2>1. \A s \in Slots : slot'[s] # NoRow => slot'[s].own <= n
    <3>. TAKE s \in Slots
    <3>1. CASE s = t
      BY <1>4, <1>6, <3>1
    <3>2. CASE s # t
      BY <1>6, <1>8, <3>2 DEF KeysInv, InUse, KeyTypes, SlotRow
    <3>. QED  BY Zenon, <3>1, <3>2
  <2>2. \A s \in Slots : refill[s] # NoRow => refill[s].own <= n
    BY <1>8 DEF KeysInv, InUse, KeyTypes, Batch
  <2>. QED  BY Zenon, <1>5, <1>10, <2>1, <2>2 DEF InUse
<1>13. Claims'
  <2>1. \A x \in Senders : Claimed(x)' => Claimed(x) /\ fetch'[x] = fetch[x]
    BY Zenon, <1>5 DEF Claimed
  <2>. QED  BY Zenon, <1>5, <2>1, ClaimsQuiet
<1>14. Spent'
  <2>. SUFFICES ASSUME NEW m \in letters, m.id # NoRow, LiveSlot(m.slot)', slot'[m.slot].own = m.of
                PROVE  \E k \in pool' : Built(m, k) /\ k.used = m.day
    BY Zenon, <1>5 DEF Spent, Built
  <2>1. m.slot \in Slots /\ m.of \in Nat /\ m.of <= installs
    BY Zenon DEF KeysInv, KeyTypes, Message, InUse
  <2>2. m.slot # t
    BY <1>4, <1>6, <1>8, <2>1
  <2>3. LiveSlot(m.slot) /\ slot[m.slot].own = m.of
    BY Zenon, <1>6, <2>1, <2>2 DEF LiveSlot
  <2>. QED  BY Zenon, <1>5, <2>3 DEF KeysInv, Spent
<1>15. ASSUME NEW s \in Slots PROVE BatchOK(s)'
  <2>. SUFFICES ASSUME refill[s] # NoRow
                PROVE  /\ \A k \in pool' : k.slot = s /\ k.own = refill[s].own => k.id \in refill[s].seen
                       /\ \A m \in letters : m.slot = s /\ m.of = refill[s].own /\ m.id # NoRow => m.id \in refill[s].seen
    BY Zenon, <1>5 DEF BatchOK
  <2>1. refill[s].own \in Nat /\ refill[s].own <= installs /\ BatchOK(s)
    BY Zenon DEF KeysInv, KeyTypes, InUse, Batch
  <2>2. refill[s].own # n
    BY <1>8, <2>1
  <2>3. \A k \in InsertKey(t, n, ids) : k.own = n
    BY Zenon, InsertedRows DEF KeysInv
  <2>. QED  BY Zenon, <1>5, <2>1, <2>2, <2>3 DEF BatchOK
<1>16. Recent' /\ SlotsKept'
  BY Zenon, <1>2, <1>5, <1>6, SlotsQuiet
<1>. QED  BY Zenon, <1>10, <1>11, <1>12, <1>13, <1>14, <1>15, <1>16 DEF KeysInv

\* A batch reads the pool: the ids of the install in the slot are all there.
LEMMA RefillKeeps ==
  ASSUME KeysInv, NEW s \in Slots, Refill(s)
  PROVE  KeysInv'
<1>1. PICK own, seen : own = slot[s].own /\ seen = {k.id : k \in PoolOf(s)}
  BY Zenon
<1>2. PICK b : b = [own |-> own, seen |-> seen]
  BY Zenon
<1>3. own \in Nat /\ seen \in SUBSET PreKeyIds /\ own <= installs
  <2>1. slot[s] \in SlotRow /\ slot[s].own <= installs
    BY Zenon DEF Refill, LiveSlot, KeysInv, KeyTypes, InUse
  <2>2. own \in Nat /\ own <= installs
    BY Zenon, <1>1, <2>1 DEF SlotRow
  <2>3. \A k \in PoolOf(s) : k.id \in PreKeyIds
    BY Zenon DEF PoolOf, KeysInv, KeyTypes, KeyRow
  <2>. QED  BY Zenon, <1>1, <2>2, <2>3
<1>4. b \in Batch /\ b.own = own /\ b.seen = seen
  BY Zenon, <1>2, <1>3 DEF Batch
<1>5. refill' = [refill EXCEPT ![s] = b] /\ UNCHANGED <<focus, day, installs, slot, pool, rows, fetch, letters, session>>
  BY Zenon, <1>1, <1>2 DEF Refill
<1>6. refill'[s] = b /\ refill' \in [Slots -> {NoRow} \cup Batch] /\ \A t \in Slots : t # s => refill'[t] = refill[t]
  BY Zenon, <1>4, <1>5 DEF KeysInv, KeyTypes
<1>7. KeyTypes'
  BY Zenon, <1>5, <1>6 DEF KeysInv, KeyTypes
<1>8. InUse'
  BY Zenon, <1>3, <1>4, <1>5, <1>6 DEF KeysInv, InUse
<1>9. OneRow' /\ Unspent' /\ OneUse'
  BY Zenon, <1>5 DEF KeysInv, OneRow, Unspent, OneUse, Built
<1>10. Spent'
  BY Zenon, <1>5 DEF KeysInv, Spent, Built, LiveSlot
<1>11. Claims'
  BY Zenon, <1>5, ClaimsQuiet DEF Claimed
<1>12. Recent' /\ SlotsKept'
  BY Zenon, <1>5, SlotsQuiet
<1>13. ASSUME NEW t \in Slots PROVE BatchOK(t)'
  <2>1. CASE t = s
    <3>1. \A k \in pool : k.slot = s => k.id \in seen
      BY Zenon, <1>1 DEF PoolOf
    <3>2. ASSUME NEW m \in letters, m.slot = s, m.of = own, m.id # NoRow PROVE m.id \in seen
      <4>1. PICK k \in pool : Built(m, k)
        BY Zenon, <1>1, <3>2 DEF KeysInv, Spent, Refill
      <4>. QED  BY Zenon, <3>1, <3>2, <4>1 DEF Built
    <3>. QED  BY Zenon, <1>4, <1>5, <1>6, <2>1, <3>1, <3>2 DEF BatchOK
  <2>2. CASE t # s
    BY Zenon, <1>5, <1>6, <2>2 DEF KeysInv, BatchOK
  <2>. QED  BY Zenon, <2>1, <2>2
<1>. QED  BY Zenon, <1>7, <1>8, <1>9, <1>10, <1>11, <1>12, <1>13 DEF KeysInv

\* The batch commits, without the ids it has seen.
LEMMA RefillCommitKeeps ==
  ASSUME KeysInv, NEW s \in Slots, NEW ids \in SUBSET PreKeyIds, RefillCommit(s, ids)
  PROVE  KeysInv'
<1>1. PICK own \in Nat, seen \in SUBSET PreKeyIds : own = refill[s].own /\ seen = refill[s].seen
  BY Zenon DEF RefillCommit, KeysInv, KeyTypes, Batch
<1>2. PICK new \in SUBSET PreKeyIds : new = ids \ seen
  BY Zenon
<1>3. own <= installs /\ installs \in Nat
  BY Zenon, <1>1 DEF RefillCommit, KeysInv, KeyTypes, InUse
<1>4. /\ refill[s] # NoRow /\ refill' = [refill EXCEPT ![s] = NoRow]
      /\ pool' = pool \cup InsertKey(s, own, new) /\ rows' = rows + Cardinality(new)
      /\ UNCHANGED <<focus, day, installs, slot, fetch, letters, session>>
  BY Zenon, <1>1, <1>2 DEF RefillCommit
<1>5. refill'[s] = NoRow /\ refill' \in [Slots -> {NoRow} \cup Batch] /\ \A t \in Slots : t # s => refill'[t] = refill[t]
  BY Zenon, <1>4 DEF KeysInv, KeyTypes
<1>6. /\ \A k \in pool : k.slot = s /\ k.own = own => k.id \notin new
      /\ \A m \in letters : m.slot = s /\ m.of = own => m.id \notin new
  <2>1. NoRow \notin new
    BY Zenon, <1>3, NoRowIsNone
  <2>. QED  BY Zenon, <1>1, <1>2, <1>4, <2>1 DEF KeysInv, BatchOK
<1>7. /\ pool' \subseteq KeyRow /\ rows' \in Nat /\ OneRow' /\ Unspent' /\ OneUse'
      /\ \A k \in pool' : k.own <= installs' /\ 1 <= k.row /\ k.row <= rows'
      /\ \A m \in letters' : m.id # NoRow => m.of \in Nat /\ m.of <= installs'
  <2>1. installs' \in Nat /\ installs <= installs' /\ own <= installs' /\ letters' = letters
    BY <1>3, <1>4
  <2>2. PICK P \in SUBSET pool : P = pool
    BY Zenon
  <2>3. pool' = P \cup InsertKey(s, own, new) /\ \A k \in P : k.slot = s /\ k.own = own => k.id \notin new
    BY Zenon, <1>4, <1>6, <2>2
  <2>4. \A m \in letters : m.slot = s /\ m.of = own => m.id \notin new
    BY Zenon, <1>6
  <2>5. rows' = rows + Cardinality(new)
    BY Zenon, <1>4
  <2>6. PoolKept
    BY ZenonT(30), <2>1, <2>3, <2>4, <2>5, InsertKeeps
  <2>. QED  BY Zenon, <2>6 DEF PoolKept
<1>8. KeyTypes'
  BY Zenon, <1>4, <1>5, <1>7 DEF KeysInv, KeyTypes
<1>9. InUse'
  BY Zenon, <1>4, <1>5, <1>7 DEF KeysInv, InUse
<1>10. Spent'
  BY Zenon, <1>4 DEF KeysInv, Spent, Built, LiveSlot
<1>11. Claims'
  BY Zenon, <1>4, ClaimsQuiet DEF Claimed
<1>12. Recent' /\ SlotsKept'
  BY Zenon, <1>4, SlotsQuiet
<1>13. ASSUME NEW t \in Slots PROVE BatchOK(t)'
  <2>1. CASE t = s
    BY Zenon, <1>5, <2>1 DEF BatchOK
  <2>2. CASE t # s
    <3>1. \A k \in InsertKey(s, own, new) : k.slot = s
      BY Zenon, <1>3, InsertedRows DEF KeysInv
    <3>. QED  BY Zenon, <1>4, <1>5, <2>2, <3>1 DEF KeysInv, BatchOK
  <2>. QED  BY Zenon, <2>1, <2>2
<1>. QED  BY Zenon, <1>7, <1>8, <1>9, <1>10, <1>11, <1>12, <1>13 DEF KeysInv
\* A fetch reads a live slot.
LEMMA FetchKeeps ==
  ASSUME KeysInv, NEW x \in Senders, NEW s \in Slots, Fetch(x, s)
  PROVE  KeysInv'
<1>1. PICK own \in Nat : own = slot[s].own
  BY Zenon DEF Fetch, LiveSlot, KeysInv, KeyTypes, SlotRow
<1>2. PICK b : b = [slot |-> s, own |-> own, row |-> NoRow]
  BY Zenon
<1>3. b \in Bundle /\ b.slot = s /\ b.own = own /\ b.row = NoRow
  BY Zenon, <1>1, <1>2 DEF Bundle, Day
<1>4. fetch' = [fetch EXCEPT ![x] = b] /\ UNCHANGED <<focus, day, installs, slot, pool, rows, refill, letters, session>>
  BY Zenon, <1>1, <1>2 DEF Fetch
<1>5. fetch'[x] = b /\ fetch' \in [Senders -> {NoRow} \cup Bundle] /\ \A y \in Senders : y # x => fetch'[y] = fetch[y]
  BY Zenon, <1>3, <1>4 DEF KeysInv, KeyTypes
<1>6. KeyTypes'
  BY Zenon, <1>4, <1>5 DEF KeysInv, KeyTypes
<1>7. InUse' /\ OneRow' /\ Unspent' /\ Spent' /\ (\A t \in Slots : BatchOK(t)') /\ OneUse'
  BY Zenon, <1>4, <1>6, PoolQuiet
<1>8. Claims'
  BY Zenon, <1>3, <1>4, <1>5, ClaimsQuiet DEF Claimed
<1>9. Recent'
  BY Zenon, <1>4 DEF KeysInv, Recent
<1>10. SlotsKept'
  <2>1. ASSUME NEW y \in Senders, fetch'[y] # NoRow, fetch'[y].slot # 1 PROVE Kept(fetch[y].slot, fetch[y].own, day)'
    <3>1. CASE y = x
      BY Zenon, <1>1, <1>3, <1>4, <1>5, <3>1 DEF Kept, Fetch, LiveSlot
    <3>2. CASE y # x
      BY Zenon, <1>4, <1>5, <2>1, <3>2 DEF KeysInv, SlotsKept, Kept
    <3>. QED  BY Zenon, <3>1, <3>2
  <2>. QED  BY Zenon, <1>4, <2>1 DEF KeysInv, SlotsKept, Kept
<1>. QED  BY Zenon, <1>6, <1>7, <1>8, <1>9, <1>10 DEF KeysInv

\* SKIP LOCKED: the claim takes a row nobody has and nobody is taking.
LEMMA ClaimKeeps ==
  ASSUME KeysInv, NEW x \in Senders, Claim(x)
  PROVE  KeysInv'
<1>1. PICK f \in Bundle : f = fetch[x]
  BY Zenon DEF Claim, KeysInv, KeyTypes
<1>2. PICK F : F = FreeKeys(f.slot)
  BY Zenon
<1>3. F # {} /\ F \subseteq Nat
  BY Zenon, <1>1, <1>2 DEF Claim, FreeKeys, PoolOf, KeysInv, KeyTypes, KeyRow
<1>4. PICK n : n = Min(F)
  BY Zenon
<1>5. n \in F
  <2>1. PICK m \in F : \A y \in F : ~ (<<y, m>> \in OpToRel(<, Nat))
    BY Zenon, <1>3, NatLessThanWellFounded, WFMin
  <2>2. \A y \in F : y < m => <<y, m>> \in OpToRel(<, Nat)
    BY Zenon, <1>3 DEF OpToRel
  <2>3. \A y \in F : ~ (y < m)
    BY Zenon, <2>1, <2>2
  <2>4. \A y \in F : m <= y
    BY <1>3, <2>3
  <2>. QED  BY Zenon, <1>4, <2>4 DEF Min
<1>6. PICK g : g = [f EXCEPT !.row = n]
  BY Zenon
<1>7. g \in Bundle /\ g.slot = f.slot /\ g.own = f.own /\ g.row = n
  BY Zenon, <1>3, <1>5, <1>6 DEF Bundle, Day
<1>8. fetch' = [fetch EXCEPT ![x] = g] /\ UNCHANGED <<focus, day, installs, slot, pool, rows, refill, letters, session>>
  BY Zenon, <1>1, <1>2, <1>4, <1>6 DEF Claim
<1>9. fetch'[x] = g /\ fetch' \in [Senders -> {NoRow} \cup Bundle] /\ \A y \in Senders : y # x => fetch'[y] = fetch[y]
  BY Zenon, <1>7, <1>8 DEF KeysInv, KeyTypes
<1>10. KeyTypes'
  BY Zenon, <1>8, <1>9 DEF KeysInv, KeyTypes
<1>11. InUse' /\ OneRow' /\ Unspent' /\ Spent' /\ (\A t \in Slots : BatchOK(t)') /\ OneUse'
  BY Zenon, <1>8, <1>10, PoolQuiet
<1>12. Recent' /\ SlotsKept'
  <2>1. fetch[x] # NoRow
    BY Zenon DEF Claim
  <2>2. \A y \in Senders : fetch'[y] # NoRow => fetch[y] # NoRow /\ fetch'[y].slot = fetch[y].slot /\ fetch'[y].own = fetch[y].own
    BY Zenon, <1>1, <1>7, <1>9, <2>1
  <2>. QED  BY Zenon, <1>8, <2>2, SlotsQuiet
<1>13. PICK k \in pool : k.row = n /\ k.slot = f.slot /\ k.used = NoRow /\ n \notin Locked
  BY Zenon, <1>2, <1>5 DEF FreeKeys, PoolOf
<1>14. Claims'
  <2>1. ASSUME NEW y \in Senders, Claimed(y)' PROVE ClaimOK(y)'
    <3>1. CASE y = x
      BY Zenon, <1>7, <1>8, <1>9, <1>13, <3>1 DEF ClaimOK
    <3>2. CASE y # x
      BY Zenon, <1>8, <1>9, <2>1, <3>2 DEF KeysInv, Claims, ClaimOK, Claimed
    <3>. QED  BY Zenon, <3>1, <3>2
  <2>2. \A y \in Senders : y # x /\ Claimed(y)' => fetch'[y].row # n
    BY Zenon, <1>9, <1>13 DEF Claimed, Locked
  <2>3. \A y, z \in Senders : Claimed(y)' /\ Claimed(z)' /\ fetch'[y].row = fetch'[z].row => y = z
    BY <1>7, <1>9, <2>2 DEF KeysInv, Claims, Claimed
  <2>. QED  BY Zenon, <2>1, <2>3 DEF Claims
<1>. QED  BY Zenon, <1>10, <1>11, <1>12, <1>14 DEF KeysInv

\* The request dies, and the claim with it.
LEMMA FetchFailsKeeps ==
  ASSUME KeysInv, NEW x \in Senders, FetchFails(x)
  PROVE  KeysInv'
<1>1. fetch' = [fetch EXCEPT ![x] = NoRow] /\ UNCHANGED <<focus, day, installs, slot, pool, rows, refill, letters, session>>
  BY Zenon DEF FetchFails
<1>2. fetch'[x] = NoRow /\ fetch' \in [Senders -> {NoRow} \cup Bundle] /\ \A y \in Senders : y # x => fetch'[y] = fetch[y]
  BY Zenon, <1>1 DEF KeysInv, KeyTypes
<1>3. KeyTypes'
  BY Zenon, <1>1, <1>2 DEF KeysInv, KeyTypes
<1>4. InUse' /\ OneRow' /\ Unspent' /\ Spent' /\ (\A t \in Slots : BatchOK(t)') /\ OneUse'
  BY Zenon, <1>1, <1>3, PoolQuiet
<1>5. Claims'
  BY Zenon, <1>1, <1>2, ClaimsQuiet DEF Claimed
<1>6. Recent' /\ SlotsKept'
  BY Zenon, <1>1, <1>2, SlotsQuiet
<1>. QED  BY Zenon, <1>3, <1>4, <1>5, <1>6 DEF KeysInv

\* A sender meets the install of its bundle: what it may write from now on is
\* sealed to an install whose slot is not given away.
LEMMA MeetKeeps ==
  ASSUME KeysInv, NEW x \in Senders, NEW f \in Bundle, f = fetch[x], NEW i, NEW of, Meet(x, i, of),
         fetch' = [fetch EXCEPT ![x] = NoRow], UNCHANGED <<day, slot>>
  PROVE  Recent' /\ SlotsKept'
<1>1. \A m \in letters' : m \in letters \/ (m.slot = f.slot /\ m.own = f.own /\ m.day = day)
  BY DEF Meet, Letter
<1>2. \A c \in session' : c \in session \/ (c.slot = f.slot /\ c.own = f.own /\ c.day = day)
  BY DEF Meet
<1>3. day \in Nat /\ QueueTTL \in Nat /\ RosterAge \in Nat
  BY Zenon, KeysAssumption DEF KeysInv, KeyTypes
<1>4. Recent'
  BY <1>1, <1>2, <1>3 DEF KeysInv, Recent
<1>5. f.slot # 1 => Kept(f.slot, f.own, day)
  BY Zenon, NoRowIsNone DEF KeysInv, SlotsKept
<1>6. f.slot # 1 /\ slot[f.slot].gone # NoRow => day <= slot[f.slot].gone + RosterAge
  <2>1. f.slot # 1 /\ slot[f.slot].gone # NoRow => slot[f.slot].gone \in Nat /\ day <= slot[f.slot].gone
    BY Zenon, <1>5 DEF Kept, KeysInv, KeyTypes, SlotRow, Day, Bundle
  <2>. QED  BY <1>3, <2>1
<1>7. \A y \in Senders : fetch'[y] = NoRow \/ fetch'[y] = fetch[y]
  BY Zenon DEF KeysInv, KeyTypes
<1>8. ASSUME NEW y \in Senders, fetch'[y] # NoRow, fetch'[y].slot # 1 PROVE Kept(fetch[y].slot, fetch[y].own, day)'
  BY Zenon, <1>7, <1>8 DEF KeysInv, SlotsKept, Kept
<1>9. ASSUME NEW c \in session', c.slot # 1 PROVE Kept(c.slot, c.own, c.day)'
  <2>1. CASE c \in session
    BY Zenon, <1>9, <2>1 DEF KeysInv, SlotsKept, Kept
  <2>2. CASE c.slot = f.slot /\ c.own = f.own /\ c.day = day
    BY Zenon, <1>5, <1>9, <2>2 DEF Kept
  <2>. QED  BY Zenon, <1>2, <2>1, <2>2
<1>10. ASSUME NEW m \in letters', m.slot # 1
       PROVE  /\ slot[m.slot] # NoRow /\ slot[m.slot].own = m.own
              /\ slot[m.slot].gone = NoRow \/ m.day <= slot[m.slot].gone + RosterAge
  <2>1. CASE m \in letters
    BY Zenon, <1>10, <2>1 DEF KeysInv, SlotsKept
  <2>2. CASE m.slot = f.slot /\ m.own = f.own /\ m.day = day
    BY Zenon, <1>5, <1>6, <1>10, <2>2 DEF Kept
  <2>. QED  BY Zenon, <1>1, <2>1, <2>2
<1>. QED  BY Zenon, <1>4, <1>8, <1>9, <1>10 DEF SlotsKept
\* The bundle goes out with its key: the row is consumed, and the message that
\* names it is the first and the only one.
LEMMA FetchCommitKeeps ==
  ASSUME KeysInv, NEW x \in Senders, FetchCommit(x)
  PROVE  KeysInv'
<1>1. PICK f \in Bundle : f = fetch[x] /\ Claimed(x)
  BY Zenon DEF FetchCommit, Claimed, KeysInv, KeyTypes
<1>2. PICK k : k = CHOOSE j \in pool : j.row = fetch[x].row
  BY Zenon
<1>3. PICK e \in pool : e.row = f.row /\ e.slot = f.slot /\ e.used = NoRow
  BY Zenon, <1>1 DEF KeysInv, Claims, ClaimOK
<1>4. k = e
  <2>1. k \in pool /\ k.row = fetch[x].row
    BY Zenon, <1>1, <1>2, <1>3
  <2>. QED  BY Zenon, <1>1, <1>3, <2>1 DEF KeysInv, OneRow
<1>5. k \in pool /\ k \in KeyRow /\ k.row = f.row /\ k.slot = f.slot /\ k.used = NoRow /\ k.id # NoRow /\ k.id \in PreKeyIds /\ k.own \in Nat /\ k.slot \in Slots
  BY Zenon, <1>3, <1>4, NoRowIsNone DEF KeysInv, KeyTypes, KeyRow
<1>6. PICK q : q = [k EXCEPT !.used = day]
  BY Zenon
<1>7. day \in Nat /\ day # NoRow
  BY Zenon, NoRowIsNone DEF KeysInv, KeyTypes
<1>8. q \in KeyRow /\ q.slot = k.slot /\ q.own = k.own /\ q.id = k.id /\ q.row = k.row /\ q.used = day
  BY Zenon, <1>5, <1>6, <1>7 DEF KeyRow, Day
<1>9. PICK m : m = Letter(x, f.slot, f.own, k.id, k.own)
  BY Zenon
<1>10. m \in Message /\ m.slot = k.slot /\ m.of = k.own /\ m.id = k.id /\ m.day = day
  <2>1. f.slot \in Slots /\ f.own \in Nat
    BY Zenon DEF Bundle
  <2>. QED  BY Zenon, <1>5, <1>7, <1>9, <2>1 DEF Letter, Message, Day
<1>11. /\ pool' = (pool \ {k}) \cup {q} /\ Meet(x, k.id, k.own) /\ fetch' = [fetch EXCEPT ![x] = NoRow]
       /\ UNCHANGED <<focus, day, installs, slot, rows, refill>>
  BY Zenon, <1>2, <1>6 DEF FetchCommit
<1>12. letters' = letters \cup {m}
  BY Zenon, <1>1, <1>5, <1>9, <1>11 DEF Meet
<1>13. fetch'[x] = NoRow /\ fetch' \in [Senders -> {NoRow} \cup Bundle] /\ \A y \in Senders : y # x => fetch'[y] = fetch[y]
  BY Zenon, <1>11 DEF KeysInv, KeyTypes
<1>14. KeyTypes'
  <2>1. session' \subseteq Contact
    <3>1. [slot |-> f.slot, own |-> f.own, day |-> day] \in Contact
      BY Zenon, <1>7 DEF Bundle, Contact
    <3>. QED  BY Zenon, <1>1, <1>11, <3>1 DEF Meet, KeysInv, KeyTypes
  <2>2. pool' \subseteq KeyRow /\ letters' \subseteq Message
    BY Zenon, <1>8, <1>10, <1>11, <1>12 DEF KeysInv, KeyTypes
  <2>. QED  BY Zenon, <1>11, <1>13, <2>1, <2>2 DEF KeysInv, KeyTypes
<1>15. Recent' /\ SlotsKept'
  BY Zenon, <1>1, <1>11, MeetKeeps
<1>16. InUse'
  <2>1. k.own <= installs /\ 1 <= k.row /\ k.row <= rows
    BY Zenon, <1>5 DEF KeysInv, InUse
  <2>2. \A j \in pool' : j.own <= installs /\ 1 <= j.row /\ j.row <= rows
    BY Zenon, <1>8, <1>11, <2>1 DEF KeysInv, InUse
  <2>3. \A n \in letters' : n.id # NoRow => n.of \in Nat /\ n.of <= installs
    BY Zenon, <1>5, <1>10, <1>12, <2>1 DEF KeysInv, InUse
  <2>. QED  BY Zenon, <1>11, <2>2, <2>3 DEF KeysInv, InUse
<1>17. \A j \in pool : j # k => j.row # k.row /\ ~ (j.slot = k.slot /\ j.own = k.own /\ j.id = k.id)
  BY Zenon, <1>5 DEF KeysInv, OneRow
<1>18. OneRow'
  <2>. SUFFICES ASSUME NEW i \in pool', NEW j \in pool',
                       i.row = j.row \/ (i.slot = j.slot /\ i.own = j.own /\ i.id = j.id)
                PROVE  i = j
    BY Zenon DEF OneRow
  <2>1. CASE i \in pool /\ j \in pool
    BY Zenon, <2>1 DEF KeysInv, OneRow
  <2>2. CASE i = q \/ j = q
    BY Zenon, <1>8, <1>11, <1>17, <2>2
  <2>. QED  BY Zenon, <1>11, <2>1, <2>2
<1>19. Unspent'
  <2>. SUFFICES ASSUME NEW j \in pool', NEW n \in letters', j.used = NoRow, Built(n, j) PROVE FALSE
    BY Zenon DEF Unspent, Built
  <2>1. j \in pool /\ j # k
    BY Zenon, <1>7, <1>8, <1>11
  <2>2. n \in letters => FALSE
    BY Zenon, <2>1 DEF KeysInv, Unspent
  <2>3. n = m => FALSE
    BY Zenon, <1>10, <1>17, <2>1 DEF Built
  <2>. QED  BY Zenon, <1>12, <2>2, <2>3
<1>20. Claims'
  <2>1. \A y \in Senders : Claimed(y)' => y # x /\ Claimed(y) /\ fetch'[y] = fetch[y]
    BY Zenon, <1>13 DEF Claimed
  <2>2. \A y \in Senders : Claimed(y) /\ y # x => fetch[y].row # k.row
    BY Zenon, <1>1, <1>5 DEF KeysInv, Claims
  <2>3. \A y \in Senders : Claimed(y)' => \A j \in pool : j.row = fetch[y].row => j \in pool'
    BY Zenon, <1>11, <2>1, <2>2
  <2>. QED  BY Zenon, <2>1, <2>3, ClaimsQuiet
<1>21. Spent'
  <2>. SUFFICES ASSUME NEW n \in letters', n.id # NoRow, LiveSlot(n.slot), slot[n.slot].own = n.of
                PROVE  \E j \in pool' : Built(n, j) /\ j.used = n.day
    BY Zenon, <1>11 DEF Spent, Built, LiveSlot
  <2>1. CASE n \in letters
    <3>1. PICK j \in pool : Built(n, j) /\ j.used = n.day
      BY Zenon, <2>1 DEF KeysInv, Spent
    <3>2. n.day \in Nat
      BY Zenon, <2>1 DEF KeysInv, KeyTypes, Message
    <3>3. j # k
      BY Zenon, <1>5, <3>1, <3>2, NoRowIsNone
    <3>. QED  BY Zenon, <1>11, <3>1, <3>3
  <2>2. CASE n = m
    BY Zenon, <1>8, <1>10, <1>11, <2>2 DEF Built
  <2>. QED  BY Zenon, <1>12, <2>1, <2>2
<1>22. ASSUME NEW s \in Slots PROVE BatchOK(s)'
  <2>. SUFFICES ASSUME refill[s] # NoRow
                PROVE  /\ \A j \in pool' : j.slot = s /\ j.own = refill[s].own => j.id \in refill[s].seen
                       /\ \A n \in letters' : n.slot = s /\ n.of = refill[s].own /\ n.id # NoRow => n.id \in refill[s].seen
    BY Zenon, <1>11 DEF BatchOK
  <2>1. /\ \A j \in pool : j.slot = s /\ j.own = refill[s].own => j.id \in refill[s].seen
        /\ \A n \in letters : n.slot = s /\ n.of = refill[s].own /\ n.id # NoRow => n.id \in refill[s].seen
    BY Zenon DEF KeysInv, BatchOK
  <2>2. \A j \in pool' : j.slot = s /\ j.own = refill[s].own => j.id \in refill[s].seen
    BY Zenon, <1>5, <1>8, <1>11, <2>1
  <2>3. \A n \in letters' : n.slot = s /\ n.of = refill[s].own /\ n.id # NoRow => n.id \in refill[s].seen
    BY Zenon, <1>5, <1>10, <1>12, <2>1
  <2>. QED  BY Zenon, <2>2, <2>3
<1>23. OneUse'
  <2>1. \A n \in letters : ~ (n.slot = m.slot /\ n.of = m.of /\ n.id = m.id)
    BY Zenon, <1>5, <1>10 DEF KeysInv, Unspent, Built
  <2>. QED  BY Zenon, <1>12, <2>1 DEF KeysInv, OneUse
<1>. QED  BY Zenon, <1>14, <1>15, <1>16, <1>18, <1>19, <1>20, <1>21, <1>22, <1>23 DEF KeysInv

\* The bundle goes out without a key.
LEMMA FetchBareKeeps ==
  ASSUME KeysInv, NEW x \in Senders, FetchBare(x)
  PROVE  KeysInv'
<1>1. PICK f \in Bundle : f = fetch[x]
  BY Zenon DEF FetchBare, KeysInv, KeyTypes
<1>2. Meet(x, NoRow, NoRow) /\ fetch' = [fetch EXCEPT ![x] = NoRow] /\ UNCHANGED <<focus, day, installs, slot, pool, rows, refill>>
  BY Zenon DEF FetchBare
<1>3. fetch'[x] = NoRow /\ fetch' \in [Senders -> {NoRow} \cup Bundle] /\ \A y \in Senders : y # x => fetch'[y] = fetch[y]
  BY Zenon, <1>2 DEF KeysInv, KeyTypes
<1>4. PICK m : m = Letter(NoRow, f.slot, f.own, NoRow, NoRow)
  BY Zenon
<1>5. m \in Message /\ m.id = NoRow
  BY Zenon, <1>4 DEF Letter, Message, Day, Bundle, KeysInv, KeyTypes
<1>6. letters' \subseteq letters \cup {m}
  BY Zenon, <1>1, <1>2, <1>4 DEF Meet
<1>7. KeyTypes'
  <2>1. session' \subseteq Contact
    <3>1. [slot |-> f.slot, own |-> f.own, day |-> day] \in Contact
      BY Zenon DEF Bundle, Contact, KeysInv, KeyTypes
    <3>. QED  BY Zenon, <1>1, <1>2, <3>1 DEF Meet, KeysInv, KeyTypes
  <2>. QED  BY Zenon, <1>2, <1>3, <1>5, <1>6, <2>1 DEF KeysInv, KeyTypes
<1>8. InUse' /\ OneRow' /\ Unspent' /\ Spent' /\ (\A t \in Slots : BatchOK(t)') /\ OneUse'
  BY Zenon, <1>2, <1>5, <1>6, <1>7, PoolQuiet
<1>9. Claims'
  BY Zenon, <1>2, <1>3, ClaimsQuiet DEF Claimed
<1>10. Recent' /\ SlotsKept'
  BY Zenon, <1>1, <1>2, MeetKeeps
<1>. QED  BY Zenon, <1>7, <1>8, <1>9, <1>10 DEF KeysInv

\* A later message, on a session that is not too old.
LEMMA WriteKeeps ==
  ASSUME KeysInv, NEW c \in session, Write(c)
  PROVE  KeysInv'
<1>1. PICK m : m = Letter(NoRow, c.slot, c.own, NoRow, NoRow)
  BY Zenon
<1>2. c.slot \in Slots /\ c.own \in Nat /\ c.day \in Nat /\ day \in Nat
  BY Zenon DEF KeysInv, KeyTypes, Contact
<1>3. m \in Message /\ m.id = NoRow /\ m.slot = c.slot /\ m.own = c.own /\ m.day = day
  BY Zenon, <1>1, <1>2 DEF Letter, Message, Day
<1>4. letters' = letters \cup {m} /\ UNCHANGED <<focus, day, installs, slot, pool, rows, fetch, refill, session>>
  BY Zenon, <1>1 DEF Write
<1>5. KeyTypes'
  BY Zenon, <1>3, <1>4 DEF KeysInv, KeyTypes
<1>6. InUse' /\ OneRow' /\ Unspent' /\ Spent' /\ (\A t \in Slots : BatchOK(t)') /\ OneUse'
  BY Zenon, <1>3, <1>4, <1>5, PoolQuiet
<1>7. Claims'
  BY Zenon, <1>4, ClaimsQuiet DEF Claimed
<1>8. Recent'
  <2>1. m.day <= day /\ day <= m.day + QueueTTL
    BY <1>2, <1>3, KeysAssumption
  <2>. QED  BY Zenon, <1>4, <2>1 DEF KeysInv, Recent
<1>9. m.slot # 1 => /\ slot[m.slot] # NoRow /\ slot[m.slot].own = m.own
                    /\ slot[m.slot].gone = NoRow \/ m.day <= slot[m.slot].gone + RosterAge
  <2>. SUFFICES ASSUME m.slot # 1 PROVE /\ slot[m.slot] # NoRow /\ slot[m.slot].own = m.own
                                        /\ slot[m.slot].gone = NoRow \/ m.day <= slot[m.slot].gone + RosterAge
    BY Zenon
  <2>1. Kept(c.slot, c.own, c.day) /\ day <= c.day + RosterAge
    BY Zenon, <1>3 DEF KeysInv, SlotsKept, Recent
  <2>2. slot[c.slot].gone \in Nat \cup {NoRow}
    BY Zenon, <1>2, <2>1 DEF Kept, KeysInv, KeyTypes, SlotRow, Day
  <2>3. slot[c.slot].gone \in Nat /\ c.day <= slot[c.slot].gone => day <= slot[c.slot].gone + RosterAge
    BY <1>2, <2>1, KeysAssumption
  <2>. QED  BY Zenon, <1>3, <2>1, <2>2, <2>3 DEF Kept
<1>10. SlotsKept'
  BY Zenon, <1>4, <1>9 DEF KeysInv, SlotsKept, Kept
<1>. QED  BY Zenon, <1>5, <1>6, <1>7, <1>8, <1>10 DEF KeysInv
\* Rows leave the pool, but not the consumed ones of an install that is in its
\* slot and has messages waiting.
LEMMA PoolShrinks ==
  ASSUME KeysInv, pool' \subseteq pool, UNCHANGED <<installs, rows, refill, letters>>,
         \A s \in Slots : slot'[s] # NoRow => slot[s] # NoRow /\ slot'[s].own = slot[s].own
  PROVE  InUse' /\ OneRow' /\ Unspent' /\ (\A s \in Slots : BatchOK(s)') /\ OneUse'
<1>1. InUse'
  BY Zenon DEF KeysInv, InUse
<1>2. OneRow' /\ OneUse'
  BY Zenon DEF KeysInv, OneRow, OneUse
<1>3. Unspent'
  BY Zenon DEF KeysInv, Unspent, Built
<1>4. \A s \in Slots : BatchOK(s)'
  BY Zenon DEF KeysInv, BatchOK
<1>. QED  BY Zenon, <1>1, <1>2, <1>3, <1>4

\* revoke_device_slot: the tombstone keeps the install, from today on.
LEMMA RevokeKeeps ==
  ASSUME KeysInv, NEW s \in Slots, RevokeSlot(s)
  PROVE  KeysInv'
<1>1. PICK r \in SlotRow : r = slot[s] /\ r.gone = NoRow
  BY Zenon DEF RevokeSlot, LiveSlot, KeysInv, KeyTypes
<1>2. PICK t : t = [r EXCEPT !.gone = day]
  BY Zenon
<1>3. day \in Nat /\ day # NoRow /\ RosterAge \in Nat
  BY Zenon, NoRowIsNone, KeysAssumption DEF KeysInv, KeyTypes
<1>4. t \in SlotRow /\ t # NoRow /\ t.own = r.own /\ t.gone = day
  BY Zenon, <1>2, <1>3, NoRowIsNone DEF SlotRow, Day
<1>5. /\ s # 1 /\ Unlocked(s) /\ slot[s] # NoRow
      /\ slot' = [slot EXCEPT ![s] = t] /\ pool' = pool \ PoolOf(s)
      /\ UNCHANGED <<focus, day, installs, rows, fetch, refill, letters, session>>
  BY Zenon, <1>1, <1>2 DEF RevokeSlot, LiveSlot
<1>6. slot'[s] = t /\ slot' \in [Slots -> {NoRow} \cup SlotRow] /\ \A u \in Slots : u # s => slot'[u] = slot[u]
  BY Zenon, <1>4, <1>5 DEF KeysInv, KeyTypes
<1>7. pool' \subseteq pool /\ \A k \in pool : k.slot # s => k \in pool'
  BY Zenon, <1>5 DEF PoolOf
<1>8. KeyTypes'
  BY Zenon, <1>5, <1>6, <1>7 DEF KeysInv, KeyTypes
<1>9. \A u \in Slots : slot'[u] # NoRow => slot[u] # NoRow /\ slot'[u].own = slot[u].own
  BY Zenon, <1>1, <1>4, <1>5, <1>6
<1>10. InUse' /\ OneRow' /\ Unspent' /\ (\A u \in Slots : BatchOK(u)') /\ OneUse'
  BY Zenon, <1>5, <1>7, <1>9, PoolShrinks
<1>11. Claims'
  <2>1. \A x \in Senders : Claimed(x)' => Claimed(x) /\ fetch'[x] = fetch[x]
    BY Zenon, <1>5 DEF Claimed
  <2>2. \A x \in Senders : Claimed(x) => \A k \in pool : k.row = fetch[x].row => k \in pool'
    BY Zenon, <1>5, <1>7, LockedClaims
  <2>. QED  BY Zenon, <2>1, <2>2, ClaimsQuiet
<1>12. Spent'
  <2>. SUFFICES ASSUME NEW m \in letters, m.id # NoRow, LiveSlot(m.slot)', slot'[m.slot].own = m.of
                PROVE  \E k \in pool' : Built(m, k) /\ k.used = m.day
    BY Zenon, <1>5 DEF Spent, Built
  <2>1. m.slot \in Slots /\ m.slot # s
    BY Zenon, <1>3, <1>4, <1>6 DEF LiveSlot, KeysInv, KeyTypes, Message
  <2>2. LiveSlot(m.slot) /\ slot[m.slot].own = m.of
    BY Zenon, <1>6, <2>1 DEF LiveSlot
  <2>3. PICK k \in pool : Built(m, k) /\ k.used = m.day
    BY Zenon, <2>2 DEF KeysInv, Spent
  <2>4. k \in pool'
    BY Zenon, <1>7, <2>1, <2>3 DEF Built
  <2>. QED  BY Zenon, <2>3, <2>4
<1>13. Recent'
  BY Zenon, <1>5 DEF KeysInv, Recent
<1>14. ASSUME NEW u \in Slots, NEW own, NEW g \in Nat, g <= day, Kept(u, own, g) PROVE Kept(u, own, g)'
  <2>1. CASE u = s
    BY Zenon, <1>1, <1>4, <1>6, <1>14, <2>1 DEF Kept
  <2>2. CASE u # s
    BY Zenon, <1>6, <1>14, <2>2 DEF Kept
  <2>. QED  BY Zenon, <2>1, <2>2
<1>15. SlotsKept'
  <2>1. ASSUME NEW x \in Senders, fetch'[x] # NoRow, fetch'[x].slot # 1 PROVE Kept(fetch[x].slot, fetch[x].own, day)'
    <3>1. PICK f \in Bundle : f = fetch[x] /\ f.slot \in Slots
      BY Zenon, <1>5, <2>1 DEF KeysInv, KeyTypes, Bundle
    <3>2. PICK d \in Nat : d = day
      BY Zenon, <1>3
    <3>3. Kept(f.slot, f.own, d)
      BY Zenon, <1>5, <2>1, <3>1, <3>2 DEF KeysInv, SlotsKept
    <3>4. Kept(f.slot, f.own, d)'
      BY <1>3, <1>14, <3>1, <3>2, <3>3
    <3>. QED  BY Zenon, <1>5, <3>1, <3>2, <3>4 DEF Kept
  <2>2. ASSUME NEW c \in session, c.slot # 1 PROVE Kept(c.slot, c.own, c.day)'
    <3>1. Kept(c.slot, c.own, c.day) /\ c.day <= day /\ c.day \in Nat /\ c.slot \in Slots
      BY Zenon, <2>2 DEF KeysInv, SlotsKept, Recent, KeyTypes, Contact
    <3>. QED  BY Zenon, <1>14, <3>1
  <2>3. ASSUME NEW m \in letters, m.slot # 1
        PROVE  /\ slot'[m.slot] # NoRow /\ slot'[m.slot].own = m.own
               /\ slot'[m.slot].gone = NoRow \/ m.day <= slot'[m.slot].gone + RosterAge
    <3>1. /\ slot[m.slot] # NoRow /\ slot[m.slot].own = m.own
          /\ slot[m.slot].gone = NoRow \/ m.day <= slot[m.slot].gone + RosterAge
      BY Zenon, <2>3 DEF KeysInv, SlotsKept
    <3>2. m.slot \in Slots /\ m.day \in Nat /\ m.day <= day
      BY Zenon DEF KeysInv, KeyTypes, Message, Recent
    <3>3. m.day <= day + RosterAge
      BY <1>3, <3>2
    <3>4. CASE m.slot = s
      BY Zenon, <1>1, <1>4, <1>6, <3>1, <3>3, <3>4
    <3>5. CASE m.slot # s
      BY Zenon, <1>6, <3>1, <3>2, <3>5
    <3>. QED  BY Zenon, <3>4, <3>5
  <2>. QED  BY Zenon, <1>5, <2>1, <2>2, <2>3 DEF SlotsKept
<1>. QED  BY Zenon, <1>8, <1>10, <1>11, <1>12, <1>13, <1>15 DEF KeysInv

\* prekey_sweep: CONSUMED_MAX_AGE_DAYS are no fewer than TTL_DAYS.
LEMMA SweepPrekeysKeeps ==
  ASSUME KeysInv, SweepPrekeys
  PROVE  KeysInv'
<1>1. /\ pool' = {k \in pool : ~KeysPast(k.used, ConsumedAge)}
      /\ UNCHANGED <<focus, day, installs, slot, rows, fetch, refill, letters, session>>
  BY Zenon DEF SweepPrekeys
<1>2. KeyTypes'
  BY Zenon, <1>1 DEF KeysInv, KeyTypes
<1>3. InUse' /\ OneRow' /\ Unspent' /\ (\A u \in Slots : BatchOK(u)') /\ OneUse'
  BY Zenon, <1>1, PoolShrinks
<1>4. Claims'
  <2>1. \A x \in Senders : Claimed(x)' => Claimed(x) /\ fetch'[x] = fetch[x]
    BY Zenon, <1>1 DEF Claimed
  <2>2. \A x \in Senders : Claimed(x) => \A k \in pool : k.row = fetch[x].row => k.used = NoRow
    BY DEF KeysInv, Claims, ClaimOK, OneRow
  <2>3. \A k \in pool : k.used = NoRow => k \in pool'
    BY Zenon, <1>1 DEF KeysPast
  <2>. QED  BY Zenon, <2>1, <2>2, <2>3, ClaimsQuiet
<1>5. Spent'
  <2>. SUFFICES ASSUME NEW m \in letters, m.id # NoRow, LiveSlot(m.slot), slot[m.slot].own = m.of
                PROVE  \E k \in pool' : Built(m, k) /\ k.used = m.day
    BY Zenon, <1>1 DEF Spent, Built, LiveSlot
  <2>1. PICK k \in pool : Built(m, k) /\ k.used = m.day
    BY Zenon DEF KeysInv, Spent
  <2>2. m.day \in Nat /\ day \in Nat /\ day <= m.day + QueueTTL
    BY Zenon DEF KeysInv, KeyTypes, Message, Recent
  <2>3. ~ (m.day + ConsumedAge < day)
    BY <2>2, KeysAssumption
  <2>. QED  BY Zenon, <1>1, <2>1, <2>3 DEF KeysPast
<1>6. Recent' /\ SlotsKept'
  BY Zenon, <1>1, SlotsQuiet
<1>. QED  BY Zenon, <1>2, <1>3, <1>4, <1>5, <1>6 DEF KeysInv

\* device_sweep: REVOKED_MAX_AGE_DAYS are no fewer than a roster may be old and
\* a message may wait.
LEMMA SweepSlotsKeeps ==
  ASSUME KeysInv, SweepSlots
  PROVE  KeysInv'
<1>1. /\ slot' = [s \in Slots |-> IF slot[s] # NoRow /\ KeysPast(slot[s].gone, RevokedAge) THEN NoRow ELSE slot[s]]
      /\ UNCHANGED <<focus, day, installs, pool, rows, fetch, refill, letters, session>>
  BY Zenon DEF SweepSlots
<1>2. \A s \in Slots : slot'[s] = slot[s] \/ (slot'[s] = NoRow /\ slot[s] # NoRow /\ slot[s].gone # NoRow /\ slot[s].gone + RevokedAge < day)
  BY Zenon, <1>1 DEF KeysPast
<1>3. KeyTypes'
  BY Zenon, <1>1, <1>2 DEF KeysInv, KeyTypes
<1>4. InUse' /\ OneRow' /\ Unspent' /\ Spent' /\ (\A t \in Slots : BatchOK(t)') /\ OneUse'
  BY Zenon, <1>1, <1>2, <1>3, PoolQuiet
<1>5. Claims'
  BY Zenon, <1>1, ClaimsQuiet DEF Claimed
<1>6. Recent'
  BY Zenon, <1>1 DEF KeysInv, Recent
<1>7. ASSUME NEW u \in Slots, slot[u] # NoRow, slot[u].gone = NoRow \/ day <= slot[u].gone + RevokedAge
      PROVE  slot'[u] = slot[u]
  <2>1. day \in Nat /\ RevokedAge \in Nat /\ slot[u].gone \in Nat \cup {NoRow}
    BY Zenon, <1>7, KeysAssumption DEF KeysInv, KeyTypes, SlotRow, Day
  <2>2. slot[u].gone = NoRow \/ ~ (slot[u].gone + RevokedAge < day)
    BY <1>7, <2>1
  <2>. QED  BY Zenon, <1>2, <2>2
<1>8. ASSUME NEW u \in Slots, NEW own, NEW g \in Nat, Kept(u, own, g), day <= g + RosterAge PROVE Kept(u, own, g)'
  <2>1. day \in Nat /\ slot[u].gone \in Nat \cup {NoRow}
    BY Zenon, <1>8 DEF KeysInv, KeyTypes, SlotRow, Day, Kept
  <2>2. slot[u].gone = NoRow \/ day <= slot[u].gone + RevokedAge
    BY <1>8, <2>1, KeysAssumption DEF Kept
  <2>3. slot'[u] = slot[u]
    BY Zenon, <1>7, <1>8, <2>2 DEF Kept
  <2>. QED  BY Zenon, <1>8, <2>3 DEF Kept
<1>9. SlotsKept'
  <2>1. ASSUME NEW x \in Senders, fetch'[x] # NoRow, fetch'[x].slot # 1 PROVE Kept(fetch[x].slot, fetch[x].own, day)'
    <3>1. PICK f \in Bundle : f = fetch[x] /\ f.slot \in Slots
      BY Zenon, <1>1, <2>1 DEF KeysInv, KeyTypes, Bundle
    <3>2. PICK d \in Nat : d = day /\ d <= d + RosterAge
      BY KeysAssumption DEF KeysInv, KeyTypes
    <3>3. Kept(f.slot, f.own, d)
      BY Zenon, <1>1, <2>1, <3>1, <3>2 DEF KeysInv, SlotsKept
    <3>4. Kept(f.slot, f.own, d)'
      BY Zenon, <1>8, <3>1, <3>2, <3>3
    <3>. QED  BY Zenon, <1>1, <3>1, <3>2, <3>4 DEF Kept
  <2>2. ASSUME NEW c \in session, c.slot # 1 PROVE Kept(c.slot, c.own, c.day)'
    <3>1. Kept(c.slot, c.own, c.day) /\ day <= c.day + RosterAge /\ c.day \in Nat /\ c.slot \in Slots
      BY Zenon, <2>2 DEF KeysInv, SlotsKept, Recent, KeyTypes, Contact
    <3>. QED  BY Zenon, <1>8, <3>1
  <2>3. ASSUME NEW m \in letters, m.slot # 1 PROVE slot'[m.slot] = slot[m.slot]
    <3>1. slot[m.slot] # NoRow /\ (slot[m.slot].gone = NoRow \/ m.day <= slot[m.slot].gone + RosterAge)
      BY Zenon, <2>3 DEF KeysInv, SlotsKept
    <3>2. m.slot \in Slots /\ m.day \in Nat /\ day \in Nat /\ day <= m.day + QueueTTL
      BY Zenon DEF KeysInv, KeyTypes, Message, Recent
    <3>3. slot[m.slot].gone \in Nat \cup {NoRow}
      BY Zenon, <3>1, <3>2 DEF KeysInv, KeyTypes, SlotRow, Day
    <3>4. slot[m.slot].gone = NoRow \/ day <= slot[m.slot].gone + RevokedAge
      BY <3>1, <3>2, <3>3, KeysAssumption
    <3>. QED  BY Zenon, <1>7, <3>1, <3>2, <3>4
  <2>. QED  BY Zenon, <1>1, <2>1, <2>2, <2>3 DEF KeysInv, SlotsKept
<1>. QED  BY Zenon, <1>3, <1>4, <1>5, <1>6, <1>9 DEF KeysInv

\* A day passes: no request is open, and what is too old is dropped.
LEMMA MidnightKeeps ==
  ASSUME KeysInv, KeysMidnight
  PROVE  KeysInv'
<1>1. /\ day' = day + 1 /\ \A x \in Senders : fetch[x] = NoRow
      /\ letters' \subseteq letters /\ \A m \in letters' : day' <= m.day + QueueTTL
      /\ session' \subseteq session /\ \A c \in session' : day' <= c.day + RosterAge
      /\ UNCHANGED <<focus, installs, slot, pool, rows, fetch, refill>>
  <2>1. /\ letters' = {m \in letters : m.day + QueueTTL >= day'}
        /\ session' = {c \in session : c.day + RosterAge >= day'}
    BY Zenon DEF KeysMidnight
  <2>. QED  BY Zenon, <2>1 DEF KeysMidnight
<1>2. day \in Nat
  BY Zenon DEF KeysInv, KeyTypes
<1>3. KeyTypes'
  BY <1>1, <1>2 DEF KeysInv, KeyTypes
<1>4. InUse' /\ OneRow' /\ Unspent' /\ Spent' /\ (\A t \in Slots : BatchOK(t)') /\ OneUse'
  BY Zenon, <1>1, <1>3, PoolQuiet
<1>5. Claims'
  BY Zenon, <1>1, ClaimsQuiet DEF Claimed
<1>6. Recent'
  <2>1. \A m \in letters : m.day \in Nat /\ m.day <= day
    BY Zenon DEF KeysInv, KeyTypes, Message, Recent
  <2>2. \A c \in session : c.day \in Nat /\ c.day <= day
    BY Zenon DEF KeysInv, KeyTypes, Contact, Recent
  <2>. QED  BY <1>1, <1>2, <2>1, <2>2 DEF Recent
<1>7. SlotsKept'
  BY Zenon, <1>1 DEF KeysInv, SlotsKept, Kept
<1>. QED  BY Zenon, <1>3, <1>4, <1>5, <1>6, <1>7 DEF KeysInv

\* One install, no keys and no messages at first.
LEMMA InitKeysInv == KeysInit => KeysInv
<1>. SUFFICES ASSUME KeysInit PROVE KeysInv
  BY Zenon
<1>1. PICK b : b = [own |-> 1, gone |-> NoRow]
  BY Zenon
<1>2. b \in SlotRow /\ b.own = 1
  BY Zenon, <1>1 DEF SlotRow, Day
<1>3. slot = [s \in Slots |-> IF s = 1 THEN b ELSE NoRow]
  BY Zenon, <1>1 DEF KeysInit
<1>4. KeyTypes
  BY ZenonT(30), <1>2, <1>3 DEF KeysInit, KeyTypes
<1>5. InUse
  BY <1>2, <1>3 DEF KeysInit, InUse
<1>6. OneRow /\ Unspent /\ Spent /\ OneUse /\ Recent
  BY Zenon DEF KeysInit, OneRow, Unspent, Spent, OneUse, Recent
<1>7. Claims /\ SlotsKept
  BY Zenon DEF KeysInit, Claims, Claimed, SlotsKept
<1>8. \A s \in Slots : BatchOK(s)
  BY Zenon DEF KeysInit, BatchOK
<1>. QED  BY Zenon, <1>4, <1>5, <1>6, <1>7, <1>8 DEF KeysInv

\* Every request and every sweep keeps the invariant.
LEMMA NextKeysInv == KeysInv /\ [KeysNext]_keyVars => KeysInv'
<1>. SUFFICES ASSUME KeysInv, [KeysNext]_keyVars PROVE KeysInv'
  BY Zenon
<1>1. CASE UNCHANGED keyVars
  <2>1. UNCHANGED <<day, installs, slot, pool, rows, fetch, refill, letters, session>>
    BY Zenon, <1>1 DEF keyVars
  <2>2. KeyTypes'
    BY Zenon, <2>1 DEF KeysInv, KeyTypes
  <2>3. InUse' /\ OneRow' /\ Unspent' /\ Spent' /\ (\A t \in Slots : BatchOK(t)') /\ OneUse'
    BY Zenon, <2>1, <2>2, PoolQuiet
  <2>4. Claims'
    BY Zenon, <2>1, ClaimsQuiet DEF Claimed
  <2>5. Recent' /\ SlotsKept'
    BY Zenon, <2>1, SlotsQuiet
  <2>. QED  BY Zenon, <2>2, <2>3, <2>4, <2>5 DEF KeysInv
<1>2. \A ids \in Batches : ids \in SUBSET PreKeyIds
  BY Zenon DEF Batches
<1>3. CASE KeysNext
  BY Zenon, <1>2, <1>3, UploadKeeps, RegisterKeeps, RefillKeeps, RefillCommitKeeps, RevokeKeeps, FetchKeeps, ClaimKeeps,
     FetchCommitKeeps, FetchBareKeeps, FetchFailsKeeps, WriteKeeps, SweepPrekeysKeeps, SweepSlotsKeeps, MidnightKeeps
     DEF KeysNext
<1>. QED  BY Zenon, <1>1, <1>3

\* A message that waits for an install can be read by it: no other was built on
\* the same one-time prekey, and the slot was not given away meanwhile, however
\* fetches, batches, revocations and sweeps interleave (keys.py, prekey_sweep,
\* device_sweep).
THEOREM WaitingAlwaysReadable == KeysSpec => []WaitingReadable
<1>1. KeysSpec => []KeysInv
  BY InitKeysInv, NextKeysInv, PTL DEF KeysSpec
<1>2. KeysInv => WaitingReadable
  <2>. SUFFICES ASSUME KeysInv PROVE SlotNotReused
    BY Zenon DEF WaitingReadable, KeysInv
  <2>. QED  BY Zenon DEF KeysInv, SlotsKept, SlotNotReused
<1>. QED  BY <1>1, <1>2, PTL
=============================================================================
