----------------------- MODULE GateVaultReportsProofs -----------------------
(***************************************************************************)
(* Proofs about modules Gate, Vault and Reports, for any passes, phones,   *)
(* devices, slots and reporters: every pass a phone holds is accounted for *)
(* by the invite it was exchanged for, whatever exchanges, revocations and *)
(* reaps run between; the version of a vault slot names its content, and   *)
(* nothing is overwritten that the writer had not read; and a report that  *)
(* was filed stays filed.                                                  *)
(***************************************************************************)
EXTENDS Gate, Vault, Reports, FiniteSetTheorems, TLAPS

(* The gate.                                                               *)

PassRows == [kind : {"invite", "standing"}, uses : Nat, expires : Nat, revokedAt : Nat, created : Nat, seen : Nat]
PhoneRows == [kind : {"device"}, serial : Nat \ {0}, uses : Nat, parent : Passes,
              expires : Nat, revokedAt : Nat, created : Nat, seen : Nat]
Exchanges == [stage : {"read"}, invite : Passes] \cup [stage : {"committed"}, serial : Nat]

\* A revocation bears the time at which it was made.
Stamped(r) == r.revokedAt = Never \/ r.revokedAt <= time

GateTypes ==
  /\ pass \in [Passes -> {NoToken} \cup PassRows] /\ phone \in [Phones -> {NoToken} \cup PhoneRows]
  /\ redeem \in [Phones -> {NoToken} \cup Exchanges]
  /\ watch \in Hashes /\ time \in 0 .. MaxTime
  /\ revoker # NoToken /\ revoker.stage = "locked" => revoker.of \in Passes
  /\ \A p \in Passes : pass[p] # NoToken => Stamped(pass[p])
  /\ \A d \in Phones : phone[d] # NoToken => Stamped(phone[d])

Reading(d) == redeem[d] # NoToken /\ redeem[d].stage = "read"
Cached(d) == redeem[d] # NoToken /\ redeem[d].stage = "committed"

\* A device stands behind a consumed invite, or behind one that was swept once
\* the device was revoked; no row goes on the first day, when rows are made.
ChildOK(d) ==
  phone[d] # NoToken =>
    LET i == phone[d].parent IN
    /\ pass[i] # NoToken => Exhausted(pass[i]) /\ (Revoked(pass[i]) => Revoked(phone[d]))
    /\ pass[i] = NoToken => time > 0 /\ Revoked(phone[d])
    /\ i \in reap => Revoked(phone[d])
    /\ \A e \in Phones : phone[e] # NoToken /\ phone[e].parent = i => e = d

\* What an exchange read is an invite for as long as it is there.
ExchangeOK(d) ==
  Reading(d) =>
    LET i == redeem[d].invite IN
    /\ pass[i] # NoToken => pass[i].kind = "invite"
    /\ pass[i] = NoToken => time > 0

\* What the sweep has read dead is never consumed again.
ReapOK ==
  /\ reap # {} => time > 0
  /\ \A i \in Passes : i \in reap => ~Consumable(i)

\* The row was re-issued to its device after it was revoked.
Reissued(r) == r.kind = "device" /\ r.serial > 1 /\ r.created >= r.revokedAt

\* An answer "not revoked" that is good until then came from the row of the
\* watched hash before its revocation, or from a re-issue.
GoodUntil(until) ==
  LET r == RowOfHash(watch) IN
  r # NoToken /\ Revoked(r) => until <= r.revokedAt + CacheTTL \/ Reissued(r)

AnswersOK ==
  /\ cache # NoToken => /\ cache.until \in Nat /\ time < cache.until /\ cache.until <= time + CacheTTL
                        /\ ~cache.meta.revoked => GoodUntil(cache.until)
  /\ check # NoToken /\ ~check.revoked => GoodUntil(time + CacheTTL)
  /\ \A d \in Phones : Cached(d) /\ watch = <<d, redeem[d].serial>> => GoodUntil(time + CacheTTL)
  /\ granted # NoToken => granted = watch
  /\ RevokeTakesHold

GateInv ==
  /\ GateTypes
  /\ \A d \in Phones : ChildOK(d) /\ ExchangeOK(d)
  /\ ReapOK
  /\ AnswersOK

\* No row, no request and no entry at the start.
LEMMA GateStart == GateInit => GateInv
<1>. SUFFICES ASSUME GateInit PROVE GateInv
  BY Zenon
<1>1. GateTypes
  BY GateAssumption DEF GateInit, GateTypes
<1>. QED  BY Zenon, <1>1 DEF GateInit, GateInv, ChildOK, ExchangeOK, Reading, Cached, ReapOK, AnswersOK, RevokeTakesHold

\* Steps that leave the rows alone: the requests and the clock.
LEMMA GateTypesIdle ==
  ASSUME GateTypes, UNCHANGED <<pass, phone, watch>>, time' \in 0 .. MaxTime, time <= time',
         redeem' \in [Phones -> {NoToken} \cup Exchanges],
         revoker' = NoToken \/ revoker' = revoker \/ revoker'.stage = "evict" \/ revoker'.of \in Passes
  PROVE  GateTypes'
<1>1. Never \in Nat
  BY GateAssumption DEF Never
<1>2. \A p \in Passes : pass'[p] # NoToken => Stamped(pass[p])'
  BY GateAssumption DEF GateTypes, PassRows, Stamped, Never
<1>3. \A d \in Phones : phone'[d] # NoToken => Stamped(phone[d])'
  BY GateAssumption DEF GateTypes, PhoneRows, Stamped, Never
<1>. QED  BY Zenon, <1>2, <1>3 DEF GateTypes, Hashes

\* Steps that write rows keep them rows, and stamp them with the time.
LEMMA GateTypesRows ==
  ASSUME GateTypes, UNCHANGED <<watch, time>>,
         pass' \in [Passes -> {NoToken} \cup PassRows], phone' \in [Phones -> {NoToken} \cup PhoneRows],
         redeem' \in [Phones -> {NoToken} \cup Exchanges],
         revoker' = NoToken \/ revoker' = revoker \/ revoker'.stage = "evict" \/ revoker'.of \in Passes,
         \A p \in Passes : pass'[p] # NoToken => pass'[p].revokedAt \in {Never, time} \/ (pass[p] # NoToken /\ pass'[p].revokedAt = pass[p].revokedAt),
         \A d \in Phones : phone'[d] # NoToken => phone'[d].revokedAt \in {Never, time} \/ (phone[d] # NoToken /\ phone'[d].revokedAt = phone[d].revokedAt)
  PROVE  GateTypes'
<1>1. \A p \in Passes : pass'[p] # NoToken => Stamped(pass[p])'
  BY DEF GateTypes, Stamped, Never
<1>2. \A d \in Phones : phone'[d] # NoToken => Stamped(phone[d])'
  BY DEF GateTypes, Stamped, Never
<1>. QED  BY Zenon, <1>1, <1>2 DEF GateTypes, Hashes

\* A row of the same hash before and after a step, as far as an answer given
\* about it matters.
Moved(r, s) ==
  \/ s = NoToken \/ ~Revoked(s) \/ s.revokedAt = time \/ Reissued(s)
  \/ r # NoToken /\ s.revokedAt = r.revokedAt /\ (Reissued(r) => Reissued(s))

\* The row of the watched hash moves as the rows do.
LEMMA HashMoves ==
  ASSUME GateTypes, UNCHANGED watch,
         \A p \in Passes : Moved(pass[p], pass'[p]),
         \A d \in Phones : phone'[d] # NoToken =>
           \/ ~Revoked(phone'[d]) \/ phone'[d].revokedAt = time \/ Reissued(phone'[d])
           \/ phone[d] # NoToken /\ phone'[d].serial = phone[d].serial /\ Moved(phone[d], phone'[d])
  PROVE  Moved(RowOfHash(watch), RowOfHash(watch)')
<1>1. PICK x, k : x = watch[1] /\ k = watch[2] /\ (x \in Passes \/ x \in Phones)
  BY Zenon DEF GateTypes, Hashes
<1>2. CASE x \in Passes
  <2>1. RowOfHash(watch) = pass[x] /\ RowOfHash(watch)' = pass'[x]
    BY Zenon, <1>1, <1>2 DEF RowOfHash
  <2>. QED  BY Zenon, <1>2, <2>1
<1>3. CASE x \in Phones /\ x \notin Passes
  <2>1. RowOfHash(watch) = IF phone[x] # NoToken /\ phone[x].serial = k THEN phone[x] ELSE NoToken
    BY Zenon, <1>1, <1>3 DEF RowOfHash
  <2>2. RowOfHash(watch)' = IF phone'[x] # NoToken /\ phone'[x].serial = k THEN phone'[x] ELSE NoToken
    BY Zenon, <1>1, <1>3 DEF RowOfHash
  <2>3. PICK r, s : r = phone[x] /\ s = phone'[x]
    BY Zenon
  <2>4. s # NoToken => \/ ~Revoked(s) \/ s.revokedAt = time \/ Reissued(s)
                       \/ r # NoToken /\ s.serial = r.serial /\ Moved(r, s)
    BY Zenon, <1>3, <2>3
  <2>5. RowOfHash(watch) = IF r # NoToken /\ r.serial = k THEN r ELSE NoToken
    BY Zenon, <2>1, <2>3
  <2>6. RowOfHash(watch)' = IF s # NoToken /\ s.serial = k THEN s ELSE NoToken
    BY Zenon, <2>2, <2>3
  <2>7. PICK a, b : a = RowOfHash(watch) /\ b = RowOfHash(watch)'
    BY Zenon
  <2>8. Moved(a, b)
    BY Zenon, <2>4, <2>5, <2>6, <2>7 DEF Moved
  <2>. QED  BY Zenon, <2>7, <2>8
<1>. QED  BY Zenon, <1>1, <1>2, <1>3

\* What was good until then stays so.
LEMMA GoodStays ==
  ASSUME GateTypes, UNCHANGED <<watch, time>>, Moved(RowOfHash(watch), RowOfHash(watch)'), RowOfHash(watch)' # NoToken => RowOfHash(watch)'.revokedAt \in Nat,
         NEW until \in Nat, until <= time + CacheTTL, GoodUntil(until)
  PROVE  GoodUntil(until)'
<1>1. PICK r, s : r = RowOfHash(watch) /\ s = RowOfHash(watch)'
  BY Zenon
<1>2. Moved(r, s) /\ (s # NoToken => s.revokedAt \in Nat)
  BY Zenon, <1>1
<1>3. r # NoToken /\ Revoked(r) => until <= r.revokedAt + CacheTTL \/ Reissued(r)
  BY Zenon, <1>1 DEF GoodUntil
<1>4. s # NoToken /\ Revoked(s) => until <= s.revokedAt + CacheTTL \/ Reissued(s)
  BY Zenon, <1>2, <1>3, GateAssumption DEF Moved, Revoked, GateTypes
<1>. QED  BY Zenon, <1>1, <1>4 DEF GoodUntil, Revoked, Reissued, Never

\* The row of a hash has a time of revocation.
LEMMA HashTyped ==
  ASSUME GateTypes
  PROVE  RowOfHash(watch) # NoToken => RowOfHash(watch).revokedAt \in Nat
BY Zenon DEF GateTypes, RowOfHash, Hashes, PassRows, PhoneRows

\* Steps that write rows and no answer.
LEMMA AnswersRows ==
  ASSUME GateInv, GateTypes', UNCHANGED <<watch, cache, check, time>>, granted' = NoToken,
         Moved(RowOfHash(watch), RowOfHash(watch)'),
         \A d \in Phones : Cached(d)' /\ watch = <<d, redeem'[d].serial>> => (Cached(d) /\ redeem'[d] = redeem[d]) \/ GoodUntil(time + CacheTTL)'
  PROVE  AnswersOK'
<1>1. RowOfHash(watch)' # NoToken => RowOfHash(watch)'.revokedAt \in Nat
  <2>1. (RowOfHash(watch) # NoToken => RowOfHash(watch).revokedAt \in Nat)'
    BY Zenon DEF GateTypes, RowOfHash, Hashes, PassRows, PhoneRows
  <2>. QED  BY Zenon, <2>1
<1>2. \A until \in Nat : until <= time + CacheTTL /\ GoodUntil(until) => GoodUntil(until)'
  BY Zenon, <1>1, GoodStays DEF GateInv
<1>3. PICK u \in Nat : u = time + CacheTTL /\ u <= time + CacheTTL
  BY GateAssumption DEF GateInv, GateTypes
<1>4. GoodUntil(time + CacheTTL) => GoodUntil(time + CacheTTL)'
  BY Zenon, <1>2, <1>3 DEF GoodUntil
<1>5. cache' # NoToken => /\ cache'.until \in Nat /\ time' < cache'.until /\ cache'.until <= time' + CacheTTL
                          /\ ~cache'.meta.revoked => GoodUntil(cache.until)'
  <2>. SUFFICES ASSUME cache # NoToken
                PROVE  /\ cache.until \in Nat /\ time < cache.until /\ cache.until <= time + CacheTTL
                       /\ ~cache.meta.revoked => GoodUntil(cache.until)'
    BY Zenon
  <2>1. cache.until \in Nat /\ time < cache.until /\ cache.until <= time + CacheTTL /\ (~cache.meta.revoked => GoodUntil(cache.until))
    BY Zenon DEF GateInv, AnswersOK
  <2>2. PICK v \in Nat : v = cache.until
    BY Zenon, <2>1
  <2>. QED  BY Zenon, <1>2, <2>1, <2>2 DEF GoodUntil
<1>6. check' # NoToken /\ ~check'.revoked => GoodUntil(time + CacheTTL)'
  BY Zenon, <1>4 DEF GateInv, AnswersOK
<1>7. \A d \in Phones : Cached(d)' /\ watch' = <<d, redeem'[d].serial>> => GoodUntil(time + CacheTTL)'
  BY Zenon, <1>4 DEF GateInv, AnswersOK, Cached
<1>. QED  BY Zenon, <1>5, <1>6, <1>7 DEF AnswersOK, RevokeTakesHold

TokensOK == (\A d \in Phones : ChildOK(d) /\ ExchangeOK(d)) /\ ReapOK

\* Steps that neither make nor delete rows, consume nothing and revoke no invite.
LEMMA TokensKept ==
  ASSUME GateInv, time \in Nat, time' \in Nat, time <= time', reap' = reap,
         \A p \in Passes : /\ pass'[p] # NoToken <=> pass[p] # NoToken
                           /\ pass'[p] # NoToken => /\ pass'[p].kind = pass[p].kind /\ pass'[p].uses = pass[p].uses
                                                    /\ pass'[p].expires = pass[p].expires /\ pass'[p].revokedAt = pass[p].revokedAt,
         \A d \in Phones : /\ phone'[d] # NoToken <=> phone[d] # NoToken
                           /\ phone'[d] # NoToken => phone'[d].parent = phone[d].parent /\ (Revoked(phone[d]) => Revoked(phone'[d])),
         \A d \in Phones : Reading(d)' => /\ redeem'[d].invite \in Passes
                                          /\ \/ Reading(d) /\ redeem'[d].invite = redeem[d].invite
                                             \/ pass[redeem'[d].invite] # NoToken /\ pass[redeem'[d].invite].kind = "invite"
  PROVE  TokensOK'
<1>1. \A d \in Phones : phone[d] # NoToken => phone[d].parent \in Passes
  BY Zenon DEF GateInv, GateTypes, PhoneRows
<1>2. \A d \in Phones : ChildOK(d)'
  <2>. SUFFICES ASSUME NEW d \in Phones, phone'[d] # NoToken PROVE ChildOK(d)'
    BY Zenon DEF ChildOK
  <2>1. PICK i \in Passes : i = phone[d].parent /\ i = phone'[d].parent
    BY Zenon, <1>1
  <2>2. ChildOK(d)
    BY Zenon DEF GateInv
  <2>3. \A e \in Phones : phone'[e] # NoToken /\ phone'[e].parent = i => e = d
    BY Zenon, <2>1, <2>2 DEF ChildOK
  <2>4. pass'[i] # NoToken => Exhausted(pass'[i]) /\ (Revoked(pass'[i]) => Revoked(phone'[d]))
    BY <2>1, <2>2 DEF ChildOK, Exhausted, Revoked
  <2>5. pass'[i] = NoToken => time' > 0 /\ Revoked(phone'[d])
    BY <2>1, <2>2 DEF ChildOK
  <2>6. i \in reap' => Revoked(phone'[d])
    BY Zenon, <2>1, <2>2 DEF ChildOK
  <2>. QED  BY Zenon, <2>1, <2>3, <2>4, <2>5, <2>6 DEF ChildOK, Exhausted, Revoked, Never
<1>3. \A d \in Phones : ExchangeOK(d)'
  <2>. SUFFICES ASSUME NEW d \in Phones, Reading(d)' PROVE ExchangeOK(d)'
    BY Zenon DEF ExchangeOK
  <2>1. PICK i \in Passes : i = redeem'[d].invite
    BY Zenon
  <2>2. (pass[i] # NoToken => pass[i].kind = "invite") /\ (pass[i] = NoToken => time > 0)
    BY <2>1 DEF GateInv, ExchangeOK
  <2>3. (pass'[i] # NoToken => pass'[i].kind = "invite") /\ (pass'[i] = NoToken => time' > 0)
    BY <2>2
  <2>. QED  BY Zenon, <2>1, <2>3 DEF ExchangeOK
<1>4. \A i \in Passes : i \in reap => ~Consumable(i)'
  <2>. SUFFICES ASSUME NEW i \in Passes, i \in reap, Consumable(i)' PROVE FALSE
    BY Zenon
  <2>1. /\ pass'[i] # NoToken /\ ~Revoked(pass'[i]) /\ ~Exhausted(pass'[i]) /\ pass'[i].expires > time'
    BY Zenon DEF Consumable, Revoked, Exhausted, Never
  <2>2. pass[i].expires \in Nat
    BY Zenon, <2>1 DEF GateInv, GateTypes, PassRows
  <2>3. Consumable(i)
    BY <2>1, <2>2 DEF Consumable, Revoked, Exhausted
  <2>. QED  BY Zenon, <2>3 DEF GateInv, ReapOK
<1>5. ReapOK'
  BY <1>4 DEF GateInv, ReapOK
<1>. QED  BY Zenon, <1>2, <1>3, <1>5 DEF TokensOK

\* The answers of steps that touch neither the rows nor the hash.
LEMMA HashStays ==
  ASSUME UNCHANGED <<pass, phone, watch>>
  PROVE  /\ RowOfHash(watch)' = RowOfHash(watch) /\ Moved(RowOfHash(watch), RowOfHash(watch)')
         /\ \A until : GoodUntil(until) => GoodUntil(until)'
<1>1. RowOfHash(watch)' = RowOfHash(watch)
  BY Zenon DEF RowOfHash
<1>2. PICK r : r = RowOfHash(watch)
  BY Zenon
<1>3. Moved(r, r)
  BY Zenon DEF Moved
<1>. QED  BY Zenon, <1>1, <1>2, <1>3 DEF GoodUntil, Revoked, Reissued, Never

\* The types and the tokens through steps that touch no row.
LEMMA GateIdle ==
  ASSUME GateInv, UNCHANGED <<pass, phone, watch, reap>>, time' \in 0 .. MaxTime, time <= time',
         redeem' \in [Phones -> {NoToken} \cup Exchanges],
         \A d \in Phones : Reading(d)' => \/ Reading(d) /\ redeem'[d] = redeem[d]
                                          \/ pass[redeem'[d].invite] # NoToken /\ pass[redeem'[d].invite].kind = "invite",
         revoker' = NoToken \/ revoker' = revoker \/ revoker'.stage = "evict" \/ revoker'.of \in Passes
  PROVE  GateTypes' /\ TokensOK'
<1>1. GateTypes'
  BY Zenon, GateTypesIdle DEF GateInv
<1>2. time \in Nat /\ time' \in Nat
  BY DEF GateInv, GateTypes
<1>3. \A d \in Phones : Reading(d)' => redeem'[d].invite \in Passes
  BY Zenon DEF Reading, Exchanges
<1>4. TokensOK'
  BY Zenon, <1>2, <1>3, TokensKept
<1>. QED  BY Zenon, <1>1, <1>4

\* The clock.
LEMMA GateTickOK ==
  ASSUME GateInv, GateTick
  PROVE  GateInv'
<1>1. /\ UNCHANGED <<pass, phone, watch, reap, redeem, revoker, check>> /\ time' = time + 1 /\ check = NoToken /\ granted' = NoToken
      /\ \A d \in Phones : ~Cached(d)
      /\ cache' # NoToken => cache' = cache /\ time + 1 < cache.until
  BY Zenon DEF GateTick, Cached, Kept
<1>2. time \in Nat /\ time' \in 0 .. MaxTime /\ time <= time' /\ redeem' \in [Phones -> {NoToken} \cup Exchanges]
  BY <1>1, GateAssumption DEF GateTick, GateInv, GateTypes
<1>3. GateTypes' /\ TokensOK'
  <2>1. \A d \in Phones : Reading(d)' => Reading(d) /\ redeem'[d] = redeem[d]
    BY Zenon, <1>1 DEF Reading
  <2>. QED  BY Zenon, <1>1, <1>2, <2>1, GateIdle
<1>4. cache' # NoToken => /\ cache'.until \in Nat /\ time' < cache'.until /\ cache'.until <= time' + CacheTTL
                          /\ ~cache'.meta.revoked => GoodUntil(cache.until)'
  <2>. SUFFICES ASSUME cache' # NoToken
                PROVE  /\ cache'.until \in Nat /\ time' < cache'.until /\ cache'.until <= time' + CacheTTL
                       /\ ~cache'.meta.revoked => GoodUntil(cache.until)'
    BY Zenon
  <2>1. cache.until \in Nat /\ cache.until <= time + CacheTTL /\ (~cache.meta.revoked => GoodUntil(cache.until))
    BY Zenon, <1>1 DEF GateInv, AnswersOK
  <2>2. PICK v \in Nat : v = cache.until /\ v = cache'.until
    BY Zenon, <1>1, <2>1
  <2>3. GoodUntil(v) => GoodUntil(v)'
    BY Zenon, <1>1, HashStays
  <2>4. time' < v /\ v <= time' + CacheTTL
    BY <1>1, <1>2, <2>1, <2>2, GateAssumption
  <2>. QED  BY Zenon, <1>1, <2>1, <2>2, <2>3, <2>4 DEF GoodUntil
<1>5. \A d \in Phones : ~Cached(d)'
  BY Zenon, <1>1 DEF Cached
<1>6. AnswersOK'
  BY Zenon, <1>1, <1>4, <1>5 DEF AnswersOK, RevokeTakesHold
<1>. QED  BY Zenon, <1>3, <1>6 DEF GateInv, TokensOK

\* An exchange reads its invite, a revocation takes its row.
LEMMA GateAsks ==
  ASSUME GateInv, (\E d \in Phones, i \in Passes : RedeemReads(d, i)) \/ \E i \in Passes : RevokeLocks(i)
  PROVE  GateInv'
<1>1. UNCHANGED <<pass, phone, watch, reap, time, cache, check>> /\ granted' = NoToken
  BY Zenon DEF RedeemReads, RevokeLocks
<1>2. /\ redeem' \in [Phones -> {NoToken} \cup Exchanges]
      /\ \A d \in Phones : Reading(d)' => \/ Reading(d) /\ redeem'[d] = redeem[d]
                                          \/ pass[redeem'[d].invite] # NoToken /\ pass[redeem'[d].invite].kind = "invite"
      /\ \A d \in Phones : Cached(d)' => Cached(d) /\ redeem'[d] = redeem[d]
  <2>1. ASSUME NEW d \in Phones, NEW i \in Passes, RedeemReads(d, i) PROVE <1>2!:
    BY Zenon, <2>1 DEF RedeemReads, GateInv, GateTypes, Exchanges, Reading, Cached
  <2>2. ASSUME NEW i \in Passes, RevokeLocks(i) PROVE <1>2!:
    BY Zenon, <2>2 DEF RevokeLocks, GateInv, GateTypes, Reading, Cached
  <2>. QED  BY Zenon, <2>1, <2>2
<1>3. revoker' = revoker \/ revoker'.of \in Passes
  BY DEF RedeemReads, RevokeLocks
<1>4. GateTypes' /\ TokensOK'
  <2>1. time' \in 0 .. MaxTime /\ time <= time'
    BY <1>1 DEF GateInv, GateTypes
  <2>. QED  BY Zenon, <1>1, <1>2, <1>3, <2>1, GateIdle
<1>5. Moved(RowOfHash(watch), RowOfHash(watch)')
  BY Zenon, <1>1, HashStays
<1>6. AnswersOK'
  BY Zenon, <1>1, <1>2, <1>4, <1>5, AnswersRows
<1>. QED  BY Zenon, <1>4, <1>6 DEF GateInv, TokensOK

\* The new token is cached as active; a revocation evicts.
LEMMA GateCaches ==
  ASSUME GateInv, Evict \/ \E d \in Phones : RedeemCaches(d)
  PROVE  GateInv'
<1>1. UNCHANGED <<pass, phone, watch, reap, time, check>> /\ granted' = NoToken /\ time \in 0 .. MaxTime /\ time \in Nat
  BY DEF Evict, RedeemCaches, GateInv, GateTypes
<1>2. /\ redeem' \in [Phones -> {NoToken} \cup Exchanges]
      /\ \A d \in Phones : redeem'[d] = NoToken \/ redeem'[d] = redeem[d]
      /\ revoker' = NoToken \/ revoker' = revoker
  BY Zenon DEF Evict, RedeemCaches, GateInv, GateTypes
<1>3. GateTypes' /\ TokensOK'
  <2>1. \A d \in Phones : Reading(d)' => Reading(d) /\ redeem'[d] = redeem[d]
    BY Zenon, <1>2 DEF Reading
  <2>2. time' \in 0 .. MaxTime /\ time <= time'
    BY <1>1
  <2>. QED  BY Zenon, <1>1, <1>2, <2>1, <2>2, GateIdle
<1>4. \A until : GoodUntil(until) => GoodUntil(until)'
  BY Zenon, <1>1, HashStays
<1>5. PICK u : u = time + CacheTTL
  BY Zenon
<1>6. GoodUntil(time + CacheTTL) => GoodUntil(time + CacheTTL)'
  BY Zenon, <1>1, <1>4, <1>5
<1>7. \/ cache' = cache \/ cache' = NoToken
      \/ /\ cache' = [meta |-> [revoked |-> FALSE, expires |-> Never, exhausted |-> FALSE], until |-> u]
         /\ GoodUntil(u)
  BY Zenon, <1>5 DEF Evict, RedeemCaches, GateInv, AnswersOK, Cached
<1>8. cache' # NoToken => /\ cache'.until \in Nat /\ time' < cache'.until /\ cache'.until <= time' + CacheTTL
                          /\ ~cache'.meta.revoked => GoodUntil(cache.until)'
  <2>. SUFFICES ASSUME cache' # NoToken PROVE <1>8!2
    BY Zenon
  <2>1. PICK v : v = cache'.until
    BY Zenon
  <2>2. /\ v \in Nat /\ time < v /\ v <= time + CacheTTL
        /\ ~cache'.meta.revoked => GoodUntil(v)
    BY <1>1, <1>5, <1>7, <2>1, GateAssumption DEF GateInv, AnswersOK
  <2>3. ~cache'.meta.revoked => GoodUntil(v)'
    BY Zenon, <1>4, <2>2
  <2>. QED  BY Zenon, <1>1, <2>1, <2>2, <2>3 DEF GoodUntil
<1>9. \A d \in Phones : Cached(d)' /\ watch' = <<d, redeem'[d].serial>> => GoodUntil(time + CacheTTL)'
  BY Zenon, <1>1, <1>2, <1>6 DEF GateInv, AnswersOK, Cached
<1>10. check' # NoToken /\ ~check'.revoked => GoodUntil(time + CacheTTL)'
  BY Zenon, <1>1, <1>6 DEF GateInv, AnswersOK
<1>11. AnswersOK'
  BY Zenon, <1>1, <1>8, <1>9, <1>10 DEF AnswersOK, RevokeTakesHold
<1>. QED  BY Zenon, <1>3, <1>11 DEF GateInv, TokensOK

\* A check that finds an entry, and one that reads the row.
LEMMA GateChecks ==
  ASSUME GateInv, CheckHits \/ CheckReads
  PROVE  GateInv'
<1>1. UNCHANGED <<pass, phone, watch, reap, time, cache, redeem, revoker>> /\ time \in 0 .. MaxTime /\ time \in Nat
  BY DEF CheckHits, CheckReads, GateInv, GateTypes
<1>2. GateTypes' /\ TokensOK'
  <2>1. \A d \in Phones : Reading(d)' => Reading(d) /\ redeem'[d] = redeem[d]
    BY Zenon, <1>1 DEF Reading
  <2>2. time' \in 0 .. MaxTime /\ time <= time' /\ redeem' \in [Phones -> {NoToken} \cup Exchanges]
    BY <1>1 DEF GateInv, GateTypes
  <2>. QED  BY Zenon, <1>1, <2>1, <2>2, GateIdle
<1>3. \A until : GoodUntil(until) => GoodUntil(until)'
  BY Zenon, <1>1, HashStays
<1>4. PICK u : u = time + CacheTTL
  BY Zenon
<1>5. GoodUntil(time + CacheTTL) => GoodUntil(time + CacheTTL)'
  BY Zenon, <1>1, <1>3, <1>4
<1>6. cache' # NoToken => /\ cache'.until \in Nat /\ time' < cache'.until /\ cache'.until <= time' + CacheTTL
                          /\ ~cache'.meta.revoked => GoodUntil(cache.until)'
  <2>1. PICK v : v = cache.until
    BY Zenon
  <2>2. GoodUntil(v) => GoodUntil(cache.until)'
    BY Zenon, <1>1, <1>3, <2>1
  <2>. QED  BY Zenon, <1>1, <2>1, <2>2 DEF GateInv, AnswersOK
<1>7. \A d \in Phones : Cached(d)' /\ watch' = <<d, redeem'[d].serial>> => GoodUntil(time + CacheTTL)'
  BY Zenon, <1>1, <1>5 DEF GateInv, AnswersOK, Cached
<1>8. check' # NoToken /\ ~check'.revoked => GoodUntil(time + CacheTTL)'
  <2>1. CASE CheckHits
    BY Zenon, <2>1 DEF CheckHits
  <2>2. CASE CheckReads
    BY Zenon, <1>1, <2>2 DEF CheckReads, MetaFromRow, GoodUntil, RowOfHash, Revoked, Never
  <2>. QED  BY Zenon, <2>1, <2>2
<1>9. granted' = watch \/ granted' = NoToken
  BY Zenon DEF CheckHits, CheckReads
<1>10. RevokeTakesHold'
  <2>1. CASE granted' = NoToken
    BY Zenon, <2>1 DEF RevokeTakesHold
  <2>2. CASE granted' # NoToken
    <3>1. cache # NoToken /\ ~cache.meta.revoked /\ granted' = watch
      BY Zenon, <2>2 DEF CheckHits, CheckReads, Active
    <3>2. PICK r : r = RowOfHash(watch)
      BY Zenon
    <3>3. r # NoToken /\ Revoked(r) => cache.until <= r.revokedAt + CacheTTL \/ Reissued(r)
      BY Zenon, <3>1, <3>2 DEF GateInv, AnswersOK, GoodUntil
    <3>4. cache.until \in Nat /\ time < cache.until /\ (r # NoToken => r.revokedAt \in Nat)
      BY Zenon, <3>1, <3>2, HashTyped DEF GateInv, AnswersOK
    <3>5. r # NoToken /\ Revoked(r) => time < r.revokedAt + CacheTTL \/ Reissued(r)
      BY <1>1, <3>3, <3>4, GateAssumption
    <3>6. r = RowOfHash(granted)'
      BY Zenon, <1>1, <3>1, <3>2 DEF RowOfHash
    <3>. QED  BY Zenon, <1>1, <3>5, <3>6 DEF RevokeTakesHold, Reissued, Revoked, Never
  <2>. QED  BY Zenon, <2>1, <2>2
<1>11. AnswersOK'
  BY Zenon, <1>1, <1>6, <1>7, <1>8, <1>9, <1>10 DEF AnswersOK
<1>. QED  BY Zenon, <1>2, <1>11 DEF GateInv, TokensOK

\* A row that is stamped as seen is otherwise the row it was.
SameBut(r, s) ==
  /\ s # NoToken <=> r # NoToken
  /\ s # NoToken => /\ s.kind = r.kind /\ s.uses = r.uses /\ s.expires = r.expires /\ s.revokedAt = r.revokedAt
                    /\ Reissued(s) <=> Reissued(r)

\* A check that has read the row fills the cache, stamps the row and answers.
LEMMA GateAnswers ==
  ASSUME GateInv, CheckAnswers
  PROVE  GateInv'
<1>1. /\ UNCHANGED <<watch, reap, time, redeem, revoker>> /\ time \in 0 .. MaxTime /\ time \in Nat
      /\ check # NoToken /\ check' = NoToken /\ redeem \in [Phones -> {NoToken} \cup Exchanges]
  BY DEF CheckAnswers, GateInv, GateTypes
<1>2. /\ pass' \in [Passes -> {NoToken} \cup PassRows]
      /\ \A p \in Passes : SameBut(pass[p], pass'[p])
  <2>1. CASE pass' = pass
    BY Zenon, <2>1 DEF GateInv, GateTypes, SameBut
  <2>2. CASE watch[1] \in Passes /\ pass[watch[1]] # NoToken /\ pass' = [pass EXCEPT ![watch[1]].seen = time]
    <3>1. PICK x \in Passes : x = watch[1]
      BY Zenon, <2>2
    <3>2. PICK r \in PassRows : r = pass[x]
      BY Zenon, <2>2, <3>1 DEF GateInv, GateTypes
    <3>3. PICK t : t = [r EXCEPT !.seen = time]
      BY Zenon
    <3>4. t \in PassRows /\ t.kind = r.kind /\ t.uses = r.uses /\ t.expires = r.expires /\ t.revokedAt = r.revokedAt
          /\ r.kind # "device"
      BY Zenon, <1>1, <3>3 DEF PassRows
    <3>5. r # NoToken /\ t # NoToken
      BY Zenon, <3>4, GateAssumption DEF PassRows
    <3>6. SameBut(r, t)
      BY Zenon, <3>4, <3>5 DEF SameBut, Reissued
    <3>7. pass' = [pass EXCEPT ![x] = t]
      BY Zenon, <2>2, <3>1, <3>2, <3>3
    <3>8. \A p \in Passes : SameBut(pass[p], pass[p])
      BY Zenon DEF SameBut
    <3>. QED  BY Zenon, <3>2, <3>4, <3>6, <3>7, <3>8 DEF GateInv, GateTypes
  <2>. QED  BY Zenon, <2>1, <2>2 DEF CheckAnswers, RowOfHash
<1>3. /\ phone' \in [Phones -> {NoToken} \cup PhoneRows]
      /\ \A d \in Phones : /\ SameBut(phone[d], phone'[d])
                           /\ phone'[d] # NoToken => phone'[d].serial = phone[d].serial /\ phone'[d].parent = phone[d].parent
  <2>1. CASE phone' = phone
    BY Zenon, <2>1 DEF GateInv, GateTypes, SameBut
  <2>2. CASE watch[1] \in Phones /\ phone[watch[1]] # NoToken /\ phone' = [phone EXCEPT ![watch[1]].seen = time]
    <3>1. PICK x \in Phones : x = watch[1]
      BY Zenon, <2>2
    <3>2. PICK r \in PhoneRows : r = phone[x]
      BY Zenon, <2>2, <3>1 DEF GateInv, GateTypes
    <3>3. PICK t : t = [r EXCEPT !.seen = time]
      BY Zenon
    <3>4. t \in PhoneRows /\ t.kind = r.kind /\ t.uses = r.uses /\ t.expires = r.expires /\ t.revokedAt = r.revokedAt
          /\ t.serial = r.serial /\ t.created = r.created /\ t.parent = r.parent
      BY Zenon, <1>1, <3>3 DEF PhoneRows
    <3>5. r # NoToken /\ t # NoToken
      BY Zenon, <3>4, GateAssumption DEF PhoneRows
    <3>6. SameBut(r, t)
      BY Zenon, <3>4, <3>5 DEF SameBut, Reissued
    <3>7. phone' = [phone EXCEPT ![x] = t]
      BY Zenon, <2>2, <3>1, <3>2, <3>3
    <3>8. \A d \in Phones : SameBut(phone[d], phone[d])
      BY Zenon DEF SameBut
    <3>. QED  BY Zenon, <3>2, <3>4, <3>6, <3>7, <3>8 DEF GateInv, GateTypes
  <2>3. watch[1] \in Phones \/ watch[1] \in Passes
    BY Zenon DEF GateInv, GateTypes, Hashes
  <2>. QED  BY Zenon, <2>1, <2>2, <2>3 DEF CheckAnswers, RowOfHash
<1>4. GateTypes'
  <2>1. \A p \in Passes : pass'[p] # NoToken => pass[p] # NoToken /\ pass'[p].revokedAt = pass[p].revokedAt
    BY Zenon, <1>2 DEF SameBut
  <2>2. \A d \in Phones : phone'[d] # NoToken => phone[d] # NoToken /\ phone'[d].revokedAt = phone[d].revokedAt
    BY Zenon, <1>3 DEF SameBut
  <2>. QED  BY Zenon, <1>1, <1>2, <1>3, <2>1, <2>2, GateTypesRows DEF GateInv
<1>5. TokensOK'
  <2>1. \A d \in Phones : Reading(d)' => redeem'[d].invite \in Passes /\ Reading(d) /\ redeem'[d].invite = redeem[d].invite
    BY Zenon, <1>1 DEF Reading, Exchanges
  <2>2. \A p \in Passes : /\ pass'[p] # NoToken <=> pass[p] # NoToken
                          /\ pass'[p] # NoToken => /\ pass'[p].kind = pass[p].kind /\ pass'[p].uses = pass[p].uses
                                                   /\ pass'[p].expires = pass[p].expires /\ pass'[p].revokedAt = pass[p].revokedAt
    BY Zenon, <1>2 DEF SameBut
  <2>3. \A d \in Phones : /\ phone'[d] # NoToken <=> phone[d] # NoToken
                          /\ phone'[d] # NoToken => phone'[d].parent = phone[d].parent /\ (Revoked(phone[d]) => Revoked(phone'[d]))
    BY Zenon, <1>3 DEF SameBut, Revoked
  <2>. QED  BY <1>1, <2>1, <2>2, <2>3, TokensKept
<1>6. Moved(RowOfHash(watch), RowOfHash(watch)')
  <2>1. \A p \in Passes : Moved(pass[p], pass'[p])
    BY Zenon, <1>2 DEF SameBut, Moved
  <2>2. \A d \in Phones : phone'[d] # NoToken => phone[d] # NoToken /\ phone'[d].serial = phone[d].serial /\ Moved(phone[d], phone'[d])
    BY Zenon, <1>3 DEF SameBut, Moved
  <2>. QED  BY Zenon, <1>1, <2>1, <2>2, HashMoves DEF GateInv
<1>7. RowOfHash(watch)' # NoToken => RowOfHash(watch)'.revokedAt \in Nat
  BY Zenon, <1>4 DEF GateTypes, RowOfHash, Hashes, PassRows, PhoneRows
<1>8. \A until \in Nat : until <= time + CacheTTL /\ GoodUntil(until) => GoodUntil(until)'
  BY Zenon, <1>1, <1>6, <1>7, GoodStays DEF GateInv
<1>9. PICK u \in Nat : u = time + CacheTTL /\ u <= time + CacheTTL /\ time < u
  BY <1>1, GateAssumption
<1>10. (cache' = cache \/ cache' = [meta |-> check, until |-> u]) /\ (~check.revoked => GoodUntil(u))
  BY Zenon, <1>1, <1>9 DEF CheckAnswers, GateInv, AnswersOK
<1>11. cache' # NoToken => /\ cache'.until \in Nat /\ time' < cache'.until /\ cache'.until <= time' + CacheTTL
                           /\ ~cache'.meta.revoked => GoodUntil(cache.until)'
  <2>. SUFFICES ASSUME cache' # NoToken PROVE <1>11!2
    BY Zenon
  <2>1. PICK v : v = cache'.until
    BY Zenon
  <2>2. /\ v \in Nat /\ time < v /\ v <= time + CacheTTL
        /\ ~cache'.meta.revoked => GoodUntil(v)
    BY <1>9, <1>10, <2>1 DEF GateInv, AnswersOK
  <2>3. ~cache'.meta.revoked => GoodUntil(v)'
    BY Zenon, <1>8, <2>2
  <2>. QED  BY Zenon, <1>1, <2>1, <2>2, <2>3 DEF GoodUntil
<1>12. \A d \in Phones : Cached(d)' /\ watch' = <<d, redeem'[d].serial>> => GoodUntil(time + CacheTTL)'
  <2>1. GoodUntil(time + CacheTTL) => GoodUntil(time + CacheTTL)'
    BY Zenon, <1>1, <1>8, <1>9
  <2>. QED  BY Zenon, <1>1, <2>1 DEF GateInv, AnswersOK, Cached
<1>13. granted' = watch \/ granted' = NoToken
  BY Zenon DEF CheckAnswers
<1>14. RevokeTakesHold'
  <2>1. CASE granted' = NoToken
    BY Zenon, <2>1 DEF RevokeTakesHold
  <2>2. CASE granted' # NoToken
    <3>1. ~check.revoked /\ granted' = watch
      BY Zenon, <2>2 DEF CheckAnswers, Active
    <3>2. GoodUntil(u)'
      BY Zenon, <1>8, <1>9, <1>10, <3>1
    <3>3. PICK s : s = RowOfHash(watch)'
      BY Zenon
    <3>4. s # NoToken /\ Revoked(s) => u <= s.revokedAt + CacheTTL \/ Reissued(s)
      BY Zenon, <3>2, <3>3 DEF GoodUntil, Revoked, Reissued, Never
    <3>5. s # NoToken /\ Revoked(s) => time < s.revokedAt + CacheTTL \/ Reissued(s)
      BY <1>1, <1>7, <1>9, <3>3, <3>4, GateAssumption
    <3>6. s = RowOfHash(granted)'
      BY Zenon, <1>1, <3>1, <3>3
    <3>. QED  BY Zenon, <1>1, <3>5, <3>6 DEF RevokeTakesHold, Reissued, Revoked, Never
  <2>. QED  BY Zenon, <2>1, <2>2
<1>15. AnswersOK'
  BY Zenon, <1>1, <1>11, <1>12, <1>13, <1>14 DEF AnswersOK
<1>. QED  BY Zenon, <1>4, <1>5, <1>15 DEF GateInv, TokensOK

\* A row of a revoked device that is re-issued carries a later date than the
\* revocation; a device's own revocation carries the present one.
LEMMA GatePhone ==
  ASSUME GateInv, NEW d \in Phones, ReissueDevice(d) \/ RevokePhone(d)
  PROVE  GateInv'
<1>1. /\ UNCHANGED <<pass, watch, cache, check, reap, time>> /\ granted' = NoToken /\ phone[d] # NoToken
      /\ time \in 0 .. MaxTime /\ time \in Nat /\ Never \in Nat /\ time # Never
  BY GateAssumption DEF ReissueDevice, RevokePhone, GateInv, GateTypes, Never
<1>2. PICK r \in PhoneRows : r = phone[d] /\ Stamped(r)
  BY Zenon, <1>1 DEF GateInv, GateTypes
<1>3. PICK n, at : /\ phone' = [phone EXCEPT ![d] = n] /\ at = IF Revoked(r) THEN r.revokedAt ELSE time
                   /\ ReissueDevice(d) => n = [r EXCEPT !.serial = r.serial + 1, !.created = time]
                   /\ ~ReissueDevice(d) => n = [r EXCEPT !.revokedAt = at]
  <2>1. CASE ReissueDevice(d)
    BY Zenon, <1>2, <2>1 DEF ReissueDevice, GateInv, GateTypes
  <2>2. CASE ~ReissueDevice(d) /\ RevokePhone(d)
    BY Zenon, <1>2, <2>2 DEF RevokePhone, GateInv, GateTypes
  <2>. QED  BY Zenon, <2>1, <2>2
<1>4. at \in Nat /\ (at = time \/ at = r.revokedAt) /\ at # Never /\ (Revoked(r) => at = r.revokedAt)
  BY Zenon, <1>1, <1>2, <1>3 DEF PhoneRows, Revoked
<1>5. ReissueDevice(d) => /\ n \in PhoneRows /\ n.parent = r.parent /\ n.revokedAt = r.revokedAt
                          /\ n.kind = "device" /\ n.serial = r.serial + 1 /\ n.serial > 1 /\ n.created = time
  <2>. SUFFICES ASSUME n = [r EXCEPT !.serial = r.serial + 1, !.created = time] PROVE <1>5!2
    BY Zenon, <1>3
  <2>1. time \in Nat /\ r.serial \in Nat \ {0} /\ r.serial + 1 \in Nat \ {0} /\ r.serial + 1 > 1
    BY <1>1 DEF PhoneRows
  <2>. QED  BY Zenon, <2>1 DEF PhoneRows
<1>6. ~ReissueDevice(d) => /\ n \in PhoneRows /\ n.parent = r.parent /\ n.revokedAt = at
                           /\ n.kind = r.kind /\ n.serial = r.serial /\ n.created = r.created
  BY Zenon, <1>1, <1>2, <1>3, <1>4 DEF PhoneRows
<1>7. n \in PhoneRows /\ n.parent = r.parent /\ (Revoked(r) => Revoked(n)) /\ n.revokedAt \in {r.revokedAt, time}
  BY Zenon, <1>4, <1>5, <1>6 DEF Revoked
<1>8. n # NoToken /\ r # NoToken
  BY Zenon, <1>7, GateAssumption DEF PhoneRows
<1>9. \A e \in Phones : phone'[e] = IF e = d THEN n ELSE phone[e]
  BY Zenon, <1>3 DEF GateInv, GateTypes
<1>10. ReissueDevice(d) => ~Revoked(n) \/ Reissued(n)
  BY Zenon, <1>1, <1>2, <1>5 DEF Revoked, Reissued, Stamped, PhoneRows
<1>11. ~ReissueDevice(d) => n.revokedAt = time \/ (n.serial = r.serial /\ Moved(r, n))
  BY Zenon, <1>4, <1>6, <1>8 DEF Moved, Reissued
<1>12. /\ redeem' \in [Phones -> {NoToken} \cup Exchanges]
       /\ \A e \in Phones : redeem'[e] = redeem[e] \/ (e = d /\ ReissueDevice(d) /\ redeem'[e] = [stage |-> "committed", serial |-> r.serial + 1])
       /\ revoker' = revoker \/ revoker'.stage = "evict"
  <2>1. CASE ReissueDevice(d)
    BY <1>2, <2>1 DEF ReissueDevice, Committed, GateInv, GateTypes, Exchanges, PhoneRows
  <2>2. CASE RevokePhone(d)
    BY Zenon, <2>2 DEF RevokePhone, GateInv, GateTypes
  <2>. QED  BY Zenon, <2>1, <2>2
<1>13. GateTypes'
  <2>1. phone' \in [Phones -> {NoToken} \cup PhoneRows]
    BY Zenon, <1>3, <1>7 DEF GateInv, GateTypes
  <2>2. \A e \in Phones : phone'[e] # NoToken => phone'[e].revokedAt \in {Never, time} \/ (phone[e] # NoToken /\ phone'[e].revokedAt = phone[e].revokedAt)
    BY Zenon, <1>2, <1>7, <1>8, <1>9
  <2>3. pass' \in [Passes -> {NoToken} \cup PassRows]
    BY Zenon, <1>1 DEF GateInv, GateTypes
  <2>. QED  BY Zenon, <1>1, <1>12, <2>1, <2>2, <2>3, GateTypesRows DEF GateInv
<1>14. TokensOK'
  <2>1. \A e \in Phones : Reading(e)' => redeem'[e].invite \in Passes /\ Reading(e) /\ redeem'[e].invite = redeem[e].invite
    BY <1>12 DEF Reading, Exchanges
  <2>2. \A e \in Phones : /\ phone'[e] # NoToken <=> phone[e] # NoToken
                          /\ phone'[e] # NoToken => phone'[e].parent = phone[e].parent /\ (Revoked(phone[e]) => Revoked(phone'[e]))
    BY Zenon, <1>2, <1>7, <1>8, <1>9
  <2>. QED  BY <1>1, <2>1, <2>2, TokensKept
<1>15. Moved(RowOfHash(watch), RowOfHash(watch)')
  <2>1. \A p \in Passes : Moved(pass[p], pass'[p])
    BY Zenon, <1>1 DEF Moved
  <2>2. \A e \in Phones : Moved(phone[e], phone[e])
    BY Zenon DEF Moved
  <2>3. \A e \in Phones : phone'[e] # NoToken =>
           \/ ~Revoked(phone'[e]) \/ phone'[e].revokedAt = time \/ Reissued(phone'[e])
           \/ phone[e] # NoToken /\ phone'[e].serial = phone[e].serial /\ Moved(phone[e], phone'[e])
    BY Zenon, <1>2, <1>8, <1>9, <1>10, <1>11, <2>2
  <2>. QED  BY Zenon, <1>1, <2>1, <2>3, HashMoves DEF GateInv
<1>16. ReissueDevice(d) /\ watch = <<d, r.serial + 1>> => GoodUntil(time + CacheTTL)'
  <2>. SUFFICES ASSUME ReissueDevice(d), watch = <<d, r.serial + 1>> PROVE GoodUntil(time + CacheTTL)'
    BY Zenon
  <2>1. n.kind = "device" /\ n.serial = r.serial + 1 /\ n.serial > 1 /\ n.created = time
    BY Zenon, <1>5
  <2>2. PICK s : s = RowOfHash(watch)'
    BY Zenon
  <2>3. s = n
    BY Zenon, <1>1, <1>8, <1>9, <2>1, <2>2, GateAssumption DEF RowOfHash
  <2>4. s # NoToken /\ Revoked(s) => Reissued(s)
    BY Zenon, <1>10, <2>3
  <2>. QED  BY Zenon, <2>2, <2>4 DEF GoodUntil, Revoked, Reissued, Never
<1>17. AnswersOK'
  <2>1. \A e \in Phones : Cached(e)' /\ watch = <<e, redeem'[e].serial>> => (Cached(e) /\ redeem'[e] = redeem[e]) \/ GoodUntil(time + CacheTTL)'
    BY <1>12, <1>16 DEF Cached
  <2>. QED  BY Zenon, <1>1, <1>13, <1>15, <2>1, AnswersRows
<1>. QED  BY Zenon, <1>13, <1>14, <1>17 DEF GateInv, TokensOK

\* A fresh row: the invite was not consumed before, so no other device is behind it.
LEMMA GateInsert ==
  ASSUME GateInv, NEW d \in Phones, InsertDevice(d)
  PROVE  GateInv'
<1>1. /\ UNCHANGED <<watch, cache, check, reap, time, revoker>> /\ granted' = NoToken /\ phone[d] = NoToken /\ Reading(d)
      /\ time \in 0 .. MaxTime /\ time \in Nat /\ Never \in Nat
  BY GateAssumption DEF InsertDevice, GateInv, GateTypes, Never, Reading
<1>2. PICK i \in Passes : i = redeem[d].invite
  BY Zenon, <1>1 DEF GateInv, GateTypes, Exchanges, Reading
<1>3. CASE ~Consumable(i)
  <2>1. UNCHANGED <<pass, phone>> /\ redeem' = [redeem EXCEPT ![d] = NoToken]
    BY Zenon, <1>2, <1>3 DEF InsertDevice
  <2>2. redeem' \in [Phones -> {NoToken} \cup Exchanges] /\ \A e \in Phones : redeem'[e] = redeem[e] \/ redeem'[e] = NoToken
    BY Zenon, <2>1 DEF GateInv, GateTypes
  <2>3. GateTypes' /\ TokensOK'
    <3>1. \A e \in Phones : Reading(e)' => Reading(e) /\ redeem'[e] = redeem[e]
      BY Zenon, <2>2 DEF Reading
    <3>2. time' \in 0 .. MaxTime /\ time <= time'
      BY <1>1
    <3>. QED  BY Zenon, <1>1, <2>1, <2>2, <3>1, <3>2, GateIdle
  <2>4. Moved(RowOfHash(watch), RowOfHash(watch)')
    BY Zenon, <1>1, <2>1, HashStays
  <2>5. AnswersOK'
    <3>1. \A e \in Phones : Cached(e)' => Cached(e) /\ redeem'[e] = redeem[e]
      BY Zenon, <2>2 DEF Cached
    <3>. QED  BY Zenon, <1>1, <2>3, <2>4, <3>1, AnswersRows
  <2>. QED  BY Zenon, <2>3, <2>5 DEF GateInv, TokensOK
<1>4. CASE Consumable(i)
  <2>1. PICK r \in PassRows : r = pass[i] /\ r # NoToken /\ r.kind = "invite" /\ ~Revoked(r) /\ ~Exhausted(r)
    BY Zenon, <1>1, <1>2, <1>4 DEF Consumable, GateInv, GateTypes, ExchangeOK
  <2>2. PICK n, m : /\ n = [r EXCEPT !.uses = r.uses + 1]
                    /\ m = [kind |-> "device", serial |-> 1, uses |-> 0, parent |-> i,
                            expires |-> Never, revokedAt |-> Never, created |-> time, seen |-> time]
    BY Zenon
  <2>3. /\ pass' = [pass EXCEPT ![i] = n] /\ phone' = [phone EXCEPT ![d] = m]
        /\ redeem' = [redeem EXCEPT ![d] = [stage |-> "committed", serial |-> 1]]
    BY Zenon, <1>2, <1>4, <2>1, <2>2 DEF InsertDevice, Committed
  <2>4. /\ n \in PassRows /\ n.kind = "invite" /\ n.uses >= 1 /\ n.revokedAt = r.revokedAt
        /\ m \in PhoneRows /\ m.parent = i /\ m.revokedAt = Never /\ m.serial = 1
    BY <1>1, <2>1, <2>2 DEF PassRows, PhoneRows
  <2>5. n # NoToken /\ m # NoToken /\ Exhausted(n) /\ ~Revoked(n) /\ ~Revoked(m)
    BY Zenon, <2>1, <2>4, GateAssumption DEF PassRows, PhoneRows, Exhausted, Revoked
  <2>6. /\ \A p \in Passes : pass'[p] = IF p = i THEN n ELSE pass[p]
        /\ \A e \in Phones : phone'[e] = IF e = d THEN m ELSE phone[e]
        /\ \A e \in Phones : redeem'[e] = IF e = d THEN [stage |-> "committed", serial |-> 1] ELSE redeem[e]
    BY Zenon, <2>3 DEF GateInv, GateTypes
  <2>7. GateTypes'
    <3>1. pass' \in [Passes -> {NoToken} \cup PassRows] /\ phone' \in [Phones -> {NoToken} \cup PhoneRows]
      BY Zenon, <2>3, <2>4 DEF GateInv, GateTypes
    <3>2. redeem' \in [Phones -> {NoToken} \cup Exchanges]
      BY Zenon, <2>3 DEF GateInv, GateTypes, Exchanges
    <3>3. \A p \in Passes : pass'[p] # NoToken => pass[p] # NoToken /\ pass'[p].revokedAt = pass[p].revokedAt
      BY Zenon, <2>1, <2>4, <2>6
    <3>4. \A e \in Phones : phone'[e] # NoToken => phone'[e].revokedAt = Never \/ (phone[e] # NoToken /\ phone'[e].revokedAt = phone[e].revokedAt)
      BY Zenon, <2>4, <2>6
    <3>. QED  BY Zenon, <1>1, <3>1, <3>2, <3>3, <3>4, GateTypesRows DEF GateInv
  <2>8. \A e \in Phones : phone[e] # NoToken => phone[e].parent # i /\ phone[e].parent \in Passes
    BY Zenon, <2>1 DEF GateInv, ChildOK, GateTypes, PhoneRows
  <2>9. i \notin reap
    BY Zenon, <1>4 DEF GateInv, ReapOK
  <2>10. ChildOK(d)'
    BY <1>1, <2>4, <2>5, <2>6, <2>8, <2>9 DEF ChildOK, Exhausted, Revoked, Never
  <2>11. \A e \in Phones : e # d => ChildOK(e)'
    <3>. SUFFICES ASSUME NEW e \in Phones, e # d, phone[e] # NoToken PROVE ChildOK(e)'
      BY Zenon, <2>6 DEF ChildOK
    <3>1. PICK p \in Passes : p = phone[e].parent /\ p # i
      BY Zenon, <2>8
    <3>2. phone'[e] = phone[e] /\ pass'[p] = pass[p]
      BY Zenon, <2>6, <3>1
    <3>3. ASSUME NEW x \in Phones, phone'[x] # NoToken, phone'[x].parent = p PROVE x = e
      <4>1. phone'[x] = phone[x]
        BY Zenon, <2>4, <2>6, <3>1, <3>3
      <4>. QED  BY Zenon, <3>1, <3>3, <4>1 DEF GateInv, ChildOK
    <3>4. ChildOK(e) /\ time' = time /\ reap' = reap
      BY Zenon, <1>1 DEF GateInv
    <3>. QED  BY Zenon, <3>1, <3>2, <3>3, <3>4 DEF ChildOK, Exhausted, Revoked
  <2>12. \A e \in Phones : ExchangeOK(e)'
    <3>. SUFFICES ASSUME NEW e \in Phones, Reading(e)' PROVE ExchangeOK(e)'
      BY Zenon DEF ExchangeOK
    <3>1. e # d /\ redeem'[e] = redeem[e] /\ Reading(e)
      BY <2>6 DEF Reading
    <3>2. PICK p \in Passes : p = redeem[e].invite
      BY Zenon, <3>1 DEF GateInv, GateTypes, Exchanges, Reading
    <3>3. (pass[p] # NoToken => pass[p].kind = "invite") /\ (pass[p] = NoToken => time > 0)
      BY Zenon, <3>1, <3>2 DEF GateInv, ExchangeOK
    <3>4. (pass'[p] # NoToken => pass'[p].kind = "invite") /\ (pass'[p] = NoToken => time > 0)
      BY Zenon, <2>4, <2>5, <2>6, <3>3
    <3>. QED  BY Zenon, <1>1, <3>1, <3>2, <3>4 DEF ExchangeOK
  <2>13. ReapOK'
    BY Zenon, <1>1, <2>6, <2>9 DEF GateInv, ReapOK, Consumable, Revoked, Exhausted, Never
  <2>14. Moved(RowOfHash(watch), RowOfHash(watch)')
    <3>1. \A p \in Passes : Moved(pass[p], pass'[p])
      BY Zenon, <2>5, <2>6 DEF Moved
    <3>2. \A e \in Phones : phone'[e] # NoToken => ~Revoked(phone'[e]) \/ (phone[e] # NoToken /\ phone'[e].serial = phone[e].serial /\ Moved(phone[e], phone'[e]))
      BY Zenon, <2>5, <2>6 DEF Moved
    <3>. QED  BY Zenon, <1>1, <3>1, <3>2, HashMoves DEF GateInv
  <2>15. watch = <<d, 1>> => GoodUntil(time + CacheTTL)'
    <3>. SUFFICES ASSUME watch = <<d, 1>> PROVE GoodUntil(time + CacheTTL)'
      BY Zenon
    <3>1. RowOfHash(watch)' = m
      BY Zenon, <1>1, <2>4, <2>5, <2>6, GateAssumption DEF RowOfHash
    <3>. QED  BY Zenon, <2>5, <3>1 DEF GoodUntil, Revoked, Never
  <2>16. AnswersOK'
    <3>1. \A e \in Phones : Cached(e)' /\ watch = <<e, redeem'[e].serial>> => (Cached(e) /\ redeem'[e] = redeem[e]) \/ GoodUntil(time + CacheTTL)'
      BY <2>6, <2>15 DEF Cached
    <3>. QED  BY Zenon, <1>1, <2>7, <2>14, <3>1, AnswersRows
  <2>. QED  BY Zenon, <2>7, <2>10, <2>11, <2>12, <2>13, <2>16 DEF GateInv
<1>. QED  BY Zenon, <1>3, <1>4

\* A new token has no device, no exchange and no place in a sweep.
LEMMA GateCreate ==
  ASSUME GateInv, NEW p \in Passes, CreateToken(p)
  PROVE  GateInv'
<1>1. /\ UNCHANGED <<phone, watch, cache, redeem, revoker, check, reap, time>> /\ granted' = NoToken
      /\ pass[p] = NoToken /\ time = 0 /\ Never \in Nat /\ reap = {}
  <2>1. time = 0 /\ ~(time > 0) /\ Never \in Nat
    BY GateAssumption DEF CreateToken, Never
  <2>2. reap = {}
    BY Zenon, <2>1 DEF GateInv, ReapOK
  <2>. QED  BY Zenon, <2>1, <2>2 DEF CreateToken
<1>2. PICK n \in PassRows : pass' = [pass EXCEPT ![p] = n] /\ n.uses = 0 /\ n.revokedAt = Never
  <2>1. PICK kind \in {"invite", "standing"}, expires \in {1, Never} :
          pass' = [pass EXCEPT ![p] = [kind |-> kind, uses |-> 0, expires |-> expires,
                                       revokedAt |-> Never, created |-> time, seen |-> time]]
    BY Zenon DEF CreateToken
  <2>2. PICK r : r = [kind |-> kind, uses |-> 0, expires |-> expires, revokedAt |-> Never, created |-> time, seen |-> time]
    BY Zenon
  <2>3. r \in PassRows /\ r.uses = 0 /\ r.revokedAt = Never
    BY <1>1, <2>2 DEF PassRows
  <2>4. pass' = [pass EXCEPT ![p] = r]
    BY Zenon, <2>1, <2>2
  <2>. QED  BY Zenon, <2>3, <2>4
<1>3. n # NoToken /\ ~Revoked(n)
  BY Zenon, <1>2, GateAssumption DEF PassRows, Revoked
<1>4. \A q \in Passes : pass'[q] = IF q = p THEN n ELSE pass[q]
  BY Zenon, <1>2 DEF GateInv, GateTypes
<1>5. GateTypes'
  <2>1. pass' \in [Passes -> {NoToken} \cup PassRows] /\ phone' \in [Phones -> {NoToken} \cup PhoneRows]
        /\ redeem' \in [Phones -> {NoToken} \cup Exchanges]
    BY Zenon, <1>1, <1>2 DEF GateInv, GateTypes
  <2>2. \A q \in Passes : pass'[q] # NoToken => pass'[q].revokedAt \in {Never, time} \/ (pass[q] # NoToken /\ pass'[q].revokedAt = pass[q].revokedAt)
    BY Zenon, <1>2, <1>4
  <2>. QED  BY Zenon, <1>1, <2>1, <2>2, GateTypesRows DEF GateInv
<1>6. \A d \in Phones : ChildOK(d)'
  <2>. SUFFICES ASSUME NEW d \in Phones, phone[d] # NoToken PROVE ChildOK(d)'
    BY Zenon, <1>1 DEF ChildOK
  <2>1. PICK i \in Passes : i = phone[d].parent
    BY Zenon DEF GateInv, GateTypes, PhoneRows
  <2>2. i # p /\ pass'[i] = pass[i]
    BY <1>1, <1>4, <2>1 DEF GateInv, ChildOK
  <2>. QED  BY Zenon, <1>1, <2>1, <2>2 DEF GateInv, ChildOK, Exhausted, Revoked, Never
<1>7. \A d \in Phones : ExchangeOK(d)'
  <2>. SUFFICES ASSUME NEW d \in Phones, Reading(d) PROVE ExchangeOK(d)'
    BY Zenon, <1>1 DEF ExchangeOK, Reading
  <2>1. PICK i \in Passes : i = redeem[d].invite
    BY Zenon DEF GateInv, GateTypes, Exchanges, Reading
  <2>2. i # p /\ pass'[i] = pass[i]
    BY <1>1, <1>4, <2>1 DEF GateInv, ExchangeOK
  <2>. QED  BY Zenon, <1>1, <2>1, <2>2 DEF GateInv, ExchangeOK
<1>8. ReapOK'
  BY Zenon, <1>1 DEF ReapOK
<1>9. Moved(RowOfHash(watch), RowOfHash(watch)')
  <2>1. \A q \in Passes : Moved(pass[q], pass'[q])
    BY Zenon, <1>3, <1>4 DEF Moved
  <2>2. \A d \in Phones : phone'[d] # NoToken => phone[d] # NoToken /\ phone'[d].serial = phone[d].serial /\ Moved(phone[d], phone'[d])
    BY Zenon, <1>1 DEF Moved
  <2>. QED  BY Zenon, <1>1, <2>1, <2>2, HashMoves DEF GateInv
<1>10. AnswersOK'
  <2>1. \A d \in Phones : Cached(d)' => Cached(d) /\ redeem'[d] = redeem[d]
    BY Zenon, <1>1 DEF Cached
  <2>. QED  BY Zenon, <1>1, <1>5, <1>9, <2>1, AnswersRows
<1>. QED  BY Zenon, <1>5, <1>6, <1>7, <1>8, <1>10 DEF GateInv

\* A revocation stamps the token and, of an invite, its device.
LEMMA GateRevoke ==
  ASSUME GateInv, RevokeCommits
  PROVE  GateInv'
<1>1. /\ UNCHANGED <<watch, cache, redeem, check, reap, time>> /\ granted' = NoToken
      /\ time \in 0 .. MaxTime /\ time \in Nat /\ Never \in Nat /\ time # Never
  BY GateAssumption DEF RevokeCommits, GateInv, GateTypes, Never
<1>2. PICK i \in Passes : i = revoker.of
  BY Zenon DEF RevokeCommits, GateInv, GateTypes
<1>. DEFINE At(r) == [r EXCEPT !.revokedAt = IF Revoked(r) THEN @ ELSE time]
            Child(d) == phone[d] # NoToken /\ phone[d].parent = i
<1>3. \A d \in Phones : Child(d) => (pass[i] # NoToken => pass[i].kind = "invite")
  BY Zenon DEF GateInv, ChildOK, Exhausted
<1>4. /\ pass' = [pass EXCEPT ![i] = IF pass[i] = NoToken THEN NoToken ELSE At(pass[i])]
      /\ phone' = [d \in Phones |-> IF pass[i] # NoToken /\ pass[i].kind = "invite" /\ Child(d) THEN At(phone[d]) ELSE phone[d]]
  BY Zenon, <1>2 DEF RevokeCommits, Children
<1>5. /\ \A q \in Passes : pass'[q] = IF q = i /\ pass[i] # NoToken THEN At(pass[q]) ELSE pass[q]
      /\ \A d \in Phones : phone'[d] = IF Child(d) /\ pass[i] # NoToken THEN At(phone[d]) ELSE phone[d]
  BY Zenon, <1>3, <1>4 DEF GateInv, GateTypes
<1>6. \A r \in PassRows : /\ At(r) \in PassRows /\ Revoked(At(r)) /\ At(r).kind = r.kind /\ At(r).uses = r.uses /\ At(r).expires = r.expires
                          /\ (At(r).revokedAt = time \/ At(r).revokedAt = r.revokedAt)
  BY Zenon, <1>1 DEF PassRows, Revoked
<1>7. \A r \in PhoneRows : /\ At(r) \in PhoneRows /\ Revoked(At(r)) /\ At(r).kind = r.kind /\ At(r).serial = r.serial
                           /\ At(r).created = r.created /\ At(r).parent = r.parent
                           /\ (At(r).revokedAt = time \/ At(r).revokedAt = r.revokedAt)
  BY Zenon, <1>1 DEF PhoneRows, Revoked
<1>8. NoToken \notin PassRows /\ NoToken \notin PhoneRows
  BY Zenon, GateAssumption DEF PassRows, PhoneRows
<1>. HIDE DEF At
<1>9. \A q \in Passes : /\ pass'[q] \in {NoToken} \cup PassRows /\ (pass'[q] # NoToken <=> pass[q] # NoToken)
                        /\ pass'[q] # NoToken => /\ pass'[q].kind = pass[q].kind /\ pass'[q].uses = pass[q].uses /\ pass'[q].expires = pass[q].expires
                                                 /\ pass'[q].revokedAt = time \/ pass'[q].revokedAt = pass[q].revokedAt
                                                 /\ Revoked(pass[q]) => Revoked(pass'[q])
                        /\ pass'[q] # NoToken /\ Revoked(pass'[q]) => Revoked(pass[q]) \/ q = i
  BY <1>5, <1>6, <1>8 DEF GateInv, GateTypes
<1>10. \A d \in Phones : /\ phone'[d] \in {NoToken} \cup PhoneRows /\ (phone'[d] # NoToken <=> phone[d] # NoToken)
                         /\ phone'[d] # NoToken => /\ phone'[d].serial = phone[d].serial /\ phone'[d].kind = phone[d].kind
                                                   /\ phone'[d].created = phone[d].created /\ phone'[d].parent = phone[d].parent
                                                   /\ phone'[d].revokedAt = time \/ phone'[d].revokedAt = phone[d].revokedAt
                                                   /\ Revoked(phone[d]) => Revoked(phone'[d])
                                                   /\ phone[d].parent = i /\ pass[i] # NoToken => Revoked(phone'[d])
  <2>. SUFFICES ASSUME NEW d \in Phones
                PROVE  /\ phone'[d] \in {NoToken} \cup PhoneRows /\ (phone'[d] # NoToken <=> phone[d] # NoToken)
                       /\ phone'[d] # NoToken => /\ phone'[d].serial = phone[d].serial /\ phone'[d].kind = phone[d].kind
                                                 /\ phone'[d].created = phone[d].created /\ phone'[d].parent = phone[d].parent
                                                 /\ phone'[d].revokedAt = time \/ phone'[d].revokedAt = phone[d].revokedAt
                                                 /\ Revoked(phone[d]) => Revoked(phone'[d])
                                                 /\ phone[d].parent = i /\ pass[i] # NoToken => Revoked(phone'[d])
    BY Zenon
  <2>1. phone[d] \in {NoToken} \cup PhoneRows
    BY Zenon DEF GateInv, GateTypes
  <2>2. CASE phone[d] # NoToken /\ phone[d].parent = i /\ pass[i] # NoToken
    <3>1. phone[d] \in PhoneRows /\ phone'[d] = At(phone[d])
      BY Zenon, <1>5, <2>1, <2>2
    <3>. QED  BY Zenon, <1>7, <1>8, <2>2, <3>1
  <2>3. CASE ~ (phone[d] # NoToken /\ phone[d].parent = i /\ pass[i] # NoToken)
    <3>1. phone'[d] = phone[d]
      BY Zenon, <1>5, <2>3
    <3>. QED  BY Zenon, <2>1, <2>3, <3>1
  <2>. QED  BY Zenon, <2>2, <2>3
<1>11. GateTypes'
  <2>1. pass' \in [Passes -> {NoToken} \cup PassRows] /\ phone' \in [Phones -> {NoToken} \cup PhoneRows]
    <3>1. pass' = [q \in Passes |-> pass'[q]] /\ phone' = [d \in Phones |-> phone'[d]]
      BY Zenon, <1>4 DEF GateInv, GateTypes
    <3>. QED  BY Zenon, <1>9, <1>10, <3>1
  <2>2. redeem' \in [Phones -> {NoToken} \cup Exchanges] /\ revoker'.stage = "evict"
    <3>1. redeem' \in [Phones -> {NoToken} \cup Exchanges]
      BY Zenon, <1>1 DEF GateInv, GateTypes
    <3>2. PICK w : w = revoker /\ revoker' = [w EXCEPT !.stage = "evict"] /\ w.stage = "locked"
      BY Zenon DEF RevokeCommits
    <3>. QED  BY <3>1, <3>2
  <2>. QED  BY Zenon, <1>1, <1>9, <1>10, <2>1, <2>2, GateTypesRows DEF GateInv
<1>12. \A d \in Phones : ChildOK(d)'
  <2>. SUFFICES ASSUME NEW d \in Phones, phone[d] # NoToken, phone'[d] # NoToken PROVE ChildOK(d)'
    BY Zenon, <1>10 DEF ChildOK
  <2>1. PICK q \in Passes : q = phone[d].parent /\ q = phone'[d].parent
    BY Zenon, <1>10 DEF GateInv, GateTypes, PhoneRows
  <2>2. pass'[q] # NoToken => Exhausted(pass'[q]) /\ (Revoked(pass'[q]) => Revoked(phone'[d]))
    <3>. SUFFICES ASSUME pass'[q] # NoToken PROVE Exhausted(pass'[q]) /\ (Revoked(pass'[q]) => Revoked(phone'[d]))
      BY Zenon
    <3>1. /\ pass[q] # NoToken /\ pass'[q].kind = pass[q].kind /\ pass'[q].uses = pass[q].uses
          /\ Revoked(pass'[q]) => Revoked(pass[q]) \/ q = i
      BY Zenon, <1>9
    <3>2. Exhausted(pass[q]) /\ (Revoked(pass[q]) => Revoked(phone[d]))
      BY Zenon, <2>1, <3>1 DEF GateInv, ChildOK
    <3>3. (Revoked(phone[d]) => Revoked(phone'[d])) /\ (q = i => Revoked(phone'[d]))
      BY Zenon, <1>10, <2>1, <3>1
    <3>4. Exhausted(pass'[q])
      BY Zenon, <3>1, <3>2 DEF Exhausted
    <3>. QED  BY Zenon, <3>1, <3>2, <3>3, <3>4
  <2>3. (pass'[q] = NoToken => time > 0 /\ Revoked(phone'[d])) /\ (q \in reap => Revoked(phone'[d]))
    <3>1. ChildOK(d) /\ (pass'[q] = NoToken => pass[q] = NoToken) /\ (Revoked(phone[d]) => Revoked(phone'[d]))
      BY Zenon, <1>9, <1>10 DEF GateInv
    <3>. QED  BY Zenon, <2>1, <3>1 DEF ChildOK
  <2>4. \A e \in Phones : phone'[e] # NoToken /\ phone'[e].parent = q => e = d
    BY SMT, <1>10, <2>1 DEF GateInv, ChildOK
  <2>5. time' = time /\ reap' = reap
    BY Zenon, <1>1
  <2>. QED  BY Zenon, <2>1, <2>2, <2>3, <2>4, <2>5 DEF ChildOK, Exhausted, Revoked
<1>13. \A d \in Phones : ExchangeOK(d)'
  <2>. SUFFICES ASSUME NEW d \in Phones, Reading(d) PROVE ExchangeOK(d)'
    BY Zenon, <1>1 DEF ExchangeOK, Reading
  <2>1. PICK q \in Passes : q = redeem[d].invite
    BY Zenon DEF GateInv, GateTypes, Exchanges, Reading
  <2>2. (pass'[q] # NoToken => pass'[q].kind = "invite") /\ (pass'[q] = NoToken => time > 0)
    BY Zenon, <1>9, <2>1 DEF GateInv, ExchangeOK
  <2>. QED  BY Zenon, <1>1, <2>1, <2>2 DEF ExchangeOK
<1>14. ReapOK'
  <2>1. \A q \in Passes : Consumable(q)' => Consumable(q)
    <3>. SUFFICES ASSUME NEW q \in Passes, Consumable(q)' PROVE Consumable(q)
      BY Zenon
    <3>1. pass'[q] # NoToken /\ ~Revoked(pass'[q]) /\ ~Exhausted(pass'[q]) /\ pass'[q].expires > time
      BY Zenon, <1>1 DEF Consumable, Exhausted, Revoked, Never
    <3>. QED  BY Zenon, <1>9, <3>1 DEF Consumable, Exhausted
  <2>. QED  BY Zenon, <1>1, <2>1 DEF GateInv, ReapOK
<1>15. Moved(RowOfHash(watch), RowOfHash(watch)')
  <2>1. \A q \in Passes : Moved(pass[q], pass'[q])
    <3>1. \A q \in Passes : pass'[q] # NoToken => (Reissued(pass[q]) => Reissued(pass'[q])) \/ pass'[q].revokedAt = time
      BY Zenon, <1>9 DEF Reissued, GateInv, GateTypes, PassRows
    <3>. QED  BY Zenon, <1>9, <3>1 DEF Moved
  <2>2. \A d \in Phones : phone'[d] # NoToken => phone[d] # NoToken /\ phone'[d].serial = phone[d].serial /\ Moved(phone[d], phone'[d])
    <3>1. \A d \in Phones : phone'[d] # NoToken => (Reissued(phone[d]) => Reissued(phone'[d])) \/ phone'[d].revokedAt = time
      BY Zenon, <1>10 DEF Reissued
    <3>. QED  BY Zenon, <1>10, <3>1 DEF Moved
  <2>. QED  BY Zenon, <1>1, <2>1, <2>2, HashMoves DEF GateInv
<1>16. AnswersOK'
  <2>1. \A d \in Phones : Cached(d)' => Cached(d) /\ redeem'[d] = redeem[d]
    BY Zenon, <1>1 DEF Cached
  <2>. QED  BY Zenon, <1>1, <1>11, <1>15, <2>1, AnswersRows
<1>. QED  BY Zenon, <1>11, <1>12, <1>13, <1>14, <1>16 DEF GateInv

\* What the sweep reads is dead, and so are the devices behind it.
LEMMA GateSweepReads ==
  ASSUME GateInv, TokenSweepReads
  PROVE  GateInv'
<1>1. /\ UNCHANGED <<pass, phone, watch, cache, redeem, revoker, check, time>> /\ granted' = NoToken
      /\ reap' = {x \in Passes \cup Phones : Sweepable(x)} /\ reap' # {}
      /\ time \in Nat /\ time \in 0 .. MaxTime /\ Never \in Nat
  BY GateAssumption DEF TokenSweepReads, GateInv, GateTypes, Never
<1>2. \A p \in Passes : pass[p] # NoToken => pass[p] \in PassRows
  BY Zenon DEF GateInv, GateTypes
<1>3. \A d \in Phones : phone[d] # NoToken => phone[d] \in PhoneRows
  BY Zenon DEF GateInv, GateTypes
<1>4. \A r \in PassRows \cup PhoneRows : DeadToken(r) => time > 0
  BY <1>1, GateAssumption DEF DeadToken, PassRows, PhoneRows
<1>5. time > 0
  <2>1. PICK x \in Passes \cup Phones : Sweepable(x)
    BY Zenon, <1>1
  <2>. QED  BY Zenon, <1>2, <1>3, <1>4, <2>1 DEF Sweepable
<1>6. \A p \in Passes : p \in reap' => ~Consumable(p)
  <2>. SUFFICES ASSUME NEW p \in Passes, Sweepable(p), Consumable(p) PROVE FALSE
    BY Zenon, <1>1
  <2>1. pass[p] # NoToken /\ DeadToken(pass[p])
    BY Zenon DEF Sweepable
  <2>2. pass[p].expires + TokenAge < time
    BY Zenon, <2>1 DEF DeadToken, Consumable
  <2>. QED  BY <1>1, <1>2, <2>1, <2>2, GateAssumption DEF PassRows, Consumable
<1>7. \A p \in Passes : p \in reap' => \A d \in Phones : phone[d] # NoToken /\ phone[d].parent = p => Revoked(phone[d])
  BY Zenon, <1>1 DEF Sweepable, Children
<1>8. ReapOK'
  BY Zenon, <1>1, <1>5, <1>6 DEF ReapOK, Consumable, Revoked, Exhausted, Never
<1>9. \A d \in Phones : ChildOK(d)'
  <2>. SUFFICES ASSUME NEW d \in Phones, phone[d] # NoToken PROVE ChildOK(d)'
    BY Zenon, <1>1 DEF ChildOK
  <2>1. phone[d].parent \in Passes
    BY Zenon, <1>3 DEF PhoneRows
  <2>2. phone[d].parent \in reap' => Revoked(phone[d])
    BY Zenon, <1>7, <2>1
  <2>. QED  BY Zenon, <1>1, <2>2 DEF GateInv, ChildOK, Exhausted, Revoked, Never
<1>10. \A d \in Phones : ExchangeOK(d)'
  BY Zenon, <1>1 DEF GateInv, ExchangeOK, Reading
<1>11. GateTypes'
  BY <1>1, GateTypesIdle DEF GateInv, GateTypes
<1>12. Moved(RowOfHash(watch), RowOfHash(watch)')
  BY Zenon, <1>1, HashStays
<1>13. AnswersOK'
  <2>1. \A d \in Phones : Cached(d)' => Cached(d) /\ redeem'[d] = redeem[d]
    BY Zenon, <1>1 DEF Cached
  <2>. QED  BY Zenon, <1>1, <1>11, <1>12, <2>1, AnswersRows
<1>. QED  BY Zenon, <1>8, <1>9, <1>10, <1>11, <1>13 DEF GateInv

\* The sweep deletes by id what it read, whatever happened since.
LEMMA GateSweepDeletes ==
  ASSUME GateInv, TokenSweepDeletes
  PROVE  GateInv'
<1>1. /\ UNCHANGED <<watch, cache, redeem, revoker, check, time>> /\ granted' = NoToken /\ reap' = {}
      /\ pass' = [p \in Passes |-> IF p \in reap THEN NoToken ELSE pass[p]]
      /\ phone' = [d \in Phones |-> IF d \in reap THEN NoToken ELSE phone[d]]
  BY Zenon DEF TokenSweepDeletes
<1>2. time > 0
  BY Zenon DEF TokenSweepDeletes, GateInv, ReapOK
<1>3. /\ \A p \in Passes : pass'[p] = pass[p] \/ (pass'[p] = NoToken /\ p \in reap)
      /\ \A d \in Phones : phone'[d] # NoToken => phone'[d] = phone[d]
  BY Zenon, <1>1
<1>4. GateTypes'
  <2>1. pass' \in [Passes -> {NoToken} \cup PassRows] /\ phone' \in [Phones -> {NoToken} \cup PhoneRows]
        /\ redeem' \in [Phones -> {NoToken} \cup Exchanges]
    BY Zenon, <1>1 DEF GateInv, GateTypes
  <2>. QED  BY Zenon, <1>1, <1>3, <2>1, GateTypesRows DEF GateInv
<1>5. \A d \in Phones : ChildOK(d)'
  <2>. SUFFICES ASSUME NEW d \in Phones, phone'[d] # NoToken PROVE ChildOK(d)'
    BY Zenon DEF ChildOK
  <2>1. phone'[d] = phone[d] /\ phone[d] # NoToken
    BY Zenon, <1>3
  <2>2. PICK i \in Passes : i = phone[d].parent
    BY Zenon, <2>1 DEF GateInv, GateTypes, PhoneRows
  <2>3. pass'[i] # NoToken => Exhausted(pass'[i]) /\ (Revoked(pass'[i]) => Revoked(phone[d]))
    BY Zenon, <1>3, <2>1, <2>2 DEF GateInv, ChildOK
  <2>4. pass'[i] = NoToken => Revoked(phone[d])
    BY Zenon, <1>3, <2>1, <2>2 DEF GateInv, ChildOK
  <2>5. \A e \in Phones : phone'[e] # NoToken /\ phone'[e].parent = i => e = d
    BY Zenon, <1>3, <2>1, <2>2 DEF GateInv, ChildOK
  <2>. QED  BY Zenon, <1>1, <1>2, <2>1, <2>2, <2>3, <2>4, <2>5 DEF ChildOK, Exhausted, Revoked, Never
<1>6. \A d \in Phones : ExchangeOK(d)'
  <2>. SUFFICES ASSUME NEW d \in Phones, Reading(d) PROVE ExchangeOK(d)'
    BY Zenon, <1>1 DEF ExchangeOK, Reading
  <2>1. PICK i \in Passes : i = redeem[d].invite
    BY Zenon DEF GateInv, GateTypes, Exchanges, Reading
  <2>2. pass'[i] # NoToken => pass'[i].kind = "invite"
    BY Zenon, <1>3, <2>1 DEF GateInv, ExchangeOK
  <2>. QED  BY Zenon, <1>1, <1>2, <2>1, <2>2 DEF ExchangeOK
<1>7. ReapOK'
  BY Zenon, <1>1 DEF ReapOK
<1>8. Moved(RowOfHash(watch), RowOfHash(watch)')
  <2>1. \A p \in Passes : Moved(pass[p], pass'[p])
    BY Zenon, <1>3 DEF Moved
  <2>2. \A d \in Phones : phone'[d] # NoToken => phone[d] # NoToken /\ phone'[d].serial = phone[d].serial /\ Moved(phone[d], phone'[d])
    BY Zenon, <1>3 DEF Moved
  <2>. QED  BY Zenon, <1>1, <2>1, <2>2, HashMoves DEF GateInv
<1>9. AnswersOK'
  <2>1. \A d \in Phones : Cached(d)' => Cached(d) /\ redeem'[d] = redeem[d]
    BY Zenon, <1>1 DEF Cached
  <2>. QED  BY Zenon, <1>1, <1>4, <1>8, <2>1, AnswersRows
<1>. QED  BY Zenon, <1>4, <1>5, <1>6, <1>7, <1>9 DEF GateInv

\* No step of an exchange, a check, the operator or the sweep breaks the invariant.
LEMMA GateStep ==
  ASSUME GateInv, [GateNext]_gateVars
  PROVE  GateInv'
<1>1. CASE GateNext
  <2>1. CASE (\E d \in Phones, i \in Passes : RedeemReads(d, i)) \/ (\E i \in Passes : RevokeLocks(i))
    BY Zenon, <2>1, GateAsks
  <2>2. CASE Evict \/ \E d \in Phones : RedeemCaches(d)
    BY Zenon, <2>2, GateCaches
  <2>3. CASE \E d \in Phones : ReissueDevice(d) \/ RevokePhone(d)
    BY Zenon, <2>3, GatePhone
  <2>4. CASE \E d \in Phones : InsertDevice(d)
    BY Zenon, <2>4, GateInsert
  <2>5. CASE \E p \in Passes : CreateToken(p)
    BY Zenon, <2>5, GateCreate
  <2>6. CASE CheckHits \/ CheckReads \/ CheckAnswers
    BY Zenon, <2>6, GateChecks, GateAnswers
  <2>7. CASE GateTick \/ RevokeCommits \/ TokenSweepReads \/ TokenSweepDeletes
    BY Zenon, <2>7, GateTickOK, GateRevoke, GateSweepReads, GateSweepDeletes
  <2>. QED  BY Zenon, <1>1, <2>1, <2>2, <2>3, <2>4, <2>5, <2>6, <2>7 DEF GateNext
<1>2. CASE UNCHANGED gateVars
  <2>1. GateTypes' /\ (\A d \in Phones : ChildOK(d)' /\ ExchangeOK(d)') /\ ReapOK'
    BY Zenon, <1>2 DEF gateVars, GateInv, GateTypes, Hashes, Stamped, Never, ChildOK, ExchangeOK, Reading, ReapOK, Exhausted, Revoked, Consumable
  <2>2. AnswersOK'
    BY Zenon, <1>2 DEF gateVars, GateInv, AnswersOK, RevokeTakesHold, RowOfHash, GoodUntil, Reissued, Revoked, Cached, Never
  <2>. QED  BY Zenon, <2>1, <2>2 DEF GateInv
<1>. QED  BY Zenon, <1>1, <1>2

\* One invite is one device, and is revoked with it; its row stays while the
\* device works; a revocation takes hold within the life of a cache entry:
\* for any number of tokens and devices (gate.py gate_redeem,
\* admin_revoke_token, gate_check; credential_sweep.py).
THEOREM PassesAlwaysAccounted == GateSpec => []PassesAccounted
<1>1. GateInit => GateInv
  BY Zenon, GateStart
<1>2. GateInv /\ [GateNext]_gateVars => GateInv'
  BY Zenon, GateStep
<1>3. GateInv => PassesAccounted
  <2>. SUFFICES ASSUME GateInv PROVE PassesAccounted
    BY Zenon
  <2>1. OneDevicePerInvite
    <3>. SUFFICES ASSUME NEW i \in Passes PROVE Cardinality(Children(i)) <= 1
      BY Zenon DEF OneDevicePerInvite
    <3>1. CASE Children(i) = {}
      BY <3>1, FS_EmptySet
    <3>2. CASE Children(i) # {}
      <4>1. PICK d \in Phones : d \in Children(i)
        BY Zenon, <3>2 DEF Children
      <4>2. Children(i) = {d}
        BY Zenon, <4>1 DEF Children, GateInv, ChildOK
      <4>3. Cardinality({d}) = 1
        BY Zenon, FS_Singleton
      <4>. QED  BY <4>2, <4>3
    <3>. QED  BY Zenon, <3>1, <3>2
  <2>2. RevokedWithChildren
    BY Zenon DEF RevokedWithChildren, Children, GateInv, ChildOK
  <2>3. HandleKept
    BY Zenon DEF HandleKept, GateInv, ChildOK
  <2>. QED  BY Zenon, <2>1, <2>2, <2>3 DEF PassesAccounted, GateInv, AnswersOK
<1>. QED  BY <1>1, <1>2, <1>3, PTL DEF GateSpec

-----------------------------------------------------------------------------
(* The vault.                                                              *)

Readings == [version : Nat, blob : Nat, of : Nat]
VaultRows == [version : Nat \ {0}, blob : Nat, over : Nat, of : Nat]
VaultCalls == [do : {"insert", "delete"}, slot : SlotNames, base : Readings]

VaultTypes ==
  /\ vault \in [SlotNames -> {NoSlot} \cup VaultRows]
  /\ read \in [Devices -> [SlotNames -> Readings]]
  /\ call \in [Devices -> {NoSlot} \cup VaultCalls]
  /\ texts \in Nat /\ reissues \in Nat

\* A reading taken under the present identity is of a version the slot has or
\* had, and of its content if the slot still has that version.
ReadingOK(r, s) ==
  /\ r.of <= reissues
  /\ r.of = reissues => r.version <= Version(s) /\ (r.version = Version(s) => r.blob = Blob(s))

\* The readings of a request under way are as good as the device's own.
VaultInv ==
  /\ VaultTypes
  /\ \A d \in Devices : \A s \in SlotNames : ReadingOK(read[d][s], s)
  /\ \A d \in Devices : call[d] # NoSlot =>
       /\ ReadingOK(call[d].base, call[d].slot)
       /\ call[d].do = "insert" => call[d].base.version = 0
  /\ VersionNamesBlob

\* Nothing is stored and nothing was read.
LEMMA VaultStart == VaultInit => VaultInv
<1>. SUFFICES ASSUME VaultInit PROVE VaultInv
  BY Zenon
<1>1. VaultTypes
  BY Zenon DEF VaultInit, VaultTypes, Readings
<1>2. ASSUME NEW d \in Devices, NEW s \in SlotNames PROVE ReadingOK(read[d][s], s)
  <2>1. read[d][s] = [version |-> 0, blob |-> 0, of |-> 0] /\ vault[s] = NoSlot /\ reissues = 0
    BY Zenon DEF VaultInit
  <2>. QED  BY <2>1 DEF ReadingOK, Version, Blob
<1>3. \A d \in Devices : call[d] = NoSlot
  BY Zenon DEF VaultInit
<1>4. VersionNamesBlob
  BY Zenon DEF VaultInit, VersionNamesBlob
<1>. QED  BY Zenon, <1>1, <1>2, <1>3, <1>4 DEF VaultInv

\* The row a handler writes from what its device had read.
LEMMA RowTyped ==
  ASSUME NEW v \in Nat, NEW b \in Nat, NEW base \in Readings
  PROVE  /\ Row(v + 1, b, base) \in VaultRows /\ Row(v + 1, b, base).version = v + 1
         /\ base.version \in Nat /\ v + 1 > v
BY DEF Row, Readings, VaultRows

\* A device reads a slot.
LEMMA VaultGet ==
  ASSUME VaultInv, NEW d \in Devices, NEW s \in SlotNames, Get(d, s)
  PROVE  VaultInv'
<1>1. Version(s) \in Nat /\ Blob(s) \in Nat
  BY Zenon DEF VaultInv, VaultTypes, VaultRows, Version, Blob
<1>2. VaultTypes'
  BY Zenon, <1>1 DEF VaultInv, VaultTypes, Readings, Get
<1>3. \A x \in SlotNames : Version(x)' = Version(x) /\ Blob(x)' = Blob(x)
  BY Zenon DEF Get, Version, Blob
<1>4. ASSUME NEW e \in Devices, NEW x \in SlotNames PROVE ReadingOK(read[e][x], x)'
  <2>1. PICK r : r = [version |-> Version(s), blob |-> Blob(s), of |-> reissues]
    BY Zenon
  <2>2. r.version = Version(s) /\ r.blob = Blob(s) /\ r.of = reissues /\ reissues \in Nat
    BY Zenon, <2>1 DEF VaultInv, VaultTypes
  <2>3. UNCHANGED reissues /\ read'[e][x] = IF e = d /\ x = s THEN r ELSE read[e][x]
    BY Zenon, <2>1 DEF Get, VaultInv, VaultTypes
  <2>4. CASE e = d /\ x = s
    <3>1. reissues <= reissues /\ Version(s) <= Version(s)
      BY <1>1, <2>2
    <3>. QED  BY Zenon, <1>3, <2>2, <2>3, <2>4, <3>1 DEF ReadingOK
  <2>5. CASE ~ (e = d /\ x = s)
    <3>1. ReadingOK(read[e][x], x)
      BY Zenon DEF VaultInv
    <3>. QED  BY Zenon, <1>3, <2>3, <2>5, <3>1 DEF ReadingOK
  <2>. QED  BY Zenon, <2>4, <2>5
<1>5. \A e \in Devices : call'[e] # NoSlot => ReadingOK(call[e].base, call[e].slot)'
  BY Zenon, <1>3 DEF VaultInv, VaultTypes, VaultCalls, Get, ReadingOK
<1>6. VersionNamesBlob'
  BY <1>1 DEF VaultInv, VaultTypes, Get, ReadingOK, VersionNamesBlob
<1>. QED  BY Zenon, <1>2, <1>4, <1>5, <1>6 DEF VaultInv, Get

\* A request starts from the device's reading, or ends.
LEMMA VaultAsk ==
  ASSUME VaultInv, NEW d \in Devices, NEW c \in {NoSlot} \cup VaultCalls,
         call' = [call EXCEPT ![d] = c], UNCHANGED <<vault, read, texts, reissues>>,
         c # NoSlot => c.base = read[d][c.slot] /\ (c.do = "insert" => c.base.version = 0)
  PROVE  VaultInv'
<1>1. VaultTypes'
  BY Zenon DEF VaultInv, VaultTypes
<1>2. \A x \in SlotNames : Version(x)' = Version(x) /\ Blob(x)' = Blob(x)
  BY Zenon DEF Version, Blob
<1>3. \A e \in Devices : \A x \in SlotNames : ReadingOK(read[e][x], x)'
  BY Zenon, <1>2 DEF VaultInv, ReadingOK
<1>4. \A e \in Devices : call'[e] # NoSlot =>
        ReadingOK(call[e].base, call[e].slot)' /\ (call'[e].do = "insert" => call'[e].base.version = 0)
  BY <1>2 DEF VaultInv, VaultTypes, VaultCalls, ReadingOK
<1>. QED  BY Zenon, <1>1, <1>3, <1>4 DEF VaultInv, VersionNamesBlob

\* A row is written with a version the slot never had under this identity.
LEMMA VaultWrite ==
  ASSUME VaultInv, NEW s \in SlotNames, NEW row \in VaultRows, row.version > Version(s),
         vault' = [vault EXCEPT ![s] = row], texts' \in Nat, UNCHANGED <<read, reissues>>,
         \A d \in Devices : call'[d] = call[d] \/ call'[d] = NoSlot,
         call' \in [Devices -> {NoSlot} \cup VaultCalls]
  PROVE  VaultInv'
<1>1. VaultTypes'
  BY Zenon DEF VaultInv, VaultTypes
<1>2. \A x \in SlotNames : Version(x) \in Nat /\ (IF x = s THEN Version(x)' > Version(x)
                                                  ELSE Version(x)' = Version(x) /\ Blob(x)' = Blob(x))
  BY Zenon, VaultAssumption DEF VaultInv, VaultTypes, VaultRows, Version, Blob
<1>3. \A x \in SlotNames, r \in Readings : ReadingOK(r, x) => ReadingOK(r, x)'
  <2>. SUFFICES ASSUME NEW x \in SlotNames, NEW r \in Readings, ReadingOK(r, x) PROVE ReadingOK(r, x)'
    BY Zenon
  <2>1. Version(x)' \in Nat
    BY Zenon, <1>1 DEF VaultTypes, VaultRows, Version
  <2>. QED  BY <1>2, <2>1 DEF ReadingOK, Readings
<1>4. \A e \in Devices : \A x \in SlotNames : ReadingOK(read[e][x], x)'
  BY Zenon, <1>3 DEF VaultInv, VaultTypes, ReadingOK
<1>5. \A e \in Devices : call'[e] # NoSlot => ReadingOK(call[e].base, call[e].slot)'
  <2>. SUFFICES ASSUME NEW e \in Devices, call'[e] # NoSlot PROVE ReadingOK(call[e].base, call[e].slot)'
    BY Zenon
  <2>1. call'[e] = call[e] /\ call[e].base \in Readings /\ call[e].slot \in SlotNames /\ ReadingOK(call[e].base, call[e].slot)
    BY Zenon DEF VaultInv, VaultTypes, VaultCalls
  <2>. QED  BY Zenon, <1>3, <2>1 DEF ReadingOK
<1>. QED  BY Zenon, <1>1, <1>4, <1>5 DEF VaultInv, VersionNamesBlob

\* The rows the handlers write.
LEMMA VaultWritten ==
  ASSUME VaultInv, NEW d \in Devices, InsertSlot(d) \/ DeleteSlot(d) \/ \E s \in SlotNames : Put(d, s)
  PROVE  VaultInv' /\ SeenBeforeOverwrittenStep
<1>1. ASSUME NEW s \in SlotNames, NEW row \in VaultRows, vault' = [vault EXCEPT ![s] = row],
             row.of = reissues => row.over = Blob(s)
      PROVE  SeenBeforeOverwrittenStep
  BY Zenon, <1>1 DEF SeenBeforeOverwrittenStep, VaultInv, VaultTypes
<1>2. ASSUME InsertSlot(d) PROVE VaultInv' /\ SeenBeforeOverwrittenStep
  <2>. DEFINE s == call[d].slot
  <2>1. /\ s \in SlotNames /\ call[d].base \in Readings /\ call[d].base.version = 0
        /\ ReadingOK(call[d].base, s)
    BY Zenon, <1>2 DEF InsertSlot, IdleDevice, VaultInv, VaultTypes, VaultCalls
  <2>2. CASE vault' = vault /\ texts' = texts
    <3>1. VaultInv'
      BY Zenon, <1>2, <2>2, VaultAsk DEF InsertSlot, Done
    <3>. QED  BY Zenon, <2>2, <3>1 DEF SeenBeforeOverwrittenStep
  <2>3. CASE vault[s] = NoSlot /\ texts' = texts + 1 /\ vault' = [vault EXCEPT ![s] = Row(1, texts', call[d].base)]
    <3>. DEFINE row == Row(1, texts', call[d].base)
    <3>1. row \in VaultRows /\ row.version > Version(s) /\ texts' \in Nat
      BY <2>1, <2>3 DEF VaultRows, Row, Readings, Version, VaultInv, VaultTypes
    <3>2. row.of = reissues => row.over = Blob(s)
      BY Zenon, <2>1, <2>3 DEF Row, ReadingOK, Version, Blob
    <3>3. \A e \in Devices : call'[e] = call[e] \/ call'[e] = NoSlot
      BY Zenon, <1>2 DEF InsertSlot, Done, VaultInv, VaultTypes
    <3>4. call' \in [Devices -> {NoSlot} \cup VaultCalls]
      BY Zenon, <1>2 DEF InsertSlot, Done, VaultInv, VaultTypes
    <3>5. vault' = [vault EXCEPT ![s] = row] /\ UNCHANGED <<read, reissues>>
      BY Zenon, <1>2, <2>3 DEF InsertSlot
    <3>. HIDE DEF row, s
    <3>. QED  BY Zenon, <1>1, <2>1, <3>1, <3>2, <3>3, <3>4, <3>5, VaultWrite
  <2>. QED  BY Zenon, <1>2, <2>2, <2>3 DEF InsertSlot
<1>3. ASSUME DeleteSlot(d) PROVE VaultInv' /\ SeenBeforeOverwrittenStep
  <2>. DEFINE s == call[d].slot
              row == Row(call[d].base.version + 1, 0, call[d].base)
  <2>1. s \in SlotNames /\ call[d].base \in Readings /\ ReadingOK(call[d].base, s)
    BY Zenon, <1>3 DEF DeleteSlot, Bury, IdleDevice, VaultInv, VaultTypes, VaultCalls
  <2>2. CASE vault' = vault
    <3>1. VaultInv'
      BY Zenon, <1>3, <2>2, VaultAsk DEF DeleteSlot, Bury, Done
    <3>. QED  BY Zenon, <2>2, <3>1 DEF SeenBeforeOverwrittenStep
  <2>3. CASE s \in LiveSlots /\ vault[s].version = call[d].base.version /\ vault' = [vault EXCEPT ![s] = row]
    <3>1. row \in VaultRows /\ row.version > Version(s) /\ texts' \in Nat
      <4>1. PICK b \in Readings : b = call[d].base
        BY Zenon, <2>1
      <4>2. Version(s) = b.version /\ row = Row(b.version + 1, 0, b)
        BY Zenon, <2>3, <4>1 DEF Version, LiveSlots
      <4>3. texts' \in Nat
        BY Zenon, <1>3 DEF VaultInv, VaultTypes, DeleteSlot, Bury
      <4>4. b.version \in Nat /\ 0 \in Nat
        BY Zenon DEF Readings
      <4>. HIDE DEF row, s
      <4>. QED  BY Zenon, <4>2, <4>3, <4>4, RowTyped
    <3>2. row.of = reissues => row.over = Blob(s)
      BY Zenon, <2>1, <2>3 DEF Row, ReadingOK, Version, Blob, LiveSlots
    <3>3. \A e \in Devices : call'[e] = call[e] \/ call'[e] = NoSlot
      BY Zenon, <1>3 DEF DeleteSlot, Bury, Done, VaultInv, VaultTypes
    <3>4. call' \in [Devices -> {NoSlot} \cup VaultCalls]
      BY Zenon, <1>3 DEF DeleteSlot, Bury, Done, VaultInv, VaultTypes
    <3>5. UNCHANGED <<read, reissues>>
      BY Zenon, <1>3 DEF DeleteSlot, Bury
    <3>. HIDE DEF row, s
    <3>. QED  BY Zenon, <1>1, <2>1, <2>3, <3>1, <3>2, <3>3, <3>4, <3>5, VaultWrite
  <2>. QED  BY Zenon, <1>3, <2>2, <2>3 DEF DeleteSlot, Bury, Tombstone
<1>4. ASSUME NEW s \in SlotNames, Put(d, s) PROVE VaultInv' /\ SeenBeforeOverwrittenStep
  <2>. DEFINE row == Row(read[d][s].version + 1, texts', read[d][s])
  <2>1. read[d][s] \in Readings /\ ReadingOK(read[d][s], s) /\ vault' = [vault EXCEPT ![s] = row]
    BY ZenonT(30), <1>4 DEF Put, Overwrite, VaultInv, VaultTypes
  <2>2. row \in VaultRows /\ row.version > Version(s) /\ texts' \in Nat
    <3>1. PICK b \in Readings : b = read[d][s]
      BY Zenon, <2>1
    <3>2. Version(s) = b.version /\ row = Row(b.version + 1, texts', b)
      BY Zenon, <1>4, <3>1 DEF Version, Put
    <3>3. texts' \in Nat
      BY <1>4 DEF VaultInv, VaultTypes, Put, Overwrite
    <3>4. b.version \in Nat
      BY Zenon DEF Readings
    <3>. HIDE DEF row
    <3>. QED  BY Zenon, <3>2, <3>3, <3>4, RowTyped
  <2>3. row.of = reissues => row.over = Blob(s)
    BY Zenon, <1>4, <2>1 DEF Row, ReadingOK, Version, Blob, Put
  <2>4. call' = call /\ call \in [Devices -> {NoSlot} \cup VaultCalls] /\ UNCHANGED <<read, reissues>>
    BY Zenon, <1>4 DEF Put, Overwrite, VaultInv, VaultTypes
  <2>. HIDE DEF row
  <2>. QED  BY Zenon, <1>1, <2>1, <2>2, <2>3, <2>4, VaultWrite
<1>. QED  BY Zenon, <1>2, <1>3, <1>4

\* Every step of the vault keeps the invariant and writes over what was seen.
LEMMA VaultStep == VaultInv /\ [VaultNext]_vaultVars => VaultInv' /\ [SeenBeforeOverwrittenStep]_vaultVars
<1>. SUFFICES ASSUME VaultInv, [VaultNext]_vaultVars PROVE VaultInv' /\ [SeenBeforeOverwrittenStep]_vaultVars
  BY Zenon
<1>1. ASSUME NEW d \in Devices, InsertSlot(d) \/ DeleteSlot(d) \/ \E s \in SlotNames : Put(d, s)
      PROVE  VaultInv' /\ SeenBeforeOverwrittenStep
  BY Zenon, <1>1, VaultWritten
<1>2. ASSUME NEW d \in Devices, NEW s \in SlotNames, Get(d, s) \/ Count(d, s) \/ Look(d, s)
      PROVE  VaultInv' /\ SeenBeforeOverwrittenStep
  <2>. DEFINE c == [do |-> "insert", slot |-> s, base |-> read[d][s]]
              e == [do |-> "delete", slot |-> s, base |-> read[d][s]]
  <2>1. c \in VaultCalls /\ e \in VaultCalls
    BY Zenon DEF VaultCalls, VaultInv, VaultTypes
  <2>2. VaultInv'
    BY Zenon, <1>2, <2>1, VaultAsk, VaultGet DEF Count, Look
  <2>. QED  BY Zenon, <1>2, <2>2 DEF Get, Count, Look, SeenBeforeOverwrittenStep
<1>3. ASSUME Reissue PROVE VaultInv' /\ SeenBeforeOverwrittenStep
  <2>1. VaultTypes' /\ reissues' = reissues + 1
    BY <1>3 DEF Reissue, VaultInv, VaultTypes
  <2>2. \A x \in SlotNames, r \in Readings : ReadingOK(r, x) => ReadingOK(r, x)'
    <3>. SUFFICES ASSUME NEW x \in SlotNames, NEW r \in Readings, ReadingOK(r, x) PROVE ReadingOK(r, x)'
      BY Zenon
    <3>1. PICK n \in Nat : n = r.of
      BY Zenon DEF Readings
    <3>2. PICK k \in Nat : k = reissues
      BY Zenon DEF VaultInv, VaultTypes
    <3>3. n <= k
      BY Zenon, <3>1, <3>2 DEF ReadingOK
    <3>4. n <= k + 1 /\ n # k + 1
      BY <3>3
    <3>. QED  BY Zenon, <2>1, <3>1, <3>2, <3>4 DEF ReadingOK
  <2>3. \A d \in Devices : \A s \in SlotNames : ReadingOK(read[d][s], s)'
    BY Zenon, <1>3, <2>2 DEF VaultInv, VaultTypes, ReadingOK, Reissue
  <2>4. \A d \in Devices : call'[d] # NoSlot => ReadingOK(call[d].base, call[d].slot)'
    BY Zenon, <1>3, <2>2 DEF VaultInv, VaultTypes, VaultCalls, ReadingOK, Reissue
  <2>. QED  BY Zenon, <1>3, <2>1, <2>3, <2>4 DEF VaultInv, VersionNamesBlob, Reissue, SeenBeforeOverwrittenStep
<1>4. ASSUME UNCHANGED vaultVars PROVE VaultInv'
  BY Zenon, <1>4 DEF vaultVars, VaultInv, VaultTypes, ReadingOK, VersionNamesBlob, Version, Blob
<1>. QED  BY Zenon, <1>1, <1>2, <1>3, <1>4 DEF VaultNext

\* Two devices that read the same version of a slot under one identity read the
\* same content (put_slot, delete_slot).
THEOREM VersionAlwaysNamesBlob == VaultSpec => []VersionNamesBlob
<1>1. VaultInv => VersionNamesBlob
  BY Zenon DEF VaultInv
<1>. QED  BY VaultStart, VaultStep, <1>1, PTL DEF VaultSpec

\* Every write and delete lands on the content its author saw.
THEOREM AlwaysSeenBeforeOverwritten == VaultSpec => SeenBeforeOverwritten
BY VaultStart, VaultStep, PTL DEF VaultSpec, SeenBeforeOverwritten

-----------------------------------------------------------------------------
(* The reports.                                                            *)

ReportRows ==
  [kind : Kinds, crash : BOOLEAN, status : {"open", "closed"}, text : {"own", "redacted"}, created : Nat,
   resolved : {NoDay} \cup Nat, hidden : {NoDay} \cup Nat, reply : BOOLEAN, evidence : BOOLEAN]

\* An edit under way is of no crash dump and makes none; the one row is filed once.
ReportsInv ==
  /\ report \in {NoDay} \cup ReportRows /\ days \in Nat
  /\ reporter # NoDay => /\ reporter.do \in {"turn", "hide", "edit"} /\ filed
                         /\ reporter.do = "edit" => reporter.crash = FALSE /\ (Exists => ~report.crash)
  /\ operator \in {NoDay, "reopen", "resolve", "reply"}
  /\ Exists => filed

\* Nothing is filed.
LEMMA ReportsStart == ReportsInit => ReportsInv
BY DEF ReportsInit, ReportsInv, Exists

\* The row changes in columns the tally does not read.
LEMMA ReportTouched ==
  ASSUME ReportsInv, NEW r \in ReportRows, report' = r, Exists,
         r.kind = report.kind, r.crash = report.crash, reporter' = reporter \/ reporter' = NoDay,
         days' \in Nat, filed' = filed, operator' \in {NoDay, "reopen", "resolve", "reply"}
  PROVE  ReportsInv' /\ FiledForeverStep
<1>1. ReportsInv'
  BY Zenon DEF ReportsInv, Exists
<1>2. r # NoDay
  BY Zenon, ReportsAssumption DEF ReportRows
<1>. QED  BY Zenon, <1>1, <1>2 DEF FiledForeverStep, Counted, IsBug, Exists

\* Every step of a report keeps the invariant and the tally.
LEMMA ReportsStep == ReportsInv /\ [ReportsNext]_reportVars => ReportsInv' /\ [FiledForeverStep]_reportVars
<1>. SUFFICES ASSUME ReportsInv, ReportsNext \/ UNCHANGED reportVars PROVE ReportsInv' /\ FiledForeverStep
  BY Zenon
<1>1. ASSUME NEW kind \in Kinds, NEW file \in BOOLEAN, CreateReport(kind, file) PROVE ReportsInv' /\ FiledForeverStep
  <2>1. ~Exists /\ reporter = NoDay /\ reporter' = NoDay
    BY Zenon, <1>1 DEF CreateReport, ReportsInv
  <2>2. report' \in {NoDay} \cup ReportRows
    <3>1. PICK c \in BOOLEAN : c = (kind = "crash")
      BY Zenon
    <3>2. PICK new : new = [kind |-> kind, crash |-> c, status |-> "open", text |-> "own", created |-> days,
                            resolved |-> NoDay, hidden |-> NoDay, reply |-> FALSE, evidence |-> file]
      BY Zenon
    <3>3. new \in ReportRows
      BY Zenon, <3>2 DEF ReportsInv, ReportRows
    <3>4. report' = report \/ report' = new
      BY Zenon, <1>1, <3>1, <3>2 DEF CreateReport
    <3>. QED  BY Zenon, <3>3, <3>4 DEF ReportsInv
  <2>. QED  BY Zenon, <1>1, <2>1, <2>2 DEF CreateReport, ReportsInv, FiledForeverStep
<1>2. ASSUME report' = report, days' \in Nat, filed' = filed, operator' \in {NoDay, "reopen", "resolve", "reply"},
             \/ reporter' = reporter \/ reporter' = NoDay
             \/ Exists /\ reporter'.do \in {"turn", "hide"}
             \/ Exists /\ reporter'.do = "edit" /\ reporter'.crash = FALSE /\ ~report.crash
      PROVE  ReportsInv' /\ FiledForeverStep
  BY Zenon, <1>2 DEF ReportsInv, Exists, FiledForeverStep
<1>3. ASSUME AddTurn \/ Hide \/ \E crash \in BOOLEAN : Edit(crash) PROVE ReportsInv' /\ FiledForeverStep
  <2>1. report' = report /\ days' = days /\ filed' = filed /\ operator' = operator /\ Exists
    BY Zenon, <1>3 DEF AddTurn, Hide, Edit, Begins, OnList
  <2>2. \/ reporter'.do \in {"turn", "hide"}
        \/ reporter'.do = "edit" /\ reporter'.crash = FALSE /\ ~report.crash
    BY <1>3 DEF AddTurn, Hide, Edit, Begins
  <2>. QED  BY Zenon, <1>2, <2>1, <2>2 DEF ReportsInv
<1>4. ASSUME (\E do \in {"reopen", "resolve", "reply"} : Operate(do)) \/ ReportSweepReads \/ EvidenceReads \/ ReportsMidnight
             \/ UNCHANGED reportVars
      PROVE  ReportsInv' /\ FiledForeverStep
  <2>1. report' = report /\ days' \in Nat /\ filed' = filed /\ operator' \in {NoDay, "reopen", "resolve", "reply"} /\ reporter' = reporter
    BY <1>4 DEF Operate, ReportSweepReads, EvidenceReads, ReportsMidnight, reportVars, ReportsInv
  <2>. QED  BY Zenon, <1>2, <2>1
<1>5. ASSUME ReporterWrites PROVE ReportsInv' /\ FiledForeverStep
  <2>1. reporter' = NoDay /\ days' = days /\ filed' = filed /\ operator' = operator /\ days \in Nat
        /\ operator' \in {NoDay, "reopen", "resolve", "reply"}
    BY Zenon, <1>5 DEF ReporterWrites, ReportsInv
  <2>2. CASE report' = report
    BY Zenon, <1>2, <2>1, <2>2
  <2>3. CASE Exists /\ report' = [report EXCEPT !.hidden = days]
    <3>1. report' \in ReportRows /\ report'.kind = report.kind /\ report'.crash = report.crash
      BY Zenon, <2>1, <2>3 DEF ReportsInv, ReportRows, Exists
    <3>2. PICK r \in ReportRows : r = report'
      BY Zenon, <3>1
    <3>. QED  BY Zenon, <2>1, <2>3, <3>1, <3>2, ReportTouched
  <2>4. CASE Exists /\ reporter.do = "edit" /\ report' = [report EXCEPT !.text = "own", !.crash = reporter.crash]
    <3>1. report' \in ReportRows /\ report'.kind = report.kind /\ report'.crash = report.crash
      BY Zenon, <1>5, <2>4 DEF ReportsInv, ReportRows, Exists, ReporterWrites
    <3>2. PICK r \in ReportRows : r = report'
      BY Zenon, <3>1
    <3>. QED  BY Zenon, <2>1, <2>4, <3>1, <3>2, ReportTouched
  <2>. QED  BY Zenon, <1>5, <2>2, <2>3, <2>4 DEF ReporterWrites, ReportsInv
<1>6. ASSUME OperatorWrites PROVE ReportsInv' /\ FiledForeverStep
  <2>1. reporter' = reporter /\ days' = days /\ filed' = filed /\ days \in Nat /\ operator' = NoDay
    BY Zenon, <1>6 DEF OperatorWrites, ReportsInv
  <2>2. CASE report' = report
    BY Zenon, <1>2, <2>1, <2>2
  <2>3. CASE /\ Exists
             /\ \/ report' = [report EXCEPT !.status = "open", !.resolved = NoDay]
                \/ report' = [report EXCEPT !.status = "closed", !.resolved = days]
                \/ report' = [report EXCEPT !.reply = TRUE]
    <3>1. report' \in ReportRows /\ report'.kind = report.kind /\ report'.crash = report.crash
      BY Zenon, <2>1, <2>3 DEF ReportsInv, ReportRows, Exists
    <3>2. PICK r \in ReportRows : r = report'
      BY Zenon, <3>1
    <3>. QED  BY Zenon, <2>1, <2>3, <3>1, <3>2, ReportTouched
  <2>. QED  BY Zenon, <1>6, <2>2, <2>3 DEF OperatorWrites, ReportsInv
<1>7. ASSUME SweepWrites PROVE ReportsInv' /\ FiledForeverStep
  <2>1. reporter' = reporter /\ days' = days /\ filed' = filed /\ operator' = operator /\ days \in Nat
        /\ operator' \in {NoDay, "reopen", "resolve", "reply"}
    BY Zenon, <1>7 DEF SweepWrites, SweptTo, ReportsInv
  <2>2. CASE report' = report
    BY Zenon, <1>2, <2>1, <2>2
  <2>3. CASE Exists /\ IsBug(report) /\ report' = Redacted
    <3>1. report' \in ReportRows /\ report'.kind = report.kind /\ report'.crash = report.crash
      BY Zenon, <2>3 DEF ReportsInv, ReportRows, Exists, Redacted
    <3>2. PICK r \in ReportRows : r = report'
      BY Zenon, <3>1
    <3>. QED  BY Zenon, <2>1, <2>3, <3>1, <3>2, ReportTouched
  <2>4. CASE Exists /\ ~IsBug(report) /\ report' = NoDay
    BY Zenon, <2>1, <2>4 DEF ReportsInv, Exists, FiledForeverStep, Counted
  <2>. QED  BY Zenon, <1>7, <2>2, <2>3, <2>4 DEF SweepWrites, SweptTo
<1>8. ASSUME EvidenceWrites PROVE ReportsInv' /\ FiledForeverStep
  <2>1. reporter' = reporter /\ days' = days /\ filed' = filed /\ operator' = operator /\ days \in Nat
        /\ operator' \in {NoDay, "reopen", "resolve", "reply"}
    BY Zenon, <1>8 DEF EvidenceWrites, ReportsInv
  <2>2. CASE report' = report
    BY Zenon, <1>2, <2>1, <2>2
  <2>3. CASE Exists /\ report' = [report EXCEPT !.evidence = FALSE]
    <3>1. report' \in ReportRows /\ report'.kind = report.kind /\ report'.crash = report.crash
      BY Zenon, <2>3 DEF ReportsInv, ReportRows, Exists
    <3>2. PICK r \in ReportRows : r = report'
      BY Zenon, <3>1
    <3>. QED  BY Zenon, <2>1, <2>3, <3>1, <3>2, ReportTouched
  <2>. QED  BY Zenon, <1>8, <2>2, <2>3 DEF EvidenceWrites
<1>. QED  BY Zenon, <1>1, <1>3, <1>4, <1>5, <1>6, <1>7, <1>8 DEF ReportsNext

\* Hiding, editing, closing, reopening and both sweeps leave the tally of filed
\* reports alone, in any order and overlap (hof_stats).
THEOREM AlwaysFiledForever == ReportsSpec => FiledForever
BY ReportsStart, ReportsStep, PTL DEF ReportsSpec, FiledForever
=============================================================================
