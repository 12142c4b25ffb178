-------------------------------- MODULE Gate --------------------------------
(***************************************************************************)
(* The access tokens of an island that asks for one on every request:      *)
(* routers/gate.py and the token half of services/credential_sweep.py.     *)
(*                                                                         *)
(* An invite is exchanged once for a device token; revoking it revokes     *)
(* what it was exchanged for.  A check answers from a cache of the row,    *)
(* kept for a fixed time, or reads the row and fills the cache; a          *)
(* revocation commits and then evicts.  The sweep reads the ids of dead    *)
(* tokens and deletes them by id.                                          *)
(*                                                                         *)
(* A row's hash names its token.  A device's row keeps its id and gets a   *)
(* new hash with every exchange; the hash is the device and a serial.      *)
(* Every guarded UPDATE of the invite row waits for the transaction that   *)
(* holds the row.  A request finishes before the clock moves on; the cache *)
(* may be unreachable at any step, which is a miss, or a lost write.       *)
(***************************************************************************)
EXTENDS Naturals, FiniteSets

CONSTANTS
    Passes,        \* the tokens an operator makes: invites, standing tokens
    Phones,        \* devices that exchange invites
    CacheTTL,      \* _CACHE_TTL
    TokenAge,      \* CREDENTIAL_MAX_AGE_DAYS
    NoToken,       \* no row, no entry, no request
    MaxTime, MaxSerial   \* bounds

ASSUME GateAssumption ==
    /\ Passes \cap Phones = {} /\ CacheTTL \in Nat \ {0} /\ TokenAge \in Nat /\ MaxTime \in Nat /\ MaxSerial \in Nat
    /\ NoToken \notin [kind : {"invite", "standing"}, uses : Nat, expires : Nat, revokedAt : Nat, created : Nat, seen : Nat]
    /\ NoToken \notin [kind : {"device"}, serial : Nat, uses : Nat, parent : Passes,
                       expires : Nat, revokedAt : Nat, created : Nat, seen : Nat]
    /\ NoToken \notin [stage : {"read"}, invite : Passes] \cup [stage : {"committed"}, serial : Nat]

VARIABLES
    pass,      \* access_tokens of kind invite and standing
    phone,     \* access_tokens of kind device, by device_id
    watch,     \* the hash whose checks are followed; entries are independent
    cache,     \* gate:meta:<watch>
    redeem,    \* one exchange per phone
    revoker,   \* the operator's revocation
    check,     \* a check that found no entry and has read the row
    reap,      \* ids the sweep is about to delete
    granted,   \* the hash the last check let through
    time

gateVars == <<pass, phone, watch, cache, redeem, revoker, check, reap, granted, time>>

Hashes == (Passes \X {0}) \cup (Phones \X (1 .. MaxSerial))

Never == MaxTime + 1

GateInit ==
    /\ pass = [p \in Passes |-> NoToken]
    /\ phone = [d \in Phones |-> NoToken]
    /\ watch \in Hashes
    /\ cache = NoToken
    /\ redeem = [d \in Phones |-> NoToken]
    /\ revoker = NoToken
    /\ check = NoToken
    /\ reap = {}
    /\ granted = NoToken
    /\ time = 0

\* Redis drops the entry when its time is over.
Kept(e) == e # NoToken /\ time + 1 < e.until

GateTick ==
    /\ time < MaxTime
    /\ check = NoToken
    /\ ~ \E d \in Phones : redeem[d] # NoToken /\ redeem[d].stage = "committed"
    /\ time' = time + 1
    /\ cache' = IF Kept(cache) THEN cache ELSE NoToken
    /\ granted' = NoToken
    /\ UNCHANGED <<pass, phone, watch, redeem, revoker, check, reap>>

-----------------------------------------------------------------------------
(* Rows and their meaning.                                                 *)

\* An invite is for one use; a standing token is not counted.
Exhausted(r) == r.kind = "invite" /\ r.uses >= 1

Revoked(r) == r.revokedAt # Never

Active(m) == ~ m.revoked /\ m.expires > time /\ ~ m.exhausted

MetaFromRow(r) ==
    [revoked |-> Revoked(r), expires |-> r.expires, exhausted |-> Exhausted(r)]

RowOfHash(h) ==
    IF h[1] \in Passes THEN pass[h[1]]
    ELSE IF phone[h[1]] # NoToken /\ phone[h[1]].serial = h[2] THEN phone[h[1]] ELSE NoToken

-----------------------------------------------------------------------------
(* GET /gate/check.                                                        *)

CheckHits ==
    /\ check = NoToken
    /\ cache # NoToken
    /\ granted' = IF Active(cache.meta) THEN watch ELSE NoToken
    /\ UNCHANGED <<pass, phone, watch, cache, redeem, revoker, check, reap, time>>

CheckReads ==
    /\ check = NoToken
    /\ RowOfHash(watch) # NoToken
    /\ check' = MetaFromRow(RowOfHash(watch))
    /\ granted' = NoToken
    /\ UNCHANGED <<pass, phone, watch, cache, redeem, revoker, reap, time>>

\* The entry is written, or Redis cannot be reached; then the decision, and
\* now and then the stamp of last_used_at.
CheckAnswers ==
    /\ check # NoToken
    /\ \/ cache' = [meta |-> check, until |-> time + CacheTTL]
       \/ UNCHANGED cache
    /\ granted' = IF Active(check) THEN watch ELSE NoToken
    /\ IF Active(check) /\ RowOfHash(watch) # NoToken
       THEN IF watch[1] \in Passes
            THEN /\ pass' \in {pass, [pass EXCEPT ![watch[1]].seen = time]}
                 /\ UNCHANGED phone
            ELSE /\ phone' \in {phone, [phone EXCEPT ![watch[1]].seen = time]}
                 /\ UNCHANGED pass
       ELSE UNCHANGED <<pass, phone>>
    /\ check' = NoToken
    /\ UNCHANGED <<watch, redeem, revoker, reap, time>>

-----------------------------------------------------------------------------
(* POST /gate/redeem.                                                      *)

\* Neither revoked nor expired; a spent invite is not refused here, so that a
\* device whose answer was lost may ask again.
RedeemReads(d, i) ==
    /\ redeem[d] = NoToken
    /\ pass[i] # NoToken
    /\ pass[i].kind = "invite"
    /\ ~ Revoked(pass[i])
    /\ pass[i].expires > time
    /\ redeem' = [redeem EXCEPT ![d] = [stage |-> "read", invite |-> i]]
    /\ granted' = NoToken
    /\ UNCHANGED <<pass, phone, watch, cache, revoker, check, reap, time>>

ConsumableRevoked(i) ==
    /\ pass[i] # NoToken
    /\ ~ Exhausted(pass[i])
    /\ pass[i].expires > time

\* The WHERE of the UPDATE that consumes one use.
Consumable(i) ==
    /\ pass[i] # NoToken
    /\ ~ Revoked(pass[i])
    /\ ~ Exhausted(pass[i])
    /\ pass[i].expires > time

\* The revocation under way holds the row until it commits.
Held(i) == revoker # NoToken /\ revoker.stage = "locked" /\ revoker.of = i

Committed(d, serial) == redeem' = [redeem EXCEPT ![d] = [stage |-> "committed", serial |-> serial]]

\* ON CONFLICT (device_id): the row this device has gets a new hash, and no
\* use is consumed; it keeps its parent and its revocation.
ReissueDevice(d) ==
    /\ redeem[d] # NoToken
    /\ redeem[d].stage = "read"
    /\ phone[d] # NoToken
    /\ phone[d].serial < MaxSerial
    /\ phone' = [phone EXCEPT ![d].serial = @ + 1, ![d].created = time]
    /\ Committed(d, phone[d].serial + 1)
    /\ granted' = NoToken
    /\ UNCHANGED <<pass, watch, cache, revoker, check, reap, time>>

\* A fresh row: it stands only if one use of the invite is consumed with it.
InsertDevice(d) ==
    /\ redeem[d] # NoToken
    /\ redeem[d].stage = "read"
    /\ phone[d] = NoToken
    /\ LET i == redeem[d].invite
       IN  /\ ~ Held(i)
           /\ IF Consumable(i)
              THEN /\ pass' = [pass EXCEPT ![i].uses = @ + 1]
                   /\ phone' = [phone EXCEPT ![d] =
                        [kind |-> "device", serial |-> 1, uses |-> 0, parent |-> i,
                         expires |-> Never, revokedAt |-> Never, created |-> time,
                         seen |-> time]]
                   /\ Committed(d, 1)
              ELSE /\ redeem' = [redeem EXCEPT ![d] = NoToken]
                   /\ UNCHANGED <<pass, phone>>
    /\ granted' = NoToken
    /\ UNCHANGED <<watch, cache, revoker, check, reap, time>>

\* After the commit the new token is cached as active.
RedeemCaches(d) ==
    /\ redeem[d] # NoToken
    /\ redeem[d].stage = "committed"
    /\ \/ /\ watch = <<d, redeem[d].serial>>
          /\ cache' = [meta |-> [revoked |-> FALSE, expires |-> Never, exhausted |-> FALSE],
                       until |-> time + CacheTTL]
       \/ UNCHANGED cache
    /\ redeem' = [redeem EXCEPT ![d] = NoToken]
    /\ granted' = NoToken
    /\ UNCHANGED <<pass, phone, watch, revoker, check, reap, time>>

-----------------------------------------------------------------------------
(* The operator.                                                           *)

CreateToken(p) ==
    /\ pass[p] = NoToken
    /\ time = 0
    /\ \E kind \in {"invite", "standing"}, expires \in {1, Never} :
         pass' = [pass EXCEPT ![p] = [kind |-> kind, uses |-> 0, expires |-> expires,
                                      revokedAt |-> Never, created |-> time, seen |-> time]]
    /\ granted' = NoToken
    /\ UNCHANGED <<phone, watch, cache, redeem, revoker, check, reap, time>>

Children(i) == {d \in Phones : phone[d] # NoToken /\ phone[d].parent = i}

\* Of a device token: the row, the commit, the eviction.
RevokePhone(d) ==
    /\ revoker = NoToken
    /\ phone[d] # NoToken
    /\ phone' = [phone EXCEPT ![d].revokedAt = IF Revoked(phone[d]) THEN @ ELSE time]
    /\ revoker' = [of |-> d, stage |-> "evict", hashes |-> {<<d, phone[d].serial>>}]
    /\ granted' = NoToken
    /\ UNCHANGED <<pass, watch, cache, redeem, check, reap, time>>

\* Of an invite: its row is held from the first UPDATE to the commit.
RevokeLocks(i) ==
    /\ revoker = NoToken
    /\ pass[i] # NoToken
    /\ revoker' = [of |-> i, stage |-> "locked",
                   hashes |-> {<<i, 0>>} \cup {<<d, phone[d].serial>> : d \in Children(i)}]
    /\ granted' = NoToken
    /\ UNCHANGED <<pass, phone, watch, cache, redeem, check, reap, time>>

RevokeCommits ==
    /\ revoker # NoToken
    /\ revoker.stage = "locked"
    /\ LET i == revoker.of
           At(r) == [r EXCEPT !.revokedAt = IF Revoked(r) THEN @ ELSE time]
       IN  /\ pass' = [pass EXCEPT ![i] = IF @ = NoToken THEN @ ELSE At(@)]
           /\ phone' = [d \in Phones |->
                IF pass[i] # NoToken /\ pass[i].kind = "invite" /\ d \in Children(i)
                THEN At(phone[d]) ELSE phone[d]]
    /\ revoker' = [revoker EXCEPT !.stage = "evict"]
    /\ granted' = NoToken
    /\ UNCHANGED <<watch, cache, redeem, check, reap, time>>

Evict ==
    /\ revoker # NoToken
    /\ revoker.stage = "evict"
    /\ \/ watch \in revoker.hashes /\ cache' = NoToken
       \/ UNCHANGED cache
    /\ revoker' = NoToken
    /\ granted' = NoToken
    /\ UNCHANGED <<pass, phone, watch, redeem, check, reap, time>>

-----------------------------------------------------------------------------
(* The sweep.                                                              *)

DeadToken(r) ==
    /\ Revoked(r) \/ (r.expires + TokenAge < time) \/ Exhausted(r)
    /\ r.seen + TokenAge < time

\* An invite with a live child is the handle that revokes the child.
Sweepable(x) ==
    IF x \in Passes
    THEN pass[x] # NoToken /\ DeadToken(pass[x]) /\ \A d \in Children(x) : Revoked(phone[d])
    ELSE phone[x] # NoToken /\ DeadToken(phone[x])

TokenSweepReads ==
    /\ reap = {}
    /\ reap' = {x \in Passes \cup Phones : Sweepable(x)}
    /\ reap' # {}
    /\ granted' = NoToken
    /\ UNCHANGED <<pass, phone, watch, cache, redeem, revoker, check, time>>

TokenSweepDeletes ==
    /\ reap # {}
    /\ ~ \E i \in reap : Held(i)
    /\ pass' = [p \in Passes |-> IF p \in reap THEN NoToken ELSE pass[p]]
    /\ phone' = [d \in Phones |-> IF d \in reap THEN NoToken ELSE phone[d]]
    /\ reap' = {}
    /\ granted' = NoToken
    /\ UNCHANGED <<watch, cache, redeem, revoker, check, time>>

GateNext ==
    \/ GateTick
    \/ CheckHits
    \/ CheckReads
    \/ CheckAnswers
    \/ \E d \in Phones, i \in Passes : RedeemReads(d, i)
    \/ \E d \in Phones : ReissueDevice(d) \/ InsertDevice(d) \/ RedeemCaches(d) \/ RevokePhone(d)
    \/ \E p \in Passes : CreateToken(p) \/ RevokeLocks(p)
    \/ RevokeCommits
    \/ Evict
    \/ TokenSweepReads
    \/ TokenSweepDeletes

GateSpec == GateInit /\ [][GateNext]_gateVars

-----------------------------------------------------------------------------
(* Properties.                                                             *)

\* A device row stands only behind an invite that was consumed for it: one
\* invite, one device, whatever exchanges overlap (gate.py gate_redeem,
\* "consume only if a NEW row was created").
OneDevicePerInvite ==
    \A i \in Passes : Cardinality(Children(i)) <= 1

\* Once an invite is revoked every device exchanged for it is, those whose
\* exchange was under way included (gate.py admin_revoke_token: 'else "revoke
\* Alice's invite" would leave Alice's redeemed device working').
RevokedWithChildren ==
    \A i \in Passes : (pass[i] # NoToken /\ Revoked(pass[i]))
        => \A d \in Children(i) : Revoked(phone[d])

\* The row that could revoke a working device is never swept away from under
\* it (credential_sweep.py: "is the revocation handle for that child and is
\* never swept"), whatever happened between the sweep's read and its delete.
HandleKept ==
    \A d \in Phones : (phone[d] # NoToken /\ ~ Revoked(phone[d]))
        => pass[phone[d].parent] # NoToken

\* A revocation takes hold within the life of a cache entry, although a check
\* may fill the cache with what it read before the revocation and after the
\* eviction (gate.py _CACHE_TTL: "bounds worst-case revoke latency").  A token
\* re-issued to a revoked device is cached as active once more.
RevokeTakesHold ==
    granted # NoToken =>
        LET r == RowOfHash(granted)
        IN  (r # NoToken /\ Revoked(r))
              => \/ time < r.revokedAt + CacheTTL
                 \/ r.kind = "device" /\ r.serial > 1 /\ r.created >= r.revokedAt

\* One invite is one device, revoked with its invite; the row that could revoke
\* a working device is never swept; and a revocation takes hold within the life
\* of a cache entry (gate.py gate_redeem, admin_revoke_token, gate_check,
\* credential_sweep.py).
PassesAccounted ==
    OneDevicePerInvite /\ RevokedWithChildren /\ HandleKept /\ RevokeTakesHold
=============================================================================
