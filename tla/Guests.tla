------------------------------- MODULE Guests -------------------------------
(***************************************************************************)
(* Guest copies on a paid island that admits guests, for one signing key:  *)
(* how a row is minted, claimed, settled and swept, and the Redis set that *)
(* answers is_guest.  core/guest_policy.py, services/guest_accounts.py,    *)
(* services/guest_sweep.py, and the routes of auth.py, groups.py,          *)
(* residency.py and admin.py that create, convert or delete such a row.    *)
(*                                                                         *)
(* A row is its guest_status ("native" for NULL), whether resident_since   *)
(* is set, and whether the sweep's clock has run out on it.  allocate_uin  *)
(* gives a number nobody has had (a random one of nine digits).  The       *)
(* pending marks (GUEST_PENDING_TTL_SECONDS) and the create lock outlive   *)
(* any request and any rebuild, and Redis keeps its data.                  *)
(***************************************************************************)
EXTENDS Naturals, FiniteSets

CONSTANTS
  Uins, Reqs, Vouchers,
  Asks,         \* the requests a behaviour may make, one set each
  MaxUses,      \* Invite.max_uses of the one invite
  MaxOps, MaxFaults, None

ASSUME GuestsAssumption ==
  /\ Uins \subseteq Nat /\ MaxUses \in Nat /\ MaxOps \in Nat /\ MaxFaults \in Nat
  /\ None \notin Nat \cup Vouchers \cup Reqs /\ "invite" \notin Vouchers
  /\ None \notin [st : {"native", "added", "proven"}, res : BOOLEAN, old : BOOLEAN]

Credentials == Vouchers \cup {"invite"}

VARIABLES
  asks,     \* the requests of this behaviour
  users,    \* the row of a number, or None
  used,     \* numbers handed out
  gset, pend, marker,  \* guest_uins, guest_uins:pending, guest_uins:loaded
  build,    \* the rows a rebuild has read, or None
  lock,     \* gmk:<key>, the create lock: the request that holds it
  req,      \* a request between two of its steps
  unmark,   \* numbers whose unmark_guest is still to come
  spent,    \* spent_vouchers, each with the row it paid for
  uses,     \* Invite.used_count
  cand,     \* what this cycle of the sweep has still to purge
  ops, faults

mirror == <<gset, pend, marker, build>>
till == <<spent, uses>>
vars == <<asks, users, used, mirror, lock, req, unmark, till, cand, ops, faults>>

Guest(u) == users[u] # None /\ users[u].st # "native"
Row(st, res) == [st |-> st, res |-> res, old |-> FALSE]

Init ==
  /\ asks \in Asks
  /\ users = [u \in Uins |-> None] /\ used = {}
  /\ gset = {} /\ pend = {} /\ marker = TRUE /\ build = None
  /\ lock = None /\ req = [r \in Reqs |-> None] /\ unmark = {}
  /\ spent = [v \in Vouchers |-> None] /\ uses = 0 /\ cand = {} /\ ops = 0 /\ faults = 0

Fault == faults < MaxFaults /\ faults' = faults + 1
Ask(r, do) == req[r] = None /\ do \in asks /\ ops < MaxOps /\ ops' = ops + 1
Set(r, q) == req' = [req EXCEPT ![r] = q]
Done(r) == Set(r, None)
At(r, do, step) == req[r] # None /\ req[r].do \in do /\ req[r].step = step

\* row_for_key: the first claim among the rows of the key.  Numbers are handed out in order.
Claims == {u \in Uins : users[u] # None}
First(us) == CHOOSE u \in us : \A v \in us : u <= v
Fresh == First(Uins \ used)

------------------------------------------------------------------------------
(* The set.  mark_guest writes it and the pending marks in one MULTI;      *)
(* unmark_guest takes a number out of both.                                *)
Mark(u) == gset' = gset \cup {u} /\ pend' = pend \cup {u}

Unmark(u) ==
  /\ u \in unmark /\ unmark' = unmark \ {u}
  /\ gset' = gset \ {u} /\ pend' = pend \ {u}
  /\ UNCHANGED <<asks, users, used, marker, build, lock, req, till, cand, ops, faults>>

\* The removal cannot be written; the marker is dropped instead, or that is lost as well.
UnmarkLost(u) ==
  /\ u \in unmark /\ unmark' = unmark \ {u} /\ Fault
  /\ marker' \in {marker, FALSE}
  /\ UNCHANGED <<asks, users, used, gset, pend, build, lock, req, till, cand, ops>>

\* The pending marks expire: no request is between its mark and its commit, no rebuild is under way.
PendingExpires ==
  /\ pend # {} /\ build = None /\ \A r \in Reqs : ~At(r, {"join", "add"}, "marked")
  /\ pend' = {}
  /\ UNCHANGED <<asks, users, used, gset, marker, build, lock, req, unmark, till, cand, ops, faults>>

LapseNever == FALSE /\ UNCHANGED vars
Lapse ==
  /\ marker /\ marker' = FALSE
  /\ UNCHANGED <<asks, users, used, gset, pend, build, lock, req, unmark, till, cand, ops, faults>>

\* A request finds the marker gone: one background rebuild reads the guest rows ...
Rebuild ==
  /\ ~marker /\ build = None /\ build' = {u \in Uins : Guest(u)}
  /\ UNCHANGED <<asks, users, used, gset, pend, marker, lock, req, unmark, till, cand, ops, faults>>

\* ... and SUNIONSTORE replaces the set by what it read and the pending marks of that moment.
Stored == build \cup pend
RebuiltTable ==
  /\ build # None /\ gset' = build /\ marker' = TRUE /\ build' = None
  /\ UNCHANGED <<asks, users, used, pend, lock, req, unmark, till, cand, ops, faults>>
Rebuilt ==
  /\ build # None /\ gset' = Stored /\ marker' = TRUE /\ build' = None
  /\ UNCHANGED <<asks, users, used, pend, lock, req, unmark, till, cand, ops, faults>>

RebuildFails ==
  /\ build # None /\ Fault /\ build' = None
  /\ UNCHANGED <<asks, users, used, gset, pend, marker, lock, req, unmark, till, cand, ops>>

------------------------------------------------------------------------------
(* POST /auth/guest ("join", the key is proven) and POST /groups/{id}/     *)
(* guests ("add", by a member).  Both resolve the key, take the create     *)
(* lock, resolve it again and mint under it.                               *)
Found(r, do, u) ==
  IF do = "add" THEN Done(r)
  ELSE IF users[u].st = "added" THEN Set(r, [do |-> do, step |-> "seat", u |-> u]) ELSE Done(r)

Resolve(r, do) ==
  /\ do \in {"join", "add"} /\ Ask(r, do)
  /\ IF Claims # {} THEN Found(r, do, First(Claims)) ELSE Set(r, [do |-> do, step |-> "mint"])
  /\ UNCHANGED <<asks, users, used, mirror, lock, unmark, till, cand, faults>>

\* acquire_create_lock: 409 guest_busy when another request has it.
Refused(r) ==
  /\ At(r, {"join", "add"}, "mint") /\ lock # None /\ Done(r)
  /\ UNCHANGED <<asks, users, used, mirror, lock, unmark, till, cand, ops, faults>>

\* Under the lock: somebody minted the row meanwhile, or the row is inserted and marked.
MintRow(r) ==
  /\ Uins \ used # {} /\ used' = used \cup {Fresh} /\ Mark(Fresh) /\ lock' = r
  /\ Set(r, [do |-> req[r].do, step |-> "marked", u |-> Fresh])
LockUnresolved(r) ==
  /\ At(r, {"join", "add"}, "mint") /\ lock = None
  /\ MintRow(r)
  /\ UNCHANGED <<asks, users, marker, build, unmark, till, cand, ops, faults>>
Lock(r) ==
  /\ At(r, {"join", "add"}, "mint") /\ lock = None
  /\ \/ Claims # {} /\ Found(r, req[r].do, First(Claims)) /\ UNCHANGED <<used, gset, pend, lock>>
     \/ Claims = {} /\ MintRow(r)
  /\ UNCHANGED <<asks, users, marker, build, unmark, till, cand, ops, faults>>

\* The guest row and its membership commit together.
Commit(r) ==
  /\ At(r, {"join", "add"}, "marked")
  /\ users' = [users EXCEPT ![req[r].u] = Row(IF req[r].do = "add" THEN "added" ELSE "proven", FALSE)]
  /\ lock' = None /\ Done(r)
  /\ UNCHANGED <<asks, used, mirror, unmark, till, cand, ops, faults>>

\* The commit fails: rolled back, then unmarked.
CommitFails(r) ==
  /\ At(r, {"join", "add"}, "marked") /\ Fault
  /\ unmark' = unmark \cup {req[r].u} /\ lock' = None /\ Done(r)
  /\ UNCHANGED <<asks, users, used, mirror, till, cand, ops>>

\* _guest_existing_row on a seat: marked, then claim_seat's conditional UPDATE.
MarkSeat(r) ==
  /\ At(r, {"join"}, "seat") /\ Mark(req[r].u)
  /\ Set(r, [req[r] EXCEPT !.step = "claim"])
  /\ UNCHANGED <<asks, users, used, marker, build, lock, unmark, till, cand, ops, faults>>

ClaimSeat(u) ==
  users' = IF users[u] # None /\ users[u].st = "added" THEN [users EXCEPT ![u] = Row("proven", @.res)] ELSE users

Claim(r) ==
  /\ At(r, {"join"}, "claim") /\ ClaimSeat(req[r].u) /\ Done(r)
  /\ UNCHANGED <<asks, used, mirror, lock, unmark, till, cand, ops, faults>>

\* _claim_seat_on_proof, from recover and refresh: no mark.
ClaimOnProof ==
  /\ "recover" \in asks /\ ops < MaxOps /\ ops' = ops + 1
  /\ Claims # {} /\ ClaimSeat(First(Claims))
  /\ UNCHANGED <<asks, used, mirror, lock, req, unmark, till, cand, faults>>

\* touch_poll: a claimed copy that polls.
TouchPoll(u) ==
  /\ Guest(u) /\ u \in gset /\ users[u].st = "proven" /\ users[u].old /\ ops < MaxOps
  /\ ops' = ops + 1 /\ users' = [users EXCEPT ![u].old = FALSE]
  /\ UNCHANGED <<asks, used, mirror, lock, req, unmark, till, cand, faults>>

------------------------------------------------------------------------------
(* Becoming native.  A request takes its credential inside its transaction *)
(* (the nonce's INSERT or the invite's UPDATE make others wait), and       *)
(* commits it with the row it read before.                                 *)
Holding == {req[r].pay : r \in {x \in Reqs : req[x] # None /\ req[x].step = "paid"}}
Taken(pay) ==
  /\ pay \notin Holding
  /\ IF pay = "invite" THEN uses < MaxUses ELSE spent[pay] = None

Pays(r, do, u, pay) == Set(r, [do |-> do, step |-> "paid", u |-> u, pay |-> pay, guest |-> u # None /\ Guest(u)])

\* guest_settle needs a token, which a seat has not; redeem also serves a native account.
SettleRead(r, u, pay) ==
  /\ Ask(r, "settle") /\ Guest(u) /\ users[u].st = "proven" /\ Taken(pay) /\ Pays(r, "settle", u, pay)
  /\ UNCHANGED <<asks, users, used, mirror, lock, unmark, till, cand, faults>>

RedeemRead(r, u, pay) ==
  /\ Ask(r, "redeem") /\ pay \in Vouchers /\ Taken(pay)
  /\ users[u] # None /\ users[u].st # "added" /\ ~users[u].res /\ Pays(r, "redeem", u, pay)
  /\ UNCHANGED <<asks, users, used, mirror, lock, unmark, till, cand, faults>>

\* settle_user and set_user_badge, from the console: no credential.
OperatorRead(r, u) ==
  /\ Ask(r, "operator") /\ Guest(u) /\ Pays(r, "operator", u, None)
  /\ UNCHANGED <<asks, users, used, mirror, lock, unmark, till, cand, faults>>

\* register with the key proven: the credential first, then the guest row of the key, if it has one.
RegisterRead(r, pay) ==
  /\ Ask(r, "register") /\ Taken(pay)
  /\ LET copies == {u \in Claims : Guest(u)} IN
     Pays(r, "register", IF copies = {} THEN None ELSE First(copies), pay)
  /\ UNCHANGED <<asks, users, used, mirror, lock, unmark, till, cand, faults>>

Spend(pay, u) ==
  /\ spent' = IF pay \in Vouchers THEN [spent EXCEPT ![pay] = u] ELSE spent
  /\ uses' = IF pay = "invite" THEN uses + 1 ELSE uses

\* The conversion and the credential commit together; on a row that is gone the UPDATE matches
\* nothing and all of it rolls back.  after_conversion unmarks a row that was a guest when read.
Convert(r) ==
  /\ req[r] # None /\ req[r].step = "paid" /\ req[r].u # None /\ Done(r)
  /\ LET u == req[r].u  pay == req[r].pay IN
     IF users[u] = None THEN UNCHANGED <<users, unmark, till>>
     ELSE /\ users' = [users EXCEPT ![u] = Row("native", @.res \/ pay \in Vouchers)]
          /\ Spend(pay, u) /\ unmark' = IF req[r].guest THEN unmark \cup {u} ELSE unmark
  /\ UNCHANGED <<asks, used, mirror, lock, cand, ops, faults>>

\* register found no guest row: a row of its own.
Register(r) ==
  /\ req[r] # None /\ req[r].step = "paid" /\ req[r].u = None /\ Done(r)
  /\ Uins \ used # {} /\ used' = used \cup {Fresh}
  /\ users' = [users EXCEPT ![Fresh] = Row("native", req[r].pay \in Vouchers)]
  /\ Spend(req[r].pay, Fresh)
  /\ UNCHANGED <<asks, mirror, lock, unmark, cand, ops, faults>>

------------------------------------------------------------------------------
(* The sweep.  A seat or a copy grows old; a cycle reads its candidates    *)
(* with their kind and purges them one by one, each row read again under   *)
(* FOR UPDATE.                                                             *)
Age(u) ==
  /\ Guest(u) /\ ~users[u].old /\ users' = [users EXCEPT ![u].old = TRUE]
  /\ UNCHANGED <<asks, used, mirror, lock, req, unmark, till, cand, ops, faults>>

Eligible(u, kind) == Guest(u) /\ users[u].st = kind /\ users[u].old

Find ==
  /\ cand = {} /\ cand' = {c \in [u : Uins, kind : {"added", "proven"}] : Eligible(c.u, c.kind)} /\ cand' # {}
  /\ UNCHANGED <<asks, users, used, mirror, lock, req, unmark, till, ops, faults>>

\* purge_account, and the unmark after its commit.
Purge(u) == users' = [users EXCEPT ![u] = None] /\ unmark' = unmark \cup {u}

SweepStale(c) ==
  /\ c \in cand /\ cand' = cand \ {c}
  /\ IF users[c.u] # None THEN Purge(c.u) ELSE UNCHANGED <<users, unmark>>
  /\ UNCHANGED <<asks, used, mirror, lock, req, till, ops, faults>>
Sweep(c) ==
  /\ c \in cand /\ cand' = cand \ {c}
  /\ IF Eligible(c.u, c.kind) THEN Purge(c.u) ELSE UNCHANGED <<users, unmark>>
  /\ UNCHANGED <<asks, used, mirror, lock, req, till, ops, faults>>

\* delete_guest_copy, from the console, with the row locked.
DeleteCopy(u) ==
  /\ "operator" \in asks /\ Guest(u) /\ ops < MaxOps /\ ops' = ops + 1 /\ Purge(u)
  /\ UNCHANGED <<asks, used, mirror, lock, req, till, cand, faults>>

Next ==
  \/ \E u \in Uins : \/ Unmark(u) \/ UnmarkLost(u) \/ TouchPoll(u) \/ Age(u) \/ DeleteCopy(u)
  \/ PendingExpires \/ Lapse \/ Rebuild \/ Rebuilt \/ RebuildFails
  \/ \E r \in Reqs, do \in {"join", "add"} : Resolve(r, do)
  \/ \E r \in Reqs : \/ Refused(r) \/ Lock(r) \/ Commit(r) \/ CommitFails(r) \/ MarkSeat(r) \/ Claim(r)
                     \/ Convert(r) \/ Register(r)
  \/ ClaimOnProof
  \/ \E r \in Reqs, u \in Uins, pay \in Credentials : SettleRead(r, u, pay) \/ RedeemRead(r, u, pay)
  \/ \E r \in Reqs, u \in Uins : OperatorRead(r, u)
  \/ \E r \in Reqs, pay \in Credentials : RegisterRead(r, pay)
  \/ Find \/ \E c \in cand : Sweep(c)

\* Time passes, the TTLs run out, and what runs by itself runs again: the rebuild behind a request,
\* the unmark after a commit, the sweep's cycle.
Fairness ==
  /\ SF_vars(PendingExpires) /\ WF_vars(Lapse) /\ WF_vars(Rebuild) /\ WF_vars(Rebuilt)
  /\ \A u \in Uins : WF_vars(Unmark(u)) /\ WF_vars(Age(u))
  /\ WF_vars(Find) /\ WF_vars(\E c \in cand : Sweep(c))
  /\ \A r \in Reqs : WF_vars(Refused(r)) /\ WF_vars(Lock(r)) /\ WF_vars(Commit(r))
                     /\ WF_vars(MarkSeat(r)) /\ WF_vars(Claim(r)) /\ WF_vars(Convert(r)) /\ WF_vars(Register(r))

Spec == Init /\ [][Next]_vars /\ Fairness

------------------------------------------------------------------------------
\* is_guest never answers "native" for a guest: whatever a rebuild, a failed commit or a late unmark
\* does to the set, every committed guest row is in it.
GuestKnown == \A u \in Uins : Guest(u) => u \in gset

\* Two proofs, two adds, or one of each for a key nobody holds here end in one guest row.
OneGuestRow == \A u, v \in Uins : Guest(u) /\ Guest(v) => u = v

\* A voucher that was spent bought something that stays: its row is there and resident, however the
\* sweep, the operator's delete and other conversions interleave with the payment.
PaidKept == \A v \in Vouchers : spent[v] # None => users[spent[v]] # None /\ users[spent[v]].res /\ ~Guest(spent[v])

\* A row that became native does not stay restricted: the set lets go of it, even when its unmark was
\* lost or a rebuild had read it as a guest.
NativeFreed == \A u \in Uins : []<>(users[u] # None /\ ~Guest(u) => u \notin gset)
=============================================================================
