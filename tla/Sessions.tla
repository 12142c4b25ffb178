------------------------------ MODULE Sessions ------------------------------
(***************************************************************************)
(* What makes a session token still good: the epoch of the number, the     *)
(* suspension of the account and the denylist of disconnected installs.    *)
(* core/security.py, core/single_flight.py (RedisMirror), routers/         *)
(* devices.py and the minting routes of routers/auth.py, for one account.  *)
(*                                                                         *)
(* The epoch row and users.is_suspended live in Postgres; every request is *)
(* judged on their Redis mirrors.  A column is its version: the epoch      *)
(* itself, and for is_suspended the number of bans and unbans, odd when    *)
(* the account is banned.                                                  *)
(***************************************************************************)
EXTENDS Naturals, FiniteSets

CONSTANTS
  Workers, Phones, Browsers,
  Mixes,        \* the columns a behaviour changes and whose markers lapse, one set each
  MaxVersion, MaxDevices, MaxFaults, None

ASSUME SessionsAssumption ==
  /\ MaxVersion \in Nat /\ MaxDevices \in Nat /\ MaxFaults \in Nat
  /\ Phones \cap Browsers = {} /\ None \notin Nat

Kinds == {"epoch", "suspended"}
Devices == Phones \cup Browsers
VARIABLES
  mix,      \* the columns that change and whose markers lapse
  table,    \* the committed version of each column
  copy,     \* what the Redis mirror holds
  marker, built, lock,  \* the three keys beside each mirror
  build,    \* a rebuild between its read and its write: the version read, and whether it has the lock
  through,  \* versions committed whose write-through is still to come, and the caller waiting
  tok,      \* the token an install holds: its epoch, and whether it names the install
  linked,   \* dev:{bucket}, the registry of linked browsers, with the order they came in
  pending,  \* registry rows whose token has not been used
  step,     \* registry calls between their read and their write
  revoked,  \* devrv:{bucket}, the denylist
  faults

mirrors == <<table, copy, marker, built, lock, build, through>>
installs == <<tok, linked, pending, step, revoked>>
vars == <<mix, mirrors, installs, faults>>

Init ==
  /\ mix \in Mixes
  /\ table = [k \in Kinds |-> 0] /\ copy = table
  /\ marker = [k \in Kinds |-> TRUE] /\ built = marker /\ lock = [k \in Kinds |-> FALSE]
  /\ build = [w \in Workers |-> [k \in Kinds |-> None]] /\ through = {}
  /\ tok = [d \in Devices |-> IF d \in Phones THEN [ep |-> 0, named |-> FALSE] ELSE None]
  /\ linked = [d \in Browsers |-> 0] /\ pending = {} /\ step = {} /\ revoked = {}
  /\ faults = 0

Fault == faults < MaxFaults /\ faults' = faults + 1

------------------------------------------------------------------------------
(* The mirror.  ensure: a live marker or a mirror built before answers as  *)
(* is; without either the request rebuilds first.                          *)
Answers(k) == marker[k] \/ built[k]

\* The marker's TTL runs out.
LapseNever(k) == FALSE /\ UNCHANGED vars
Lapse(k) ==
  /\ k \in mix /\ marker[k] /\ marker' = [marker EXCEPT ![k] = FALSE]
  /\ UNCHANGED <<mix, table, copy, built, lock, build, through, installs, faults>>

\* A request on the worker finds the marker gone.  kick and _background: one task a worker, and the
\* lock for one worker an island; a worker that does not get it does nothing.
Kick(w, k) ==
  /\ ~marker[k] /\ built[k] /\ build[w][k] = None /\ ~lock[k]
  /\ lock' = [lock EXCEPT ![k] = TRUE]
  /\ build' = [build EXCEPT ![w][k] = [v |-> table[k], held |-> TRUE]]
  /\ UNCHANGED <<mix, table, copy, marker, built, through, installs, faults>>

\* Nothing to answer from: rebuilt inline, without the lock (also prime).
Inline(w, k) ==
  /\ ~Answers(k) /\ build[w][k] = None
  /\ build' = [build EXCEPT ![w][k] = [v |-> table[k], held |-> FALSE]]
  /\ UNCHANGED <<mix, table, copy, marker, built, lock, through, installs, faults>>

Freed(w, k) ==
  /\ lock' = [lock EXCEPT ![k] = @ /\ ~build[w][k].held]
  /\ build' = [build EXCEPT ![w][k] = None]

\* _load_epochs, _load_suspended: one pipeline replaces the mirror by the rows read, arms the marker
\* and sets built; then the lock goes.
Write(w, k) ==
  /\ copy' = [copy EXCEPT ![k] = build[w][k].v]
  /\ marker' = [marker EXCEPT ![k] = TRUE] /\ built' = [built EXCEPT ![k] = TRUE]

Rebuilt(w, k) ==
  /\ build[w][k] # None /\ Write(w, k) /\ Freed(w, k)
  /\ UNCHANGED <<mix, table, through, installs, faults>>

\* The rebuild raises; the lock is deleted in the finally.
RebuildFails(w, k) ==
  /\ build[w][k] # None /\ Fault /\ Freed(w, k)
  /\ UNCHANGED <<mix, table, copy, marker, built, through, installs>>

\* The worker dies with the lock in its hand.
WorkerDies(w) ==
  /\ \E k \in Kinds : build[w][k] # None
  /\ Fault /\ build' = [build EXCEPT ![w] = [k \in Kinds |-> None]]
  /\ UNCHANGED <<mix, table, copy, marker, built, lock, through, installs>>

\* The lock's TTL runs out, with its holder gone or still reading.
LockExpires(k) ==
  /\ lock[k] /\ lock' = [lock EXCEPT ![k] = FALSE]
  /\ \/ \E w \in Workers : build[w][k] # None /\ build[w][k].held /\ Fault
     \/ (\A w \in Workers : build[w][k] # None => ~build[w][k].held) /\ UNCHANGED faults
  /\ UNCHANGED <<mix, table, copy, marker, built, build, through, installs>>

\* Redis loses its data.
Flush ==
  /\ Fault
  /\ copy' = [k \in Kinds |-> 0] /\ marker' = [k \in Kinds |-> FALSE] /\ built' = marker' /\ lock' = marker'
  /\ linked' = [d \in Browsers |-> 0] /\ pending' = {} /\ revoked' = {}
  /\ UNCHANGED <<mix, table, build, through, tok, step>>

------------------------------------------------------------------------------
(* Judging and minting.  authorize_session: the denylist for a token that  *)
(* names its install, then the epoch, then the suspension.                 *)
Banned(v) == v % 2 = 1
Authorized(d) ==
  /\ tok[d] # None /\ \A k \in Kinds : Answers(k)
  /\ tok[d].named => d \notin revoked
  /\ tok[d].ep = copy["epoch"] /\ ~Banned(copy["suspended"])

\* issue_token with the epoch the mirror answers.
Minted(d, named) == tok' = [tok EXCEPT ![d] = [ep |-> copy["epoch"], named |-> named]]

\* refresh and recover: the key is proven, the denylist asked, the epoch read.  Asked when the token
\* an install has is refused, and at every start.
MintOnce(d) ==
  /\ d \in Phones /\ d \notin revoked /\ tok[d].ep = 0 /\ Answers("epoch") /\ Minted(d, TRUE)
  /\ UNCHANGED <<mix, mirrors, linked, pending, step, revoked, faults>>
MintAnyone(d) ==
  /\ d \in Phones /\ Answers("epoch") /\ Minted(d, TRUE)
  /\ UNCHANGED <<mix, mirrors, linked, pending, step, revoked, faults>>
Mint(d) ==
  /\ d \in Phones /\ d \notin revoked /\ Answers("epoch") /\ Minted(d, TRUE)
  /\ UNCHANGED <<mix, mirrors, linked, pending, step, revoked, faults>>

\* claim_device, and session under the name the token has: a listed browser keeps its id.
Claim(d) ==
  /\ Authorized(d) /\ d \notin revoked /\ d \in Phones /\ Minted(d, TRUE)
  /\ UNCHANGED <<mix, mirrors, linked, pending, step, revoked, faults>>

------------------------------------------------------------------------------
(* Changes.  The row commits first; the write-through is the caller's next *)
(* step and may be lost, and a signed key change answers with a token      *)
(* under the epoch it made.                                                *)
Change(k, d) ==
  /\ k \in mix /\ table[k] < MaxVersion /\ table' = [table EXCEPT ![k] = @ + 1]
  /\ through' = through \cup {[k |-> k, v |-> table[k] + 1, d |-> d]}
  /\ UNCHANGED <<mix, copy, marker, built, lock, build, installs, faults>>

Reissue(d) == d \in Phones /\ Authorized(d) /\ Change("epoch", d)
SetBan == Change("suspended", None)

\* cache_uin_epoch and mark_suspended set the mirror to what was committed.
Cache(t) == copy' = [copy EXCEPT ![t.k] = t.v]

Through(t) ==
  /\ t \in through /\ through' = through \ {t}
  /\ tok' = IF t.d = None THEN tok ELSE [tok EXCEPT ![t.d] = [ep |-> t.v, named |-> @.named]]
  /\ \/ Cache(t) /\ UNCHANGED faults
     \/ Fault /\ UNCHANGED copy
  /\ UNCHANGED <<mix, table, marker, built, lock, build, linked, pending, step, revoked>>

------------------------------------------------------------------------------
(* Linked browsers.                                                        *)
Listed == {d \in Browsers : linked[d] # 0}
Youngest == CHOOSE n \in 0 .. Cardinality(Browsers) :
  (\A d \in Browsers : linked[d] <= n) /\ (n = 0 \/ \E d \in Browsers : linked[d] = n)

\* link_device: the cap is read, then a fresh id gets a row that is pending and a token of its own.
LinkRead(e, d) ==
  /\ "devices" \in mix /\ Authorized(e) /\ Cardinality(Listed) < MaxDevices
  /\ d \in Browsers \ (Listed \cup revoked) /\ tok[d] = None
  /\ step' = step \cup {<<"link", d, 0>>}
  /\ UNCHANGED <<mix, mirrors, tok, linked, pending, revoked, faults>>
LinkWrite(d) ==
  /\ <<"link", d, 0>> \in step /\ step' = step \ {<<"link", d, 0>>}
  /\ linked' = [linked EXCEPT ![d] = Youngest + 1] /\ pending' = pending \cup {d} /\ Minted(d, TRUE)
  /\ UNCHANGED <<mix, mirrors, revoked, faults>>

\* mark_device_seen, at the first socket or drain of a linked token: the row read, then written back
\* without the flag.
SeenRead(d) ==
  /\ d \in pending /\ Authorized(d) /\ step' = step \cup {<<"seen", d, linked[d]>>}
  /\ UNCHANGED <<mix, mirrors, tok, linked, pending, revoked, faults>>
SeenWrite(d, n) ==
  /\ <<"seen", d, n>> \in step /\ step' = step \ {<<"seen", d, n>>}
  /\ linked' = [linked EXCEPT ![d] = n] /\ pending' = pending \ {d}
  /\ UNCHANGED <<mix, mirrors, tok, revoked, faults>>

\* list_devices reads the rows and drops one that stayed pending for _PENDING_TTL_SECONDS.
ListRead(d) ==
  /\ d \in pending /\ step' = step \cup {<<"list", d, 0>>}
  /\ UNCHANGED <<mix, mirrors, tok, linked, pending, revoked, faults>>
ListDrops(d) == pending' = pending \ {d} /\ linked' = [linked EXCEPT ![d] = 0]
ListWrite(d) ==
  /\ <<"list", d, 0>> \in step /\ step' = step \ {<<"list", d, 0>>} /\ ListDrops(d)
  /\ UNCHANGED <<mix, mirrors, tok, revoked, faults>>

\* revoker_gate, for a session whose cooldown has not passed; one that is not listed is free.
MayRevoke(e, d) == e \in Listed => d \in Listed /\ linked[e] <= linked[d]

\* _revoke, from another session or from the browser itself: off the list, onto the denylist.
Revoke(e, d) ==
  /\ Authorized(e) /\ (e = d => d \in Listed) /\ (e # d => MayRevoke(e, d))
  /\ linked' = IF d \in Browsers THEN [linked EXCEPT ![d] = 0] ELSE linked
  /\ pending' = pending \ {d} /\ revoked' = revoked \cup {d} /\ "devices" \in mix
  /\ UNCHANGED <<mix, mirrors, tok, step, faults>>

------------------------------------------------------------------------------
Next ==
  \/ \E k \in Kinds : Lapse(k) \/ LockExpires(k)
  \/ \E w \in Workers, k \in Kinds : Kick(w, k) \/ Inline(w, k) \/ Rebuilt(w, k) \/ RebuildFails(w, k)
  \/ \E w \in Workers : WorkerDies(w)
  \/ Flush \/ SetBan
  \/ \E t \in through : Through(t)
  \/ \E d \in Devices : Mint(d) \/ Claim(d) \/ Reissue(d) \/ SeenRead(d) \/ ListRead(d)
  \/ \E s \in step : LinkWrite(s[2]) \/ SeenWrite(s[2], s[3]) \/ ListWrite(s[2])
  \/ \E e, d \in Devices : LinkRead(e, d) \/ Revoke(e, d)

\* Workers keep serving requests, so a lapsed marker is met and a rebuild ends; a lapse and the
\* expiry of an orphaned lock are clocks; a request that committed goes on; a refused install asks, and the owner
\* opens the device list.
Fairness ==
  /\ \A k \in Kinds : WF_vars(Lapse(k)) /\ WF_vars(LockExpires(k))
  /\ \A k \in Kinds : WF_vars(\E w \in Workers : Kick(w, k) \/ Inline(w, k))
  /\ \A w \in Workers, k \in Kinds : WF_vars(Rebuilt(w, k))
  /\ WF_vars(\E t \in through : Through(t))
  /\ \A d \in Phones : WF_vars(~Authorized(d) /\ Mint(d))
  /\ \A d \in Browsers : WF_vars(ListRead(d)) /\ WF_vars(ListWrite(d))
Spec == Init /\ [][Next]_vars /\ Fairness

------------------------------------------------------------------------------
(* Properties *)
Seen(k) == IF Answers(k) THEN copy[k] ELSE table[k]
EpochGate == INSTANCE MirrorGate WITH truth <- table["epoch"], seen <- Seen("epoch")
SuspendedGate == INSTANCE MirrorGate WITH truth <- table["suspended"], seen <- Seen("suspended")

\* The mirrors of the epochs and of the suspended set implement MirrorGate: a request is judged on a
\* version that was committed, whatever rebuilds, lost write-throughs, dead workers and flushes do, and
\* the answers catch up (uin_epoch, cache_uin_epoch, _load_epochs; is_suspended, mark_suspended,
\* _load_suspended).
Mirrored == EpochGate!Spec /\ SuspendedGate!Spec

\* An install is not locked out: one that is not disconnected and keeps proving its key ends with a
\* token of the current epoch, although a token may be minted from a mirror that is behind (refresh).
NotLockedOut == \A d \in Phones : <>[](d \in revoked \/ tok[d].ep = table["epoch"])

\* A disconnected install is given no new session by any route that mints one, except the answer to
\* a key change that was already committed (device_is_revoked; report #607).
NoNewSession ==
  [][\A d \in Devices : (d \in revoked /\ d \in revoked' /\ tok'[d] # tok[d]) =>
       \/ \E t \in through : t.d = d
       \/ <<"link", d, 0>> \in step]_vars
=============================================================================
