------------------------------ MODULE Identity ------------------------------
(***************************************************************************)
(* Who a key is on this island: the signing key of a users row, the        *)
(* retired_signing_keys marker a rotation leaves, and the answers an       *)
(* install gets when it proves the key it holds.  An install told          *)
(* identity_not_found erases its copy of the account; the other answers    *)
(* leave it alone.  routers/auth.py (register, recover, refresh, reissue), *)
(* routers/migrate.py, services/account_delete.py, key_owner.py and        *)
(* retired_key_sweep.py.                                                   *)
(*                                                                         *)
(* A row carries, beside its columns, the account it is (kept through      *)
(* every move), and the keys that account has had: no handler reads them.  *)
(* A request is one step, or two where it reads before it writes; with     *)
(* Overlap FALSE no request runs between the two.                          *)
(***************************************************************************)
EXTENDS Naturals, FiniteSets

CONSTANTS Uins, Keys, Devices, Accounts, Starts, MaxOps, Overlap, None

ASSUME IdentityAssumption ==
  /\ Uins \subseteq Nat /\ Accounts \subseteq Nat /\ MaxOps \in Nat /\ Overlap \in BOOLEAN
  /\ None \notin Uins \cup Keys

VARIABLES
  users,    \* the users row of a number: its key, first claim, account and the account's keys
  retired,  \* the number a retired key's marker names
  swept,    \* keys whose marker has aged out
  phone,    \* what an install holds: a number, a key and the account they opened, or nothing
  bearer,   \* the installs whose token still authorises
  job,      \* a request between its reads and its commit
  ops       \* requests so far that change something

vars == <<users, retired, swept, phone, bearer, job, ops>>

\* A start names the first rows and the installs on them.
Init ==
  /\ \E s \in Starts : users = s.users /\ phone = s.phone
  /\ retired = [k \in Keys |-> None] /\ swept = {}
  /\ bearer = {d \in Devices : phone[d] # None}
  /\ job = [d \in Devices |-> None] /\ ops = 0

There(u) == users[u] # None
Carry(k) == {u \in Uins : There(u) /\ users[u].key = k}
Alone == Overlap \/ \A d \in Devices : job[d] = None
Ready(d) == phone[d] # None /\ job[d] = None /\ Alone
Op == ops < MaxOps /\ ops' = ops + 1
\* current_uin: the number of an install whose bearer is good.
Calls(d) == Ready(d) /\ d \in bearer /\ There(phone[d].at)
\* A key nobody has used: rotations and registrations draw random ones.
Unused(k) ==
  /\ retired[k] = None /\ k \notin swept
  /\ \A u \in Uins : There(u) => k \notin users[u].past
  /\ \A d \in Devices : (phone[d] # None => phone[d].key # k) /\ (job[d] # None => job[d].to # k)

------------------------------------------------------------------------------
(* Answers.  uin_for_signing_key: whoever claimed the key first.           *)
FirstClaim(k) ==
  CHOOSE u \in Carry(k) : \A v \in Carry(k) :
    users[u].claim < users[v].claim \/ (users[u].claim = users[v].claim /\ u <= v)

Holds(d, u, k) ==
  phone' = [phone EXCEPT ![d] = IF @ = None THEN None ELSE [at |-> u, key |-> k, acct |-> @.acct]]
\* The tokens that outlive one answered to d by a call that ends every session of number u.
Only(d) == IF phone[d] = None THEN {} ELSE {d}
Others(u) == {e \in bearer : phone[e].at # u}
Opens(d, u) ==
  /\ phone' = [phone EXCEPT ![d] = [at |-> u, key |-> @.key, acct |-> users[u].acct]]
  /\ bearer' = bearer \cup {d}
  /\ UNCHANGED <<users, retired, swept, job, ops>>

\* _rotated_account, first read: the marker of the key.
AskMarker(d) ==
  /\ job' = [job EXCEPT ![d] = [op |-> "rotated", at |-> retired[phone[d].key], key |-> phone[d].key,
                                to |-> phone[d].key, signed |-> FALSE]]
  /\ UNCHANGED <<users, retired, swept, phone, bearer, ops>>

\* refresh: the number with this key; else, when the number is vacant, the one row of the key;
\* several such rows are ambiguous, which erases nothing; else the marker decides.
RefreshNoMove(d) ==
  LET u == phone[d].at  k == phone[d].key  one == Carry(k) IN
  /\ Ready(d)
  /\ \/ u \in one /\ Opens(d, u)
     \/ u \notin one /\ (There(u) \/ one = {}) /\ AskMarker(d)

Refresh(d) ==
  LET u == phone[d].at  k == phone[d].key  one == Carry(k) IN
  /\ Ready(d)
  /\ \/ u \in one /\ Opens(d, u)
     \/ ~There(u) /\ Cardinality(one) = 1 /\ Opens(d, CHOOSE v \in one : TRUE)
     \/ There(u) /\ u \notin one /\ AskMarker(d)
     \/ ~There(u) /\ one = {} /\ AskMarker(d)

\* recover: the first claim of the key, else the marker.
Recover(d) ==
  LET k == phone[d].key IN
  /\ Ready(d)
  /\ \/ Carry(k) # {} /\ Opens(d, FirstClaim(k))
     \/ Carry(k) = {} /\ AskMarker(d)

\* _rotated_account, second read: a marker naming a living row answers identity_rotated; no marker
\* or no row is identity_not_found, and the install erases its copy.
Answer(d) ==
  /\ job[d] # None /\ job[d].op = "rotated"
  /\ IF job[d].at # None /\ There(job[d].at)
       THEN UNCHANGED <<phone, bearer>>
       ELSE phone' = [phone EXCEPT ![d] = None] /\ bearer' = bearer \ {d}
  /\ job' = [job EXCEPT ![d] = None]
  /\ UNCHANGED <<users, retired, swept, ops>>

------------------------------------------------------------------------------
(* Rotation.  reissue reads the row, judges the proof and refuses a key    *)
(* another row carries; a signed change may follow a sister row onto its   *)
(* new key when that row retired the key just proven.                      *)
Adopts(d, k, signed) ==
  LET u == phone[d].at  others == Carry(k) \ {u} IN
  \/ Unused(k)
  \/ others # {} /\ signed /\ retired[users[u].key] \in others

ReissueRead(d, k, signed) ==
  /\ Calls(d) /\ Op /\ k # users[phone[d].at].key
  /\ signed => phone[d].key = users[phone[d].at].key
  /\ Adopts(d, k, signed)
  /\ job' = [job EXCEPT ![d] = [op |-> "reissue", at |-> phone[d].at, key |-> users[phone[d].at].key,
                                to |-> k, signed |-> signed]]
  /\ UNCHANGED <<users, retired, swept, phone, bearer>>

\* _retire_signing_key: one marker a key; an unsigned change leaves a marker that names another
\* living row.
RetireForGood(k, u, signed) == retired' = [retired EXCEPT ![k] = IF signed THEN u ELSE @]
RetireSigningKey(k, u, signed) ==
  IF retired[k] = None \/ signed \/ retired[k] = u \/ ~There(retired[k])
    THEN retired' = [retired EXCEPT ![k] = u]
    ELSE UNCHANGED retired

\* The UPDATE is by number: it needs a row there and overwrites whatever key it has.  A signed
\* change ends every other session of the number.
ReissueCommit(d) ==
  LET j == job[d] IN
  /\ j # None /\ j.op = "reissue" /\ job' = [job EXCEPT ![d] = None]
  /\ \/ /\ There(j.at)
        /\ users' = [users EXCEPT ![j.at] = [@ EXCEPT !.key = j.to, !.past = @ \cup {j.to}]]
        /\ RetireSigningKey(j.key, j.at, j.signed)
        /\ Holds(d, j.at, j.to)
        /\ bearer' = IF j.signed THEN Others(j.at) \cup Only(d) ELSE bearer
     \/ ~There(j.at) /\ UNCHANGED <<users, retired, phone, bearer>>
  /\ UNCHANGED <<swept, ops>>

------------------------------------------------------------------------------
(* Moves, burns and registrations.                                         *)
\* Answering as another number.  The columns are copied from the row the request holds: the lock
\* of /account/migrate is its first read, the shop has read the row before.  rekey_uin_rows takes
\* the markers along; claim and account stay the person's.
MoveRead(d, v) ==
  /\ Calls(d) /\ Op /\ ~There(v)
  /\ job' = [job EXCEPT ![d] = [op |-> "move", at |-> phone[d].at, key |-> users[phone[d].at].key,
                                to |-> v, signed |-> FALSE]]
  /\ UNCHANGED <<users, retired, swept, phone, bearer>>

Rekey(u, v) == retired' = [k \in Keys |-> IF retired[k] = u THEN v ELSE retired[k]]

Claim(u) == users[u].claim

MoveCommit(d) ==
  LET j == job[d]  u == j.at  v == j.to IN
  /\ j # None /\ j.op = "move" /\ job' = [job EXCEPT ![d] = None]
  /\ \/ /\ There(u) /\ ~There(v)
        /\ users' = [users EXCEPT ![v] = [users[u] EXCEPT !.key = j.key, !.claim = Claim(u)], ![u] = None]
        /\ Rekey(u, v)
        /\ Holds(d, v, IF phone[d] = None THEN j.key ELSE phone[d].key)
        /\ bearer' = Others(u) \cup Only(d)
     \/ (~There(u) \/ There(v)) /\ UNCHANGED <<users, retired, phone, bearer>>
  /\ UNCHANGED <<swept, ops>>

\* purge_account from the owner: the row and the markers of the number go, and the account's
\* installs are told to forget it.
Burn(d) ==
  LET u == phone[d].at IN
  /\ Calls(d) /\ Op
  /\ users' = [users EXCEPT ![u] = None]
  /\ retired' = [k \in Keys |-> IF retired[k] = u THEN None ELSE retired[k]]
  /\ phone' = [e \in Devices |-> IF phone[e] # None /\ e \in bearer /\ phone[e].at = u THEN None ELSE phone[e]]
  /\ bearer' = {e \in bearer : phone[e].at # u}
  /\ UNCHANGED <<swept, job>>

\* register on an install that holds nothing: a new key and a vacant number.
Register(d, k, u) ==
  /\ phone[d] = None /\ job[d] = None /\ Alone /\ Op
  /\ Unused(k) /\ ~There(u)
  /\ \E a \in Accounts :
       /\ \A v \in Uins : There(v) => users[v].acct < a /\ users[v].claim < a
       /\ \A e \in Devices : phone[e] # None => phone[e].acct # a
       /\ users' = [users EXCEPT ![u] = [key |-> k, claim |-> a, acct |-> a, past |-> {k}]]
       /\ phone' = [phone EXCEPT ![d] = [at |-> u, key |-> k, acct |-> a]]
  /\ bearer' = bearer \cup {d}
  /\ UNCHANGED <<retired, swept, job>>

\* retired_key_sweep: a marker older than MAX_AGE_DAYS goes.
SweepRetired(k) ==
  /\ retired[k] # None /\ Alone /\ Op
  /\ retired' = [retired EXCEPT ![k] = None] /\ swept' = swept \cup {k}
  /\ UNCHANGED <<users, phone, bearer, job>>

------------------------------------------------------------------------------
Next ==
  \/ \E d \in Devices : \/ Refresh(d) \/ Recover(d) \/ Answer(d)
                        \/ ReissueCommit(d) \/ MoveCommit(d) \/ Burn(d)
                        \/ \E k \in Keys, signed \in BOOLEAN : ReissueRead(d, k, signed)
                        \/ \E v \in Uins : MoveRead(d, v)
                        \/ \E k \in Keys, u \in Uins : Register(d, k, u)
  \/ \E k \in Keys : SweepRetired(k)

\* An install without a good token asks again, and a request that began ends.  Strong fairness
\* stands for requests that do not wait for one another: only Alone makes one wait.
Fairness ==
  /\ \A d \in Devices : SF_vars(d \notin bearer /\ Refresh(d))
  /\ \A d \in Devices : WF_vars(Answer(d) \/ ReissueCommit(d) \/ MoveCommit(d))
Spec == Init /\ [][Next]_vars /\ Fairness

------------------------------------------------------------------------------
(* Properties *)

\* An install is erased only with its account: no request of an install whose account lives, under
\* any number and any key, ends in identity_not_found, unless the marker of the key the install
\* still holds has aged out, or a stranger already answers as the number the install asks about
\* (refresh and recover, the comments on identity_rotated and on the vacant number).
NeverErased ==
  [][\A d \in Devices : (phone[d] # None /\ phone'[d] = None) =>
       \/ \A u \in Uins : users'[u] # None => users'[u].acct # phone[d].acct
       \/ phone[d].key \in swept
       \/ There(phone[d].at) /\ users[phone[d].at].acct # phone[d].acct]_vars

\* An install that keeps asking ends with a good token, with nothing, or with a key that opens
\* nothing or more than one account (refresh, moved_from).
FindsHome ==
  \A d \in Devices :
    <>[](d \in bearer \/ phone[d] = None \/ Cardinality(Carry(phone[d].key)) # 1 \/ There(phone[d].at))
==============================================================================
