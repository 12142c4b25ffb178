------------------------ MODULE GuestsAndInvitesProofs ------------------------
(***************************************************************************)
(* Proofs about modules Guests and Invites, for any numbers, concurrent    *)
(* requests, vouchers, allowances and faults: the set that answers         *)
(* is_guest, the one guest row of a key, what a voucher has bought, and    *)
(* the codes an account has minted.                                        *)
(***************************************************************************)
EXTENDS Guests, Invites, WellFoundedInduction, TLAPS

Rows == [st : {"native", "added", "proven"}, res : BOOLEAN, old : BOOLEAN]

\* The request has inserted and marked its row, and holds the create lock.
Marked(r) == req[r] # None /\ req[r].step = "marked"
Paid(r) == req[r] # None /\ req[r].step = "paid"

Types ==
  /\ users \in [Uins -> Rows \cup {None}] /\ used \subseteq Uins /\ unmark \subseteq used
  /\ spent \in [Vouchers -> Uins \cup {None}] /\ req = [r \in Reqs |-> req[r]]
  /\ \A r \in Reqs : req[r] # None /\ req[r].step = "seat" => req[r] = [do |-> req[r].do, step |-> "seat", u |-> req[r].u]
  /\ \A r \in Reqs : Paid(r) => req[r].u \in Uins \cup {None}
  /\ \A u \in Uins : users[u] # None => u \in used

\* What a request between its mark and its commit relies on: the number is its
\* own, nothing takes the marks away, and no other row is a guest's.
MintOK(r) ==
  /\ req[r].do \in {"join", "add"} /\ lock = r /\ req[r].u \in used /\ users[req[r].u] = None
  /\ req[r].u \in gset /\ req[r].u \in pend /\ req[r].u \notin unmark
  /\ \A v \in Uins : ~Guest(v)

\* Whatever may still be done to the set leaves a guest in it: no unmark of it is
\* to come, and a rebuild under way has read it or will find its mark.
SetOK(u) ==
  /\ u \in gset /\ u \notin unmark
  /\ build # None => u \in build \cup pend

\* The inductive invariant behind the three properties.
GuestInv ==
  /\ Types
  /\ \A u \in Uins : Guest(u) => SetOK(u)
  /\ \A r \in Reqs : Marked(r) => MintOK(r)
  /\ OneGuestRow
  /\ PaidKept

\* Numbers are handed out in order: First picks a member of its set.
LEMMA FirstIn ==
  ASSUME NEW S, S \subseteq Uins, S # {}
  PROVE  First(S) \in S
<1>1. PICK u \in S : \A v \in S : ~ (<<v, u>> \in OpToRel(<, Nat))
  BY Zenon, GuestsAssumption, NatLessThanWellFounded, WFMin
<1>2. \A v \in S : v < u => <<v, u>> \in OpToRel(<, Nat)
  BY Zenon, GuestsAssumption DEF OpToRel
<1>3. \A v \in S : ~ (v < u)
  BY Zenon, <1>1, <1>2
<1>4. \A v \in S : u <= v
  BY <1>3, GuestsAssumption
<1>. QED  BY Zenon, <1>4 DEF First

\* A number that is handed out was nobody's.
LEMMA FreshNew ==
  ASSUME Types, Uins \ used # {}
  PROVE  Fresh \in Uins /\ Fresh \notin used /\ users[Fresh] = None
<1>1. Fresh \in Uins \ used
  BY Zenon, FirstIn DEF Fresh
<1>. QED  BY Zenon, <1>1 DEF Types

\* No row and no mark at the start.
LEMMA GuestStart == Init => GuestInv
<1>. SUFFICES ASSUME Init PROVE GuestInv
  BY Zenon
<1>1. Types
  BY Zenon DEF Init, Types, Paid
<1>2. \A u \in Uins : ~Guest(u)
  BY Zenon DEF Init, Guest
<1>. QED  BY Zenon, <1>1, <1>2 DEF Init, GuestInv, Marked, OneGuestRow, PaidKept

\* Requests that only read: the rows, the set and the lock stay.
LEMMA ReadOK ==
  ASSUME GuestInv, NEW r \in Reqs, NEW q, req' = [req EXCEPT ![r] = q],
         \/ q = None
         \/ q.step \notin {"marked", "seat", "paid"}
         \/ q.step = "seat" /\ q = [do |-> q.do, step |-> "seat", u |-> q.u]
         \/ q.step = "paid" /\ q.u \in Uins \cup {None},
         UNCHANGED <<users, used, mirror, lock, unmark, spent>>
  PROVE  GuestInv'
<1>1. /\ req' = [x \in Reqs |-> req'[x]]
      /\ \A x \in Reqs : IF x = r THEN req'[x] = q ELSE req'[x] = req[x]
  BY Zenon DEF GuestInv, Types
<1>2. Types'
  BY Zenon, <1>1 DEF GuestInv, Types, Paid
<1>3. \A u \in Uins : Guest(u)' => SetOK(u)'
  BY Zenon DEF GuestInv, Guest, SetOK, mirror
<1>4. \A x \in Reqs : Marked(x)' => Marked(x) /\ req'[x] = req[x]
  BY Zenon, <1>1 DEF Marked
<1>5. \A x \in Reqs : Marked(x)' => MintOK(x)'
  BY <1>4 DEF GuestInv, MintOK, Guest, mirror
<1>. QED  BY Zenon, <1>2, <1>3, <1>5 DEF GuestInv, OneGuestRow, PaidKept, Guest
\* The requests that read, and the one that finds the create lock taken.
LEMMA ReadersOK ==
  ASSUME GuestInv, NEW r \in Reqs,
         \/ \E do \in {"join", "add"} : Resolve(r, do)
         \/ Refused(r)
         \/ \E u \in Uins, pay \in Credentials : SettleRead(r, u, pay) \/ RedeemRead(r, u, pay)
         \/ \E u \in Uins : OperatorRead(r, u)
         \/ \E pay \in Credentials : RegisterRead(r, pay)
  PROVE  GuestInv'
<1>1. ASSUME NEW do \in {"join", "add"}, Resolve(r, do) PROVE GuestInv'
  <2>1. \/ Set(r, None) \/ Set(r, [do |-> do, step |-> "mint"])
        \/ \E u : Set(r, [do |-> do, step |-> "seat", u |-> u])
    BY Zenon, <1>1 DEF Resolve, Found, Done
  <2>2. UNCHANGED <<users, used, mirror, lock, unmark, spent>>
    BY Zenon, <1>1 DEF Resolve, till
  <2>. QED  BY Zenon, <2>1, <2>2, ReadOK DEF Set
<1>2. ASSUME Refused(r) PROVE GuestInv'
  BY Zenon, <1>2, ReadOK DEF Refused, Done, Set, till
<1>3. ASSUME NEW do, NEW u \in Uins \cup {None}, NEW pay, Pays(r, do, u, pay),
             UNCHANGED <<users, used, mirror, lock, unmark, till>>
      PROVE  GuestInv'
  BY Zenon, <1>3, ReadOK DEF Pays, Set, till
<1>4. ASSUME NEW u \in Uins, NEW pay \in Credentials, SettleRead(r, u, pay) \/ RedeemRead(r, u, pay)
      PROVE  GuestInv'
  BY Zenon, <1>3, <1>4 DEF SettleRead, RedeemRead
<1>5. ASSUME NEW u \in Uins, OperatorRead(r, u) PROVE GuestInv'
  BY Zenon, <1>3, <1>5 DEF OperatorRead
<1>6. ASSUME NEW pay \in Credentials, RegisterRead(r, pay) PROVE GuestInv'
  <2>. DEFINE copies == {u \in Claims : Guest(u)}
              row == IF copies = {} THEN None ELSE First(copies)
  <2>1. Pays(r, "register", row, pay) /\ UNCHANGED <<users, used, mirror, lock, unmark, till>>
    BY Zenon, <1>6 DEF RegisterRead
  <2>2. row \in Uins \cup {None}
    BY Zenon, FirstIn DEF Claims
  <2>. HIDE DEF row
  <2>. QED  BY Zenon, <1>3, <2>1, <2>2
<1>. QED  BY Zenon, <1>1, <1>2, <1>4, <1>5, <1>6

\* Steps that touch the set or a row: what has to be shown of the rest.
LEMMA RowsSame ==
  ASSUME GuestInv, UNCHANGED <<users, spent>>
  PROVE  OneGuestRow' /\ PaidKept'
BY Zenon DEF GuestInv, OneGuestRow, PaidKept, Guest

\* The set, the marks and the rebuild.
LEMMA SetStepOK ==
  ASSUME GuestInv,
         \/ \E u \in Uins : Unmark(u) \/ UnmarkLost(u)
         \/ PendingExpires \/ Lapse \/ Rebuild \/ Rebuilt \/ RebuildFails
  PROVE  GuestInv'
<1>0. UNCHANGED <<users, used, lock, req, spent>> /\ unmark' \subseteq unmark
  BY Zenon DEF Unmark, UnmarkLost, PendingExpires, Lapse, Rebuild, Rebuilt, RebuildFails, till
<1>1. Types'
  BY Zenon, <1>0 DEF GuestInv, Types, Paid
<1>2. SUFFICES /\ \A u \in Uins : Guest(u) => SetOK(u)'
               /\ \A r \in Reqs : Marked(r) => req[r].u \in gset' /\ req[r].u \in pend'
  BY Zenon, <1>0, <1>1, RowsSame DEF GuestInv, Guest, Marked, MintOK
<1>3. ASSUME NEW u \in Uins, Unmark(u) \/ UnmarkLost(u)
      PROVE  /\ \A v \in Uins : Guest(v) => SetOK(v)'
             /\ \A r \in Reqs : Marked(r) => req[r].u \in gset' /\ req[r].u \in pend'
  BY Zenon, <1>3 DEF Unmark, UnmarkLost, GuestInv, SetOK, MintOK
<1>4. CASE PendingExpires
  <2>1. \A r \in Reqs : ~At(r, {"join", "add"}, "marked")
    BY Zenon, <1>4 DEF PendingExpires
  <2>. QED  BY Zenon, <1>4, <2>1 DEF PendingExpires, GuestInv, SetOK, MintOK, Marked, At
<1>5. CASE Lapse \/ RebuildFails
  BY Zenon, <1>5 DEF Lapse, RebuildFails, GuestInv, SetOK, MintOK
<1>6. CASE Rebuild
  BY Zenon, <1>6 DEF Rebuild, GuestInv, SetOK, MintOK
<1>7. CASE Rebuilt
  BY Zenon, <1>7 DEF Rebuilt, Stored, GuestInv, SetOK, MintOK
<1>. QED  BY Zenon, <1>3, <1>4, <1>5, <1>6, <1>7
\* A request writes under the lock: the row marked, and nobody else's mark.
LEMMA LockOK ==
  ASSUME GuestInv, NEW r \in Reqs, Lock(r)
  PROVE  GuestInv'
<1>0. /\ At(r, {"join", "add"}, "mint") /\ lock = None
      /\ UNCHANGED <<users, build, unmark, spent>>
  BY Zenon DEF Lock, till
<1>1. CASE Claims # {} /\ Found(r, req[r].do, First(Claims)) /\ UNCHANGED <<used, gset, pend, lock>>
  <2>1. Set(r, None) \/ \E u : Set(r, [do |-> req[r].do, step |-> "seat", u |-> u])
    BY Zenon, <1>1 DEF Found, Done
  <2>2. UNCHANGED marker
    BY Zenon DEF Lock
  <2>3. UNCHANGED <<users, used, mirror, lock, unmark, spent>>
    BY Zenon, <1>0, <1>1, <2>2 DEF mirror
  <2>. QED  BY Zenon, <2>1, <2>3, ReadOK DEF Set
<1>2. CASE Claims = {} /\ MintRow(r)
  <2>. DEFINE q == [do |-> req[r].do, step |-> "marked", u |-> Fresh]
  <2>1. /\ used' = used \cup {Fresh} /\ gset' = gset \cup {Fresh} /\ pend' = pend \cup {Fresh}
        /\ lock' = r /\ req' = [req EXCEPT ![r] = q]
        /\ Fresh \in Uins /\ Fresh \notin used /\ users[Fresh] = None
    BY Zenon, <1>2, FreshNew DEF MintRow, Mark, Set, GuestInv
  <2>2. /\ req' = [x \in Reqs |-> req'[x]] /\ req'[r] = q
        /\ \A x \in Reqs \ {r} : req'[x] = req[x]
    BY Zenon, <2>1 DEF GuestInv, Types
  <2>3. Types'
    BY Zenon, <1>0, <2>1, <2>2 DEF GuestInv, Types, Paid
  <2>4. \A v \in Uins : ~Guest(v) /\ ~Guest(v)'
    BY Zenon, <1>0, <1>2 DEF Claims, Guest
  <2>5. \A x \in Reqs : ~Marked(x)
    BY Zenon, <1>0, GuestsAssumption DEF GuestInv, MintOK
  <2>6. Fresh \notin unmark
    BY Zenon, <2>1 DEF GuestInv, Types
  <2>7. MintOK(r)'
    <3>1. req'[r].u = Fresh /\ req'[r].do = req[r].do
      BY <2>2
    <3>. QED  BY <1>0, <2>1, <2>4, <2>6, <3>1 DEF MintOK, At
  <2>8. \A x \in Reqs : Marked(x)' => MintOK(x)'
    BY Zenon, <2>2, <2>5, <2>7 DEF Marked
  <2>. QED  BY Zenon, <1>0, <2>3, <2>4, <2>8, RowsSame DEF GuestInv
<1>. QED  BY Zenon, <1>1, <1>2 DEF Lock

\* The request is over, and what is left of the lock is its own.
LEMMA OverOK ==
  ASSUME GuestInv, NEW r \in Reqs, Done(r)
  PROVE  /\ req' = [x \in Reqs |-> req'[x]]
         /\ \A x \in Reqs : req'[x] # None => x # r /\ req'[x] = req[x]
         /\ \A x \in Reqs : Marked(x)' => Marked(x) /\ x # r /\ req'[x] = req[x]
         /\ \A x \in Reqs : Paid(x)' => Paid(x) /\ req'[x] = req[x]
BY Zenon DEF GuestInv, Types, Done, Set, Marked, Paid

\* The guest row commits, or it does not.
LEMMA CommitOK ==
  ASSUME GuestInv, NEW r \in Reqs, Commit(r) \/ CommitFails(r)
  PROVE  GuestInv'
<1>. PICK u \in Uins : u = req[r].u /\ Marked(r) /\ MintOK(r)
  BY Zenon DEF GuestInv, Types, Commit, CommitFails, At, Marked, MintOK
<1>0. u = req[r].u /\ Marked(r) /\ MintOK(r)
  BY Zenon
<1>1. Done(r) /\ UNCHANGED <<used, mirror, spent>>
  BY Zenon DEF Commit, CommitFails, till
<1>2. \A x \in Reqs : ~Marked(x)'
  BY Zenon, <1>0, <1>1, OverOK DEF GuestInv, MintOK
<1>3. CASE CommitFails(r)
  <2>1. users' = users /\ unmark' = unmark \cup {u}
    BY Zenon, <1>3 DEF CommitFails
  <2>2. Types'
    BY <1>0, <1>1, <2>1, OverOK DEF GuestInv, Types, MintOK
  <2>3. \A v \in Uins : ~Guest(v)'
    BY Zenon, <1>0, <2>1 DEF MintOK, Guest
  <2>. QED  BY Zenon, <1>1, <1>2, <2>1, <2>2, <2>3, RowsSame DEF GuestInv
<1>4. CASE Commit(r)
  <2>. DEFINE row == Row(IF req[r].do = "add" THEN "added" ELSE "proven", FALSE)
  <2>1. users' = [users EXCEPT ![u] = row] /\ unmark' = unmark /\ row \in Rows
    BY Zenon, <1>4 DEF Commit, Row, Rows
  <2>. HIDE DEF row
  <2>2. users'[u] = row /\ \A v \in Uins \ {u} : users'[v] = users[v]
    BY Zenon, <1>0, <2>1 DEF GuestInv, Types
  <2>3. users' \in [Uins -> Rows \cup {None}]
    BY Zenon, <1>0, <2>1 DEF GuestInv, Types
  <2>4. Types'
    BY <1>0, <1>1, <2>1, <2>2, <2>3, OverOK DEF GuestInv, Types, MintOK
  <2>5. \A v \in Uins : Guest(v)' => v = u
    BY Zenon, <1>0, <2>2 DEF MintOK, Guest
  <2>6. SetOK(u)'
    BY Zenon, <1>0, <1>1, <2>1 DEF MintOK, SetOK, mirror
  <2>7. PaidKept'
    BY <1>0, <1>1, <2>2 DEF GuestInv, Types, PaidKept, MintOK, Guest
  <2>. QED  BY Zenon, <1>2, <2>4, <2>5, <2>6, <2>7 DEF GuestInv, OneGuestRow
<1>. QED  BY Zenon, <1>3, <1>4
\* Rows that stay what they are, a guest's or not: claimed, polled, aged.
LEMMA SameKindOK ==
  ASSUME GuestInv, users' \in [Uins -> Rows \cup {None}],
         \A u \in Uins : /\ users[u] = None => users'[u] = None
                         /\ users[u] # None => users'[u] # None /\ users'[u].res = users[u].res
                         /\ Guest(u)' => Guest(u),
         UNCHANGED <<used, mirror, lock, unmark, spent>>,
         \/ req' = req
         \/ \E r \in Reqs : Done(r)
  PROVE  GuestInv'
<1>1. /\ req' = [x \in Reqs |-> req'[x]]
      /\ \A x \in Reqs : req'[x] # None => req'[x] = req[x]
  BY Zenon, OverOK DEF GuestInv, Types
<1>2. Types'
  BY Zenon, <1>1 DEF GuestInv, Types, Paid
<1>3. \A u \in Uins : Guest(u)' => SetOK(u)'
  BY Zenon DEF GuestInv, SetOK, mirror
<1>4. \A x \in Reqs : Marked(x)' => Marked(x) /\ req'[x] = req[x]
  BY Zenon, <1>1 DEF Marked
<1>5. \A x \in Reqs : Marked(x)' => MintOK(x)'
  BY <1>4 DEF GuestInv, Types, MintOK, mirror
<1>6. OneGuestRow' /\ PaidKept'
  BY Zenon DEF GuestInv, Types, OneGuestRow, PaidKept
<1>. QED  BY Zenon, <1>2, <1>3, <1>5, <1>6 DEF GuestInv

\* claim_seat's UPDATE matches a seat only.
LEMMA ClaimSeatOK ==
  ASSUME GuestInv, NEW u, ClaimSeat(u)
  PROVE  /\ users' \in [Uins -> Rows \cup {None}]
         /\ \A v \in Uins : /\ users[v] = None => users'[v] = None
                            /\ users[v] # None => users'[v] # None /\ users'[v].res = users[v].res
                            /\ Guest(v)' => Guest(v)
<1>1. CASE u \in Uins /\ users[u] # None /\ users[u].st = "added"
  <2>1. users[u] \in Rows
    BY Zenon, <1>1 DEF GuestInv, Types
  <2>2. users' = [users EXCEPT ![u] = [st |-> "proven", res |-> users[u].res, old |-> FALSE]]
    BY Zenon, <1>1 DEF ClaimSeat, Row, GuestInv, Types
  <2>3. [st |-> "proven", res |-> users[u].res, old |-> FALSE] \in Rows
    BY Zenon, <2>1 DEF Rows
  <2>4. \A x \in Rows : x # None
    BY Zenon, GuestsAssumption DEF Rows
  <2>. QED  BY Zenon, <1>1, <2>1, <2>2, <2>3, <2>4 DEF GuestInv, Types, Guest
<1>2. CASE ~(u \in Uins /\ users[u] # None /\ users[u].st = "added")
  <2>1. users' = users
    BY Zenon, <1>2 DEF ClaimSeat, GuestInv, Types
  <2>. QED  BY Zenon, <2>1 DEF GuestInv, Types, Guest
<1>. QED  BY Zenon, <1>1, <1>2

\* POST /auth/guest on a seat, and recover or refresh.
LEMMA ClaimersOK ==
  ASSUME GuestInv, ClaimOnProof \/ \E r \in Reqs : Claim(r)
  PROVE  GuestInv'
<1>1. ASSUME NEW r \in Reqs, Claim(r) PROVE GuestInv'
  <2>1. PICK u : u = req[r].u /\ ClaimSeat(u)
    BY Zenon, <1>1 DEF Claim
  <2>. QED  BY Zenon, <1>1, <2>1, ClaimSeatOK, SameKindOK DEF Claim, till
<1>2. ASSUME ClaimOnProof PROVE GuestInv'
  <2>1. PICK u : ClaimSeat(u)
    BY Zenon, <1>2 DEF ClaimOnProof
  <2>. QED  BY Zenon, <1>2, <2>1, ClaimSeatOK, SameKindOK DEF ClaimOnProof, till
<1>. QED  BY Zenon, <1>1, <1>2

\* touch_poll, and time.
LEMMA AgersOK ==
  ASSUME GuestInv, NEW u \in Uins, TouchPoll(u) \/ Age(u)
  PROVE  GuestInv'
<1>1. PICK b \in BOOLEAN : users' = [users EXCEPT ![u].old = b] /\ Guest(u)
  BY Zenon DEF TouchPoll, Age
<1>2. users[u] \in Rows /\ users[u] # None
  BY Zenon, <1>1 DEF Guest, GuestInv, Types
<1>3. /\ users'[u] = [st |-> users[u].st, res |-> users[u].res, old |-> b]
      /\ \A v \in Uins \ {u} : users'[v] = users[v]
  BY Zenon, <1>1, <1>2 DEF GuestInv, Types, Rows
<1>4. users'[u] \in Rows /\ users'[u] # None
  BY <1>2, <1>3, GuestsAssumption DEF Rows
<1>5. users' \in [Uins -> Rows \cup {None}]
  BY Zenon, <1>1, <1>3, <1>4 DEF GuestInv, Types
<1>. QED  BY <1>2, <1>3, <1>4, <1>5, SameKindOK DEF TouchPoll, Age, Guest, till

\* The mark of a seat that is about to be claimed.
LEMMA MarkSeatOK ==
  ASSUME GuestInv, NEW r \in Reqs, MarkSeat(r)
  PROVE  GuestInv'
<1>1. PICK q : q = [req[r] EXCEPT !.step = "claim"] /\ req' = [req EXCEPT ![r] = q]
  BY Zenon DEF MarkSeat, Set
<1>2. q.step = "claim"
  BY <1>1 DEF MarkSeat, At, GuestInv, Types
<1>3. /\ req' = [x \in Reqs |-> req'[x]] /\ req'[r] = q
      /\ \A x \in Reqs \ {r} : req'[x] = req[x]
  BY Zenon, <1>1 DEF GuestInv, Types
<1>4. /\ gset \subseteq gset' /\ pend \subseteq pend'
      /\ UNCHANGED <<users, used, build, lock, unmark, spent>>
  BY Zenon DEF MarkSeat, Mark, till
<1>5. Types'
  BY Zenon, <1>2, <1>3, <1>4 DEF GuestInv, Types, Paid
<1>6. \A x \in Reqs : Marked(x)' => Marked(x) /\ req'[x] = req[x]
  BY Zenon, <1>2, <1>3 DEF Marked
<1>7. \A x \in Reqs : Marked(x)' => MintOK(x)'
  BY Zenon, <1>4, <1>6 DEF GuestInv, MintOK, Guest
<1>8. \A u \in Uins : Guest(u)' => SetOK(u)'
  BY Zenon, <1>4 DEF GuestInv, Guest, SetOK
<1>. QED  BY Zenon, <1>4, <1>5, <1>7, <1>8, RowsSame DEF GuestInv
\* One row u is written over with `row`, and the requests that are left are as
\* they were: the row is gone, or native and no less resident than before.
LEMMA WrittenOK ==
  ASSUME GuestInv, NEW u \in Uins, NEW row \in Rows \cup {None}, users' = [users EXCEPT ![u] = row],
         row # None => row.st = "native",
         row = None => Guest(u),
         row # None /\ users[u] # None => (users[u].res => row.res),
         u \in used', used \subseteq used', used' \subseteq Uins,
         \A r \in Reqs : Marked(r) => req[r].u # u,
         unmark' = unmark \/ unmark' = unmark \cup {u},
         spent' = spent \/ \E v \in Vouchers : spent' = [spent EXCEPT ![v] = u] /\ row # None /\ row.res,
         req' = req \/ \E r \in Reqs : Done(r),
         UNCHANGED <<mirror, lock>>
  PROVE  GuestInv'
<1>1. /\ req' = [x \in Reqs |-> req'[x]]
      /\ \A x \in Reqs : req'[x] # None => req'[x] = req[x]
  BY Zenon, OverOK DEF GuestInv, Types
<1>2. /\ users'[u] = row /\ \A v \in Uins \ {u} : users'[v] = users[v]
      /\ users' \in [Uins -> Rows \cup {None}]
  BY Zenon DEF GuestInv, Types
<1>3. spent' \in [Vouchers -> Uins \cup {None}]
  BY Zenon DEF GuestInv, Types
<1>4. Types'
  BY ZenonT(30), <1>1, <1>2, <1>3 DEF GuestInv, Types, Paid
<1>5. ~Guest(u)' /\ \A v \in Uins : Guest(v)' => Guest(v) /\ v # u
  BY Zenon, <1>2 DEF Guest
<1>6. \A v \in Uins : Guest(v)' => SetOK(v)'
  BY Zenon, <1>5 DEF GuestInv, SetOK, mirror
<1>7. \A x \in Reqs : Marked(x)' => Marked(x) /\ req'[x] = req[x]
  BY Zenon, <1>1 DEF Marked
<1>8. ASSUME NEW x \in Reqs, Marked(x)' PROVE MintOK(x)'
  <2>1. Marked(x) /\ MintOK(x) /\ req'[x] = req[x] /\ req[x].u # u /\ req[x].u \in Uins
    BY Zenon, <1>7, <1>8 DEF GuestInv, Types, MintOK
  <2>2. users'[req[x].u] = users[req[x].u] /\ req[x].u \notin unmark'
    BY Zenon, <1>2, <2>1 DEF MintOK
  <2>. QED  BY Zenon, <1>5, <2>1, <2>2 DEF MintOK, mirror
<1>9. OneGuestRow'
  BY Zenon, <1>5 DEF GuestInv, OneGuestRow
<1>10. ASSUME NEW v \in Vouchers, spent'[v] # None
       PROVE  users'[spent'[v]] # None /\ users'[spent'[v]].res /\ ~Guest(spent[v])'
  <2>1. CASE spent'[v] = u /\ row # None /\ row.res
    BY Zenon, <1>2, <1>5, <2>1
  <2>2. CASE spent'[v] = spent[v]
    <3>1. spent[v] \in Uins /\ users[spent[v]] # None /\ users[spent[v]].res /\ ~Guest(spent[v])
      BY Zenon, <1>10, <2>2 DEF GuestInv, Types, PaidKept
    <3>2. CASE spent[v] = u
      BY Zenon, <1>2, <1>5, <2>2, <3>1, <3>2
    <3>3. CASE spent[v] # u
      BY Zenon, <1>2, <1>5, <2>2, <3>1, <3>3
    <3>. QED  BY Zenon, <3>2, <3>3
  <2>. QED  BY Zenon, <2>1, <2>2 DEF GuestInv, Types
<1>11. PaidKept'
  BY Zenon, <1>10 DEF PaidKept
<1>. QED  BY Zenon, <1>4, <1>6, <1>8, <1>9, <1>11 DEF GuestInv

\* A row that is there is not the row of a request that is still minting.
LEMMA OtherRow ==
  ASSUME GuestInv, NEW u \in Uins, users[u] # None
  PROVE  u \in used /\ \A r \in Reqs : Marked(r) => req[r].u # u
BY Zenon DEF GuestInv, Types, MintOK

\* purge_account of a guest: by the sweep, which read the row again, or by the
\* operator.
LEMMA PurgeOK ==
  ASSUME GuestInv, NEW u \in Uins, Guest(u), Purge(u), UNCHANGED <<used, mirror, lock, req, till>>
  PROVE  GuestInv'
<1>1. users[u] # None /\ u \in used /\ \A r \in Reqs : Marked(r) => req[r].u # u
  BY Zenon, OtherRow DEF Guest
<1>2. used \subseteq Uins
  BY Zenon DEF GuestInv, Types
<1>. QED  BY Zenon, <1>1, <1>2, WrittenOK DEF Purge, till

\* The sweep finds its candidates and purges them; the operator deletes a copy.
LEMMA SweepersOK ==
  ASSUME GuestInv,
         \/ \E u \in Uins : DeleteCopy(u)
         \/ Find
         \/ \E c \in cand : Sweep(c) /\ c.u \in Uins
  PROVE  GuestInv'
<1>1. ASSUME UNCHANGED <<users, used, mirror, lock, req, unmark, till>> PROVE GuestInv'
  BY Zenon, <1>1, SameKindOK DEF till, GuestInv, Types, Guest
<1>2. ASSUME NEW u \in Uins, DeleteCopy(u) PROVE GuestInv'
  BY Zenon, <1>2, PurgeOK DEF DeleteCopy
<1>3. ASSUME Find PROVE GuestInv'
  BY Zenon, <1>1, <1>3 DEF Find
<1>4. ASSUME NEW c \in cand, Sweep(c), c.u \in Uins PROVE GuestInv'
  <2>1. CASE Eligible(c.u, c.kind)
    BY Zenon, <1>4, <2>1, PurgeOK DEF Sweep, Eligible
  <2>2. CASE ~Eligible(c.u, c.kind)
    BY Zenon, <1>1, <1>4, <2>2 DEF Sweep
  <2>. QED  BY Zenon, <2>1, <2>2
<1>. QED  BY Zenon, <1>2, <1>3, <1>4
\* The row a conversion leaves.
LEMMA NativeRow ==
  ASSUME NEW b \in BOOLEAN
  PROVE  LET q == Row("native", b) IN q \in Rows /\ q # None /\ q.st = "native" /\ q.res = b
<1>1. PICK q : q = Row("native", b)
  BY Zenon
<1>2. q = [st |-> "native", res |-> b, old |-> FALSE]
  BY Zenon, <1>1 DEF Row
<1>3. q \in Rows
  BY Zenon, <1>2 DEF Rows
<1>4. q # None
  BY Zenon, <1>3, GuestsAssumption DEF Rows
<1>5. q.st = "native" /\ q.res = b
  BY Zenon, <1>2
<1>. QED  BY Zenon, <1>1, <1>3, <1>4, <1>5

\* The conversion of a row the request read before it paid.
LEMMA ConvertOK ==
  ASSUME GuestInv, NEW r \in Reqs, Convert(r)
  PROVE  GuestInv'
<1>1. PICK u \in Uins : u = req[r].u
  BY Zenon DEF Convert, GuestInv, Types, Paid
<1>2. PICK pay : pay = req[r].pay
  BY Zenon
<1>3. CASE users[u] = None
  <2>1. UNCHANGED <<users, used, mirror, lock, unmark, spent>> /\ req' = [req EXCEPT ![r] = None]
    BY Zenon, <1>1, <1>3 DEF Convert, till, Done, Set
  <2>. QED  BY Zenon, <2>1, ReadOK
<1>4. CASE users[u] # None
  <2>. DEFINE row == Row("native", users[u].res \/ pay \in Vouchers)
  <2>1. users[u] \in Rows /\ used \subseteq Uins
    BY Zenon, <1>4 DEF GuestInv, Types
  <2>2. (users[u].res \/ pay \in Vouchers) \in BOOLEAN
    BY Zenon
  <2>3. /\ row \in Rows /\ row # None /\ row.st = "native"
        /\ pay \in Vouchers => row.res
        /\ users[u].res => row.res
    BY Zenon, <2>2, NativeRow
  <2>4. users' = [users EXCEPT ![u] = row]
    BY Zenon, <1>1, <1>2, <1>4 DEF Convert, GuestInv, Types
  <2>5. /\ unmark' = unmark \/ unmark' = unmark \cup {u}
        /\ Spend(pay, u) /\ Done(r) /\ UNCHANGED <<used, mirror, lock>>
    BY Zenon, <1>1, <1>2, <1>4 DEF Convert
  <2>6. spent' = spent \/ (pay \in Vouchers /\ spent' = [spent EXCEPT ![pay] = u])
    BY Zenon, <2>5 DEF Spend
  <2>. HIDE DEF row
  <2>8. PICK q : q = row
    BY Zenon
  <2>9. /\ q \in Rows /\ q # None /\ q.st = "native" /\ users' = [users EXCEPT ![u] = q]
        /\ users[u].res => q.res
        /\ spent' = spent \/ \E v \in Vouchers : spent' = [spent EXCEPT ![v] = u] /\ q # None /\ q.res
    BY Zenon, <2>3, <2>4, <2>6, <2>8
  <2>. QED  BY Zenon, <1>4, <2>1, <2>5, <2>9, OtherRow, WrittenOK
<1>. QED  BY Zenon, <1>3, <1>4

\* register makes a row of its own.
LEMMA RegisterOK ==
  ASSUME GuestInv, NEW r \in Reqs, Register(r)
  PROVE  GuestInv'
<1>0. PICK pay : pay = req[r].pay
  BY Zenon
<1>1. PICK u \in Uins : u = Fresh /\ u \notin used /\ users[u] = None
  BY Zenon, FreshNew DEF Register, GuestInv
<1>2. PICK q : q = Row("native", pay \in Vouchers)
  BY Zenon
<1>3. q \in Rows /\ q.st = "native" /\ (pay \in Vouchers => q.res) /\ q # None
  <2>1. (pay \in Vouchers) \in BOOLEAN
    OBVIOUS
  <2>. QED  BY Zenon, <1>2, <2>1, NativeRow
<1>4. users' = [users EXCEPT ![u] = q] /\ used' = used \cup {u} /\ Spend(pay, u)
  BY Zenon, <1>0, <1>1, <1>2 DEF Register
<1>5. spent' = spent \/ \E v \in Vouchers : spent' = [spent EXCEPT ![v] = u] /\ q # None /\ q.res
  BY Zenon, <1>3, <1>4 DEF Spend
<1>6. \A x \in Reqs : Marked(x) => req[x].u # u
  BY Zenon, <1>1 DEF GuestInv, MintOK
<1>7. Done(r) /\ unmark' = unmark /\ UNCHANGED <<mirror, lock>> /\ used \subseteq Uins
  BY Zenon DEF Register, GuestInv, Types
<1>8. u \in used' /\ used \subseteq used' /\ used' \subseteq Uins
  BY Zenon, <1>4, <1>7
<1>. QED  BY Zenon, <1>1, <1>3, <1>4, <1>5, <1>6, <1>7, <1>8, WrittenOK

\* The sweep's candidates are numbers.
CandOK == \A c \in cand : c.u \in Uins

\* GuestInv is inductive, with CandOK.
LEMMA GuestStep == GuestInv /\ CandOK /\ [Next]_vars => GuestInv' /\ CandOK'
<1>. SUFFICES ASSUME GuestInv, CandOK, [Next]_vars PROVE GuestInv' /\ CandOK'
  BY Zenon
<1>0. ASSUME cand' \subseteq cand PROVE CandOK'
  BY Zenon, <1>0 DEF CandOK
<1>1. CASE UNCHANGED vars
  BY Zenon, <1>0, <1>1, SameKindOK DEF vars, till, GuestInv, Types, Guest
<1>2. ASSUME NEW u \in Uins, Unmark(u) \/ UnmarkLost(u) \/ TouchPoll(u) \/ Age(u) \/ DeleteCopy(u)
      PROVE  GuestInv' /\ CandOK'
  <2>1. cand' = cand
    BY Zenon, <1>2 DEF Unmark, UnmarkLost, TouchPoll, Age, DeleteCopy
  <2>. QED  BY Zenon, <1>0, <1>2, <2>1, SetStepOK, AgersOK, SweepersOK
<1>3. ASSUME PendingExpires \/ Lapse \/ Rebuild \/ Rebuilt \/ RebuildFails \/ ClaimOnProof
      PROVE  GuestInv' /\ CandOK'
  <2>1. cand' = cand
    BY Zenon, <1>3 DEF PendingExpires, Lapse, Rebuild, Rebuilt, RebuildFails, ClaimOnProof
  <2>. QED  BY Zenon, <1>0, <1>3, <2>1, SetStepOK, ClaimersOK
<1>4. ASSUME NEW r \in Reqs,
             \/ Lock(r) \/ Commit(r) \/ CommitFails(r) \/ MarkSeat(r) \/ Claim(r) \/ Convert(r) \/ Register(r)
      PROVE  GuestInv' /\ CandOK'
  <2>1. cand' = cand
    BY Zenon, <1>4 DEF Lock, Commit, CommitFails, MarkSeat, Claim, Convert, Register
  <2>. QED  BY Zenon, <1>0, <1>4, <2>1, LockOK, CommitOK, MarkSeatOK, ClaimersOK, ConvertOK, RegisterOK
<1>5. ASSUME NEW r \in Reqs,
             \/ \E do \in {"join", "add"} : Resolve(r, do)
             \/ Refused(r)
             \/ \E u \in Uins, pay \in Credentials : SettleRead(r, u, pay) \/ RedeemRead(r, u, pay)
             \/ \E u \in Uins : OperatorRead(r, u)
             \/ \E pay \in Credentials : RegisterRead(r, pay)
      PROVE  GuestInv' /\ CandOK'
  <2>1. cand' = cand
    BY Zenon, <1>5 DEF Resolve, Refused, SettleRead, RedeemRead, OperatorRead, RegisterRead
  <2>. QED  BY Zenon, <1>0, <1>5, <2>1, ReadersOK
<1>6. ASSUME Find PROVE GuestInv' /\ CandOK'
  <2>1. cand' \subseteq [u : Uins, kind : {"added", "proven"}]
    BY Zenon, <1>6 DEF Find
  <2>. QED  BY Zenon, <1>6, <2>1, SweepersOK DEF CandOK
<1>7. ASSUME NEW c \in cand, Sweep(c) PROVE GuestInv' /\ CandOK'
  <2>1. cand' \subseteq cand /\ c.u \in Uins
    BY Zenon, <1>7 DEF Sweep, CandOK
  <2>. QED  BY Zenon, <1>0, <1>7, <2>1, SweepersOK
<1>. QED  BY Zenon, <1>1, <1>2, <1>3, <1>4, <1>5, <1>6, <1>7 DEF Next

\* What always holds of the rows, the set, the requests and the payments.
LEMMA GuestAlways == Spec => [](GuestInv /\ CandOK)
<1>1. Init => GuestInv /\ CandOK
  BY Zenon, GuestStart DEF Init, CandOK
<1>. QED  BY <1>1, GuestStep, PTL DEF Spec

\* is_guest, mark_guest, unmark_guest and the rebuild: every committed guest row
\* is in the set that restricts it, for any number of requests, faults and
\* rebuilds.
THEOREM GuestsAreKnown == Spec => []GuestKnown
<1>1. GuestInv => GuestKnown
  BY Zenon DEF GuestInv, SetOK, GuestKnown
<1>. QED  BY <1>1, GuestAlways, PTL

\* acquire_create_lock and the second row_for_key: a key nobody holds here ends
\* in one guest row, however many joins and adds arrive together.
THEOREM OneRowPerKey == Spec => []OneGuestRow
<1>1. GuestInv => OneGuestRow
  BY Zenon DEF GuestInv
<1>. QED  BY <1>1, GuestAlways, PTL

\* guest_settle, redeem, register, the sweep and delete_guest_copy: what a
\* voucher bought stays bought.
THEOREM PaymentsKept == Spec => []PaidKept
<1>1. GuestInv => PaidKept
  BY Zenon DEF GuestInv
<1>. QED  BY <1>1, GuestAlways, PTL

-----------------------------------------------------------------------------
(* The invites.                                                            *)

CodeRows == [no : Nat, used : BOOLEAN, spent : {Unset} \cup Nat, made : Nat, expires : Nat]

InvitesTypes ==
  /\ account \in [minted : Nat, base : Nat, since : {Unset} \cup Nat, suspended : BOOLEAN]
  /\ codes \subseteq CodeRows
  /\ minting \in [Requests -> {Unset} \cup [granted : Int, at : Nat]]
  /\ buying \in {Unset} \cup Nat
  /\ reaper \subseteq Nat /\ date \in Nat

\* What was earned once stays earned: n codes are within one of the allowances.
Earned(n) == n <= Accrued(account) \/ n <= AccruedFree

\* A mint spends against an allowance that was real when it was read, residency
\* is bought once, and a code's number is its own and never given again.
InvitesInv ==
  /\ InvitesTypes
  /\ buying # Unset => account.since = Unset
  /\ Earned(account.minted)
  /\ \A q \in Requests : minting[q] # Unset => Earned(minting[q].granted)
  /\ \A c \in codes : c.no <= account.minted
  /\ \A n \in reaper : n <= account.minted
  /\ \A c, e \in codes : c.no = e.no => c = e
  /\ SweepTakesDead

\* Whole periods never run backwards.
LEMMA PeriodsGrow ==
  ASSUME NEW a \in Int, NEW b \in Int, a <= b, NEW n \in Nat \ {0}
  PROVE  a \div n \in Int /\ b \div n \in Int /\ a \div n <= b \div n /\ (0 <= a => 0 <= a \div n)
<1>1. PICK p \in Int : p = a \div n /\ n * p <= a /\ a < n * p + n
  <2>1. a \div n \in Int /\ n * (a \div n) <= a /\ a < n * (a \div n) + n
    OBVIOUS
  <2>. QED  BY Zenon, <2>1
<1>2. PICK q \in Int : q = b \div n /\ n * q <= b /\ b < n * q + n
  <2>1. b \div n \in Int /\ n * (b \div n) <= b /\ b < n * (b \div n) + n
    OBVIOUS
  <2>. QED  BY Zenon, <2>1
<1>3. p <= q
  <2>. SUFFICES ASSUME p >= q + 1 PROVE FALSE
    BY <1>1, <1>2
  <2>1. n * p >= n * (q + 1)
    BY <1>1, <1>2
  <2>. QED  BY <1>1, <1>2, <2>1
<1>4. 0 <= a => 0 <= p
  <2>. SUFFICES ASSUME 0 <= a, p <= -1 PROVE FALSE
    BY <1>1
  <2>1. n * p <= n * (-1)
    BY <1>1
  <2>. QED  BY <1>1, <2>1
<1>. QED  BY Zenon, <1>1, <1>2, <1>3, <1>4

\* The free allowance grows with the days and is never negative.
LEMMA FreeGrows ==
  ASSUME InvitesTypes, date' \in Nat, date <= date'
  PROVE  AccruedFree \in Int /\ AccruedFree' \in Int /\ AccruedFree <= AccruedFree' /\ 0 <= AccruedFree
<1>1. PICK f \in Int : f = FreeAnchor
  <2>1. FreeAnchor \in Int
    BY InvitesAssumption DEF FreeAnchor, Joined
  <2>. QED  BY Zenon, <2>1
<1>2. PICK d \in Nat, e \in Nat : d = date /\ e = date' /\ d <= e
  BY Zenon DEF InvitesTypes
<1>3. d <= e
  BY Zenon, <1>2
<1>4. PICK p, q : p = (d - f) \div PeriodDays /\ q = (e - f) \div PeriodDays
  BY Zenon
<1>5. p \in Int /\ q \in Int /\ p <= q /\ (0 <= d - f => 0 <= p) /\ (0 <= e - f => 0 <= q)
  <2>1. d - f \in Int /\ e - f \in Int /\ d - f <= e - f /\ e - f <= e - f
    BY <1>3
  <2>2. PeriodDays \in Nat \ {0}
    BY Zenon, InvitesAssumption
  <2>. QED  BY Zenon, <1>4, <2>1, <2>2, PeriodsGrow
<1>6. AccruedFree = IF FreeTotal <= 0 \/ d < f THEN 0 ELSE Least(FreeTotal, 1 + p)
  BY Zenon, <1>1, <1>2, <1>4 DEF AccruedFree
<1>7. AccruedFree' = IF FreeTotal <= 0 \/ e < f THEN 0 ELSE Least(FreeTotal, 1 + q)
  BY Zenon, <1>1, <1>2, <1>4 DEF AccruedFree, FreeAnchor
<1>8. (d < f \/ 0 <= d - f) /\ (e < f \/ 0 <= e - f)
  OBVIOUS
<1>9. FreeTotal \in Int
  BY Zenon, InvitesAssumption
<1>. QED  BY <1>3, <1>5, <1>6, <1>7, <1>8, <1>9 DEF Least

\* What an allowance covered it covers on every later day.
LEMMA EarnedLater ==
  ASSUME InvitesTypes, date' \in Nat, date <= date', NEW n \in Int, Earned(n),
         account'.base = account.base, account'.since = account.since
  PROVE  Earned(n)'
<1>1. n <= AccruedFree => n <= AccruedFree'
  BY FreeGrows
<1>2. n <= Accrued(account) => n <= Accrued(account)'
  <2>1. CASE account.since = Unset \/ PaidTotal <= 0
    BY Zenon, <2>1 DEF Accrued
  <2>2. CASE account.since # Unset /\ ~(PaidTotal <= 0)
    <3>. DEFINE a == date - account.since  b == date' - account.since
    <3>1. date \in Nat /\ account.since \in Nat /\ account.base \in Nat /\ a \in Int /\ b \in Int /\ a <= b
      BY <2>2 DEF InvitesTypes
    <3>2. PICK p, q : p = a \div PeriodDays /\ q = b \div PeriodDays
      BY Zenon
    <3>3. p \in Int /\ q \in Int /\ p <= q
      BY Zenon, <3>1, <3>2, PeriodsGrow, InvitesAssumption
    <3>4. Accrued(account) = Least(PaidTotal, account.base + 1 + p)
      BY Zenon, <2>2, <3>2 DEF Accrued
    <3>5. Accrued(account)' = Least(PaidTotal, account.base + 1 + q)
      BY Zenon, <2>2, <3>2 DEF Accrued
    <3>. QED  BY <3>1, <3>3, <3>4, <3>5, InvitesAssumption DEF Least
  <2>. QED  BY Zenon, <2>1, <2>2
<1>. QED  BY Zenon, <1>1, <1>2 DEF Earned

\* The paid allowance is a number.
LEMMA AccruedTyped ==
  ASSUME InvitesTypes
  PROVE  Accrued(account) \in Int
<1>1. CASE account.since = Unset \/ PaidTotal <= 0
  BY <1>1 DEF Accrued
<1>2. CASE account.since # Unset /\ ~(PaidTotal <= 0)
  <2>1. date - account.since \in Int /\ account.base \in Nat
    BY <1>2 DEF InvitesTypes
  <2>2. PICK p \in Int : p = (date - account.since) \div PeriodDays
    BY <2>1, InvitesAssumption
  <2>3. Accrued(account) = Least(PaidTotal, account.base + 1 + p)
    BY Zenon, <1>2, <2>2 DEF Accrued
  <2>. QED  BY <2>1, <2>3, InvitesAssumption DEF Least
<1>. QED  BY Zenon, <1>1, <1>2

\* Who has earned some has earned fewer.
LEMMA EarnedFewer ==
  ASSUME InvitesTypes, date' = date, NEW m \in Int, NEW n \in Int, m <= n, Earned(n)
  PROVE  Earned(m)
<1>1. Accrued(account) \in Int /\ AccruedFree \in Int
  BY AccruedTyped, FreeGrows DEF InvitesTypes
<1>. QED  BY <1>1 DEF Earned

\* A purchase takes no allowance away from what was read before it.
LEMMA EarnedBought ==
  ASSUME InvitesTypes, date' = date, account.since = Unset, NEW n \in Int, Earned(n)
  PROVE  Earned(n)'
<1>1. AccruedFree \in Int /\ AccruedFree' \in Int /\ AccruedFree <= AccruedFree' /\ 0 <= AccruedFree
  BY FreeGrows DEF InvitesTypes
<1>2. Accrued(account) = 0
  BY Zenon DEF Accrued
<1>. QED  BY <1>1, <1>2 DEF Earned

\* Nothing is minted at the start.
LEMMA InvitesStart == InvitesInit => InvitesInv
<1>. SUFFICES ASSUME InvitesInit PROVE InvitesInv
  BY Zenon
<1>1. InvitesTypes
  BY Zenon DEF InvitesInit, InvitesTypes
<1>2. Earned(0)
  <2>1. Accrued(account) = 0
    BY Zenon DEF InvitesInit, Accrued
  <2>. QED  BY <2>1 DEF Earned
<1>. QED  BY Zenon, <1>1, <1>2 DEF InvitesInit, InvitesInv, SweepTakesDead

\* A mint reads the allowance that applies.
LEMMA InvitesRead ==
  ASSUME InvitesInv, NEW q \in Requests, MintReads(q)
  PROVE  InvitesInv'
<1>1. PICK person \in BOOLEAN : minting' = [minting EXCEPT ![q] = [granted |-> Source(account, person), at |-> date]]
  BY Zenon DEF MintReads
<1>2. PICK g : g = Source(account, person)
  BY Zenon
<1>3. PICK a, f : a = Accrued(account) /\ f = AccruedFree
  BY Zenon
<1>4. f \in Int /\ 0 <= f
  <2>1. date' \in Nat /\ date <= date'
    <3>1. date' = date /\ date \in Nat
      BY Zenon DEF InvitesInv, InvitesTypes, MintReads
    <3>2. date <= date
      BY <3>1
    <3>. QED  BY Zenon, <3>1, <3>2
  <2>. QED  BY Zenon, <1>3, <2>1, FreeGrows DEF InvitesInv
<1>5. a \in Int
  BY Zenon, <1>3, AccruedTyped DEF InvitesInv
<1>6. g \in Int /\ (g <= a \/ g <= f)
  BY <1>2, <1>3, <1>4, <1>5 DEF Source
<1>7. InvitesTypes'
  BY Zenon, <1>1, <1>2, <1>6 DEF InvitesInv, InvitesTypes, MintReads
<1>8. \A n : Earned(n)' = Earned(n)
  BY Zenon DEF MintReads, Earned, Accrued, AccruedFree, FreeAnchor
<1>9. \A r \in Requests : minting'[r] # Unset => Earned(minting[r].granted)'
  <2>. SUFFICES ASSUME NEW r \in Requests, minting'[r] # Unset PROVE Earned(minting[r].granted)'
    BY Zenon
  <2>1. PICK n : n = minting'[r].granted
    BY Zenon
  <2>2. r = q => n = g
    BY Zenon, <1>1, <1>2, <2>1 DEF InvitesInv, InvitesTypes
  <2>3. r # q => minting[r] # Unset /\ n = minting[r].granted
    BY Zenon, <1>1, <2>1 DEF InvitesInv, InvitesTypes
  <2>4. Earned(n)
    BY Zenon, <1>3, <1>6, <2>2, <2>3 DEF InvitesInv, Earned
  <2>. QED  BY Zenon, <1>8, <2>1, <2>4 DEF Earned
<1>. QED  BY Zenon, <1>7, <1>8, <1>9 DEF InvitesInv, MintReads, SweepTakesDead, Earned

\* A mint spends what it read, or nothing.
LEMMA InvitesMint ==
  ASSUME InvitesInv, NEW q \in Requests, MintSpends(q)
  PROVE  InvitesInv'
<1>1. minting[q] \in [granted : Int, at : Nat] /\ Earned(minting[q].granted)
  BY Zenon DEF MintSpends, InvitesInv, InvitesTypes
<1>2. /\ account'.base = account.base /\ account'.since = account.since /\ date' = date /\ reaper' = reaper /\ buying' = buying
      /\ account' \in [minted : Nat, base : Nat, since : {Unset} \cup Nat, suspended : BOOLEAN]
      /\ account'.minted \in {account.minted, account.minted + 1}
  BY DEF MintSpends, InvitesInv, InvitesTypes
<1>3. \A n \in Int : Earned(n) => Earned(n)'
  <2>1. InvitesTypes /\ date' \in Nat /\ date <= date'
    BY <1>2 DEF InvitesInv, InvitesTypes
  <2>. QED  BY Zenon, <1>2, <2>1, EarnedLater
<1>4. Earned(account.minted)'
  <2>1. PICK n \in Int : n = account'.minted
    BY <1>2
  <2>2. n = account.minted \/ (n <= minting[q].granted)
    BY <1>1, <2>1 DEF MintSpends, InvitesInv, InvitesTypes
  <2>3. Earned(n)
    <3>1. CASE n = account.minted
      BY Zenon, <3>1 DEF InvitesInv
    <3>2. CASE n <= minting[q].granted
      BY Zenon, <1>1, <1>2, <3>2, EarnedFewer DEF InvitesInv
    <3>. QED  BY Zenon, <2>2, <3>1, <3>2
  <2>. QED  BY Zenon, <1>3, <2>1, <2>3 DEF Earned
<1>5. minting' \in [Requests -> {Unset} \cup [granted : Int, at : Nat]]
  BY Zenon DEF MintSpends, InvitesInv, InvitesTypes
<1>6. \A r \in Requests : minting'[r] # Unset => Earned(minting[r].granted)'
  <2>. SUFFICES ASSUME NEW r \in Requests, minting'[r] # Unset PROVE Earned(minting[r].granted)'
    BY Zenon
  <2>1. minting[r] # Unset /\ minting'[r] = minting[r] /\ minting[r].granted \in Int
    BY Zenon DEF MintSpends, InvitesInv, InvitesTypes
  <2>2. PICK n \in Int : n = minting[r].granted
    BY Zenon, <2>1
  <2>3. Earned(n)'
    BY Zenon, <1>3, <2>1, <2>2 DEF InvitesInv
  <2>. QED  BY Zenon, <2>1, <2>2, <2>3 DEF Earned
<1>7. PICK c : c = [no |-> account.minted + 1, used |-> FALSE, spent |-> Unset,
                    made |-> minting[q].at, expires |-> minting[q].at + InviteTTL]
  BY Zenon
<1>8. c \in CodeRows /\ c.no = account.minted + 1
  BY <1>1, <1>7, InvitesAssumption DEF CodeRows, InvitesInv, InvitesTypes
<1>9. (codes' = codes /\ account' = account) \/ (codes' = codes \cup {c} /\ account'.minted = account.minted + 1)
  BY Zenon, <1>7 DEF MintSpends, InvitesInv, InvitesTypes
<1>10. InvitesTypes'
  BY Zenon, <1>2, <1>5, <1>8, <1>9 DEF InvitesInv, InvitesTypes
<1>11. /\ \A e \in codes : e.no \in Nat /\ e.no <= account.minted
       /\ \A n \in reaper : n \in Nat /\ n <= account.minted
       /\ account.minted \in Nat
  BY Zenon DEF InvitesInv, InvitesTypes, CodeRows
<1>12. \A e \in codes' : e.no <= account'.minted
  BY <1>8, <1>9, <1>11
<1>13. \A n \in reaper' : n <= account'.minted
  BY <1>2, <1>9, <1>11
<1>14. \A e, f \in codes' : e.no = f.no => e = f
  BY <1>8, <1>9, <1>11 DEF InvitesInv
<1>15. SweepTakesDead'
  BY <1>2, <1>8, <1>9, <1>11 DEF InvitesInv, SweepTakesDead
<1>16. buying' # Unset => account'.since = Unset
  BY Zenon, <1>2 DEF InvitesInv
<1>. QED  BY Zenon, <1>4, <1>6, <1>10, <1>12, <1>13, <1>14, <1>15, <1>16 DEF InvitesInv

\* Codes that are used, withdrawn or swept away; the sweep's own reading.
LEMMA InvitesCodes ==
  ASSUME InvitesInv, InviteSweepReads \/ InviteSweepDeletes \/ \E c \in codes : Revoke(c) \/ Use(c)
  PROVE  InvitesInv'
<1>1. UNCHANGED <<account, minting, buying, date>>
  BY Zenon DEF InviteSweepReads, InviteSweepDeletes, Revoke, Use
<1>2. \A n : Earned(n)' = Earned(n)
  BY Zenon, <1>1 DEF Earned, Accrued, AccruedFree, FreeAnchor
<1>3. Earned(account.minted)' /\ \A q \in Requests : minting'[q] # Unset => Earned(minting[q].granted)'
  BY Zenon, <1>1, <1>2 DEF InvitesInv, Earned
<1>4. ASSUME codes' \subseteq codes, reaper' = reaper \/ reaper' = {} PROVE InvitesInv'
  BY Zenon, <1>1, <1>3, <1>4 DEF InvitesInv, InvitesTypes, SweepTakesDead
<1>5. ASSUME NEW c \in codes, Use(c) PROVE InvitesInv'
  <2>1. PICK e : e = [c EXCEPT !.used = TRUE, !.spent = date]
    BY Zenon
  <2>2. c \in CodeRows /\ e \in CodeRows /\ e.no = c.no /\ e.used = TRUE
    BY ZenonT(30), <2>1 DEF InvitesInv, InvitesTypes, CodeRows
  <2>3. codes' = (codes \ {c}) \cup {e} /\ reaper' = reaper
    BY Zenon, <1>5, <2>1 DEF Use
  <2>4. InvitesTypes'
    BY Zenon, <1>1, <2>2, <2>3 DEF InvitesInv, InvitesTypes
  <2>5. \A f, g \in codes' : f.no = g.no => f = g
    BY <2>2, <2>3 DEF InvitesInv
  <2>6. SweepTakesDead' /\ \A f \in codes' : f.no <= account'.minted
    BY Zenon, <1>1, <2>2, <2>3 DEF InvitesInv, SweepTakesDead
  <2>. QED  BY Zenon, <1>1, <1>3, <2>3, <2>4, <2>5, <2>6 DEF InvitesInv
<1>6. ASSUME InviteSweepReads PROVE InvitesInv'
  <2>1. PICK some \in SUBSET {c \in codes : DeadInvite(c)} : reaper' = {c.no : c \in some}
    BY Zenon, <1>6 DEF InviteSweepReads
  <2>2. codes' = codes
    BY Zenon, <1>6 DEF InviteSweepReads
  <2>3. InvitesTypes'
    BY <1>1, <2>1, <2>2 DEF InvitesInv, InvitesTypes, CodeRows
  <2>4. \A n \in reaper' : n <= account'.minted
    BY Zenon, <1>1, <2>1 DEF InvitesInv
  <2>5. \A c \in codes : DeadInvite(c) => c.used \/ c.expires <= date
    BY InvitesAssumption DEF InvitesInv, InvitesTypes, CodeRows, DeadInvite
  <2>6. SweepTakesDead'
    BY Zenon, <1>1, <2>1, <2>2, <2>5 DEF InvitesInv, SweepTakesDead
  <2>. QED  BY Zenon, <1>1, <1>3, <2>2, <2>3, <2>4, <2>6 DEF InvitesInv
<1>7. InviteSweepDeletes \/ (\E c \in codes : Revoke(c)) => codes' \subseteq codes /\ (reaper' = reaper \/ reaper' = {})
  BY Zenon DEF InviteSweepDeletes, Revoke
<1>. QED  BY Zenon, <1>4, <1>5, <1>6, <1>7

\* Days pass, the account is suspended or let back, residency is bought.
LEMMA InvitesOutside ==
  ASSUME InvitesInv, NextDay \/ Suspend \/ PurchaseReads \/ PurchaseWrites
  PROVE  InvitesInv'
<1>. DEFINE Stays == /\ UNCHANGED <<codes, minting, reaper>> /\ account'.minted = account.minted
                    /\ date' \in Nat /\ date <= date' /\ InvitesTypes' /\ (buying' # Unset => account'.since = Unset)
<1>1. NextDay => Stays
  BY DEF NextDay, InvitesInv, InvitesTypes
<1>2. ASSUME Suspend PROVE Stays
  <2>1. PICK b \in BOOLEAN : b = ~account.suspended
    <3>1. \A c \in BOOLEAN : (~c) \in BOOLEAN
      BY Zenon
    <3>2. account.suspended \in BOOLEAN
      BY Zenon DEF InvitesInv, InvitesTypes
    <3>. QED  BY Zenon, <3>1, <3>2
  <2>2. account' = [account EXCEPT !.suspended = b]
    BY Zenon, <1>2, <2>1 DEF Suspend
  <2>. QED  BY <1>2, <2>2 DEF Suspend, InvitesInv, InvitesTypes
<1>3. PurchaseReads => Stays
  BY DEF PurchaseReads, InvitesInv, InvitesTypes
<1>4. ASSUME PurchaseWrites PROVE Stays
  <2>1. account' = [minted |-> account.minted, base |-> buying, since |-> date, suspended |-> account.suspended]
    BY Zenon, <1>4 DEF PurchaseWrites, InvitesInv, InvitesTypes
  <2>. QED  BY <1>4, <2>1 DEF PurchaseWrites, InvitesInv, InvitesTypes
<1>5. Stays
  BY Zenon, <1>1, <1>2, <1>3, <1>4
<1>6. \A n \in Int : Earned(n) => Earned(n)'
  <2>1. CASE PurchaseWrites
    BY Zenon, <2>1, EarnedBought DEF PurchaseWrites, InvitesInv
  <2>2. CASE NextDay \/ Suspend \/ PurchaseReads
    <3>1. account'.base = account.base /\ account'.since = account.since
      BY Zenon, <2>2 DEF NextDay, Suspend, PurchaseReads, InvitesInv, InvitesTypes
    <3>. QED  BY Zenon, <1>5, <3>1, EarnedLater DEF InvitesInv
  <2>. QED  BY Zenon, <2>1, <2>2
<1>7. Earned(account.minted)'
  <2>1. PICK n \in Int : n = account.minted
    BY DEF InvitesInv, InvitesTypes
  <2>. QED  BY Zenon, <1>5, <1>6, <2>1 DEF InvitesInv, Earned
<1>8. \A q \in Requests : minting'[q] # Unset => Earned(minting[q].granted)'
  <2>. SUFFICES ASSUME NEW q \in Requests, minting[q] # Unset PROVE Earned(minting[q].granted)'
    BY Zenon, <1>5
  <2>1. PICK n \in Int : n = minting[q].granted
    BY Zenon DEF InvitesInv, InvitesTypes
  <2>. QED  BY Zenon, <1>5, <1>6, <2>1 DEF InvitesInv, Earned
<1>9. SweepTakesDead'
  BY <1>5 DEF InvitesInv, InvitesTypes, CodeRows, SweepTakesDead
<1>. QED  BY Zenon, <1>5, <1>7, <1>8, <1>9 DEF InvitesInv

\* Every step keeps the invariant.
LEMMA InvitesStep == InvitesInv /\ [InvitesNext]_inviteVars => InvitesInv'
<1>1. InvitesInv /\ InvitesNext => InvitesInv'
  BY Zenon, InvitesRead, InvitesMint, InvitesCodes, InvitesOutside DEF InvitesNext
<1>2. InvitesInv /\ UNCHANGED inviteVars => InvitesInv'
  BY Zenon DEF inviteVars, InvitesInv, InvitesTypes, Earned, Accrued, AccruedFree, FreeAnchor, SweepTakesDead
<1>. QED  BY Zenon, <1>1, <1>2

\* However many mints and a purchase overlap, an account takes no more codes than
\* its allowance had grown to, and the sweep deletes no code that still lets
\* somebody in (invites.py, credential_sweep.py).
THEOREM CodesAlwaysAccounted == InvitesSpec => []CodesAccounted
<1>1. InvitesInv => CodesAccounted
  BY Zenon DEF InvitesInv, CodesAccounted, TakenWasEarned, Earned
<1>. QED  BY InvitesStart, InvitesStep, <1>1, PTL DEF InvitesSpec
=============================================================================
