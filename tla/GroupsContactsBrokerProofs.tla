--------------------- MODULE GroupsContactsBrokerProofs ---------------------
(***************************************************************************)
(* Proofs about modules Groups, Contacts and Broker, for any set of        *)
(* accounts, guests, relays, customers, concurrent requests and            *)
(* operations: the type invariant of the room, that a guest never owns it, *)
(* that the roster never names two owners as long as no election has given *)
(* the room back to the owner who had left, that requests served one at a  *)
(* time leave the owner with a row that says owner; that a contact edge    *)
(* commits only with the acceptance of a request that is still there, and  *)
(* an answer stays for the whole of its time; and that a private relay     *)
(* stays private and a customer has one key.                               *)
(***************************************************************************)
EXTENDS Groups, Contacts, Broker, TLAPS

\* What a request holds of a membership row: an account and the id of a row.
Row(l) == l.uin \in Uin /\ l.seat \in Nat \ {0}

\* What each request may hold, by the point it has reached.
RequestOK(q) ==
  /\ q.pc = "removing" => q.target \in Uin /\ q.owner \in Uin
  /\ q.pc = "electing" => q.owner \in Uin
  /\ q.pc = "crowning" => Row(q.heir) /\ q.heir.uin \in Resident /\ q.owner \in Uin
  /\ q.pc = "restoring" => /\ Row(q.heir) /\ q.demote \subseteq Uin
                           /\ SameRow(q.heir) \/ q.heir.role = "owner"
  /\ q.pc = "transferring" => Row(q.to) /\ q.to.uin \in Resident /\ q.from.uin \in Uin
  /\ q.pc = "permitting" => Row(q.target)
  /\ q.pc = "writing" => q.ver \in 1..MaxVer
  /\ q.pc = "burning" => q.by \in Uin

\* The inductive invariant behind the types and GuestNeverOwns.
RoomInv ==
  /\ TypeOK
  /\ owner \in Resident
  /\ req = [p \in Request |-> req[p]]
  /\ \A p \in Request : RequestOK(req[p])

\* A request that starts or ends leaves the others alone; they stay well formed
\* while the rows a Restore holds keep their ids.
LEMMA OthersOK ==
  ASSUME RoomInv, NEW p \in Request, NEW q, RequestOK(q)',
         req' = [req EXCEPT ![p] = q],
         RowsFree(p) \/ seat' = seat
  PROVE  req' = [o \in Request |-> req'[o]] /\ \A o \in Request : RequestOK(req[o])'
<1>1. req'[p] = q /\ \A o \in Request \ {p} : req'[o] = req[o]
  BY Zenon DEF RoomInv
<1>2. req' = [o \in Request |-> req'[o]]
  BY Zenon DEF RoomInv
<1>3. ASSUME NEW o \in Request, o # p PROVE RequestOK(req[o])'
  <2>1. RequestOK(req[o])
    BY Zenon DEF RoomInv
  <2>2. req[o].pc = "restoring" => seat'[req[o].heir.uin] = seat[req[o].heir.uin]
    BY Zenon, <1>3 DEF RowsFree
  <2>3. req[o].pc = "restoring" => (SameRow(req[o].heir)' \/ req[o].heir.role = "owner")
    BY Zenon, <1>1, <1>3, <2>1, <2>2 DEF RequestOK, SameRow
  <2>. QED  BY Zenon, <1>1, <1>3, <2>1, <2>3 DEF RequestOK, Row
<1>. QED  BY Zenon, <1>1, <1>2, <1>3

\* Idle is well formed whatever the tables hold.
LEMMA IdleOK == RequestOK(Idle)'
BY Zenon DEF RequestOK, Idle

\* create_group: the initial room is well formed.
LEMMA InitOK == Init => RoomInv
<1>. SUFFICES ASSUME Init PROVE RoomInv
  BY Zenon
<1>. USE GroupsAssumption
<1>1. PICK u \in Resident : owner = u /\ seat = [v \in Uin |-> IF v = u THEN 1 ELSE 0]
                            /\ role = [v \in Uin |-> IF v = u THEN "owner" ELSE "member"]
  BY Zenon DEF Init
<1>2. TypeOK
  BY <1>1 DEF Init, TypeOK, Members, Resident
<1>3. req = [p \in Request |-> req[p]] /\ \A p \in Request : RequestOK(req[p])
  BY DEF Init, Idle, RequestOK
<1>. QED  BY Zenon, <1>1, <1>2, <1>3 DEF RoomInv

\* A request that only loads rows: the tables stay, the request is well formed.
LEMMA LoadOK ==
  ASSUME RoomInv, NEW p \in Request, NEW q, RequestOK(q),
         req' = [req EXCEPT ![p] = q], UNCHANGED <<table, account, state>>
  PROVE  RoomInv'
<1>1. RequestOK(q)'
  BY Zenon DEF RequestOK, Row, SameRow, table
<1>2. TypeOK' /\ owner' \in Resident
  BY Zenon DEF RoomInv, TypeOK, table, state, Members
<1>. QED  BY Zenon, <1>1, <1>2, OthersOK DEF RoomInv, table

\* The handlers up to their last read.
LEMMA CallOK ==
  ASSUME RoomInv, NEW p \in Request, Call(p)
  PROVE  RoomInv'
<1>. USE GroupsAssumption
<1>0. \A u \in Uin : seat[u] \in 0..MaxSeat /\ (u \in Members => Row(Loaded(u)) /\ Loaded(u).uin = u)
  BY DEF RoomInv, TypeOK, Row, Loaded, Members
<1>1. ASSUME NEW u \in Uin, NEW v \in Uin, BeginRemove(p, u, v) PROVE RoomInv'
  <2>1. PICK q : q = [pc |-> "removing", target |-> v, owner |-> owner]
    BY Zenon
  <2>2. RequestOK(q)
    BY Zenon, <2>1 DEF RequestOK, RoomInv, TypeOK
  <2>. QED  BY Zenon, <1>1, <2>1, <2>2, LoadOK DEF BeginRemove
<1>2. ASSUME NEW u \in Uin, NEW v \in Uin, BeginTransfer(p, u, v) PROVE RoomInv'
  <2>1. PICK q : q = [pc |-> "transferring", from |-> Loaded(u), to |-> Loaded(v)]
    BY Zenon
  <2>2. Loaded(u).uin = u /\ Loaded(v).uin = v /\ Row(Loaded(v)) /\ v \in Resident
    BY Zenon, <1>0, <1>2 DEF BeginTransfer, Loaded
  <2>3. RequestOK(q)
    BY Zenon, <2>1, <2>2 DEF RequestOK
  <2>. QED  BY Zenon, <1>2, <2>1, <2>3, LoadOK DEF BeginTransfer
<1>3. ASSUME NEW u \in Uin, NEW v \in Uin, NEW c \in {"some", "none"}, BeginPermit(p, u, v, c) PROVE RoomInv'
  <2>1. PICK q : q = [pc |-> "permitting", target |-> Loaded(v), cap |-> c]
    BY Zenon
  <2>2. RequestOK(q)
    BY Zenon, <1>0, <1>3, <2>1 DEF RequestOK, BeginPermit
  <2>. QED  BY Zenon, <1>3, <2>1, <2>2, LoadOK DEF BeginPermit
<1>4. ASSUME NEW u \in Uin, BeginDelete(p, u) PROVE RoomInv'
  <2>1. PICK q : q = [pc |-> "deleting"]
    BY Zenon
  <2>2. RequestOK(q)
    BY Zenon, <2>1 DEF RequestOK
  <2>. QED  BY Zenon, <1>4, <2>1, <2>2, LoadOK DEF BeginDelete
<1>5. ASSUME NEW u \in Uin, BeginState(p, u) PROVE RoomInv'
  <2>1. PICK q : q = [pc |-> "writing", ver |-> ver + 1]
    BY Zenon
  <2>2. ver + 1 \in 1..MaxVer
    BY <1>5 DEF BeginState, RoomInv, TypeOK
  <2>3. RequestOK(q)
    BY Zenon, <2>1, <2>2 DEF RequestOK
  <2>. QED  BY Zenon, <1>5, <2>1, <2>3, LoadOK DEF BeginState
<1>6. ASSUME NEW u \in Uin, BeginBurn(p, u) PROVE RoomInv'
  <2>1. PICK q : q = [pc |-> "burning", by |-> u, owns |-> IF owner = u THEN "yes" ELSE "no"]
    BY Zenon
  <2>2. RequestOK(q)
    BY Zenon, <2>1 DEF RequestOK
  <2>. QED  BY Zenon, <1>6, <2>1, <2>2, LoadOK DEF BeginBurn
<1>. QED  BY Zenon, <1>1, <1>2, <1>3, <1>4, <1>5, <1>6 DEF Call

\* The tables after a step are well typed when the roster is.
LEMMA TablesOK ==
  ASSUME RoomInv,
         room' \in {"open", "gone"}, owner' \in Uin,
         seat' \in [Uin -> 0..MaxSeat], nextSeat' \in 1..(MaxSeat + 1),
         role' \in [Uin -> {"owner", "member"}],
         \A u \in Uin : role'[u] = "owner" => seat'[u] # 0,
         \A u \in caps' : u \in Uin /\ seat'[u] # 0,
         account' \in [Uin -> {"live", "suspended", "gone"}],
         ver' \in 0..MaxVer
  PROVE  TypeOK'
BY Zenon DEF TypeOK, Members

\* What a flush makes of the roster: roles stay roles, and a row that becomes
\* an owner's or keeps permissions is there.
LEMMA FlushOK ==
  ASSUME TypeOK, NEW l, l.uin \in Uin, NEW r \in {"owner", "member"},
         r = "owner" => (Flushes(l, r) /\ l.seat # 0),
         NEW rs \in [Uin -> {"owner", "member"}],
         \A u \in Uin : rs[u] = "owner" => seat[u] # 0
  PROVE  /\ FlushRole(rs, l, r) \in [Uin -> {"owner", "member"}]
         /\ \A u \in Uin : FlushRole(rs, l, r)[u] = "owner" => seat[u] # 0
BY Zenon DEF Flushes, FlushRole, SameRow

\* Demoting the other rows leaves a roster.
LEMMA DemotedOK ==
  ASSUME NEW rs \in [Uin -> {"owner", "member"}], NEW u \in Uin,
         \A v \in Uin : rs[v] = "owner" => seat[v] # 0
  PROVE  /\ Demoted(rs, u) \in [Uin -> {"owner", "member"}]
         /\ \A v \in Uin : Demoted(rs, u)[v] = "owner" => seat[v] # 0
         /\ \A v \in Uin : Demoted(rs, u)[v] = "owner" => v = u
BY Zenon DEF Demoted

\* remove_member's first transaction.
LEMMA RemoveOK ==
  ASSUME RoomInv, NEW p \in Request, CommitRemove(p)
  PROVE  RoomInv'
<1>. USE GroupsAssumption
<1>1. RequestOK(req[p]) /\ req[p].target \in Uin /\ req[p].owner \in Uin
  BY Zenon DEF RoomInv, RequestOK, CommitRemove
<1>2. PICK q : q = IF req[p].target = req[p].owner THEN [pc |-> "electing", owner |-> req[p].owner] ELSE Idle
  BY Zenon
<1>3. RequestOK(q)'
  BY Zenon, <1>1, <1>2 DEF RequestOK, Idle
<1>4. TypeOK'
  <2>1. /\ seat' \in [Uin -> 0..MaxSeat] /\ role' \in [Uin -> {"owner", "member"}]
        /\ \A u \in Uin : role'[u] = "owner" => seat'[u] # 0
        /\ \A u \in caps' : u \in Uin /\ seat'[u] # 0
    BY <1>1 DEF CommitRemove, RoomInv, TypeOK, Members
  <2>. QED  BY Zenon, <2>1, TablesOK DEF CommitRemove, RoomInv, TypeOK, state
<1>. QED  BY Zenon, <1>2, <1>3, <1>4, OthersOK DEF CommitRemove, RoomInv

\* The election only loads the heir's row.
LEMMA ElectOK ==
  ASSUME RoomInv, NEW p \in Request, Elect(p)
  PROVE  RoomInv'
<1>. USE GroupsAssumption
<1>1. PICK u \in Heirs : req' = [req EXCEPT ![p] = [pc |-> "crowning", heir |-> Loaded(u), owner |-> req[p].owner]]
  BY Zenon DEF Elect
<1>2. u \in Members /\ u \in Resident /\ u \in Uin
  BY Zenon DEF Heirs, Oldest, Members
<1>3. PICK q : q = [pc |-> "crowning", heir |-> Loaded(u), owner |-> req[p].owner]
  BY Zenon
<1>4. Row(Loaded(u)) /\ Loaded(u).uin = u
  BY <1>2 DEF RoomInv, TypeOK, Row, Loaded, Members
<1>5. req[p].owner \in Uin
  BY Zenon DEF RoomInv, RequestOK, Elect
<1>6. RequestOK(q)
  BY Zenon, <1>2, <1>3, <1>4, <1>5 DEF RequestOK
<1>. QED  BY Zenon, <1>1, <1>3, <1>6, LoadOK DEF Elect

\* The heir is crowned under the lock of the room's row.
LEMMA CrownOK ==
  ASSUME RoomInv, NEW p \in Request, Crown(p)
  PROVE  RoomInv' /\ \A u \in Uin : role'[u] = "owner" => u = req[p].heir.uin
<1>. USE GroupsAssumption
<1>. DEFINE h == req[p].heir
            rs == FlushRole(role, h, "owner")
<1>1. Row(h) /\ h.uin \in Resident /\ h.uin \in Uin /\ h.seat # 0
  BY Zenon DEF RoomInv, RequestOK, Crown, Row
<1>2. rs \in [Uin -> {"owner", "member"}] /\ \A u \in Uin : rs[u] = "owner" => seat[u] # 0
  BY <1>1, FlushOK DEF RoomInv, TypeOK, Members, Crown
<1>. HIDE DEF rs
<1>3. role' = Demoted(rs, h.uin) /\ caps' \subseteq caps
  BY Zenon DEF Crown, rs, DemotedCaps, FlushCaps
<1>4. /\ role' \in [Uin -> {"owner", "member"}] /\ \A u \in Uin : role'[u] = "owner" => u = h.uin
      /\ \A u \in Uin : role'[u] = "owner" => seat'[u] # 0
  BY Zenon, <1>1, <1>2, <1>3, DemotedOK DEF Crown
<1>5. TypeOK'
  BY Zenon, <1>1, <1>3, <1>4, TablesOK DEF Crown, RoomInv, TypeOK, state, Members
<1>6. RoomInv'
  BY Zenon, <1>1, <1>5, IdleOK, OthersOK DEF RoomInv, Crown, Done
<1>. QED  BY Zenon, <1>4, <1>6

\* transfer_owner's conditional UPDATE and what follows it.
LEMMA TransferOK ==
  ASSUME RoomInv, NEW p \in Request, CommitTransfer(p)
  PROVE  RoomInv' /\ \A u \in Uin : role'[u] = "owner" => u = req[p].to.uin
<1>. USE GroupsAssumption
<1>. DEFINE to == req[p].to
            from == req[p].from
            there == from.seat # 0
            rs1 == IF there THEN FlushRole(role, from, "member") ELSE role
            rs == FlushRole(rs1, to, "owner")
<1>1. Row(to) /\ to.uin \in Resident /\ to.uin \in Uin /\ to.seat # 0 /\ from.uin \in Uin
  BY Zenon DEF RoomInv, RequestOK, CommitTransfer, Row
<1>2. rs1 \in [Uin -> {"owner", "member"}] /\ \A u \in Uin : rs1[u] = "owner" => seat[u] # 0
  BY <1>1, FlushOK DEF RoomInv, TypeOK, Members
<1>3. Flushes(to, "owner") /\ TypeOK
  BY Zenon DEF CommitTransfer, RoomInv
<1>. HIDE DEF rs1
<1>4. rs \in [Uin -> {"owner", "member"}] /\ \A u \in Uin : rs[u] = "owner" => seat[u] # 0
  BY Zenon, <1>1, <1>2, <1>3, FlushOK
<1>5. role' = Demoted(rs, to.uin) /\ caps' \subseteq caps
  BY ZenonT(30) DEF CommitTransfer, rs1, DemotedCaps, FlushCaps
<1>. HIDE DEF rs
<1>6. /\ role' \in [Uin -> {"owner", "member"}] /\ \A u \in Uin : role'[u] = "owner" => u = to.uin
      /\ \A u \in Uin : role'[u] = "owner" => seat'[u] # 0
  BY ZenonT(30), <1>1, <1>4, <1>5, DemotedOK DEF CommitTransfer
<1>7. TypeOK'
  BY Zenon, <1>1, <1>5, <1>6, TablesOK DEF CommitTransfer, RoomInv, TypeOK, state, Members
<1>8. RoomInv'
  BY Zenon, <1>1, <1>7, IdleOK, OthersOK DEF RoomInv, CommitTransfer, Done
<1>. QED  BY Zenon, <1>6, <1>8

\* An owner who is back before the leave is over.
LEMMA RestoreOK ==
  ASSUME RoomInv, NEW p \in Request, Restore(p) \/ CommitRestore(p)
  PROVE  RoomInv'
<1>. USE GroupsAssumption
<1>. DEFINE h == req[p].heir
<1>1. CASE Restore(p)
  <2>1. PICK q : q = [pc |-> "restoring", heir |-> h, owner |-> req[p].owner,
                      demote |-> {u \in Uin : u # h.uin /\ role[u] = "owner"}]
    BY Zenon
  <2>2. Row(h) /\ Flushes(h, "owner")
    BY Zenon, <1>1 DEF RoomInv, RequestOK, Restore
  <2>3. SameRow(h) \/ h.role = "owner"
    BY Zenon, <2>2 DEF Flushes
  <2>4. RequestOK(q)
    BY Zenon, <2>1, <2>2, <2>3 DEF RequestOK
  <2>. QED  BY Zenon, <1>1, <2>1, <2>4, LoadOK DEF Restore
<1>2. CASE CommitRestore(p)
  <2>1. h.uin \in Uin /\ h.seat # 0 /\ (SameRow(h) \/ h.role = "owner")
    BY Zenon, <1>2 DEF RoomInv, RequestOK, CommitRestore, Row
  <2>2. /\ FlushRole(role, h, "owner") \in [Uin -> {"owner", "member"}]
        /\ \A u \in Uin : FlushRole(role, h, "owner")[u] = "owner" => seat[u] # 0
    BY Zenon, <2>1 DEF RoomInv, TypeOK, Members, FlushRole, SameRow
  <2>3. /\ role' \in [Uin -> {"owner", "member"}] /\ caps' \subseteq caps /\ seat' = seat
        /\ \A u \in Uin : role'[u] = "owner" => seat[u] # 0
    BY Zenon, <1>2, <2>2 DEF CommitRestore, FlushCaps
  <2>4. TypeOK'
    BY Zenon, <1>2, <2>3, TablesOK DEF CommitRestore, RoomInv, TypeOK, state, Members
  <2>. QED  BY Zenon, <1>2, <2>4, IdleOK, OthersOK DEF RoomInv, CommitRestore, Done
<1>. QED  BY Zenon, <1>1, <1>2

\* The other commits: the room closed or deleted, permissions, the sealed
\* state, an account burned, a transaction undone.
LEMMA CommitOK ==
  ASSUME RoomInv, NEW p \in Request,
         \/ Close(p) \/ CommitDelete(p) \/ CommitPermit(p) \/ CommitState(p) \/ CommitBurn(p) \/ Abort(p)
  PROVE  RoomInv' /\ owner' = owner /\ \A u \in Uin : role'[u] = "owner" => role[u] = "owner"
<1>. USE GroupsAssumption
<1>1. CASE Close(p) \/ CommitDelete(p)
  <2>1. TypeOK'
    BY <1>1, TablesOK DEF Close, CommitDelete, RoomInv, TypeOK, state
  <2>. QED  BY Zenon, <1>1, <2>1, IdleOK, OthersOK DEF RoomInv, Close, CommitDelete, Done
<1>2. CASE CommitPermit(p)
  <2>1. req[p].target.uin \in Uin /\ seat[req[p].target.uin] # 0
    BY Zenon, <1>2 DEF RoomInv, RequestOK, CommitPermit, Row, SameRow
  <2>2. TypeOK'
    BY Zenon, <1>2, <2>1, TablesOK DEF CommitPermit, RoomInv, TypeOK, state, Members
  <2>. QED  BY Zenon, <1>2, <2>2, IdleOK, OthersOK DEF RoomInv, CommitPermit, Done
<1>3. CASE CommitState(p)
  <2>1. req[p].ver \in 1..MaxVer
    BY Zenon, <1>3 DEF RoomInv, RequestOK, CommitState
  <2>2. TypeOK'
    BY <1>3, <2>1, TablesOK DEF CommitState, RoomInv, TypeOK, table, Members
  <2>. QED  BY Zenon, <1>3, <2>2, IdleOK, OthersOK DEF RoomInv, CommitState, Done, table
<1>4. CASE CommitBurn(p)
  <2>1. req[p].by \in Uin
    BY Zenon, <1>4 DEF RoomInv, RequestOK, CommitBurn
  <2>2. /\ seat' \in [Uin -> 0..MaxSeat] /\ role' \in [Uin -> {"owner", "member"}]
        /\ account' \in [Uin -> {"live", "suspended", "gone"}] /\ room' \in {"open", "gone"}
        /\ \A u \in Uin : role'[u] = "owner" => role[u] = "owner" /\ seat'[u] # 0
        /\ \A u \in caps' : u \in Uin /\ seat'[u] # 0
    BY <1>4, <2>1 DEF CommitBurn, RoomInv, TypeOK, Members
  <2>3. TypeOK'
    BY Zenon, <1>4, <2>2, TablesOK DEF CommitBurn, RoomInv, TypeOK, state
  <2>. QED  BY Zenon, <1>4, <2>2, <2>3, IdleOK, OthersOK DEF RoomInv, CommitBurn, Done
<1>5. CASE Abort(p)
  <2>1. TypeOK'
    BY Zenon, <1>5 DEF Abort, RoomInv, TypeOK, table, state, Members
  <2>. QED  BY Zenon, <1>5, <2>1, IdleOK, OthersOK DEF RoomInv, Abort, Done, table
<1>. QED  BY Zenon, <1>1, <1>2, <1>3, <1>4, <1>5

\* A row is added, an account is suspended or back.
LEMMA OutsideOK ==
  ASSUME RoomInv, NEW u \in Uin, Join(u) \/ Suspend(u)
  PROVE  RoomInv' /\ owner' = owner /\ req' = req /\ \A v \in Uin : role'[v] = "owner" => role[v] = "owner"
<1>. USE GroupsAssumption
<1>1. CASE Join(u)
  <2>1. /\ seat' \in [Uin -> 0..MaxSeat] /\ role' \in [Uin -> {"owner", "member"}]
        /\ nextSeat' \in 1..(MaxSeat + 1)
        /\ \A v \in Uin : role'[v] = "owner" => role[v] = "owner" /\ seat'[v] # 0
        /\ \A v \in caps' : v \in Uin /\ seat'[v] # 0
    BY <1>1 DEF Join, RoomInv, TypeOK, Members
  <2>2. TypeOK'
    BY Zenon, <1>1, <2>1, TablesOK DEF Join, RoomInv, TypeOK, state
  <2>3. ASSUME NEW o \in Request PROVE RequestOK(req[o])'
    <3>1. RequestOK(req[o]) /\ req'[o] = req[o]
      BY Zenon, <1>1 DEF RoomInv, Join
    <3>2. req[o].pc = "restoring" => SameRow(req[o].heir)' \/ req[o].heir.role = "owner"
      BY Zenon, <1>1, <3>1 DEF Join, RoomInv, TypeOK, RequestOK, Row, SameRow
    <3>. QED  BY Zenon, <3>1, <3>2 DEF RequestOK, Row
  <2>. QED  BY Zenon, <1>1, <2>1, <2>2, <2>3 DEF RoomInv, Join
<1>2. CASE Suspend(u)
  <2>1. TypeOK'
    BY Zenon, <1>2 DEF Suspend, RoomInv, TypeOK, table, state, Members
  <2>. QED  BY Zenon, <1>2, <2>1 DEF RoomInv, Suspend, table, RequestOK, Row, SameRow
<1>. QED  BY Zenon, <1>1, <1>2

\* RoomInv is inductive.
LEMMA RoomStep == RoomInv /\ [Next]_vars => RoomInv'
<1>. SUFFICES ASSUME RoomInv, [Next]_vars PROVE RoomInv'
  BY Zenon
<1>1. CASE UNCHANGED vars
  BY Zenon, <1>1 DEF vars, table, state, RoomInv, TypeOK, Members, RequestOK, Row, SameRow
<1>2. ASSUME NEW p \in Request, Call(p) PROVE RoomInv'
  BY ZenonT(30), <1>2, CallOK
<1>3. ASSUME NEW p \in Request, RequestStep(p) PROVE RoomInv'
  BY Zenon, <1>3, RemoveOK, ElectOK, CrownOK, RestoreOK, TransferOK, CommitOK DEF RequestStep
<1>4. ASSUME NEW u \in Uin, Join(u) \/ Suspend(u) PROVE RoomInv'
  BY Zenon, <1>4, OutsideOK
<1>. QED  BY Zenon, <1>1, <1>2, <1>3, <1>4 DEF Next

\* Every variable keeps its type: in particular permissions and the word owner
\* only ever stand in a row that exists.
THEOREM TypeCorrect == Spec => []TypeOK
<1>1. RoomInv => TypeOK
  BY Zenon DEF RoomInv
<1>. QED  BY <1>1, InitOK, RoomStep, PTL DEF Spec

\* transfer_owner, remove_member: a guest copy or an unclaimed seat never owns
\* the room, however requests interleave, fail and retry.
THEOREM GuestsNeverOwn == Spec => []GuestNeverOwns
<1>1. RoomInv => GuestNeverOwns
  BY Zenon DEF RoomInv, GuestNeverOwns
<1>. QED  BY <1>1, InitOK, RoomStep, PTL DEF Spec

\* The inductive invariant behind OneOwnerRow.
OwnerInv == RoomInv /\ OneOwnerRow

\* OwnerInv is inductive: a step either writes no owner, or demotes every other
\* row under the lock of the room's row, or is the one restored remembers.
LEMMA OwnerStep == OwnerInv /\ [Next]_vars => OwnerInv'
<1>. SUFFICES ASSUME OwnerInv, [Next]_vars PROVE OwnerInv'
  BY Zenon
<1>0. RoomInv' /\ RoomInv
  BY Zenon, RoomStep DEF OwnerInv
<1>1. CASE UNCHANGED vars
  BY Zenon, <1>0, <1>1 DEF vars, table, history, OwnerInv, OneOwnerRow
<1>2. ASSUME NEW p \in Request, Call(p) PROVE OneOwnerRow'
  BY Zenon, <1>2 DEF Call, BeginRemove, BeginTransfer, BeginPermit, BeginDelete, BeginState, BeginBurn, table, OwnerInv, OneOwnerRow
<1>3. ASSUME NEW p \in Request, RequestStep(p) PROVE OneOwnerRow'
  <2>1. ASSUME CommitRemove(p) \/ Elect(p) \/ Restore(p) PROVE OneOwnerRow'
    BY Zenon, <1>0, <2>1 DEF CommitRemove, Elect, Restore, table, history, OwnerInv, OneOwnerRow, RoomInv, TypeOK
  <2>2. ASSUME Crown(p) PROVE OneOwnerRow'
    BY Zenon, <1>0, <2>2, CrownOK DEF OneOwnerRow
  <2>3. ASSUME CommitTransfer(p) PROVE OneOwnerRow'
    BY Zenon, <1>0, <2>3, TransferOK DEF OneOwnerRow
  <2>4. ASSUME CommitRestore(p) PROVE OneOwnerRow'
    BY Zenon, <2>4 DEF CommitRestore, OneOwnerRow
  <2>5. ASSUME \/ Close(p) \/ CommitDelete(p) \/ CommitPermit(p) \/ CommitState(p) \/ CommitBurn(p) \/ Abort(p)
        PROVE  OneOwnerRow'
    <3>1. restored' = restored
      BY Zenon, <2>5 DEF Close, CommitDelete, CommitPermit, CommitState, CommitBurn, Abort, history
    <3>. QED  BY Zenon, <1>0, <2>5, <3>1, CommitOK DEF OwnerInv, OneOwnerRow
  <2>. QED  BY Zenon, <1>3, <2>1, <2>2, <2>3, <2>4, <2>5 DEF RequestStep
<1>4. ASSUME NEW u \in Uin, Join(u) \/ Suspend(u) PROVE OneOwnerRow'
  <2>1. restored' = restored
    BY Zenon, <1>4 DEF Join, Suspend, history
  <2>. QED  BY Zenon, <1>0, <1>4, <2>1, OutsideOK DEF OwnerInv, OneOwnerRow
<1>. QED  BY Zenon, <1>0, <1>1, <1>2, <1>3, <1>4 DEF Next, OwnerInv

\* transfer_owner, remove_member: "One owner, always", for any accounts and any
\* number of concurrent requests, as long as no election has given the room
\* back to the owner who had left.
THEOREM OneOwnerAlways == Spec => []OneOwnerRow
<1>1. Init => OwnerInv
  BY InitOK DEF Init, OneOwnerRow, OwnerInv
<1>2. OwnerInv => OneOwnerRow
  BY Zenon DEF OwnerInv
<1>. QED  BY <1>1, <1>2, OwnerStep, PTL DEF Spec

-----------------------------------------------------------------------------
\* The owner's row: it is there, it says owner, it has no explicit permissions.
Seated == seat[owner] # 0 /\ role[owner] = "owner" /\ owner \notin caps

\* A loaded row that the table still holds as it was loaded.
Fresh(l) == /\ seat[l.uin] = l.seat /\ role[l.uin] = l.role
            /\ l.caps = "none" <=> l.uin \notin caps

\* A leave that has taken the owner's row and not yet named the next owner.
Between(q) == q.pc \in {"electing", "crowning", "restoring"}

\* What a request served alone holds of the room.
Serial(q) ==
  /\ q.pc = "removing" \/ Between(q) => q.owner = owner
  /\ q.pc \in {"crowning", "restoring"} => Fresh(q.heir)
  /\ q.pc = "restoring" => q.heir.uin = owner /\ owner \notin q.demote
  /\ q.pc = "transferring" => Fresh(q.to) /\ q.from.uin = owner /\ q.to.uin # owner
  /\ q.pc = "permitting" => q.target.uin # owner
  /\ q.pc = "burning" => (q.by = owner => q.owns = "yes")

\* The inductive invariant behind OwnerSeated.
SeatInv ==
  /\ RoomInv
  /\ ~raced => \A p, o \in Request : p # o => req[p].pc = "idle" \/ req[o].pc = "idle"
  /\ ~raced /\ room = "open" => /\ \A p \in Request : Serial(req[p])
                                /\ (\A p \in Request : ~Between(req[p])) => Seated

\* A request served alone ends, or goes on to its next transaction.
LEMMA AloneKeeps ==
  ASSUME SeatInv, RoomInv', NEW p \in Request, NEW q, req[p].pc # "idle",
         req' = [req EXCEPT ![p] = q], raced => raced',
         ~raced /\ room' = "open" => Serial(q)' /\ (~Between(q) => Seated')
  PROVE  SeatInv'
<1>. SUFFICES ASSUME ~raced' PROVE SeatInv'
  BY Zenon DEF SeatInv
<1>0. ~raced
  BY Zenon
<1>1. \A o \in Request : o # p => req[o].pc = "idle"
  BY Zenon, <1>0 DEF SeatInv
<1>2. req'[p] = q /\ \A o \in Request : o # p => req'[o].pc = "idle"
  BY Zenon, <1>1 DEF SeatInv, RoomInv
<1>3. \A o \in Request : o # p => Serial(req[o])' /\ ~Between(req'[o])
  BY Zenon, <1>2 DEF Serial, Between
<1>4. \A o \in Request : Between(req[o])' <=> Between(req'[o])
  BY Zenon DEF Between
<1>. QED  BY Zenon, <1>0, <1>2, <1>3, <1>4 DEF SeatInv

\* The first reads of a request that starts alone.
LEMMA CallSeat ==
  ASSUME SeatInv, NEW p \in Request, Call(p)
  PROVE  SeatInv'
<1>0. RoomInv' /\ RoomInv
  BY Zenon, CallOK DEF SeatInv
<1>. SUFFICES ASSUME ~raced' PROVE SeatInv'
  BY Zenon, <1>0 DEF SeatInv
<1>1. ~raced /\ \A o \in Request : req[o].pc = "idle"
  BY Zenon DEF Call
<1>2. UNCHANGED <<table, account, state>>
  BY Zenon DEF Call, BeginRemove, BeginTransfer, BeginPermit, BeginDelete, BeginState, BeginBurn
<1>3. room = "open"
  BY Zenon DEF Call, Calling, BeginRemove, BeginTransfer, BeginPermit, BeginDelete, BeginState, BeginBurn
<1>4. Seated
  BY Zenon, <1>1, <1>3 DEF SeatInv, Between
<1>. DEFINE Starts(q) == req' = [req EXCEPT ![p] = q] /\ Serial(q) /\ ~Between(q)
<1>5. \E q : Starts(q)
  <2>1. ASSUME NEW u \in Uin, NEW v \in Uin, BeginRemove(p, u, v) PROVE \E q : Starts(q)
    <3>1. Starts([pc |-> "removing", target |-> v, owner |-> owner])
      BY Zenon, <2>1 DEF BeginRemove, Serial, Between
    <3>. QED  BY Zenon, <3>1
  <2>2. ASSUME NEW u \in Uin, NEW v \in Uin, BeginTransfer(p, u, v) PROVE \E q : Starts(q)
    <3>1. Starts([pc |-> "transferring", from |-> Loaded(u), to |-> Loaded(v)])
      BY Zenon, <2>2 DEF BeginTransfer, Serial, Between, Loaded, Fresh
    <3>. QED  BY Zenon, <3>1
  <2>3. ASSUME NEW u \in Uin, NEW v \in Uin, NEW c \in {"some", "none"}, BeginPermit(p, u, v, c)
        PROVE  \E q : Starts(q)
    <3>1. Starts([pc |-> "permitting", target |-> Loaded(v), cap |-> c])
      BY Zenon, <2>3 DEF BeginPermit, Serial, Between, Loaded
    <3>. QED  BY Zenon, <3>1
  <2>4. ASSUME NEW u \in Uin, BeginDelete(p, u) PROVE \E q : Starts(q)
    <3>1. Starts([pc |-> "deleting"])
      BY Zenon, <2>4 DEF BeginDelete, Serial, Between
    <3>. QED  BY Zenon, <3>1
  <2>5. ASSUME NEW u \in Uin, BeginState(p, u) PROVE \E q : Starts(q)
    <3>1. Starts([pc |-> "writing", ver |-> ver + 1])
      BY Zenon, <2>5 DEF BeginState, Serial, Between
    <3>. QED  BY Zenon, <3>1
  <2>6. ASSUME NEW u \in Uin, BeginBurn(p, u) PROVE \E q : Starts(q)
    <3>1. Starts([pc |-> "burning", by |-> u, owns |-> IF owner = u THEN "yes" ELSE "no"])
      BY Zenon, <2>6 DEF BeginBurn, Serial, Between
    <3>. QED  BY Zenon, <3>1
  <2>. HIDE DEF Starts
  <2>. QED  BY Zenon, <2>1, <2>2, <2>3, <2>4, <2>5, <2>6 DEF Call
<1>6. PICK q : Starts(q)
  BY Zenon, <1>5
<1>7. req'[p] = q /\ \A o \in Request : o # p => req'[o] = req[o]
  BY Zenon, <1>0, <1>6 DEF RoomInv
<1>8. Seated' /\ \A o \in Request : Serial(req[o])'
  <2>1. UNCHANGED <<owner, seat, role, caps>>
    BY Zenon, <1>2 DEF table
  <2>2. Seated'
    BY Zenon, <1>4, <2>1 DEF Seated
  <2>3. Serial(req[p])'
    <3>1. Serial(q) /\ req'[p] = q
      BY Zenon, <1>6, <1>7
    <3>. QED  BY Zenon, <2>1, <3>1 DEF Serial, Between, Fresh
  <2>4. ASSUME NEW o \in Request, o # p PROVE Serial(req[o])'
    <3>1. req'[o].pc = "idle"
      BY Zenon, <1>1, <1>7, <2>4
    <3>. QED  BY Zenon, <3>1 DEF Serial, Between
  <2>. QED  BY Zenon, <2>2, <2>3, <2>4
<1>. QED  BY Zenon, <1>0, <1>1, <1>7, <1>8 DEF SeatInv

\* A request served alone: the owner's row goes only with the owner's own
\* leave, and the election that follows seats the next owner.
LEMMA StepSeat ==
  ASSUME SeatInv, RoomInv', NEW p \in Request, RequestStep(p)
  PROVE  SeatInv'
<1>0. RoomInv /\ TypeOK /\ RequestOK(req[p])
  BY Zenon DEF SeatInv, RoomInv
<1>1. ~raced /\ room = "open" => Serial(req[p])
  BY Zenon DEF SeatInv
<1>2. ~raced /\ room = "open" /\ req[p].pc # "idle" /\ ~Between(req[p]) => Seated
  BY Zenon DEF SeatInv, Between
<1>i. Serial(Idle)' /\ ~Between(Idle)
  BY Zenon DEF Serial, Between, Idle
<1>3. CASE CommitRemove(p)
  <2>1. PICK q : q = IF req[p].target = req[p].owner THEN [pc |-> "electing", owner |-> req[p].owner] ELSE Idle
    BY Zenon
  <2>2. ASSUME ~raced, room = "open" PROVE Serial(q)' /\ (~Between(q) => Seated')
    BY Zenon, <1>0, <1>1, <1>2, <1>3, <2>1, <2>2 DEF CommitRemove, Serial, Between, Seated, TypeOK, Idle
  <2>. QED  BY Zenon, <1>3, <2>1, <2>2, AloneKeeps DEF CommitRemove, history
<1>4. CASE Elect(p)
  <2>1. PICK u \in Heirs : req' = [req EXCEPT ![p] = [pc |-> "crowning", heir |-> Loaded(u), owner |-> req[p].owner]]
    BY Zenon, <1>4 DEF Elect
  <2>2. PICK q : q = [pc |-> "crowning", heir |-> Loaded(u), owner |-> req[p].owner]
    BY Zenon
  <2>3. ASSUME ~raced, room = "open" PROVE Serial(q)'
    BY Zenon, <1>1, <1>4, <2>2, <2>3 DEF Elect, Serial, Between, Fresh, Loaded, table
  <2>4. Between(q)
    BY Zenon, <2>2 DEF Between
  <2>. QED  BY Zenon, <1>4, <2>1, <2>2, <2>3, <2>4, AloneKeeps DEF Elect, history, table
<1>5. CASE Crown(p)
  <2>1. ASSUME ~raced, room = "open" PROVE Seated'
    <3>. DEFINE h == req[p].heir
    <3>1. h.uin \in Uin /\ h.seat # 0 /\ Fresh(h)
      BY Zenon, <1>0, <1>1, <1>5, <2>1 DEF Crown, RequestOK, Row, Serial
    <3>2. FlushRole(role, h, "owner")[h.uin] = "owner" /\ h.uin \notin FlushCaps(caps, h)
      BY Zenon, <1>0, <3>1 DEF FlushRole, FlushCaps, Fresh, TypeOK
    <3>3. owner' = h.uin /\ seat' = seat /\ role'[h.uin] = "owner" /\ h.uin \notin caps'
      BY Zenon, <1>5, <3>1, <3>2 DEF Crown, Demoted, DemotedCaps
    <3>. QED  BY Zenon, <3>1, <3>3 DEF Seated, Fresh
  <2>. QED  BY Zenon, <1>5, <1>i, <2>1, AloneKeeps DEF Crown, Done, history
<1>6. CASE Restore(p)
  <2>1. PICK q : q = [pc |-> "restoring", heir |-> req[p].heir, owner |-> req[p].owner,
                      demote |-> {u \in Uin : u # req[p].heir.uin /\ role[u] = "owner"}]
    BY Zenon
  <2>2. ASSUME ~raced, room = "open" PROVE Serial(q)'
    BY Zenon, <1>1, <1>6, <2>1, <2>2 DEF Restore, Serial, Between, Fresh, table
  <2>3. Between(q)
    BY Zenon, <2>1 DEF Between
  <2>. QED  BY Zenon, <1>6, <2>1, <2>2, <2>3, AloneKeeps DEF Restore, history, table
<1>7. CASE CommitRestore(p)
  <2>1. ASSUME ~raced, room = "open" PROVE Seated'
    <3>. DEFINE h == req[p].heir
    <3>1. h.uin \in Uin /\ h.seat # 0 /\ Fresh(h) /\ h.uin = owner /\ owner \notin req[p].demote
      BY Zenon, <1>0, <1>1, <1>7, <2>1 DEF CommitRestore, RequestOK, Row, Serial
    <3>2. FlushRole(role, h, "owner")[h.uin] = "owner" /\ h.uin \notin FlushCaps(caps, h)
      BY Zenon, <1>0, <3>1 DEF FlushRole, FlushCaps, Fresh, TypeOK
    <3>. QED  BY Zenon, <1>7, <3>1, <3>2 DEF CommitRestore, Seated, Fresh
  <2>. QED  BY Zenon, <1>7, <1>i, <2>1, AloneKeeps DEF CommitRestore, Done
<1>8. CASE CommitTransfer(p)
  <2>1. ASSUME ~raced, room = "open" PROVE Seated'
    <3>. DEFINE to == req[p].to
                from == req[p].from
                there == from.seat # 0
                rs1 == IF there THEN FlushRole(role, from, "member") ELSE role
                cs1 == IF there THEN FlushCaps(caps, from) ELSE caps
    <3>1. to.uin \in Uin /\ to.seat # 0 /\ Fresh(to) /\ from.uin # to.uin
      BY Zenon, <1>0, <1>1, <1>8, <2>1 DEF CommitTransfer, RequestOK, Row, Serial
    <3>2. rs1 \in [Uin -> {"owner", "member"}] /\ rs1[to.uin] = role[to.uin] /\ cs1 \subseteq caps
      BY Zenon, <1>0, <3>1 DEF FlushRole, FlushCaps, TypeOK
    <3>3. /\ role' = Demoted(FlushRole(rs1, to, "owner"), to.uin)
          /\ caps' = DemotedCaps(FlushRole(rs1, to, "owner"), FlushCaps(cs1, to), to.uin)
          /\ owner' = to.uin /\ seat' = seat
      BY Zenon, <1>8 DEF CommitTransfer
    <3>. HIDE DEF rs1, cs1
    <3>4. FlushRole(rs1, to, "owner")[to.uin] = "owner" /\ to.uin \notin FlushCaps(cs1, to)
      BY Zenon, <3>1, <3>2 DEF FlushRole, FlushCaps, Fresh
    <3>5. role'[to.uin] = "owner" /\ to.uin \notin caps'
      BY Zenon, <3>1, <3>3, <3>4 DEF Demoted, DemotedCaps
    <3>. QED  BY Zenon, <3>1, <3>3, <3>5 DEF Seated, Fresh
  <2>. QED  BY Zenon, <1>8, <1>i, <2>1, AloneKeeps DEF CommitTransfer, Done, history
<1>9. CASE CommitPermit(p)
  <2>1. ASSUME ~raced, room = "open" PROVE Seated'
    BY Zenon, <1>1, <1>2, <1>9, <2>1 DEF CommitPermit, Seated, Serial, Between
  <2>. QED  BY Zenon, <1>9, <1>i, <2>1, AloneKeeps DEF CommitPermit, Done, history
<1>10. CASE Close(p) \/ CommitDelete(p)
  BY <1>10, <1>i, AloneKeeps DEF Close, CommitDelete, Done, history
<1>11. CASE CommitState(p)
  <2>1. ASSUME ~raced, room = "open" PROVE Seated'
    BY Zenon, <1>2, <1>11, <2>1 DEF CommitState, Seated, Between, table
  <2>. QED  BY Zenon, <1>11, <1>i, <2>1, AloneKeeps DEF CommitState, Done, history, table
<1>12. CASE CommitBurn(p)
  <2>1. ASSUME ~raced, room' = "open" PROVE Seated'
    <3>1. room = "open" /\ req[p].owns # "yes" /\ req[p].by # owner
      BY Zenon, <1>1, <1>12, <2>1 DEF CommitBurn, Serial
    <3>. QED  BY Zenon, <1>0, <1>2, <1>12, <2>1, <3>1 DEF CommitBurn, Seated, Between, TypeOK
  <2>. QED  BY Zenon, <1>12, <1>i, <2>1, AloneKeeps DEF CommitBurn, Done, history
<1>13. CASE Abort(p)
  <2>1. CASE Between(req[p])
    BY Zenon, <1>13, <2>1 DEF Abort, SeatInv, Between
  <2>2. CASE ~Between(req[p])
    <3>1. raced => raced'
      BY Zenon, <1>13 DEF Abort
    <3>2. ASSUME ~raced, room = "open" PROVE Seated'
      BY Zenon, <1>2, <1>13, <2>2, <3>2 DEF Abort, Seated, table
    <3>. QED  BY Zenon, <1>13, <1>i, <3>1, <3>2, AloneKeeps DEF Abort, Done, table
  <2>. QED  BY Zenon, <2>1, <2>2
<1>. QED
  BY ZenonT(30), <1>3, <1>4, <1>5, <1>6, <1>7, <1>8, <1>9, <1>10, <1>11, <1>12, <1>13 DEF RequestStep

\* A row is added, an account is suspended or back, while a request is served.
LEMMA OutsideSeat ==
  ASSUME SeatInv, RoomInv', NEW u \in Uin, Join(u) \/ Suspend(u)
  PROVE  SeatInv'
<1>1. req' = req /\ raced' = raced /\ room' = room /\ owner' = owner
  BY Zenon DEF Join, Suspend, table, history
<1>2. \A v \in Uin : seat[v] # 0 => seat'[v] = seat[v] /\ role'[v] = role[v] /\ (v \in caps' <=> v \in caps)
  BY Zenon DEF Join, Suspend, table, SeatInv, RoomInv, TypeOK
<1>3. Seated => Seated'
  BY Zenon, <1>1, <1>2 DEF Seated, SeatInv, RoomInv, TypeOK
<1>4. ASSUME NEW p \in Request, Serial(req[p]) PROVE Serial(req[p])'
  <2>1. ASSUME NEW l, Row(l), Fresh(l) PROVE Fresh(l)'
    BY Zenon, <1>2, <2>1 DEF Fresh, Row
  <2>2. RequestOK(req[p]) /\ req'[p] = req[p]
    BY Zenon, <1>1 DEF SeatInv, RoomInv
  <2>3. /\ req[p].pc \in {"crowning", "restoring"} => Fresh(req[p].heir)'
        /\ req[p].pc = "transferring" => Fresh(req[p].to)'
    BY Zenon, <1>4, <2>1, <2>2 DEF Serial, RequestOK
  <2>. QED  BY Zenon, <1>1, <1>4, <2>2, <2>3 DEF Serial, Between
<1>. QED  BY Zenon, <1>1, <1>3, <1>4 DEF SeatInv, Between

\* SeatInv is inductive.
LEMMA SeatStep == SeatInv /\ [Next]_vars => SeatInv'
<1>. SUFFICES ASSUME SeatInv, [Next]_vars PROVE SeatInv'
  BY Zenon
<1>0. RoomInv'
  BY Zenon, RoomStep DEF SeatInv
<1>1. CASE UNCHANGED vars
  BY ZenonT(30), <1>0, <1>1 DEF vars, table, history, SeatInv, Serial, Between, Fresh, Seated
<1>2. ASSUME NEW p \in Request, Call(p) PROVE SeatInv'
  BY Zenon, <1>2, CallSeat
<1>3. ASSUME NEW p \in Request, RequestStep(p) PROVE SeatInv'
  BY Zenon, <1>0, <1>3, StepSeat
<1>4. ASSUME NEW u \in Uin, Join(u) \/ Suspend(u) PROVE SeatInv'
  BY Zenon, <1>0, <1>4, OutsideSeat
<1>. QED  BY Zenon, <1>1, <1>2, <1>3, <1>4 DEF Next

\* remove_member, transfer_owner, set_member_permissions: as long as requests
\* are served one at a time and no leave is cut in two, the owner of an open
\* room has a row that says owner and carries no explicit permissions, however
\* members join and accounts are suspended between two transactions of one
\* request.
THEOREM OwnerAlwaysSeated == Spec => []OwnerSeated
<1>1. Init => SeatInv
  <2>. SUFFICES ASSUME Init PROVE SeatInv
    BY Zenon
  <2>1. Seated
    BY DEF Init, Seated, Resident
  <2>2. \A p \in Request : req[p].pc = "idle"
    BY DEF Init, Idle
  <2>. QED  BY Zenon, InitOK, <2>1, <2>2 DEF SeatInv, Serial, Between
<1>2. SeatInv => OwnerSeated
  BY Zenon DEF SeatInv, OwnerSeated, Seated, Between
<1>. QED  BY <1>1, <1>2, SeatStep, PTL DEF Spec

-----------------------------------------------------------------------------
(* The contacts.                                                           *)

RequestRows == [id : Nat, state : {"pending", "accepted", "declined"}, resolved : {Nil} \cup Nat]

\* The row's time of answer is the last answer's; one that is not pending was
\* answered.
AskedOK(p) ==
  asked[p] # Nil =>
    /\ asked[p].resolved # Nil => asked[p].resolved = answered[p]
    /\ asked[p].state # "pending" => asked[p].resolved # Nil

\* An acceptance adds the edges of its own pair and no other.
HandlerRecord(r) ==
  /\ r.p \in Pairs
  /\ r.do = "accept" => /\ r = [do |-> r.do, p |-> r.p, id |-> r.id, new |-> r.new, left |-> r.left]
                        /\ r.new \subseteq {r.p, Back(r.p)}
HandlerOK(h) == handler[h] # Nil => HandlerRecord(handler[h])

ContactsInv ==
  /\ asked \in [Pairs -> {Nil} \cup RequestRows] /\ answered \in [Pairs -> Nat] /\ clock \in Nat /\ ids \in Nat
  /\ DOMAIN handler = Handlers
  /\ \A p \in Pairs : AskedOK(p)
  /\ \A h \in Handlers : HandlerOK(h)

\* Nobody has asked anybody at the start.
LEMMA ContactsStart == ContactsInit => ContactsInv
BY DEF ContactsInit, ContactsInv, AskedOK, HandlerOK

\* The other direction of a pair.
LEMMA BackOK == \A p \in Pairs : Back(p) \in Pairs /\ Back(Back(p)) = p
BY DEF Pairs, Back

\* What a request reads is about a pair; an acceptance has added nothing yet.
LEMMA ReadsOK ==
  ASSUME NEW p \in Pairs, NEW n, NEW d \in {"reopen", "decline", "delete", "ask", "remove"}
  PROVE  /\ HandlerRecord([do |-> "accept", p |-> p, id |-> n, new |-> {}, left |-> 2])
         /\ HandlerRecord([do |-> d, p |-> p, id |-> n]) /\ HandlerRecord([do |-> d, p |-> p])
<1>1. PICK r : r = [do |-> "accept", p |-> p, id |-> n, new |-> {}, left |-> 2]
  BY Zenon
<1>2. HandlerRecord(r)
  BY Zenon, <1>1 DEF HandlerRecord
<1>3. PICK s, t : s = [do |-> d, p |-> p, id |-> n] /\ t = [do |-> d, p |-> p]
  BY Zenon
<1>4. HandlerRecord(s) /\ HandlerRecord(t)
  BY Zenon, <1>3 DEF HandlerRecord
<1>. QED  BY Zenon, <1>1, <1>2, <1>3, <1>4

\* The requests that read.
LEMMA ContactsRead ==
  ASSUME ContactsInv, NEW h \in Handlers, NEW p \in Pairs,
         \/ Send(h, p) \/ Cancel(h, p) \/ Withdraw(h, p) \/ RemoveContact(h, p)
         \/ \E accept \in BOOLEAN : Respond(h, p, accept)
  PROVE  ContactsInv' /\ UNCHANGED <<asked, edges>>
<1>1. Back(p) \in Pairs
  BY Zenon, BackOK
<1>2. UNCHANGED <<asked, clock, ids, answered, edges>>
  BY Zenon DEF Send, Cancel, Withdraw, RemoveContact, Respond
<1>. DEFINE Read == \E r : handler' = [handler EXCEPT ![h] = r] /\ HandlerRecord(r)
<1>3. ASSUME NEW q \in Pairs, NEW n
      PROVE  /\ Begin(h, [do |-> "accept", p |-> q, id |-> n, new |-> {}, left |-> 2]) => Read
             /\ \A d \in {"reopen", "decline", "delete"} : Begin(h, [do |-> d, p |-> q, id |-> n]) => Read
             /\ \A d \in {"ask", "remove"} : Begin(h, [do |-> d, p |-> q]) => Read
  BY ZenonT(30), ReadsOK DEF Begin, HoldHandler
<1>. HIDE DEF Read
<1>4. Send(h, p) => Read
  <2>1. PICK m, n : m = asked[p].id /\ n = asked[Back(p)].id
    BY Zenon
  <2>2. /\ Begin(h, [do |-> "accept", p |-> Back(p), id |-> n, new |-> {}, left |-> 2]) => Read
        /\ (Begin(h, [do |-> "reopen", p |-> p, id |-> m]) => Read) /\ (Begin(h, [do |-> "ask", p |-> p]) => Read)
    BY Zenon, <1>1, <1>3
  <2>. QED  BY Zenon, <2>1, <2>2 DEF Send
<1>5. Cancel(h, p) \/ Withdraw(h, p) \/ RemoveContact(h, p) => Read
  <2>1. PICK m : m = asked[p].id
    BY Zenon
  <2>2. (Begin(h, [do |-> "delete", p |-> p, id |-> m]) => Read) /\ (Begin(h, [do |-> "remove", p |-> p]) => Read)
    BY Zenon, <1>3
  <2>. QED  BY Zenon, <2>1, <2>2 DEF Cancel, Withdraw, RemoveContact
<1>6. ASSUME NEW accept \in BOOLEAN, Respond(h, p, accept) PROVE Read
  <2>1. PICK m : m = asked[p].id
    BY Zenon
  <2>2. /\ Begin(h, [do |-> "accept", p |-> p, id |-> m, new |-> {}, left |-> 2]) => Read
        /\ Begin(h, [do |-> "decline", p |-> p, id |-> m]) => Read
    BY Zenon, <1>3
  <2>3. CASE accept
    BY Zenon, <1>6, <2>1, <2>2, <2>3 DEF Respond
  <2>4. CASE ~accept
    BY Zenon, <1>6, <2>1, <2>2, <2>4 DEF Respond
  <2>. QED  BY Zenon, <2>3, <2>4
<1>7. PICK r : handler' = [handler EXCEPT ![h] = r] /\ HandlerRecord(r)
  <2>1. Read
    BY Zenon, <1>4, <1>5, <1>6
  <2>. QED  BY Zenon, <2>1 DEF Read
<1>8. \A g \in Handlers : HandlerOK(g)'
  BY Zenon, <1>7 DEF ContactsInv, HandlerOK, HandlerRecord
<1>9. DOMAIN handler' = Handlers
  BY Zenon, <1>7 DEF ContactsInv
<1>. QED  BY Zenon, <1>2, <1>8, <1>9 DEF ContactsInv, AskedOK

\* A request of a handler ends: the others' are as they were.
LEMMA HandlersDrop ==
  ASSUME ContactsInv, NEW h \in Handlers, Drop(h)
  PROVE  DOMAIN handler' = Handlers /\ \A g \in Handlers : HandlerOK(g)'
BY Zenon DEF Drop, HoldHandler, ContactsInv, HandlerOK

\* A row that is answered now.
LEMMA Answers ==
  ASSUME ContactsInv, NEW p \in Pairs, asked[p] # Nil, NEW verdict \in {"accepted", "declined"},
         asked' = Answer(p, verdict), answered' = [answered EXCEPT ![p] = clock]
  PROVE  /\ asked' \in [Pairs -> {Nil} \cup RequestRows] /\ answered' \in [Pairs -> Nat]
         /\ asked'[p] # Nil /\ asked'[p].state = verdict
         /\ \A q \in Pairs : AskedOK(q)'
<1>1. PICK r \in RequestRows : r = asked[p]
  BY Zenon DEF ContactsInv
<1>2. PICK c \in Nat : c = clock
  BY Zenon DEF ContactsInv
<1>3. PICK s : s = [r EXCEPT !.state = verdict, !.resolved = c]
  BY Zenon
<1>4. s \in RequestRows /\ s.state = verdict /\ s.resolved = c
  BY Zenon, <1>3 DEF RequestRows
<1>5. s # Nil /\ c # Nil
  BY Zenon, <1>4, ContactsAssumption DEF RequestRows
<1>6. asked' = [asked EXCEPT ![p] = s]
  BY Zenon, <1>1, <1>2, <1>3 DEF Answer, ContactsInv
<1>7. /\ \A q \in Pairs : asked'[q] = IF q = p THEN s ELSE asked[q]
      /\ \A q \in Pairs : answered'[q] = IF q = p THEN c ELSE answered[q]
      /\ asked' \in [Pairs -> {Nil} \cup RequestRows] /\ answered' \in [Pairs -> Nat]
  BY Zenon, <1>2, <1>4, <1>6 DEF ContactsInv
<1>8. \A q \in Pairs : AskedOK(q)'
  BY Zenon, <1>4, <1>5, <1>7 DEF ContactsInv, AskedOK
<1>. QED  BY Zenon, <1>4, <1>5, <1>7, <1>8

\* A request is written, reopened, answered or deleted.
LEMMA ContactsWrite ==
  ASSUME ContactsInv, NEW h \in Handlers, Ask(h) \/ Reopen(h) \/ Decline(h) \/ DeleteRequest(h)
  PROVE  ContactsInv' /\ edges' = edges
<1>1. Drop(h) /\ UNCHANGED <<edges, clock>>
  BY Zenon DEF Ask, Reopen, Decline, DeleteRequest
<1>2. DOMAIN handler' = Handlers /\ \A g \in Handlers : HandlerOK(g)'
  BY Zenon, <1>1, HandlersDrop
<1>3. PICK r : r = handler[h]
  BY Zenon
<1>4. r.p \in Pairs
  BY Zenon, <1>3 DEF Ask, Reopen, Decline, DeleteRequest, At, ContactsInv, HandlerOK, HandlerRecord
<1>5. PICK p \in Pairs : p = r.p
  BY Zenon, <1>4
<1>6. CASE Ask(h)
  <2>1. CASE asked[p] = Nil /\ ids' = ids + 1 /\ asked' = [asked EXCEPT ![p] = [id |-> ids', state |-> "pending", resolved |-> Nil]]
    <3>1. PICK n \in Nat : n = ids'
      BY <2>1 DEF ContactsInv
    <3>2. PICK s : s = [id |-> n, state |-> "pending", resolved |-> Nil]
      BY Zenon
    <3>3. s \in RequestRows /\ s.state = "pending" /\ s.resolved = Nil
      BY Zenon, <3>2 DEF RequestRows
    <3>4. asked' = [asked EXCEPT ![p] = s]
      BY Zenon, <2>1, <3>1, <3>2
    <3>5. asked' \in [Pairs -> {Nil} \cup RequestRows] /\ \A q \in Pairs : AskedOK(q)'
      BY Zenon, <1>6, <3>3, <3>4 DEF ContactsInv, AskedOK, Ask
    <3>. QED  BY Zenon, <1>1, <1>2, <1>6, <3>1, <3>5 DEF ContactsInv, Ask
  <2>2. CASE UNCHANGED <<asked, ids>>
    BY Zenon, <1>1, <1>2, <1>6, <2>2 DEF ContactsInv, AskedOK, Ask
  <2>. QED  BY Zenon, <1>3, <1>5, <1>6, <2>1, <2>2 DEF Ask
<1>7. CASE Reopen(h)
  <2>1. CASE There(r)
    <3>1. PICK t \in RequestRows : t = asked[p] /\ asked[p] # Nil
      BY Zenon, <1>5, <2>1 DEF ContactsInv, There
    <3>2. PICK s : s = [t EXCEPT !.state = "pending"]
      BY Zenon
    <3>3. s \in RequestRows /\ s.state = "pending" /\ s.resolved = t.resolved
      BY Zenon, <3>2 DEF RequestRows
    <3>4. asked' = [asked EXCEPT ![p] = s]
      BY Zenon, <1>3, <1>5, <1>7, <2>1, <3>1, <3>2 DEF Reopen, ContactsInv
    <3>5. asked' \in [Pairs -> {Nil} \cup RequestRows] /\ \A q \in Pairs : AskedOK(q)'
      BY Zenon, <1>7, <3>1, <3>3, <3>4 DEF ContactsInv, AskedOK, Reopen
    <3>. QED  BY Zenon, <1>1, <1>2, <1>7, <3>5 DEF ContactsInv, Reopen
  <2>2. CASE ~There(r)
    BY Zenon, <1>1, <1>2, <1>3, <1>7, <2>2 DEF ContactsInv, AskedOK, Reopen
  <2>. QED  BY Zenon, <2>1, <2>2
<1>8. CASE Decline(h)
  <2>1. CASE There(r) /\ asked' = Answer(p, "declined") /\ answered' = [answered EXCEPT ![p] = clock]
    <3>1. asked[p] # Nil
      BY Zenon, <1>5, <2>1 DEF There
    <3>2. asked' \in [Pairs -> {Nil} \cup RequestRows] /\ answered' \in [Pairs -> Nat] /\ \A q \in Pairs : AskedOK(q)'
      BY Zenon, <2>1, <3>1, Answers
    <3>. QED  BY Zenon, <1>1, <1>2, <1>8, <3>2 DEF ContactsInv, Decline
  <2>2. CASE UNCHANGED <<asked, answered>>
    BY Zenon, <1>1, <1>2, <1>8, <2>2 DEF ContactsInv, AskedOK, Decline
  <2>. QED  BY Zenon, <1>3, <1>5, <1>8, <2>1, <2>2 DEF Decline
<1>9. CASE DeleteRequest(h)
  <2>1. asked' = asked \/ asked' = [asked EXCEPT ![p] = Nil]
    BY Zenon, <1>3, <1>5, <1>9 DEF DeleteRequest
  <2>2. asked' \in [Pairs -> {Nil} \cup RequestRows] /\ \A q \in Pairs : AskedOK(q)'
    BY Zenon, <1>9, <2>1 DEF ContactsInv, AskedOK, DeleteRequest
  <2>. QED  BY Zenon, <1>1, <1>2, <1>9, <2>2 DEF ContactsInv, DeleteRequest
<1>. QED  BY Zenon, <1>6, <1>7, <1>8, <1>9

\* An acceptance notes the edges it will add, and commits them with the answer.
LEMMA ContactsAccept ==
  ASSUME ContactsInv, NEW h \in Handlers, AddEdge(h) \/ Accept(h)
  PROVE  ContactsInv' /\ ConsentStandsStep
<1>1. PICK r : r = handler[h] /\ r # Nil /\ HandlerRecord(r) /\ r.do = "accept"
  BY Zenon DEF AddEdge, Accept, At, ContactsInv, HandlerOK
<1>2. PICK p \in Pairs : p = r.p /\ r.new \subseteq {p, Back(p)} /\ Back(p) \in Pairs /\ Back(Back(p)) = p
  BY Zenon, <1>1, BackOK DEF HandlerRecord
<1>3. CASE AddEdge(h)
  <2>1. UNCHANGED <<asked, edges, clock, ids, answered>>
    BY Zenon, <1>3 DEF AddEdge
  <2>2. PICK n, l : /\ handler' = [handler EXCEPT ![h] = [r EXCEPT !.left = l, !.new = n]] /\ n \subseteq {p, Back(p)}
    <3>1. PICK q \in {p, Back(p)} : q = IF r.left = 2 THEN r.p ELSE Back(r.p)
      BY Zenon, <1>2
    <3>2. PICK n, l : n = (IF q \in edges THEN r.new ELSE r.new \cup {q}) /\ l = r.left - 1
      BY Zenon
    <3>3. n \subseteq {p, Back(p)}
      BY Zenon, <1>2, <3>2
    <3>4. r = [do |-> r.do, p |-> r.p, id |-> r.id, new |-> r.new, left |-> r.left]
      BY Zenon, <1>1 DEF HandlerRecord
    <3>5. handler' = [handler EXCEPT ![h] = [r EXCEPT !.left = l, !.new = n]]
      BY Zenon, <1>1, <1>3, <3>1, <3>2, <3>4 DEF AddEdge, HoldHandler
    <3>. QED  BY Zenon, <3>3, <3>5
  <2>3. PICK s : s = [r EXCEPT !.left = l, !.new = n]
    BY Zenon
  <2>4. s = [do |-> r.do, p |-> r.p, id |-> r.id, new |-> n, left |-> l]
    BY Zenon, <1>1, <2>3 DEF HandlerRecord
  <2>5. HandlerRecord(s)
    BY Zenon, <1>2, <2>2, <2>4 DEF HandlerRecord
  <2>6. handler' = [handler EXCEPT ![h] = s]
    BY Zenon, <2>2, <2>3
  <2>7. DOMAIN handler' = Handlers /\ \A g \in Handlers : HandlerOK(g)'
    BY Zenon, <2>5, <2>6 DEF ContactsInv, HandlerOK, HandlerRecord
  <2>. QED  BY Zenon, <2>1, <2>7 DEF ContactsInv, AskedOK, ConsentStandsStep
<1>4. CASE Accept(h)
  <2>1. Drop(h) /\ UNCHANGED <<clock, ids>>
    BY Zenon, <1>4 DEF Accept
  <2>2. DOMAIN handler' = Handlers /\ \A g \in Handlers : HandlerOK(g)'
    BY Zenon, <2>1, HandlersDrop
  <2>3. CASE There(r) /\ asked' = Answer(p, "accepted") /\ edges' = edges \cup r.new /\ answered' = [answered EXCEPT ![p] = clock]
    <3>1. asked[p] # Nil
      BY Zenon, <1>2, <2>3 DEF There
    <3>2. /\ asked' \in [Pairs -> {Nil} \cup RequestRows] /\ answered' \in [Pairs -> Nat] /\ \A q \in Pairs : AskedOK(q)'
          /\ asked'[p] # Nil /\ asked'[p].state = "accepted"
      BY Zenon, <2>3, <3>1, Answers
    <3>3. ConsentStandsStep
      BY Zenon, <1>2, <2>3, <3>2 DEF ConsentStandsStep
    <3>. QED  BY Zenon, <2>1, <2>2, <3>2, <3>3 DEF ContactsInv
  <2>4. CASE UNCHANGED <<asked, edges, answered>>
    BY Zenon, <2>1, <2>2, <2>4 DEF ContactsInv, AskedOK, ConsentStandsStep
  <2>. QED  BY Zenon, <1>1, <1>2, <1>4, <2>3, <2>4 DEF Accept
<1>. QED  BY Zenon, <1>3, <1>4

\* The sweep deletes what was answered longer ago than its age.
LEMMA ContactsSweep ==
  ASSUME ContactsInv, SweepRequests
  PROVE  ContactsInv' /\ edges' = edges /\ \A p \in Pairs : asked'[p] # asked[p] => answered[p] + Age(p) < clock
<1>1. UNCHANGED <<edges, handler, clock, ids, answered>> /\ asked' = [p \in Pairs |-> IF Expired(p) THEN Nil ELSE asked[p]]
  BY Zenon DEF SweepRequests
<1>2. \A p \in Pairs : asked'[p] = asked[p] \/ (asked'[p] = Nil /\ Expired(p))
  BY Zenon, <1>1
<1>3. ContactsInv'
  <2>1. asked' \in [Pairs -> {Nil} \cup RequestRows] /\ \A p \in Pairs : AskedOK(p)'
    BY Zenon, <1>1 DEF ContactsInv, AskedOK
  <2>2. \A h \in Handlers : HandlerOK(h)'
    BY Zenon, <1>1 DEF ContactsInv, HandlerOK
  <2>. QED  BY Zenon, <1>1, <2>1, <2>2 DEF ContactsInv
<1>4. \A p \in Pairs : Expired(p) => answered[p] + Age(p) < clock
  BY Zenon DEF ContactsInv, AskedOK, Expired
<1>. QED  BY Zenon, <1>1, <1>2, <1>3, <1>4

\* No step breaks the invariant, and none adds an edge but an acceptance.
LEMMA ContactsStep ==
  ASSUME ContactsInv, [ContactsNext]_conVars
  PROVE  ContactsInv' /\ ConsentStandsStep
<1>1. CASE \E h \in Handlers, p \in Pairs : \/ Send(h, p) \/ Cancel(h, p) \/ Withdraw(h, p) \/ RemoveContact(h, p)
                                            \/ \E accept \in BOOLEAN : Respond(h, p, accept)
  <2>1. ContactsInv' /\ UNCHANGED <<asked, edges>>
    BY Zenon, <1>1, ContactsRead
  <2>. QED  BY Zenon, <2>1 DEF ConsentStandsStep
<1>2. CASE \E h \in Handlers : Ask(h) \/ Reopen(h) \/ Decline(h) \/ DeleteRequest(h)
  <2>1. ContactsInv' /\ edges' = edges
    BY Zenon, <1>2, ContactsWrite
  <2>. QED  BY Zenon, <2>1 DEF ConsentStandsStep
<1>3. CASE \E h \in Handlers : AddEdge(h) \/ Accept(h)
  BY Zenon, <1>3, ContactsAccept
<1>4. CASE \E h \in Handlers : Removed(h)
  <2>1. PICK h \in Handlers : Removed(h)
    BY Zenon, <1>4
  <2>2. DOMAIN handler' = Handlers /\ \A g \in Handlers : HandlerOK(g)'
    BY Zenon, <2>1, HandlersDrop DEF Removed
  <2>. QED  BY Zenon, <2>1, <2>2 DEF Removed, ContactsInv, AskedOK, ConsentStandsStep
<1>5. CASE SweepRequests
  <2>1. ContactsInv' /\ edges' = edges
    BY Zenon, <1>5, ContactsSweep
  <2>. QED  BY Zenon, <2>1 DEF ConsentStandsStep
<1>6. CASE ContactsTick
  BY <1>6 DEF ContactsTick, ContactsInv, AskedOK, HandlerOK, ConsentStandsStep
<1>7. CASE UNCHANGED conVars
  BY Zenon, <1>7 DEF conVars, ContactsInv, AskedOK, HandlerOK, ConsentStandsStep
<1>. QED  BY Zenon, <1>1, <1>2, <1>3, <1>4, <1>5, <1>6, <1>7 DEF ContactsNext

\* An edge commits with the acceptance of a request that is still there, and
\* the sweep leaves an answer in place for the whole of its time, for any
\* people and any requests under way (send_request, respond, cancel_outgoing,
\* contact_request_sweep).
THEOREM RequestsAlwaysHonoured == ContactsSpec => RequestsHonoured
<1>1. ContactsInit => ContactsInv
  BY Zenon, ContactsStart
<1>2. ContactsInv /\ [ContactsNext]_conVars => ContactsInv' /\ [ConsentStandsStep /\ AnswerSeenStep]_conVars
  <2>. SUFFICES ASSUME ContactsInv, [ContactsNext]_conVars PROVE ContactsInv' /\ ConsentStandsStep /\ AnswerSeenStep
    BY Zenon
  <2>1. AnswerSeenStep
    BY Zenon, ContactsSweep DEF AnswerSeenStep
  <2>. QED  BY Zenon, <2>1, ContactsStep
<1>. QED  BY <1>1, <1>2, PTL DEF ContactsSpec, RequestsHonoured

-----------------------------------------------------------------------------
(* The broker.                                                             *)

TenantRows == [active : BOOLEAN, paid : BOOLEAN, pool : {"shared", "team"}]

\* Only the holder of the advisory lock is between its check and its row, and
\* no tenant came in since the check.
MintInv ==
  /\ tenant \in Seq(TenantRows)
  /\ mint = [m \in Minters |-> mint[m]]
  /\ \A m \in Minters : Minting(m, "insert") => lock = m /\ mint[m].known = Len(tenant)

\* A registration as the founder and the canary find it.
IsRow(r) ==
  r = [enabled |-> r.enabled, owner |-> r.owner, trusted |-> r.trusted, ok |-> r.ok, fails |-> r.fails, forgotten |-> r.forgotten,
       id |-> r.id, private |-> r.private, opened |-> r.opened, late |-> r.late]
Guarded(r) == r.private /\ ~r.opened /\ ~r.late

\* A private row that was lit or answered a probe has an owner.
RowOK(r, last) ==
  /\ IsRow(r) /\ r.id \in Nat /\ r.id <= last
  /\ Guarded(r) /\ (r.enabled \/ r.ok # "never") => r.owner # "nobody"

\* What the founder read still holds of the row it read, and the call will not
\* light a private row that nobody owns.
FounderOK ==
  founder # NoNode =>
    /\ founder.tag \in Tags /\ founder.read.id \in Nat /\ founder.read.id <= registered
    /\ (relay[founder.tag] # NoNode /\ relay[founder.tag].id = founder.read.id) =>
         LET r == relay[founder.tag] IN
         /\ r.owner = founder.read.owner /\ r.enabled = founder.read.enabled /\ r.trusted = founder.read.trusted
         /\ Guarded(r) /\ founder.enabled /\ ~founder.force /\ r.owner = "nobody" => founder.owner # "nobody"

\* The row the canary probed was lit, so a private one had an owner.
CanaryOK ==
  (canary # NoNode /\ canary.do # "sweep") =>
    /\ canary.tag \in Tags /\ canary.id \in Nat /\ canary.id <= registered
    /\ canary.do = "report" /\ canary.dead => ~canary.ok
    /\ (relay[canary.tag] # NoNode /\ relay[canary.tag].id = canary.id /\ Guarded(relay[canary.tag])) =>
         relay[canary.tag].owner # "nobody"

RelayInv ==
  /\ relay = [t \in Tags |-> relay[t]] /\ registered \in Nat
  /\ \A t \in Tags : relay[t] # NoNode => RowOK(relay[t], registered)
  /\ FounderOK /\ CanaryOK

BrokerInv == MintInv /\ RelayInv

\* Nothing is registered and nothing is minted.
LEMMA BrokerStart == BrokerInit => BrokerInv
<1>. SUFFICES ASSUME BrokerInit PROVE BrokerInv
  BY Zenon
<1>1. MintInv
  BY DEF BrokerInit, MintInv, Minting
<1>2. RelayInv
  BY Zenon DEF BrokerInit, RelayInv, FounderOK, CanaryOK
<1>. QED  BY Zenon, <1>1, <1>2 DEF BrokerInv

\* Changing a row changes no other and adds none.
LEMMA RowChanged ==
  ASSUME NEW q \in Seq(TenantRows), NEW i, NEW v, i \in DOMAIN q => v \in TenantRows
  PROVE  [q EXCEPT ![i] = v] \in Seq(TenantRows) /\ Len([q EXCEPT ![i] = v]) = Len(q)
<1>. DEFINE n == Len(q)  p == [q EXCEPT ![i] = v]
<1>1. n \in Nat /\ q \in [1 .. n -> TenantRows]
  OBVIOUS
<1>. HIDE DEF n
<1>2. p \in [1 .. n -> TenantRows]
  BY Zenon, <1>1
<1>3. p \in Seq(TenantRows)
  BY <1>1, <1>2
<1>4. Len(p) = n
  BY <1>1, <1>2, <1>3
<1>. QED  BY Zenon, <1>3, <1>4 DEF n

\* The tenants' steps.
LEMMA TenantStep ==
  ASSUME MintInv, TenantNext
  PROVE  MintInv' /\ OneKeyPerCustomerStep /\ UNCHANGED relayVars
<1>1. ASSUME NEW m \in Minters, Mint(m) PROVE MintInv' /\ OneKeyPerCustomerStep /\ UNCHANGED relayVars
  <2>1. /\ lock = NoNode /\ lock' = m /\ UNCHANGED <<tenant, inquiry>> /\ UNCHANGED relayVars /\ mint[m] = NoNode
        /\ mint' = [mint EXCEPT ![m] = [do |-> "insert", known |-> Len(tenant)]]
    BY Zenon, <1>1 DEF Mint, MintChecks, HoldMint
  <2>2. \A x \in Minters : ~Minting(x, "insert")
    BY Zenon, <2>1, BrokerAssumption DEF MintInv
  <2>3. \A x \in Minters : Minting(x, "insert")' => x = m /\ mint'[x].known = Len(tenant)
    BY Zenon, <2>1, <2>2 DEF MintInv, Minting
  <2>. QED  BY Zenon, <2>1, <2>2, <2>3 DEF MintInv, OneKeyPerCustomerStep
<1>2. ASSUME NEW m \in Minters, NEW node \in BOOLEAN, MintWrites(m, node)
      PROVE  MintInv' /\ OneKeyPerCustomerStep /\ UNCHANGED relayVars
  <2>1. /\ Minting(m, "insert") /\ UNCHANGED relayVars
        /\ tenant' = Append(tenant, [active |-> TRUE, paid |-> TRUE, pool |-> PoolFor("shared", node)])
        /\ mint' = [mint EXCEPT ![m] = [do |-> "settle", id |-> Len(tenant')]]
    BY Zenon, <1>2 DEF MintWrites, HoldMint
  <2>2. \A x \in Minters : Minting(x, "insert") => x = m
    BY Zenon, <2>1 DEF MintInv
  <2>3. \A x \in Minters : ~Minting(x, "insert")'
    BY Zenon, <2>1, <2>2 DEF MintInv, Minting
  <2>4. tenant' \in Seq(TenantRows)
    BY <2>1 DEF MintInv, TenantRows, PoolFor
  <2>5. mint[m].known = Len(tenant) /\ \A i \in ActiveTenants : i \in 1 .. Len(tenant)
    BY <2>1 DEF MintInv, ActiveTenants
  <2>6. OneKeyPerCustomerStep
    BY <2>2, <2>5 DEF OneKeyPerCustomerStep
  <2>7. mint' = [x \in Minters |-> mint'[x]]
    BY Zenon, <2>1 DEF MintInv
  <2>. QED  BY Zenon, <2>1, <2>3, <2>4, <2>6, <2>7 DEF MintInv
<1>3. ASSUME NEW m \in Minters, Settle(m) PROVE MintInv' /\ OneKeyPerCustomerStep /\ UNCHANGED relayVars
  <2>1. /\ Minting(m, "settle") /\ UNCHANGED relayVars /\ lock' = lock
        /\ mint' = [mint EXCEPT ![m] = NoNode]
    BY Zenon, <1>3 DEF Settle, HoldMint
  <2>2. tenant' \in Seq(TenantRows) /\ Len(tenant') = Len(tenant)
    <3>1. PICK b \in BOOLEAN : b = (tenant[mint[m].id].active /\ \A i \in ActiveTenants : i >= mint[m].id)
      BY Zenon
    <3>2. tenant' = [tenant EXCEPT ![mint[m].id] = [@ EXCEPT !.active = b]]
      BY Zenon, <1>3, <3>1 DEF Settle
    <3>3. PICK i, v : i = mint[m].id /\ v = [tenant[i] EXCEPT !.active = b]
      BY Zenon
    <3>4. i \in DOMAIN tenant => v \in TenantRows
      <4>1. i \in DOMAIN tenant => tenant[i] \in TenantRows
        BY DEF MintInv
      <4>. QED  BY Zenon, <3>3, <4>1 DEF TenantRows
    <3>. QED  BY Zenon, <3>2, <3>3, <3>4, RowChanged DEF MintInv
  <2>3. \A x \in Minters : Minting(x, "insert")' => Minting(x, "insert") /\ mint'[x] = mint[x]
    BY Zenon, <2>1 DEF MintInv, Minting
  <2>4. \A x \in Minters : Minting(x, "insert") => mint'[x] = mint[x]
    BY Zenon, <2>1 DEF MintInv, Minting
  <2>5. mint' = [x \in Minters |-> mint'[x]]
    BY Zenon, <2>1 DEF MintInv
  <2>. QED  BY Zenon, <2>1, <2>2, <2>3, <2>4, <2>5 DEF MintInv, OneKeyPerCustomerStep
<1>4. ASSUME NEW i \in DOMAIN tenant, TermEnds(i) \/ \E active, node \in BOOLEAN : SetTenant(i, active, node)
      PROVE  MintInv' /\ OneKeyPerCustomerStep /\ UNCHANGED relayVars
  <2>1. UNCHANGED relayVars /\ UNCHANGED <<mint, lock>>
    BY Zenon, <1>4 DEF TermEnds, SetTenant
  <2>2. tenant' \in Seq(TenantRows) /\ Len(tenant') = Len(tenant)
    <3>1. PICK v \in TenantRows : tenant' = [tenant EXCEPT ![i] = v]
      <4>1. tenant[i] \in TenantRows
        BY DEF MintInv
      <4>2. CASE TermEnds(i)
        BY Zenon, <4>1, <4>2 DEF TermEnds, TenantRows
      <4>3. ASSUME NEW active \in BOOLEAN, NEW node \in BOOLEAN, SetTenant(i, active, node)
            PROVE  \E v \in TenantRows : tenant' = [tenant EXCEPT ![i] = v]
        BY Zenon, <4>1, <4>3 DEF SetTenant, TenantRows, PoolFor
      <4>. QED  BY Zenon, <1>4, <4>2, <4>3
    <3>. QED  BY Zenon, <3>1, RowChanged DEF MintInv
  <2>. QED  BY Zenon, <2>1, <2>2 DEF MintInv, Minting, OneKeyPerCustomerStep
<1>. QED  BY Zenon, <1>1, <1>2, <1>3, <1>4 DEF TenantNext

\* Rows that go, and rows whose owner, switches and past the step leaves alone.
LEMMA RelayTouched ==
  ASSUME RelayInv, registered' = registered, relay' = [t \in Tags |-> relay'[t]],
         \A t \in Tags : relay'[t] # NoNode =>
           /\ relay[t] # NoNode /\ RowOK(relay'[t], registered)
           /\ relay'[t].id = relay[t].id /\ (Guarded(relay'[t]) => Guarded(relay[t]))
           /\ relay'[t].owner = relay[t].owner /\ relay'[t].enabled = relay[t].enabled /\ relay'[t].trusted = relay[t].trusted,
         founder' = founder \/ founder' = NoNode,
         canary' = canary \/ canary' = NoNode \/ canary'.do = "sweep"
  PROVE  RelayInv'
<1>1. FounderOK'
  BY DEF RelayInv, FounderOK, Guarded
<1>2. CanaryOK'
  BY DEF RelayInv, CanaryOK, Guarded
<1>3. \A t \in Tags : relay'[t] # NoNode => RowOK(relay[t], registered)'
  BY Zenon DEF RowOK, IsRow, Guarded
<1>. QED  BY Zenon, <1>1, <1>2, <1>3 DEF RelayInv

\* A relay registers: the row is new, so no call was meant for it.
LEMMA RelayRegister ==
  ASSUME RelayInv, NEW t \in Tags, NEW private \in BOOLEAN, RegisterRelay(t, private)
  PROVE  RelayInv'
<1>1. registered' = registered + 1 /\ registered \in Nat /\ UNCHANGED <<founder, canary>>
  BY Zenon DEF RegisterRelay, RelayInv
<1>2. PICK n : n = [enabled |-> ~private, owner |-> "nobody", trusted |-> FALSE, ok |-> "never", fails |-> 0,
                    forgotten |-> FALSE, id |-> registered', private |-> private, opened |-> FALSE, late |-> FALSE]
  BY Zenon
<1>3. relay' = [relay EXCEPT ![t] = n] /\ n.id = registered + 1
  BY Zenon, <1>1, <1>2 DEF RegisterRelay
<1>4. RowOK(n, registered + 1)
  <2>1. PICK lit : lit = ~private
    BY Zenon
  <2>2. n = [enabled |-> lit, owner |-> "nobody", trusted |-> FALSE, ok |-> "never", fails |-> 0,
             forgotten |-> FALSE, id |-> registered + 1, private |-> private, opened |-> FALSE, late |-> FALSE]
    BY Zenon, <1>1, <1>2, <2>1
  <2>3. n.enabled = lit /\ n.private = private /\ n.ok = "never" /\ n.id = registered + 1 /\ IsRow(n)
    BY Zenon, <2>2 DEF IsRow
  <2>4. Guarded(n) => ~n.enabled
    BY Zenon, <2>1, <2>3 DEF Guarded
  <2>. QED  BY <1>1, <2>3, <2>4 DEF RowOK
<1>5. \A x \in Tags : relay'[x] = IF x = t THEN n ELSE relay[x]
  BY Zenon, <1>3 DEF RelayInv
<1>6. \A x \in Tags : relay'[x] # NoNode => RowOK(relay[x], registered)'
  <2>. SUFFICES ASSUME NEW x \in Tags, relay'[x] # NoNode PROVE RowOK(relay[x], registered)'
    BY Zenon
  <2>1. PICK r : r = relay'[x]
    BY Zenon
  <2>2. x # t => RowOK(r, registered)
    BY Zenon, <1>5, <2>1 DEF RelayInv
  <2>3. RowOK(r, registered + 1)
    BY <1>1, <1>4, <1>5, <2>1, <2>2 DEF RowOK
  <2>. QED  BY Zenon, <1>1, <2>1, <2>3 DEF RowOK, IsRow, Guarded
<1>7. FounderOK'
  BY <1>1, <1>3, <1>5 DEF RelayInv, FounderOK, Guarded
<1>8. CanaryOK'
  BY <1>1, <1>3, <1>5 DEF RelayInv, CanaryOK, Guarded
<1>9. relay' = [x \in Tags |-> relay'[x]]
  BY Zenon, <1>3 DEF RelayInv
<1>. QED  BY <1>1, <1>6, <1>7, <1>8, <1>9 DEF RelayInv

\* The founder reads a row; the canary picks one, and comes back to it.
LEMMA RelayReads ==
  ASSUME RelayInv,
         \/ \E t \in Tags :
              \/ \E enabled, trusted, force \in BOOLEAN : SetReads(t, enabled, trusted, force)
              \/ \E holder \in {"nobody", "somebody"}, enabled \in BOOLEAN : AssignReads(t, holder, enabled)
              \/ Probe(t)
         \/ \E ok \in BOOLEAN : Report(ok)
  PROVE  RelayInv'
<1>1. UNCHANGED <<relay, registered>>
  BY Zenon DEF SetReads, AssignReads, AssignTo, Probe, Report
<1>2. ASSUME NEW t \in Tags, NEW enabled \in BOOLEAN, NEW trusted \in BOOLEAN, NEW force \in BOOLEAN, SetReads(t, enabled, trusted, force)
      PROVE  RelayInv'
  <2>1. FounderOK'
    BY Zenon, <1>1, <1>2 DEF SetReads, Switches, Lights, Unowned, Listed, RelayInv, FounderOK, RowOK, Guarded
  <2>. QED  BY Zenon, <1>1, <1>2, <2>1 DEF RelayInv, SetReads, CanaryOK, RowOK, IsRow, Guarded
<1>3. ASSUME NEW t \in Tags, NEW holder, NEW enabled \in BOOLEAN, AssignReads(t, holder, enabled) PROVE RelayInv'
  <2>1. FounderOK'
    BY Zenon, <1>1, <1>3 DEF AssignReads, AssignTo, Switches, Lights, Unowned, Listed, RelayInv, FounderOK, RowOK, Guarded
  <2>. QED  BY Zenon, <1>1, <1>3, <2>1 DEF RelayInv, AssignReads, AssignTo, CanaryOK, RowOK, IsRow, Guarded
<1>4. ASSUME NEW t \in Tags, Probe(t) PROVE RelayInv'
  <2>1. CanaryOK'
    BY Zenon, <1>1, <1>4 DEF Probe, Listed, RelayInv, CanaryOK, RowOK, Guarded
  <2>. QED  BY ZenonT(30), <1>1, <1>4, <2>1 DEF RelayInv, Probe, FounderOK, RowOK, IsRow, Guarded
<1>5. ASSUME NEW ok \in BOOLEAN, Report(ok) PROVE RelayInv'
  <2>1. CanaryOK'
    BY Zenon, <1>1, <1>5 DEF Report, RelayInv, CanaryOK, Guarded
  <2>. QED  BY Zenon, <1>1, <1>5, <2>1 DEF RelayInv, Report, FounderOK, RowOK, IsRow, Guarded
<1>. QED  BY Zenon, <1>2, <1>3, <1>4, <1>5

\* One row is touched as RelayTouched allows.
LEMMA RelayTouchedOne ==
  ASSUME RelayInv, NEW t \in Tags, relay[t] # NoNode, NEW n, relay' = [relay EXCEPT ![t] = n], registered' = registered,
         n # NoNode => /\ RowOK(n, registered) /\ n.id = relay[t].id /\ (Guarded(n) => Guarded(relay[t]))
                       /\ n.owner = relay[t].owner /\ n.enabled = relay[t].enabled /\ n.trusted = relay[t].trusted,
         founder' = founder, canary' = canary \/ canary' = NoNode \/ canary'.do = "sweep"
  PROVE  RelayInv'
<1>1. relay' = [x \in Tags |-> relay'[x]] /\ \A x \in Tags : relay'[x] = IF x = t THEN n ELSE relay[x]
  BY Zenon DEF RelayInv
<1>2. \A x \in Tags : relay'[x] # NoNode =>
           /\ relay[x] # NoNode /\ RowOK(relay'[x], registered)
           /\ relay'[x].id = relay[x].id /\ (Guarded(relay'[x]) => Guarded(relay[x]))
           /\ relay'[x].owner = relay[x].owner /\ relay'[x].enabled = relay[x].enabled /\ relay'[x].trusted = relay[x].trusted
  BY Zenon, <1>1 DEF RelayInv
<1>. QED  BY Zenon, <1>1, <1>2, RelayTouched

\* The canary's report, its sweep, the votes, the passing of time and admin_delete.
LEMMA RelayOther ==
  ASSUME RelayInv,
         \/ ReportWrites \/ SweepParked
         \/ \E t \in Tags : Retire(t) \/ Lapse(t) \/ VotesExpire(t) \/ \E n \in Networks, side \in {"ok", "fail"} : Vote(t, n, side)
  PROVE  RelayInv'
<1>1. ASSUME ReportWrites PROVE RelayInv'
  <2>1. /\ canary # NoNode /\ canary.do = "report" /\ canary' = [do |-> "sweep"] /\ UNCHANGED <<founder, registered>>
        /\ canary.tag \in Tags
    BY Zenon, <1>1 DEF ReportWrites, RelayInv, CanaryOK
  <2>2. CASE relay[canary.tag] = NoNode
    <3>1. relay' = relay
      BY Zenon, <1>1, <2>2 DEF ReportWrites, Listed
    <3>. QED  BY Zenon, <2>1, <3>1, RelayTouched DEF RelayInv
  <2>3. CASE relay[canary.tag] # NoNode
    <3>1. PICK t \in Tags : t = canary.tag
      BY Zenon, <2>1
    <3>2. PICK r : r = relay[t]
      BY Zenon
    <3>3. r # NoNode /\ RowOK(r, registered)
      BY Zenon, <2>3, <3>1, <3>2 DEF RelayInv
    <3>4. PICK n : relay' = [relay EXCEPT ![t] = n] /\ n = CASE canary.ok -> [r EXCEPT !.ok = "recent", !.fails = 0, !.late = @ \/ r.id # canary.id]
                                          [] canary.dead -> NoNode
                                          [] OTHER       -> [r EXCEPT !.fails = IF canary.fails > DeadAfter THEN DeadAfter ELSE canary.fails]
      BY Zenon, <1>1, <2>1, <2>3, <3>1, <3>2 DEF ReportWrites, Listed
    <3>5. n # NoNode => /\ RowOK(n, registered) /\ n.id = r.id /\ (Guarded(n) => Guarded(r))
                        /\ n.owner = r.owner /\ n.enabled = r.enabled /\ n.trusted = r.trusted
      <4>1. CASE canary.ok
        <5>1. PICK late : late = (r.late \/ r.id # canary.id)
          BY Zenon
        <5>2. n = [r EXCEPT !.ok = "recent", !.fails = 0, !.late = late]
          <6>1. n = [r EXCEPT !.ok = "recent", !.fails = 0, !.late = r.late \/ r.id # canary.id]
            BY Zenon, <2>1, <3>4, <4>1 DEF RelayInv, CanaryOK
          <6>. QED  BY Zenon, <5>1, <6>1
        <5>3. /\ IsRow(n) /\ n.id = r.id /\ n.owner = r.owner /\ n.enabled = r.enabled /\ n.trusted = r.trusted
              /\ n.private = r.private /\ n.opened = r.opened /\ n.late = late
          <6>1. IsRow(r)
            BY Zenon, <3>3 DEF RowOK
          <6>. QED  BY Zenon, <5>2, <6>1 DEF IsRow
        <5>4. Guarded(n) => Guarded(r) /\ r.id = canary.id
          BY Zenon, <5>1, <5>3 DEF Guarded
        <5>5. Guarded(n) => r.owner # "nobody"
          BY Zenon, <2>1, <3>1, <3>2, <3>3, <5>4 DEF RelayInv, CanaryOK
        <5>. QED  BY Zenon, <3>3, <5>3, <5>4, <5>5 DEF RowOK
      <4>2. CASE ~canary.ok /\ ~canary.dead
        <5>1. PICK k : n = [r EXCEPT !.fails = k]
          BY Zenon, <3>4, <4>2
        <5>. QED  BY Zenon, <3>3, <5>1 DEF RowOK, IsRow, Guarded
      <4>3. CASE ~canary.ok /\ canary.dead
        BY Zenon, <3>4, <4>3
      <4>. QED  BY Zenon, <4>1, <4>2, <4>3
    <3>6. registered' = registered /\ founder' = founder /\ canary'.do = "sweep" /\ relay' = [relay EXCEPT ![t] = n]
      BY Zenon, <2>1, <3>4
    <3>. QED  BY Zenon, <3>2, <3>3, <3>5, <3>6, RelayTouchedOne
  <2>. QED  BY Zenon, <2>2, <2>3
<1>2. ASSUME SweepParked PROVE RelayInv'
  <2>1. \A t \in Tags : relay'[t] = NoNode \/ relay'[t] = relay[t]
    BY Zenon, <1>2 DEF SweepParked
  <2>. QED  BY Zenon, <1>2, <2>1, RelayTouched DEF SweepParked, RelayInv
<1>3. ASSUME NEW t \in Tags, Retire(t) PROVE RelayInv'
  BY Zenon, <1>3, RelayTouchedOne DEF Retire, Listed
<1>4. ASSUME NEW t \in Tags, Lapse(t) PROVE RelayInv'
  <2>1. PICK r : r = relay[t]
    BY Zenon
  <2>2. r # NoNode /\ RowOK(r, registered) /\ UNCHANGED <<registered, founder, canary>>
    BY Zenon, <1>4, <2>1 DEF Lapse, Listed, RelayInv
  <2>3. PICK n : /\ relay' = [relay EXCEPT ![t] = n]
                 /\ n = [r EXCEPT !.forgotten = TRUE] \/ (r.ok = "recent" /\ n = [r EXCEPT !.ok = "old"])
    BY Zenon, <1>4, <2>1 DEF Lapse, RelayInv
  <2>4. /\ RowOK(n, registered) /\ n.id = r.id /\ (Guarded(n) => Guarded(r))
        /\ n.owner = r.owner /\ n.enabled = r.enabled /\ n.trusted = r.trusted
    BY Zenon, <2>2, <2>3 DEF RowOK, IsRow, Guarded
  <2>. QED  BY Zenon, <2>1, <2>2, <2>3, <2>4, RelayTouchedOne
<1>5. ASSUME NEW t \in Tags, VotesExpire(t) \/ \E n \in Networks, side \in {"ok", "fail"} : Vote(t, n, side) PROVE RelayInv'
  <2>1. UNCHANGED <<relay, registered, founder, canary>>
    BY Zenon, <1>5 DEF VotesExpire, Vote
  <2>. QED  BY Zenon, <2>1, RelayTouched DEF RelayInv
<1>. QED  BY Zenon, <1>1, <1>2, <1>3, <1>4, <1>5

\* The founder's commit: on another row of the tag it is late, on the row it read
\* it opens what it forces or hands back, and lights nothing else.
LEMMA RelayFounder ==
  ASSUME RelayInv, FounderWrites
  PROVE  RelayInv'
<1>1. founder # NoNode /\ founder' = NoNode /\ UNCHANGED <<canary, registered>> /\ founder.tag \in Tags
  BY Zenon DEF FounderWrites, RelayInv, FounderOK
<1>2. PICK t \in Tags : t = founder.tag
  BY Zenon, <1>1
<1>3. CASE relay[t] = NoNode
  <2>1. relay' = relay
    BY Zenon, <1>2, <1>3 DEF FounderWrites, Listed
  <2>. QED  BY Zenon, <1>1, <2>1, RelayTouched DEF RelayInv
<1>4. CASE relay[t] # NoNode
  <2>1. PICK r, was : r = relay[t] /\ was = founder.read
    BY Zenon
  <2>2. RowOK(r, registered)
    BY Zenon, <1>4, <2>1 DEF RelayInv
  <2>3. PICK o, e, u, op, la :
          /\ o = (IF founder.owner # was.owner THEN founder.owner ELSE r.owner)
          /\ e = (IF founder.enabled # was.enabled THEN founder.enabled ELSE r.enabled)
          /\ u = (IF founder.trusted # was.trusted THEN founder.trusted ELSE r.trusted)
          /\ op = (r.opened \/ founder.force \/ (founder.owner = "nobody" /\ was.owner # "nobody"))
          /\ la = (r.late \/ r.id # was.id)
    BY Zenon
  <2>4. PICK n : n = [r EXCEPT !.owner = o, !.enabled = e, !.trusted = u, !.opened = op, !.late = la]
    BY Zenon
  <2>5. relay' = [relay EXCEPT ![t] = n]
    BY ZenonT(30), <1>1, <1>2, <1>4, <2>1, <2>3, <2>4 DEF FounderWrites, Listed
  <2>6. /\ IsRow(n) /\ n.id = r.id /\ n.owner = o /\ n.enabled = e /\ n.ok = r.ok
        /\ n.private = r.private /\ n.opened = op /\ n.late = la
    <3>1. IsRow(r)
      BY Zenon, <2>2 DEF RowOK
    <3>. QED  BY Zenon, <2>4, <3>1 DEF IsRow
  <2>7. Guarded(n) => Guarded(r) /\ ~founder.force /\ ~(founder.owner = "nobody" /\ was.owner # "nobody") /\ r.id = was.id
    BY Zenon, <2>3, <2>6 DEF Guarded
  <2>8. Guarded(n) => /\ o = founder.owner /\ e = founder.enabled /\ r.owner = was.owner
                      /\ Guarded(r) /\ founder.enabled /\ ~founder.force /\ r.owner = "nobody" => founder.owner # "nobody"
    BY Zenon, <1>1, <1>2, <1>4, <2>1, <2>3, <2>7 DEF RelayInv, FounderOK
  <2>9. RowOK(n, registered)
    BY Zenon, <2>2, <2>6, <2>7, <2>8 DEF RowOK
  <2>10. \A x \in Tags : relay'[x] = IF x = t THEN n ELSE relay[x]
    BY Zenon, <2>5 DEF RelayInv
  <2>11. CanaryOK'
    <3>1. Guarded(n) /\ r.owner # "nobody" => n.owner # "nobody"
      BY Zenon, <2>6, <2>7, <2>8
    <3>. QED  BY Zenon, <1>1, <1>4, <2>1, <2>6, <2>7, <2>10, <3>1 DEF RelayInv, CanaryOK
  <2>12. \A x \in Tags : relay'[x] # NoNode => RowOK(relay[x], registered)'
    <3>. SUFFICES ASSUME NEW x \in Tags, relay'[x] # NoNode PROVE RowOK(relay[x], registered)'
      BY Zenon
    <3>1. PICK s, k : s = relay'[x] /\ k = registered
      BY Zenon
    <3>2. RowOK(s, k)
      BY Zenon, <2>9, <2>10, <3>1 DEF RelayInv
    <3>. QED  BY Zenon, <1>1, <3>1, <3>2 DEF RowOK, IsRow, Guarded
  <2>13. relay' = [x \in Tags |-> relay'[x]]
    BY Zenon, <2>5 DEF RelayInv
  <2>. QED  BY Zenon, <1>1, <2>11, <2>12, <2>13 DEF RelayInv, FounderOK
<1>. QED  BY Zenon, <1>3, <1>4

\* Every step of the broker keeps the invariant.
LEMMA BrokerStep == BrokerInv /\ [BrokerNext]_brokerVars => BrokerInv' /\ [OneKeyPerCustomerStep]_brokerVars
<1>. SUFFICES ASSUME BrokerInv, [BrokerNext]_brokerVars PROVE BrokerInv' /\ [OneKeyPerCustomerStep]_brokerVars
  BY Zenon
<1>1. MintInv /\ UNCHANGED tenantVars => MintInv' /\ OneKeyPerCustomerStep
  BY Zenon DEF tenantVars, MintInv, Minting, OneKeyPerCustomerStep
<1>2. RelayInv /\ UNCHANGED relayVars => RelayInv'
  BY ZenonT(30) DEF relayVars, RelayInv, RowOK, IsRow, Guarded, FounderOK, CanaryOK
<1>3. CASE TenantNext
  BY Zenon, <1>2, <1>3, TenantStep DEF BrokerInv
<1>4. CASE RelayNext
  <2>1. UNCHANGED tenantVars
    BY Zenon, <1>4 DEF RelayNext, Retire, Probe, Lapse, VotesExpire, RegisterRelay, Vote, SetReads, AssignReads, AssignTo, FounderWrites,
                ReportWrites, SweepParked, Report
  <2>2. RelayInv'
    BY Zenon, <1>4, RelayRegister, RelayReads, RelayOther, RelayFounder DEF BrokerInv, RelayNext
  <2>. QED  BY Zenon, <1>1, <2>1, <2>2 DEF BrokerInv
<1>5. CASE UNCHANGED brokerVars
  <2>1. UNCHANGED tenantVars /\ UNCHANGED relayVars
    BY Zenon, <1>5 DEF brokerVars, tenantVars, relayVars
  <2>. QED  BY Zenon, <1>1, <1>2, <1>5, <2>1 DEF BrokerInv
<1>. QED  BY Zenon, <1>3, <1>4, <1>5 DEF BrokerNext

\* A relay registered private is in nobody's public answer unless the founder
\* opened it or a call meant for an older row reached it (_serve, admin_set).
THEOREM PrivateAlwaysPrivate == BrokerSpec => []PrivateStaysPrivate
<1>1. BrokerInv => PrivateStaysPrivate
  BY Zenon DEF BrokerInv, RelayInv, RowOK, Guarded, PrivateStaysPrivate, Public, Unowned, Listed
<1>. QED  BY BrokerStart, BrokerStep, <1>1, PTL DEF BrokerSpec

\* Mints for one customer that arrive together hand out one key
\* (admin_create_tenant under its advisory lock).
THEOREM AlwaysOneKey == BrokerSpec => OneKeyPerCustomer
BY BrokerStart, BrokerStep, PTL DEF BrokerSpec, OneKeyPerCustomer
=============================================================================
